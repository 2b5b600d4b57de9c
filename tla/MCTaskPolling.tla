--------------------------- MODULE MCTaskPolling ---------------------------
(* Model-checking instance of TaskPolling.                                  *)
EXTENDS TaskPolling
=============================================================================
