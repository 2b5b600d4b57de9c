--------------------------- MODULE MCEventDaemon ---------------------------
(* Model-checking instance of EventDaemon: two workers, one of them with    *)
(* two request threads.                                                     *)
EXTENDS EventDaemon, TLC

CONSTANTS p1, p2, t1, t2, t3

MCHome == t1 :> p1 @@ t2 :> p1 @@ t3 :> p2
=============================================================================
