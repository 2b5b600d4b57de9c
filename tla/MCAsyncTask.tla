----------------------------- MODULE MCAsyncTask -----------------------------
(* Model-checking instance of AsyncTask; the constants are in AsyncTask.cfg. *)
EXTENDS AsyncTask
=============================================================================
