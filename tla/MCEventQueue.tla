---------------------------- MODULE MCEventQueue -----------------------------
(* Model-checking instance of EventQueue: one retryable key (for example    *)
(* auto_publish_composite_view of one view) and one that is not.            *)
EXTENDS EventQueue
=============================================================================
