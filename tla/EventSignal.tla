----------------------------- MODULE EventSignal -----------------------------
(***************************************************************************)
(* What the Katello event queue promises to the code that pushes events.   *)
(*                                                                         *)
(* An event is a level-triggered signal on a key (an event type and an     *)
(* object id).  A signal is owed until a run of the key's handler begins   *)
(* after it was raised; once raised it is never withdrawn.  A run may end  *)
(* for good, or be put back (the handler asked for a retry, or the process *)
(* died under it).                                                         *)
(***************************************************************************)
CONSTANTS Keys,      \* the (event type, object id) pairs
          NoKey      \* "no handler is running"

VARIABLES owed,      \* keys with a signal no run has answered
          serving    \* the key whose handler is running, or NoKey

sigVars == <<owed, serving>>

SigInit == owed = {} /\ serving = NoKey

(* A pusher commits an event. *)
Raise(k) == /\ owed' = owed \cup {k}
            /\ UNCHANGED serving

(* A run of the handler of k begins and answers every signal raised so far. *)
Begin(k) == /\ serving = NoKey
            /\ serving' = k
            /\ owed' = owed \ {k}

(* The run ends for good, or its signal is owed again. *)
End == /\ serving # NoKey
       /\ serving' = NoKey
       /\ owed' \in {owed, owed \cup {serving}}

SigNext == \/ \E k \in Keys : Raise(k) \/ Begin(k)
           \/ End

SigSpec == SigInit /\ [][SigNext]_sigVars
=============================================================================
