--------------------------- MODULE DaemonElection ---------------------------
(***************************************************************************)
(* What the workers of a server agree on through the lock file and the pid  *)
(* file: one of them at a time is the daemon, it alone polls the events,    *)
(* and it polls no more once it is not the daemon.  The role never goes     *)
(* from one worker to another, and polling is never handed over.            *)
(***************************************************************************)
CONSTANT Procs      \* worker processes

VARIABLES daemons,  \* the process that is the daemon, if there is one
          pollers   \* the process that polls the events, if there is one

elVars == <<daemons, pollers>>

ElInit == daemons = {} /\ pollers = {}

Elect(p) == /\ daemons = {}
            /\ daemons' = {p}
            /\ UNCHANGED pollers

(* The daemon begins to poll; its poller dies. *)
Poll == /\ daemons # {} /\ pollers = {}
        /\ pollers' = daemons
        /\ UNCHANGED daemons

Pause == /\ pollers # {}
         /\ pollers' = {}
         /\ UNCHANGED daemons

(* The daemon stops, crashes, or loses the last of its threads. *)
Resign == /\ daemons # {}
          /\ daemons' = {}
          /\ pollers' = {}

ElNext == (\E p \in Procs : Elect(p)) \/ Poll \/ Pause \/ Resign

ElSpec == ElInit /\ [][ElNext]_elVars
=============================================================================
