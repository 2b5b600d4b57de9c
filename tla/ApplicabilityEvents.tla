------------------------- MODULE ApplicabilityEvents -------------------------
(***************************************************************************)
(* Applicability over the table of the events instead of a signal.         *)
(*                                                                         *)
(* The system is EventQueue with one of its keys, Gen, in the hands of     *)
(* Applicability: trigger_applicability_generation is what pushes rows of  *)
(* Gen, and GenerateHostApplicability is their handler.  Every step is one *)
(* of the queue, one of the application, or one of both: the push builds   *)
(* its row and commits it, the poller calls the handler and clears after   *)
(* it, and a crash of the daemon ends both.  The other keys are pushed and *)
(* handled by anybody.                                                     *)
(***************************************************************************)
EXTENDS EventQueue, FiniteSets

CONSTANTS
  Repos, Synced, Hosts, bound, MaxUnit, BatchSize, Workers, Tasks, on, SyncPlan, Kinds, Faults,
  MaxTasks, MaxPlanRuns, MaxUploads, MaxFaults, MaxEvents,  \* see Applicability
  Gen            \* (generate_host_applicability, 0)

VARIABLES
  saved, indexed, toIndex, toRegen, kind, step, removing, regen, chosen,
  installed, upload, queue, handler, batch, jobs, todo, eval, applicable,
  early, behind, raced, tasks, planRuns, uploads, faults, missed, \* see Applicability
  row            \* row[p]: the row that p has built and not committed yet

(* The handler of Gen has begun, and has not ended by itself. *)
InHandler == last # NoEvent /\ last.key = Gen /\ (pc = "run" \/ closing)

(* The signal, as the table and the poller show it. *)
A == INSTANCE Applicability
       WITH NoKey   <- NoEvent,
            owed    <- {e.key : e \in events \ (served \cup seen)} \cap {Gen},
            serving <- IF InHandler THEN Gen ELSE NoEvent

(* The handler has no retry flag: its retry= is undefined. *)
ASSUME SystemAssumption ==
  /\ A!Parameters
  /\ Gen \in Keys \ Retryable
  /\ Hosts \cap A!Regenerates = {}

Pushers == Hosts \cup A!Regenerates

app == <<saved, indexed, toIndex, toRegen, kind, step, removing, regen, chosen,
         installed, upload, queue, handler, batch, jobs, todo, eval, applicable,
         early, behind, raced, tasks, planRuns, uploads, faults, missed>>
systemVars == <<vars, app, row>>

SystemTypeOK ==
  /\ TypeOK /\ A!TypeOK
  /\ row \in [Pushers -> {e \in Event : e.key = Gen} \cup {NoEvent}]

SystemInit == Init /\ A!Init /\ row = [p \in Pushers |-> NoEvent]

-----------------------------------------------------------------------------
(* Pushers of Gen: push_event builds the row, its transaction commits it. *)

IsPushing(p) == IF p \in Hosts THEN upload[p] = "queued" ELSE regen[p] = "queued"

BuildsRow(p) ==
  /\ IsPushing(p) /\ row[p] = NoEvent
  /\ PushBegin(Gen)
  /\ row' = [row EXCEPT ![p] = [created |-> now, key |-> Gen]]
  /\ UNCHANGED app

CommitsRow(p) ==
  /\ row[p] # NoEvent
  /\ PushCommit(row[p])
  /\ row' = [row EXCEPT ![p] = NoEvent]
  /\ IF p \in Hosts THEN A!UploadPushes(p) ELSE A!RegenPushes(p)

(* The request or the step dies, and with it the row that is not committed. *)
Fails(p) ==
  /\ IF row[p] = NoEvent THEN UNCHANGED vars ELSE PushAborts(row[p])
  /\ row' = [row EXCEPT ![p] = NoEvent]
  /\ IF p \in Hosts THEN A!RequestDies(p) ELSE A!RegenerateFails(p)

-----------------------------------------------------------------------------
(* The poller and the handler. *)

(* A step of the poller, or its end, and what it means to the handler. *)
RunBegins ==
  /\ RunBegin
  /\ IF last.key = Gen THEN A!Starts ELSE UNCHANGED app
  /\ UNCHANGED row

RunEnds ==
  /\ \/ InHandler /\ RunEnd("ok") /\ A!FindsEmpty
     \/ InHandler /\ RunEnd("fail") /\ A!Raises
     \/ ~InHandler /\ (\E r \in Results : RunEnd(r)) /\ UNCHANGED app
  /\ UNCHANGED row

Closes ==
  /\ Close
  /\ IF InHandler THEN A!HandlerKilled ELSE UNCHANGED app
  /\ UNCHANGED row

Clears ==
  /\ ClearEvents
  /\ IF InHandler THEN A!Stops ELSE UNCHANGED app
  /\ UNCHANGED row

Crashes ==
  /\ Crash
  /\ IF InHandler THEN A!Dies ELSE UNCHANGED app
  /\ UNCHANGED row

-----------------------------------------------------------------------------
(* Steps of the queue that the application does not see ... *)
QueueStep ==
  /\ \/ \E k \in Keys \ {Gen} : PushBegin(k)
     \/ \E e \in inserting : e.key # Gen /\ (PushCommit(e) \/ PushAborts(e))
     \/ Tick \/ Start \/ SelectFirst \/ SelectLast \/ MarkInProgress \/ Reschedule
  /\ UNCHANGED <<app, row>>

(* ... and steps of the application that leave the queue alone. *)
AppStep ==
  /\ UNCHANGED <<vars, row>>
  /\ \/ \E t \in Tasks : \/ \E k \in Kinds : A!StartTask(t, k)
                         \/ A!TaskStep(t) \/ A!TaskFails(t)
     \/ \E x \in A!Regenerates : A!RegenSelect(x) \/ A!RegenPushHosts(x) \/ A!RegenStamp(x)
     \/ \E h \in Hosts : A!Upload(h) \/ A!UploadPushHosts(h)
     \/ A!PopSelect \/ A!PopDelete \/ A!CreateTask
     \/ \E w \in Workers : A!WorkerStep(w) \/ A!EvaluationFails(w)

SystemNext ==
  \/ \E p \in Pushers : BuildsRow(p) \/ CommitsRow(p) \/ Fails(p)
  \/ RunBegins \/ RunEnds \/ Closes \/ Clears \/ Crashes
  \/ QueueStep
  \/ AppStep

SystemSpec == SystemInit /\ [][SystemNext]_systemVars

(* The thread of the poller, which is that of the handler. *)
ThreadStep ==
  \/ UNCHANGED <<app, row>> /\ (Start \/ SelectFirst \/ SelectLast \/ MarkInProgress \/ Reschedule)
  \/ RunBegins \/ RunEnds \/ Clears
  \/ UNCHANGED <<vars, row>> /\ (A!PopSelect \/ A!PopDelete \/ A!CreateTask)

(* Content tasks, Regenerate and uploads that have begun, and the workers. *)
PushersStep ==
  \/ \E p \in Pushers : BuildsRow(p) \/ CommitsRow(p)
  \/ /\ UNCHANGED <<vars, row>>
     /\ \/ \E t \in Tasks : A!TaskStep(t) \/ A!RegenSelect(t)
        \/ \E x \in A!Regenerates : A!RegenPushHosts(x) \/ A!RegenStamp(x)
        \/ \E h \in Hosts : A!UploadPushHosts(h)
WorkerStep == \E w \in Workers : UNCHANGED <<vars, row>> /\ A!WorkerStep(w)

(* What has begun goes on; nothing need begin.  The Monitor restarts a dead  *)
(* poller, the thread loops for ever, and transactions commit.  All are     *)
(* taken together, which assumes less than the fairness of each.            *)
SystemFairSpec ==
  /\ SystemSpec
  /\ WF_systemVars(ThreadStep \/ PushersStep \/ WorkerStep)

-----------------------------------------------------------------------------
(* Properties. *)

(* Applicability's promise of QueueAttended over the table: a row that no    *)
(* run has answered, not the signal, attends to the hosts of the queue      *)
(* (push_hosts, then push_event, content_facet.rb; the handler returns on   *)
(* an empty queue), whatever the poller loads, marks, clears or loses.      *)
HostsAttended == A!QueueAttended

(* Whatever the table, the poller and the handler do together is what the   *)
(* application does with a signal: all that is shown of Applicability holds *)
(* of it over the table.                                                    *)
ImplementsApplicability == A!Spec

(* The bound on pushes stops one of Gen. *)
Exhausted == now >= MaxPushTime /\ \E p \in Pushers : IsPushing(p) /\ row[p] = NoEvent

(* A host ends up current, by way of the table, over crashes and stops of    *)
(* the daemon and retries of other events; unless a repository of it waits  *)
(* for a sync to regenerate it, or the host is one of those of which         *)
(* SettledMeansCurrent says nothing, and nothing queues it.                  *)
HostsBecomeCurrent ==
  \A h \in Hosts : bound[h] # {} =>
    []<>(\/ applicable[h] = A!Applies(h) \/ h \in missed \cup behind \cup raced
         \/ \E r \in bound[h] : toRegen[r]
         \/ Exhausted)
=============================================================================
