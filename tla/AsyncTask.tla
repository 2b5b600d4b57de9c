------------------------------ MODULE AsyncTask ------------------------------
(***************************************************************************)
(* An action that has Pulp do its work and polls for the end of it          *)
(* (Actions::Pulp3::AbstractAsyncTask, Katello::Pulp3::Task and TaskGroup). *)
(* Pulp answers a request for work with tasks, or with a group of tasks; a  *)
(* task may also make a group and dispatch subtasks into it while it runs.  *)
(*                                                                          *)
(* The module of Dynflow that the action includes (Polling) calls the       *)
(* action's methods and repeats a poll that fails; it is external.          *)
(***************************************************************************)
EXTENDS Naturals

CONSTANTS
  Parts,       \* what a request for work may consist of
  MaxRetries,  \* poll_max_retries
  MaxStarts,   \* bound on the requests for work
  MaxSubtasks, \* bound on the subtasks of a group
  MaxPings,    \* bound on the polls that are scheduled at once
  MaxFaults    \* bound on failing tasks, failing reads, lost answers and crashes

ASSUME AsyncAssumption ==
  /\ MaxRetries \in Nat /\ MaxStarts \in Nat /\ MaxSubtasks \in Nat
  /\ MaxPings \in Nat /\ MaxFaults \in Nat

VARIABLES
  pulp,    \* state of each task in Pulp
  made,    \* number of subtasks ever dispatched into the group of an id
  open,    \* number of them that wait or run
  spoiled, \* groups with a subtask that failed or was canceled
  starts,  \* number of requests for work
  stage,   \* where the action is
  mode,    \* why it polls
  out,     \* its output as saved
  work,    \* its output while it runs
  toRead,  \* tasks or groups that it reads in this stage
  pings,   \* Poll events that the clock will deliver
  faults,
  blind,   \* history: a read of the current or last run failed
  excused  \* history: requests whose answer was lost or that could not be polled

pulpVars == <<pulp, made, open, spoiled>>
runVars == <<stage, mode, work, toRead>>
vars == <<pulpVars, starts, runVars, out, pings, faults, blind, excused>>

(* A task, and the group it may make, have one name. *)
Ids == (1..MaxStarts) \X Parts

(* The request it belongs to. *)
Request(i) == i[1]

(* A task that failed, was canceled or was skipped has ended as well; the   *)
(* action treats the first two alike.                                       *)
Final == {"completed", "failed"}

Reading == {"tasks", "groups", "found", "check", "recheck"}
Running == Reading \cup {"invoke", "cancel"}
Ended == {"success", "error", "skipped"}

(* output: the last request that was answered, pulp_tasks, task_groups and  *)
(* poll_attempts[:failed]; hrefs holds the tasks whose data names a group.  *)
Outputs == [start : 0..MaxStarts,
            tasks : [Ids -> {"none", "unread", "running"} \cup Final],
            hrefs : SUBSET Ids,
            groups : [Ids -> {"none", "unread", "open", "done", "bad"}],
            failed : Nat]

TypeOK ==
  /\ pulp \in [Ids -> {"none", "running"} \cup Final]
  /\ made \in [Ids -> Nat] /\ open \in [Ids -> Nat]
  /\ spoiled \subseteq Ids
  /\ starts \in 0..MaxStarts
  /\ stage \in {"begin", "suspended"} \cup Running \cup Ended
  /\ mode \in {"start", "poll", "resume", "cancel"}
  /\ out \in Outputs /\ work \in Outputs
  /\ toRead \subseteq Ids
  /\ pings \in Nat
  /\ faults \in 0..MaxFaults
  /\ blind \in BOOLEAN
  /\ excused \subseteq 1..MaxStarts
  /\ \A i \in Ids : out.tasks[i] # "none" => Request(i) = out.start

Empty == [start |-> 0, tasks |-> [i \in Ids |-> "none"], hrefs |-> {},
          groups |-> [i \in Ids |-> "none"], failed |-> 0]

Init ==
  /\ pulp = [i \in Ids |-> "none"]
  /\ made = [i \in Ids |-> 0] /\ open = [i \in Ids |-> 0]
  /\ spoiled = {}
  /\ starts = 0
  /\ stage = "begin" /\ mode = "start"
  /\ out = Empty /\ work = Empty
  /\ toRead = {}
  /\ pings = 0
  /\ faults = 0
  /\ blind = FALSE
  /\ excused = {}

Fault == faults < MaxFaults /\ faults' = faults + 1

-----------------------------------------------------------------------------
(* Pulp. *)

(* A task, or a subtask, dispatches a subtask into the group of i. *)
Dispatch(i) ==
  /\ pulp[i] = "running" \/ open[i] > 0
  /\ made[i] < MaxSubtasks
  /\ made' = [made EXCEPT ![i] = @ + 1]
  /\ open' = [open EXCEPT ![i] = @ + 1]
  /\ UNCHANGED <<pulp, spoiled, starts, runVars, out, pings, faults, blind, excused>>

TaskEnds(i) ==
  /\ pulp[i] = "running"
  /\ \/ pulp' = [pulp EXCEPT ![i] = "completed"] /\ UNCHANGED faults
     \/ pulp' = [pulp EXCEPT ![i] = "failed"] /\ Fault
  /\ UNCHANGED <<made, open, spoiled, starts, runVars, out, pings, blind, excused>>

SubtaskEnds(i) ==
  /\ open[i] > 0
  /\ open' = [open EXCEPT ![i] = @ - 1]
  /\ \/ UNCHANGED <<spoiled, faults>>
     \/ spoiled' = spoiled \cup {i} /\ Fault
  /\ UNCHANGED <<pulp, made, starts, runVars, out, pings, blind, excused>>

GroupState(i) == IF open[i] > 0 THEN "open" ELSE IF i \in spoiled THEN "bad" ELSE "done"

-----------------------------------------------------------------------------
(* Operators on the output. *)

Tasks(w) == {i \in Ids : w.tasks[i] # "none"}
Groups(w) == {i \in Ids : w.groups[i] # "none"}
UnreadTasks(w) == {i \in Ids : w.tasks[i] = "unread"}
UnreadGroups(w) == {i \in Ids : w.groups[i] = "unread"}

(* Mutant: groups that tasks make while they run are not looked for. *)
FoundNone(w) == {}

(* add_task_groups: groups that tasks name and that are not tracked yet. *)
Found(w) == w.hrefs \ Groups(w)

(* check_for_errors *)
Erroneous(w) == \/ \E i \in Ids : w.tasks[i] = "failed"
                \/ \E i \in Ids : w.groups[i] = "bad"

(* done? *)
Done(w) == /\ \A i \in Tasks(w) : w.tasks[i] \in Final
           /\ \A i \in Groups(w) : w.groups[i] \in {"done", "bad"}

-----------------------------------------------------------------------------
(* How a run of the action ends. *)

(* The run ends with the output w, whether with an error or not.  What only *)
(* the run needs is gone.                                                   *)
EndRun(to, w) == /\ stage' = to /\ out' = w
                 /\ work' = Empty /\ toRead' = {} /\ mode' = "start"

(* suspend_and_ping *)
SuspendAndPing(w) == EndRun("suspended", w) /\ pings' = pings + 1 /\ blind' = FALSE

Succeed(w) == EndRun("success", w) /\ UNCHANGED <<pings, blind>>

Fail(w) == EndRun("error", w) /\ blind' = FALSE /\ UNCHANGED pings

(* initiate_external_action *)
Initiate(w) == /\ stage' = "invoke" /\ mode' = "start" /\ work' = w
               /\ toRead' = {} /\ blind' = FALSE
               /\ UNCHANGED <<out, pings>>

-----------------------------------------------------------------------------
(* A run without an event: the first one, or one after a restart or an      *)
(* operator's resume.                                                       *)

PollExternalTask(why) ==
  /\ stage' = "tasks" /\ mode' = why /\ work' = out /\ toRead' = Tasks(out)
  /\ blind' = FALSE

Begin ==
  /\ stage = "begin"
  /\ IF out.start = 0 THEN Initiate(out) ELSE PollExternalTask("resume") /\ UNCHANGED <<out, pings>>
  /\ UNCHANGED <<pulpVars, starts, faults, excused>>

Requested(ids) == [i \in Ids |-> IF i \in ids THEN "running" ELSE pulp[i]]

(* Pulp takes a request for work, as tasks or as a group of subtasks. *)
Accept(ids, asGroup) ==
  /\ starts < MaxStarts
  /\ starts' = starts + 1
  /\ IF asGroup
       THEN /\ made' = [i \in Ids |-> IF i \in ids THEN 1 ELSE made[i]]
            /\ open' = [i \in Ids |-> IF i \in ids THEN 1 ELSE open[i]]
            /\ UNCHANGED pulp
       ELSE pulp' = Requested(ids) /\ UNCHANGED <<made, open>>
  /\ UNCHANGED spoiled

NewIds == {i \in Ids : Request(i) = starts + 1}

(* Mutant: the tasks of the answer join those tracked so far. *)
AnsweredJoining(ids, asGroup) ==
  [work EXCEPT !.start = starts + 1,
               !.tasks = [i \in Ids |-> IF i \in ids /\ ~asGroup THEN "unread" ELSE @[i]],
               !.groups = [i \in Ids |-> IF i \in ids /\ asGroup THEN "unread" ELSE @[i]]]

(* external_task= with the answer: its tasks replace those tracked so far,  *)
(* its groups join them.  Old groups are not read again.                    *)
Answered(ids, asGroup) ==
  [work EXCEPT !.start = starts + 1,
               !.tasks = [i \in Ids |-> IF i \in ids /\ ~asGroup THEN "unread" ELSE "none"],
               !.hrefs = {},
               !.groups = [i \in Ids |-> IF i \in ids /\ asGroup THEN "unread" ELSE @[i]]]

Invoke ==
  /\ stage = "invoke"
  /\ \E asGroup \in BOOLEAN :
       /\ Accept(NewIds, asGroup)
       /\ work' = Answered(NewIds, asGroup)
  /\ stage' = "tasks" /\ toRead' = Tasks(work')
  /\ UNCHANGED <<mode, out, pings, faults, blind, excused>>

(* The request fails, or its answer is lost. *)
InvokeFails ==
  /\ stage = "invoke"
  /\ Fault
  /\ \/ UNCHANGED <<pulpVars, starts, excused>>
     \/ /\ \E asGroup \in BOOLEAN : Accept(NewIds, asGroup)
        /\ excused' = excused \cup {starts + 1}
  /\ Fail(work)

-----------------------------------------------------------------------------
(* poll_external_task: the tasks are read, then the groups, then those      *)
(* found on the way.                                                        *)

Poll ==
  /\ stage = "suspended"
  /\ pings > 0
  /\ pings' = pings - 1
  /\ PollExternalTask("poll")
  /\ UNCHANGED <<pulpVars, starts, out, faults, excused>>

(* A Poll event comes for an action that has ended. *)
LatePoll ==
  /\ stage \in Ended
  /\ pings > 0
  /\ pings' = pings - 1
  /\ UNCHANGED <<pulpVars, starts, runVars, out, faults, blind, excused>>

ReadTask(i) ==
  /\ stage \in {"tasks", "check"}
  /\ i \in toRead
  /\ work' = [work EXCEPT !.tasks[i] = pulp[i],
                          !.hrefs = IF made[i] > 0 THEN @ \cup {i} ELSE @]
  /\ toRead' = toRead \ {i}
  /\ UNCHANGED <<pulpVars, starts, stage, mode, out, pings, faults, blind, excused>>

ReadGroup(i) ==
  /\ stage \in {"groups", "found", "recheck"}
  /\ i \in toRead
  /\ work' = [work EXCEPT !.groups[i] = GroupState(i)]
  /\ toRead' = toRead \ {i}
  /\ UNCHANGED <<pulpVars, starts, stage, mode, out, pings, faults, blind, excused>>

TasksRead ==
  /\ stage = "tasks" /\ toRead = {}
  /\ stage' = "groups"
  /\ toRead' = IF mode = "start" THEN UnreadGroups(work) ELSE Groups(work)
  /\ UNCHANGED <<pulpVars, starts, mode, work, out, pings, faults, blind, excused>>

GroupsRead ==
  /\ stage = "groups" /\ toRead = {}
  /\ stage' = "found"
  /\ toRead' = Found(work)
  /\ work' = [work EXCEPT !.groups = [i \in Ids |-> IF i \in Found(work) THEN "unread" ELSE @[i]]]
  /\ UNCHANGED <<pulpVars, starts, mode, out, pings, faults, blind, excused>>

(* A poll that worked starts the count of failed ones anew. *)
Checked(w) == IF mode \in {"poll", "resume"} THEN [w EXCEPT !.failed = 0] ELSE w

(* Mutant: a cancellation takes the poll that was scheduled with it. *)
AfterCancelNone == 0

(* cancel! suspends without a ping: the poll scheduled before goes on. *)
AfterCancel == pings

(* check_for_errors, then done? *)
Conclude ==
  /\ stage = "found" /\ toRead = {}
  /\ ~Erroneous(work)
  /\ \/ Done(work) /\ Succeed(Checked(work))
     \/ ~Done(work) /\ mode # "cancel" /\ SuspendAndPing(Checked(work))
     \/ ~Done(work) /\ mode = "cancel" /\ EndRun("suspended", work) /\ pings' = AfterCancel /\ UNCHANGED blind
  /\ UNCHANGED <<pulpVars, starts, faults, excused>>

(* rescue_external_task fails at once on an error of Pulp; a resumed action *)
(* asks for the work again.                                                 *)
ErrorFound ==
  /\ stage = "found" /\ toRead = {}
  /\ Erroneous(work)
  /\ LET counted == IF mode \in {"poll", "resume"} THEN [work EXCEPT !.failed = @ + 1] ELSE work
     IN IF mode = "resume" THEN Initiate(counted) ELSE Fail(counted)
  /\ UNCHANGED <<pulpVars, starts, faults, excused>>

(* Mutant: a resumed action gives up at the first read that fails. *)
RetriesLeftPolling == mode = "poll" /\ work.failed + 1 < MaxRetries

RetriesLeft == work.failed + 1 < MaxRetries

(* Pulp cannot be read.  What was to be read is unread now. *)
Unreadable(i) == IF stage \in {"tasks", "check"} THEN [work EXCEPT !.tasks[i] = "unread"]
                                                 ELSE [work EXCEPT !.groups[i] = "unread"]

(* The error ends the run, unless it is that of a poll. *)
ReadFails(i) ==
  /\ stage \in {"check", "recheck"} \/ (stage \in Reading /\ mode \in {"start", "cancel"})
  /\ i \in toRead
  /\ Fault
  /\ Fail(Unreadable(i))
  /\ UNCHANGED <<pulpVars, starts, excused>>

(* rescue_external_task: a poll that fails is repeated some times; done? is *)
(* asked all the same, and reads what is unread.                            *)
PollFails(i) ==
  LET counted == [Unreadable(i) EXCEPT !.failed = @ + 1]
  IN /\ stage \in {"tasks", "groups", "found"} /\ mode \in {"poll", "resume"}
     /\ i \in toRead
     /\ Fault
     /\ \/ /\ RetriesLeft
           /\ stage' = "check" /\ work' = counted /\ toRead' = UnreadTasks(counted)
           /\ blind' = TRUE
           /\ UNCHANGED <<mode, out, pings>>
        \/ /\ ~RetriesLeft
           /\ IF mode = "resume" THEN Initiate(counted) ELSE Fail(counted)
     /\ excused' = IF work.failed + 1 >= MaxRetries THEN excused \cup {starts} ELSE excused
     /\ UNCHANGED <<pulpVars, starts>>

(* done? after a poll that failed stops at the first that is not. *)
NotDone ==
  /\ stage \in {"check", "recheck"}
  /\ \/ \E i \in Ids : work.tasks[i] = "running"
     \/ stage = "recheck" /\ \E i \in Ids : work.groups[i] = "open"
  /\ SuspendAndPing(work)
  /\ UNCHANGED <<pulpVars, starts, faults, excused>>

TasksDone ==
  /\ stage = "check" /\ toRead = {}
  /\ \A i \in Tasks(work) : work.tasks[i] \in Final
  /\ stage' = "recheck"
  /\ toRead' = UnreadGroups(work)
  /\ UNCHANGED <<pulpVars, starts, mode, work, out, pings, faults, blind, excused>>

AllDone ==
  /\ stage = "recheck" /\ toRead = {}
  /\ Done(work)
  /\ Succeed(work)
  /\ UNCHANGED <<pulpVars, starts, faults, excused>>

-----------------------------------------------------------------------------
(* cancel! *)

(* Pulp cancels the tasks at once, or lets them end. *)
CancelTasks ==
  /\ stage = "suspended"
  /\ stage' = "cancel"
  /\ \E S \in SUBSET {i \in Tasks(out) : pulp[i] = "running"} :
       pulp' = [i \in Ids |-> IF i \in S THEN "failed" ELSE pulp[i]]
  /\ UNCHANGED <<made, open, spoiled, starts, mode, work, toRead, out, pings, faults, blind, excused>>

CancelGroups ==
  /\ stage = "cancel"
  /\ \E S \in SUBSET {i \in Groups(out) : open[i] > 0} :
       /\ spoiled' = spoiled \cup S
       /\ open' = [i \in Ids |-> IF i \in S THEN 0 ELSE open[i]]
  /\ PollExternalTask("cancel")
  /\ UNCHANGED <<pulp, made, starts, out, pings, faults, excused>>

CancelFails ==
  /\ stage = "cancel"
  /\ Fault
  /\ Fail(out)
  /\ UNCHANGED <<pulpVars, starts, excused>>

-----------------------------------------------------------------------------
(* The executor and the operator. *)

(* A run that is interrupted has failed, its output is not saved; an action *)
(* that was suspended is run again.                                         *)
Crash ==
  /\ stage \in Running \cup {"suspended"}
  /\ Fault
  /\ EndRun(IF stage = "suspended" THEN "begin" ELSE "error", out)
  /\ pings' = 0
  /\ blind' = FALSE
  /\ excused' = IF stage \in Reading /\ mode = "start" THEN excused \cup {starts} ELSE excused
  /\ UNCHANGED <<pulpVars, starts>>

Resume ==
  /\ stage = "error"
  /\ pings < MaxPings
  /\ stage' = "begin"
  /\ UNCHANGED <<pulpVars, starts, mode, work, toRead, out, pings, faults, blind, excused>>

(* run with Skip does nothing. *)
Skip ==
  /\ stage = "error"
  /\ stage' = "skipped"
  /\ UNCHANGED <<pulpVars, starts, mode, work, toRead, out, pings, faults, blind, excused>>

-----------------------------------------------------------------------------
PulpStep(i) == Dispatch(i) \/ TaskEnds(i) \/ SubtaskEnds(i)

ActionStep ==
  \/ Begin \/ Invoke \/ Poll
  \/ \E i \in Ids : ReadTask(i) \/ ReadGroup(i)
  \/ TasksRead \/ GroupsRead \/ Conclude \/ ErrorFound
  \/ NotDone \/ TasksDone \/ AllDone
  \/ CancelGroups

Next ==
  \/ \E i \in Ids : PulpStep(i) \/ ReadFails(i) \/ PollFails(i)
  \/ ActionStep
  \/ InvokeFails \/ CancelTasks \/ CancelFails \/ LatePoll
  \/ Crash \/ Resume \/ Skip

Spec == Init /\ [][Next]_vars

(* Pulp ends its tasks; Dynflow delivers events and runs the action. *)
FairSpec ==
  /\ Spec
  /\ \A i \in Ids : WF_vars(TaskEnds(i)) /\ WF_vars(SubtaskEnds(i))
  /\ WF_vars(ActionStep)

-----------------------------------------------------------------------------
(* Properties. *)

(* The action ends with what Pulp did for it: when it is done, all tasks of *)
(* the last request have ended without a failure, and so has every subtask  *)
(* of a group they made, however late it was made or found.  It relies on   *)
(* the order of reads in poll_external_task, and on a run without a failed  *)
(* poll: after one, done? reads what is unread and nobody checks it for     *)
(* errors or for groups, so that only the tasks themselves are known to     *)
(* have ended.                                                              *)
EndsWithTasks ==
  stage = "success" =>
    \A i \in Ids : Request(i) = out.start =>
      /\ pulp[i] # "running"
      /\ ~blind => pulp[i] # "failed" /\ open[i] = 0 /\ i \notin spoiled

Broken(n) == \E i \in Ids : Request(i) = n /\ (pulp[i] = "failed" \/ i \in spoiled)

(* Work is not done twice: Pulp gets another request only when a task or a  *)
(* subtask of an earlier one has failed or was canceled, whatever crashes   *)
(* and failing polls come in between; the exceptions are a request whose    *)
(* answer was lost, and one that could not be polled as often as Dynflow    *)
(* tries (resume_external_action).                                          *)
StartedAgainOnlyIfBad ==
  \A n \in 1..MaxStarts :
    n < starts => n \in excused \/ \E k \in 1..n : Broken(k)

(* An action ends once Pulp's tasks have, also when it is canceled or       *)
(* restarted between two polls.                                             *)
ActionEnds ==
  stage \notin Ended ~> stage \in Ended \/ (stage = "invoke" /\ starts = MaxStarts)
=============================================================================
