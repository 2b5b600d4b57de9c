----------------------------- MODULE CapsulePage -----------------------------
(***************************************************************************)
(* The content page of a smart proxy as a client of TaskPolling             *)
(* (capsule-content.controller.js, aggregate-task.factory.js): it shows     *)
(* whether the proxy synchronises or reclaims space, starts both, and       *)
(* follows the tasks through an aggregate of their searches.  The answers   *)
(* of the server to its requests come in any order, also after the page was *)
(* left, whose closures live on.                                            *)
(***************************************************************************)
EXTENDS TaskPolling

CONSTANTS
  Underway,    \* syncs begun before the page is opened
  Plain,       \* $scope.syncTask is a task, not an aggregate
  MaxRefreshes,\* bound on the requests for the status that are under way at once
  MaxFaults    \* bound on the requests of the page that fail and the tasks that pause

ASSUME PageAssumption ==
  /\ IsFiniteSet(Tasks) /\ Underway \subseteq Tasks
  /\ Plain \notin Nat /\ Plain # Nothing
  /\ MaxRefreshes \in Nat /\ MaxFaults \in Nat

VARIABLES
  open,        \* the page has not been left
  created,     \* tasks that exist
  reclaims,    \* those that reclaim space; the others synchronise
  syncState,   \* the service of that name; it outlives the page
  listed,      \* $scope.syncStatus.active_sync_tasks
  aggregates,  \* the AggregateTasks, by their first search: taskSearches and taskMap
  current,     \* $scope.syncTask
  refreshes,   \* requests for the status under way, and what the server has read
  posts,       \* requests to start a task under way
  faults,
  blind        \* history: the last request for the status has failed

pageVars == <<open, created, reclaims, syncState, listed, aggregates, current, refreshes,
              posts, faults, blind>>
vars == <<pollVars, pageVars>>

States == {"DEFAULT", "SYNCING", "RECLAIMING_SPACE", "RECLAIM_SPACE_TRIGGERED",
           "SYNC_TRIGGERED", "CANCEL_TRIGGERED", "FAILURE"}

Init ==
  /\ PollInit
  /\ open = TRUE
  /\ created = Underway
  /\ reclaims = {}
  /\ syncState \in States
  /\ listed = Nothing
  /\ aggregates = << >>
  /\ current = Nothing
  /\ refreshes = <<Nothing>>
  /\ posts = << >>
  /\ faults = 0
  /\ blind = FALSE

Fault == faults < MaxFaults /\ faults' = faults + 1

-----------------------------------------------------------------------------
(* AggregateTask *)

Result(status) == CASE status = "running" -> "pending"
                    [] status = "paused" -> "error"
                    [] OTHER -> status

(* Mutant: a result counts as pending until a greater one is seen. *)
GreatestResultFromPending(taskMap) ==
  IF \E t \in DOMAIN taskMap : Result(taskMap[t]) = "error" THEN "error" ELSE "pending"

(* greatestResult over the tasks that have answered; a cancelled task has   *)
(* no weight.                                                               *)
GreatestResult(taskMap) ==
  LET answered == {Result(taskMap[t]) : t \in DOMAIN taskMap}
  IN CASE "error" \in answered -> "error"
       [] "pending" \in answered /\ "error" \notin answered -> "pending"
       [] OTHER -> "success"

(* unregisterAll *)
SearchesOf(aggregate) == {aggregate.taskSearches[t] : t \in DOMAIN aggregate.taskSearches}

Owner(id) == CHOOSE k \in DOMAIN aggregates : id \in SearchesOf(aggregates[k])

(* What is neither shown nor searched for any more is gone. *)
Alive(all, shown, ids) == Restrict(all, {k \in DOMAIN all : k = shown \/ SearchesOf(all[k]) \cap ids # {}})

(* AggregateTask.new: the searches of the tasks in ts, shown from now on. *)
NewAggregate(ts) ==
  LET new == [taskSearches |-> [t \in Range(ts) |-> NextId + (CHOOSE i \in DOMAIN ts : ts[i] = t) - 1],
              taskMap |-> << >>]
  IN /\ Register(ts)
     /\ current' = NextId
     /\ aggregates' = Alive([k \in DOMAIN aggregates \cup {NextId} |-> IF k = NextId THEN new ELSE aggregates[k]],
                            NextId, Registered)

(* Mutant: a task that is over is still searched for. *)
OverNever(r) == {}

(* `if (!task.pending) unregisterSearch(task.id)` *)
Over(r) == IF Pending(r.status) THEN {} ELSE {r.id}

(* updateTask: note the task, unregister it when it is over, call           *)
(* taskUpdated, which looks at the aggregate the page shows now.  If that   *)
(* is a plain task the call of unregisterAll raises and nothing follows.    *)
UpdateTask(r) ==
  LET k == Owner(r.id)
      taskMap == (r.task :> r.status) @@ aggregates[k].taskMap
      now == [aggregates EXCEPT ![k].taskMap = taskMap]
      settled == current \in DOMAIN now /\ GreatestResult(now[current].taskMap) # "pending"
      dropped == Over(r) \cup IF settled THEN SearchesOf(now[current]) ELSE {}
  IN /\ Tell(r)
     /\ Unregister(dropped)
     /\ aggregates' = Alive(now, current, Registered \ dropped)
     /\ refreshes' = IF settled /\ Len(refreshes) < MaxRefreshes THEN Append(refreshes, Nothing) ELSE refreshes
     /\ UNCHANGED <<open, created, reclaims, syncState, listed, current, posts, faults, blind>>

-----------------------------------------------------------------------------
(* The status of the proxy. *)

Active == {t \in created \ reclaims : task[t] = "running"}

(* A reclaim that has succeeded is listed too. *)
Failed == {t \in created : \/ Result(task[t]) \in {"error", "cancelled"}
                           \/ t \in reclaims /\ task[t] = "success"}

(* The server answers sync_status.  Which failed tasks it lists, and so     *)
(* whether one is the last, depends on their dates and on the last sync.    *)
ReadStatus(i) ==
  /\ ~handling
  /\ refreshes[i] = Nothing
  /\ \E last \in {"none"} \cup {IF task[t] = "success" THEN "succeeded" ELSE "failed" : t \in Failed} :
       refreshes' = [refreshes EXCEPT ![i] = [active |-> Active, last |-> last]]
  /\ UNCHANGED <<pollVars, open, created, reclaims, syncState, listed, aggregates, current, posts, faults, blind>>

(* refreshSyncStatus, on success.  Without a task to show, the page keeps   *)
(* the one it has.                                                          *)
RefreshSyncStatus(i) ==
  LET status == refreshes[i]
      active == SetToSeq(status.active)
  IN /\ ~handling
     /\ status # Nothing
     /\ refreshes' = RemoveAt(refreshes, i)
     /\ listed' = active
     /\ blind' = FALSE
     /\ syncState' = CASE active # << >> -> "SYNCING"
                       [] active = << >> /\ status.last = "failed" -> "FAILURE"
                       [] OTHER -> "DEFAULT"
     /\ IF active # << >>
          THEN NewAggregate(active)
          ELSE /\ current' = IF status.last # "none" THEN Plain ELSE current
               /\ aggregates' = Alive(aggregates, current', Registered)
               /\ UNCHANGED <<searches, generated, running, requests>>
     /\ UNCHANGED <<task, timers, handling, results, told, open, created, reclaims, posts, faults>>

RefreshFails(i) ==
  /\ ~handling
  /\ Fault
  /\ refreshes' = RemoveAt(refreshes, i)
  /\ listed' = << >>
  /\ blind' = TRUE
  /\ UNCHANGED <<pollVars, open, created, reclaims, syncState, aggregates, current, posts>>

-----------------------------------------------------------------------------
(* The buttons. *)

Busy == syncState \in {"SYNCING", "RECLAIMING_SPACE"}

(* syncCapsule or reclaimSpace, which will get the task t *)
Trigger(t, kind) ==
  /\ ~handling
  /\ open /\ ~Busy
  /\ t \notin created /\ \A i \in DOMAIN posts : posts[i].task # t
  /\ syncState' = kind
  /\ reclaims' = IF kind = "RECLAIM_SPACE_TRIGGERED" THEN reclaims \cup {t} ELSE reclaims
  /\ posts' = Append(posts, [task |-> t, planned |-> FALSE])
  /\ UNCHANGED <<pollVars, open, created, listed, aggregates, current, refreshes, faults, blind>>

(* The server plans the task. *)
Create(i) ==
  /\ ~handling
  /\ ~posts[i].planned
  /\ created' = created \cup {posts[i].task}
  /\ posts' = [posts EXCEPT ![i].planned = TRUE]
  /\ UNCHANGED <<pollVars, open, reclaims, syncState, listed, aggregates, current, refreshes, faults, blind>>

(* Mutant: a task listed twice is searched for twice. *)
JoinedTwice(ts, t) == Append(ts, t)

(* A task listed twice is searched for once. *)
Joined(ts, t) == IF t \in Range(ts) THEN ts ELSE Append(ts, t)

(* The task joins the list and a new aggregate follows the whole list.      *)
(* Before the first status there is no list, and the handler raises.        *)
Posted(i) ==
  LET t == posts[i].task
  IN /\ ~handling
     /\ posts[i].planned
     /\ posts' = RemoveAt(posts, i)
     /\ IF listed = Nothing
          THEN UNCHANGED <<searches, generated, running, requests, syncState, listed, aggregates, current>>
          ELSE /\ listed' = Joined(listed, t)
               /\ NewAggregate(Joined(listed, t))
               /\ syncState' = IF t \in reclaims THEN "RECLAIMING_SPACE" ELSE "SYNCING"
     /\ UNCHANGED <<task, timers, handling, results, told, open, created, reclaims, refreshes, faults, blind>>

PostFails(i) ==
  /\ ~handling
  /\ Fault
  /\ posts' = RemoveAt(posts, i)
  /\ syncState' = "DEFAULT"
  /\ UNCHANGED <<pollVars, open, created, reclaims, listed, aggregates, current, refreshes, blind>>

(* The tasks stop, if they do, by themselves. *)
CancelSync ==
  /\ ~handling
  /\ open /\ syncState = "SYNCING"
  /\ syncState' = "CANCEL_TRIGGERED"
  /\ UNCHANGED <<pollVars, open, created, reclaims, listed, aggregates, current, refreshes, posts, faults, blind>>

(* $destroy *)
Leave ==
  /\ ~handling
  /\ open
  /\ open' = FALSE
  /\ Unregister(IF current \in DOMAIN aggregates THEN SearchesOf(aggregates[current]) ELSE {})
  /\ UNCHANGED <<task, timers, handling, results, told, created, reclaims, syncState, listed, aggregates,
                 current, refreshes, posts, faults, blind>>

-----------------------------------------------------------------------------
PollStep == /\ \/ \E t \in created : \/ (Pause(t) /\ Fault)
                                    \/ ((Resume(t) \/ Stop(t)) /\ UNCHANGED faults)
               \/ ((\E i \in 1..Len(requests) : Read(i)) /\ UNCHANGED faults)
               \/ (LoopStep /\ UNCHANGED faults)
            /\ UNCHANGED <<open, created, reclaims, syncState, listed, aggregates, current,
                           refreshes, posts, blind>>

PageStep ==
  \/ \E r \in results : UpdateTask(r)
  \/ \E i \in 1..Len(refreshes) : ReadStatus(i) \/ RefreshSyncStatus(i) \/ RefreshFails(i)
  \/ \E i \in 1..Len(posts) : Create(i) \/ Posted(i) \/ PostFails(i)
  \/ \E t \in Tasks, kind \in {"SYNC_TRIGGERED", "RECLAIM_SPACE_TRIGGERED"} : Trigger(t, kind)
  \/ CancelSync
  \/ Leave

PageNext == PollStep \/ PageStep

PageSpec == Init /\ [][PageNext]_vars

FairPageSpec ==
  /\ PageSpec /\ LoopFairness
  /\ WF_vars(\E r \in results : UpdateTask(r))
  /\ WF_vars(\E i \in 1..Len(refreshes) : ReadStatus(i))
  /\ WF_vars(\E i \in 1..Len(refreshes) : RefreshSyncStatus(i))
  /\ WF_vars(\E i \in 1..Len(posts) : Create(i))
  /\ WF_vars(\E i \in 1..Len(posts) : Posted(i))

-----------------------------------------------------------------------------
(* Properties. *)

PageTypeOK ==
  /\ open \in BOOLEAN /\ blind \in BOOLEAN
  /\ created \subseteq Tasks /\ reclaims \subseteq Tasks
  /\ syncState \in States
  /\ listed = Nothing \/ (listed \in Seq(Tasks) /\ IsInjective(listed))
  /\ current \in DOMAIN aggregates \cup {Nothing, Plain}
  /\ faults \in 0..MaxFaults

(* The bound on searches stops an answer from being handled. *)
Exhausted ==
  \/ \E i \in 1..Len(refreshes) :
       refreshes[i] # Nothing /\ generated + Cardinality(refreshes[i].active) > MaxSearches
  \/ posts # << >> /\ listed # Nothing /\ generated + Len(listed) + 1 > MaxSearches

AllOver == \A t \in created : ~Pending(task[t])

(* The page stops showing work in progress once all its tasks are over,     *)
(* whatever order the answers come in and however often the aggregate is    *)
(* replaced meanwhile: something always polls that will refresh the status. *)
(* A failed request for the status is retried by nobody (blind).            *)
PageSettles ==
  <>[](open /\ AllOver /\ ~blind) =>
    <>[](syncState \in {"DEFAULT", "FAILURE"} \/ Exhausted)

(* When the page has been left and its tasks are over, the polling ends,    *)
(* although aggregates that were replaced, and answers that come after      *)
(* $destroy, have left searches behind.                                     *)
PollingEnds == <>[](~open /\ AllOver) => <>[](~running \/ Exhausted)
=============================================================================
