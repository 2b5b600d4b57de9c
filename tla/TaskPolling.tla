----------------------------- MODULE TaskPolling -----------------------------
(***************************************************************************)
(* The bulk search of the web pages for the states of tasks                 *)
(* (bastion_katello/tasks/task.factory.js).  Pages register searches; one   *)
(* loop of requests and timeouts asks the server about all of them and      *)
(* calls their callbacks back.  JavaScript runs an event handler to its     *)
(* end: while an answer is handled nothing else happens but its callbacks.  *)
(*                                                                          *)
(* The pages are any clients here, that register and unregister whatever    *)
(* they like, also from a callback.  CapsulePage is one of them.            *)
(***************************************************************************)
EXTENDS Naturals, FiniteSets, SequencesExt

CONSTANTS
  Tasks,
  Nothing,      \* no state of a task known
  MaxSearches   \* bound on the searches of a behavior

ASSUME PollingAssumption ==
  /\ MaxSearches \in Nat
  /\ Nothing \notin {"running", "paused", "success", "error", "cancelled"}

VARIABLES
  task,       \* task[t]: state and result of task t in Foreman
  searches,   \* searchParamsById and callbackById: the task each id asks for
  generated,  \* searchIdGenerator
  running,    \* bulkSearchRunning
  timers,     \* number of timeouts that will call updateProgress
  requests,   \* bulk searches under way, and what the server has read for them
  handling,   \* an answer is being handled
  results,    \* its results that were not yet given to their callbacks
  told        \* history: the last state the callback of an id was called with

loopVars == <<running, timers, requests, handling>>
pollVars == <<task, searches, generated, loopVars, results, told>>

Status == {"running", "paused", "success", "error", "cancelled"}

(* The task's field "pending": it has not stopped. *)
Pending(status) == status \in {"running", "paused"}

SearchIds == 1..MaxSearches

Registered == DOMAIN searches

OfSearches(S) == UNION {[I -> S] : I \in SUBSET (1..generated)}

(* An answer has a state for each search it was asked for. *)
Requests == {q \in [asked : OfSearches(Tasks), read : OfSearches(Status) \cup {Nothing}] :
               q.read # Nothing => DOMAIN q.read = DOMAIN q.asked}

TypeOK ==
  /\ task \in [Tasks -> Status]
  /\ generated \in 0..MaxSearches
  /\ Registered \subseteq 1..generated
  /\ searches \in [Registered -> Tasks]
  /\ running \in BOOLEAN /\ handling \in BOOLEAN
  /\ timers \in Nat
  /\ requests \in Seq(Requests)
  /\ results \subseteq [id : 1..generated, task : Tasks, status : Status]
  /\ told \in [SearchIds -> Status \cup {Nothing}]

PollInit ==
  /\ task \in [Tasks -> {"running"}]
  /\ searches = << >>
  /\ generated = 0
  /\ running = FALSE
  /\ timers = 0
  /\ requests = << >>
  /\ handling = FALSE
  /\ results = {}
  /\ told = [i \in SearchIds |-> Nothing]

-----------------------------------------------------------------------------
(* What the handlers of events are made of. *)

Ask(asked) == [asked |-> asked, read |-> Nothing]

(* Mutant: a search asks at once although the loop runs. *)
MustStartAlways == TRUE

(* ensureBulkSearchRunning *)
MustStart == ~running

(* Mutant: the number of an unregistered search is used again. *)
NextIdReused == IF Registered = {} THEN 1 ELSE Max(Registered) + 1

(* generateSearchId *)
NextId == generated + 1

(* registerSearch for each task of ts in turn.  A loop that does not run    *)
(* starts with the first of them, and asks for the others later.            *)
Register(ts) ==
  LET ids == NextId..(NextId + Len(ts) - 1)
      with(new) == [i \in Registered \cup new |->
                      IF i \in new THEN ts[i - NextId + 1] ELSE searches[i]]
  IN /\ ids \subseteq SearchIds
     /\ searches' = with(ids)
     /\ generated' = NextId + Len(ts) - 1
     /\ IF MustStart
          THEN /\ running' = TRUE
               /\ requests' = Append(requests, Ask(with({NextId})))
          ELSE UNCHANGED <<running, requests>>

(* Mutant: a search is set to undefined instead of being deleted. *)
WithoutUndefined(ids) == [i \in Registered |-> IF i \in ids THEN Nothing ELSE searches[i]]

(* deleteSearch for each of ids *)
Without(ids) == [i \in Registered \ ids |-> searches[i]]

(* unregisterSearch for each of ids *)
Unregister(ids) == /\ searches' = Without(ids)
                   /\ UNCHANGED <<generated, running, requests>>

-----------------------------------------------------------------------------
(* The server. *)

(* A task pauses on an error, is resumed by an operator, or ends. *)
Pause(t) ==
  /\ ~handling
  /\ task[t] = "running"
  /\ task' = [task EXCEPT ![t] = "paused"]
  /\ UNCHANGED <<searches, generated, loopVars, results, told>>

Resume(t) ==
  /\ ~handling
  /\ task[t] = "paused"
  /\ task' = [task EXCEPT ![t] = "running"]
  /\ UNCHANGED <<searches, generated, loopVars, results, told>>

Stop(t) ==
  /\ ~handling
  /\ task[t] \in {"running", "paused"}
  /\ \E end \in {"success", "error", "cancelled"} : task' = [task EXCEPT ![t] = end]
  /\ UNCHANGED <<searches, generated, loopVars, results, told>>

(* The server reads the tasks a bulk search asks for. *)
Read(i) ==
  /\ ~handling
  /\ requests[i].read = Nothing
  /\ requests' = [requests EXCEPT ![i].read =
                     [id \in DOMAIN requests[i].asked |-> task[requests[i].asked[id]]]]
  /\ UNCHANGED <<task, searches, generated, running, timers, handling, results, told>>

-----------------------------------------------------------------------------
(* The loop. *)

(* updateProgress: the loop ends when nothing is left to ask for. *)
UpdateProgress ==
  IF Registered = {}
    THEN running' = FALSE /\ UNCHANGED requests
    ELSE requests' = Append(requests, Ask(searches)) /\ UNCHANGED running

(* The timeout of schedulePoll fires. *)
Timeout ==
  /\ ~handling
  /\ timers > 0
  /\ timers' = timers - 1
  /\ UpdateProgress
  /\ UNCHANGED <<task, searches, generated, handling, results, told>>

(* An answer arrives; its callbacks are called in the order of the searches. *)
Answer(i) ==
  LET request == requests[i]
  IN /\ ~handling
     /\ request.read # Nothing
     /\ requests' = RemoveAt(requests, i)
     /\ handling' = TRUE
     /\ results' = {[id |-> j, task |-> request.asked[j], status |-> request.read[j]] :
                      j \in DOMAIN request.asked}
     /\ UNCHANGED <<task, searches, generated, running, timers, told>>

IsNext(r) == r \in results /\ \A other \in results : r.id <= other.id

(* The next result of the answer goes to its search, unless that has been   *)
(* unregistered meanwhile, for example by the callback before it.           *)
Skip(r) ==
  /\ handling /\ IsNext(r)
  /\ r.id \notin Registered
  /\ results' = results \ {r}
  /\ UNCHANGED <<task, searches, generated, loopVars, told>>

Tell(r) ==
  /\ handling /\ IsNext(r)
  /\ r.id \in Registered
  /\ results' = results \ {r}
  /\ told' = [told EXCEPT ![r.id] = r.status]
  /\ UNCHANGED <<task, timers, handling>>

(* The finally clause of the answer. *)
SchedulePoll ==
  /\ handling /\ results = {}
  /\ handling' = FALSE
  /\ timers' = timers + 1
  /\ UNCHANGED <<task, searches, generated, running, requests, results, told>>

(* Mutant: a failed request schedules no other. *)
AfterFailureNone == timers

(* The error callback of the request: schedulePoll *)
AfterFailure == timers + 1

RequestFails(i) ==
  /\ ~handling
  /\ requests' = RemoveAt(requests, i)
  /\ timers' = AfterFailure
  /\ UNCHANGED <<task, searches, generated, running, handling, results, told>>

-----------------------------------------------------------------------------
(* Any client. *)

ClientRegisters ==
  /\ ~handling
  /\ \E n \in 1..MaxSearches : \E ts \in [1..n -> Tasks] : Register(ts)
  /\ UNCHANGED <<task, timers, handling, results, told>>

ClientUnregisters ==
  /\ ~handling
  /\ \E ids \in SUBSET Registered : Unregister(ids)
  /\ UNCHANGED <<task, timers, handling, results, told>>

(* A callback may unregister searches, its own among them, or register. *)
Callback(r) ==
  /\ Tell(r)
  /\ \/ \E ids \in SUBSET Registered : Unregister(ids)
     \/ \E n \in 1..MaxSearches : \E ts \in [1..n -> Tasks] : Register(ts)

ServerStep == \/ \E t \in Tasks : Pause(t) \/ Resume(t) \/ Stop(t)
              \/ \E i \in 1..Len(requests) : Read(i)

LoopStep == \/ Timeout
            \/ \E i \in 1..Len(requests) : Answer(i) \/ RequestFails(i)
            \/ \E r \in results : Skip(r)
            \/ SchedulePoll

Next == \/ ServerStep \/ LoopStep
        \/ ClientRegisters \/ ClientUnregisters
        \/ \E r \in results : Callback(r)

Spec == PollInit /\ [][Next]_pollVars

(* The browser runs its events and the server answers; requests may fail,   *)
(* but not all of them.                                                     *)
LoopFairness ==
  /\ WF_pollVars(Timeout)
  /\ SF_pollVars(\E i \in 1..Len(requests) : Read(i))
  /\ SF_pollVars(\E i \in 1..Len(requests) : Answer(i))
  /\ WF_pollVars(\E r \in results : Skip(r))
  /\ WF_pollVars(SchedulePoll)

FairSpec == /\ Spec /\ LoopFairness
            /\ WF_pollVars(\E r \in results : Callback(r))

-----------------------------------------------------------------------------
(* Properties. *)

Activities == timers + Len(requests) + (IF handling THEN 1 ELSE 0)

(* However pages come, go and fail, one loop polls for all of them, "to     *)
(* avoid overloading the server with multiple requests" (task.factory.js),  *)
(* and none is left out: the flag bulkSearchRunning tells exactly whether a *)
(* timeout, a request or an answer will go on, and it is set while a search *)
(* is registered.                                                           *)
OneLoop == /\ Activities = IF running THEN 1 ELSE 0
           /\ Registered # {} => running

(* A callback never gets the task of another search: what is under way for  *)
(* an id that is registered is for its task, also if the search that was    *)
(* there when the server was asked is gone (addSearch, callbackById).       *)
OwnTaskOnly ==
  /\ \A i \in 1..Len(requests) : \A id \in Registered \cap DOMAIN requests[i].asked :
        requests[i].asked[id] = searches[id]
  /\ \A r \in results : r.id \in Registered => r.task = searches[r.id]

(* A task that stopped is reported to each search for it that stays         *)
(* registered, with its final state, although requests fail and answers are *)
(* older than the task's end.                                               *)
FinalStateReported ==
  \A id \in SearchIds :
    (id \in Registered /\ ~Pending(task[searches[id]]))
      ~> (id \notin Registered \/ told[id] = task[searches[id]])
=============================================================================
