----------------------------- MODULE EventQueue ------------------------------
(***************************************************************************)
(* Katello::EventQueue (the katello_events table) and the thread that      *)
(* empties it, Katello::EventMonitor::PollerThread.                        *)
(*                                                                         *)
(* Pushers run in any Puma or Dynflow process; one poller thread runs in   *)
(* the event daemon.  Every SQL statement of the poller is a step, and so  *)
(* is a pusher's choice of created_at, which precedes the commit that      *)
(* makes the row visible.  The daemon can be killed, or stopped gracefully *)
(* (Thread#kill, which still runs the ensure block of run_event).          *)
(***************************************************************************)
EXTENDS Naturals

CONSTANTS
  Keys,          \* (event_type, object_id) pairs
  Retryable,     \* keys whose event class has a retry flag and retry_seconds
  RetryDelay,    \* retry_seconds
  MaxRetryAge,   \* MAX_RETRY_AGE
  MaxTime,       \* bound: the clock stops here
  MaxPushTime,   \* bound: no event is created from this instant on
  MaxStops,      \* bound: crashes and graceful stops of the daemon
  NoEvent        \* "no row loaded"

ASSUME QueueAssumption ==
  /\ Retryable \subseteq Keys
  /\ RetryDelay \in Nat \ {0}
  /\ MaxRetryAge \in Nat \ {0}
  /\ MaxTime \in Nat
  /\ MaxPushTime \in Nat
  /\ MaxPushTime <= MaxTime
  /\ MaxStops \in Nat

(* created_at has microseconds and every push takes a fresh instant, so the *)
(* creation time identifies a row.  Time 0 stands for a NULL process_after. *)
Event == [created : 1..MaxTime, key : Keys]
Null  == 0

ASSUME NoEventAssumption == NoEvent \notin Event \cup Keys

VARIABLES
  now,           \* the clock
  inserting,     \* rows with a created_at whose INSERT is not committed yet
  events,        \* committed rows of katello_events
  inProgress,    \* rows with in_progress = true
  processAfter,  \* the process_after column
  pc,            \* where the poller thread is
  first, last,   \* the two rows next_event has loaded
  result,        \* how the handler of the current event ended
  closing,       \* the thread was killed and is running its ensure block
  stops,         \* crashes and graceful stops so far
  seen,          \* history: rows of the key visible when its handler began
  served         \* history: rows whose last run ended for good

table  == <<inserting, events, inProgress, processAfter>>
thread == <<pc, first, last, result, closing>>
history == <<seen, served>>
vars   == <<now, table, thread, stops, history>>

States  == {"down", "next", "last", "mark", "create", "run", "reschedule", "clear"}
Results == {"none", "ok", "fail", "retry", "retried", "expired"}

TypeOK ==
  /\ now \in 1..(MaxTime + 1)
  /\ inserting \subseteq Event
  /\ events \subseteq Event
  /\ inProgress \subseteq events
  /\ processAfter \in [Event -> Nat]
  /\ pc \in States
  /\ first \in IF pc \in {"down", "next"} THEN {NoEvent} ELSE Event
  /\ last \in IF pc \in {"down", "next", "last"} THEN {NoEvent} ELSE Event
  /\ result \in Results
  /\ closing \in BOOLEAN
  /\ stops \in 0..MaxStops
  /\ seen \subseteq Event
  /\ served \subseteq Event

Init ==
  /\ now = 1
  /\ inserting = {} /\ events = {} /\ inProgress = {}
  /\ processAfter = [e \in Event |-> Null]
  /\ pc = "down" /\ first = NoEvent /\ last = NoEvent
  /\ result = "none" /\ closing = FALSE
  /\ stops = 0
  /\ seen = {} /\ served = {}

-----------------------------------------------------------------------------
(* Pushers and the clock. *)

(* push_event builds the row and takes created_at ... *)
PushBegin(k) ==
  /\ now < MaxPushTime
  /\ inserting' = inserting \cup {[created |-> now, key |-> k]}
  /\ now' = now + 1
  /\ UNCHANGED <<events, inProgress, processAfter, thread, stops, history>>

(* ... and the row becomes visible when its transaction commits. *)
PushCommit(e) ==
  /\ e \in inserting
  /\ inserting' = inserting \ {e}
  /\ events' = events \cup {e}
  /\ UNCHANGED <<now, inProgress, processAfter, thread, stops, history>>

(* The pusher dies, or its transaction rolls back. *)
PushAborts(e) ==
  /\ e \in inserting
  /\ inserting' = inserting \ {e}
  /\ UNCHANGED <<now, events, inProgress, processAfter, thread, stops, history>>

Tick ==
  /\ now <= MaxTime
  /\ now' = now + 1
  /\ UNCHANGED <<table, thread, stops, history>>

-----------------------------------------------------------------------------
(* The poller thread. *)

(* runnable_events.where(in_progress: false) *)
Runnable == {e \in events \ inProgress : processAfter[e] <= now}

(* Mutant: run forgets reset_in_progress. *)
StartWithoutReset ==
  /\ pc = "down"
  /\ pc' = "next"
  /\ UNCHANGED <<now, table, first, last, result, closing, stops, history>>

(* The Monitor finds no running poller and calls PollerThread.run. *)
Start ==
  /\ pc = "down"
  /\ inProgress' = {}
  /\ pc' = "next"
  /\ UNCHANGED <<now, inserting, events, processAfter, first, last, result,
                 closing, stops, history>>

(* Mutant: next_event without its "return if first.nil?". *)
SelectFirstOrNil ==
  /\ pc = "next"
  /\ first' \in IF Runnable = {} THEN {NoEvent} ELSE Runnable
  /\ pc' = "last"
  /\ UNCHANGED <<now, table, last, result, closing, stops, history>>

(* next_event, first query: the oldest runnable row.  With none the thread *)
(* sleeps and asks again, which changes nothing.                           *)
SelectFirst ==
  /\ pc = "next"
  /\ first' \in {e \in Runnable : \A f \in Runnable : e.created <= f.created}
  /\ pc' = "last"
  /\ UNCHANGED <<now, table, last, result, closing, stops, history>>

(* next_event, second query: the newest runnable row of the same key. *)
SameKey(f) == {e \in Runnable : e.key = f.key}

SelectLast ==
  /\ pc = "last"
  /\ last' \in {e \in SameKey(first) : \A f \in SameKey(first) : f.created <= e.created}
  /\ pc' = "mark"
  /\ UNCHANGED <<now, table, first, result, closing, stops, history>>

(* Mutant: the oldest row is marked, and no other of its key. *)
ToMarkOldest(f) == {f} \ inProgress

(* Rows mark_in_progress(first) updates.  A NULL process_after of the row   *)
(* itself fails the SQL comparison.                                        *)
ToMark(f) ==
  {e \in events \ inProgress :
     /\ e.key = f.key
     /\ processAfter[f] # Null => /\ processAfter[e] # Null
                                  /\ processAfter[e] <= processAfter[f]}

MarkInProgress ==
  /\ pc = "mark"
  /\ inProgress' = inProgress \cup ToMark(first)
  /\ pc' = "create"
  /\ UNCHANGED <<now, inserting, events, processAfter, first, last, result,
                 closing, stops, history>>

(* create_instance and the call of run: the handler reads the database from *)
(* here on.  A failing create_instance, or a kill before run is called,     *)
(* leaves the table as the same event right after this step does.           *)
RunBegin ==
  /\ pc = "create"
  /\ seen' = {e \in events : e.key = last.key}
  /\ served' = served \ seen'
  /\ result' = "none"
  /\ pc' = "run"
  /\ UNCHANGED <<now, table, first, last, closing, stops>>

(* The handler returns, raises, or raises with its retry flag set. *)
RunEnd(r) ==
  /\ pc = "run"
  /\ r \in {"ok", "fail"} \cup (IF last.key \in Retryable THEN {"retry"} ELSE {})
  /\ result' = r
  /\ pc' = IF r = "retry" THEN "reschedule" ELSE "clear"
  /\ served' = IF r = "retry" THEN served ELSE served \cup seen
  /\ UNCHANGED <<now, table, first, last, closing, stops, seen>>

(* Mutant: reschedule_event leaves in_progress set. *)
RescheduleMarked ==
  /\ pc = "reschedule"
  /\ pc' = "clear"
  /\ result' = "retried"
  /\ processAfter' = [processAfter EXCEPT ![last] = now + RetryDelay]
  /\ UNCHANGED <<now, inserting, events, inProgress, first, last, closing, stops, history>>

(* reschedule_event: a row older than MAX_RETRY_AGE is given up. *)
Reschedule ==
  /\ pc = "reschedule"
  /\ pc' = "clear"
  /\ \/ /\ last.created + MaxRetryAge <= now
        /\ result' = "expired"
        /\ served' = served \cup seen
        /\ UNCHANGED <<inProgress, processAfter>>
     \/ /\ last.created + MaxRetryAge > now
        /\ result' = "retried"
        /\ inProgress' = inProgress \ {last}
        /\ processAfter' = [processAfter EXCEPT ![last] = now + RetryDelay]
        /\ UNCHANGED served
  /\ UNCHANGED <<now, inserting, events, first, last, closing, stops, seen>>

(* Mutant: clear_events without its in_progress condition. *)
ToClearUnmarked(l) == {e \in events : e.key = l.key /\ e.created <= l.created}

(* Mutant: clear_events by event type and object id alone. *)
ToClearOfKey(l) == {e \in events : e.key = l.key}

(* Rows clear_events(type, object_id, created_at of the event run) deletes. *)
ToClear(l) == {e \in inProgress : e.key = l.key /\ e.created <= l.created}

ClearEvents ==
  /\ pc = "clear"
  /\ events' = events \ ToClear(last)
  /\ inProgress' = inProgress \ ToClear(last)
  /\ processAfter' = [e \in Event |-> IF e \in ToClear(last) THEN Null
                                      ELSE processAfter[e]]
  /\ pc' = IF closing THEN "down" ELSE "next"
  /\ closing' = FALSE
  /\ first' = NoEvent /\ last' = NoEvent /\ result' = "none" /\ seen' = {}
  /\ UNCHANGED <<now, inserting, stops, served>>

-----------------------------------------------------------------------------
(* The daemon goes away. *)

(* The process is killed, or a statement of next_event or of the ensure     *)
(* block raises and ends the thread: the table stays as it is.              *)
Crash ==
  /\ pc # "down"
  /\ stops < MaxStops
  /\ stops' = stops + 1
  /\ pc' = "down"
  /\ closing' = FALSE
  /\ first' = NoEvent /\ last' = NoEvent /\ result' = "none" /\ seen' = {}
  /\ UNCHANGED <<now, table, served>>

(* PollerThread.close inside run_event: Thread#kill raises through the      *)
(* handler, and the ensure block goes on to clear_events.  Elsewhere the    *)
(* effect of close on the table is that of a crash.                         *)
Close ==
  /\ pc = "run"
  /\ stops < MaxStops
  /\ stops' = stops + 1
  /\ closing' = TRUE
  /\ pc' = "clear"
  /\ UNCHANGED <<now, table, first, last, result, history>>

-----------------------------------------------------------------------------
Poller == \/ Start \/ SelectFirst \/ SelectLast \/ MarkInProgress \/ RunBegin
          \/ \E r \in Results : RunEnd(r)
          \/ Reschedule \/ ClearEvents

Next ==
  \/ \E k \in Keys : PushBegin(k)
  \/ \E e \in inserting : PushCommit(e) \/ PushAborts(e)
  \/ Tick
  \/ Start
  \/ SelectFirst
  \/ SelectLast
  \/ MarkInProgress
  \/ RunBegin
  \/ \E r \in Results : RunEnd(r)
  \/ Reschedule
  \/ ClearEvents
  \/ Crash
  \/ Close

Spec == Init /\ [][Next]_vars

(* The Monitor restarts a dead poller, the thread loops for ever, handlers  *)
(* return, transactions commit and time passes.                             *)
Fairness ==
  /\ WF_vars(Poller)
  /\ WF_vars(\E e \in inserting : PushCommit(e))
  /\ WF_vars(Tick)

FairSpec == Spec /\ Fairness

-----------------------------------------------------------------------------
(* Properties. *)

(* No row disappears before a handler of its key has begun after the row    *)
(* became visible, and ended or been killed by a graceful stop: coalescing  *)
(* the rows of a key never swallows a push that raced with the run.         *)
NothingDroppedUnattended ==
  [][\A e \in events \ events' : e \in seen /\ (result # "none" \/ closing)]_vars

(* A handler that asked for a retry within MAX_RETRY_AGE keeps its row: the  *)
(* clear_events that follows reschedule_event never deletes it.             *)
RescheduledRowSurvives ==
  [][pc = "clear" /\ result = "retried" => last \in events']_vars

(* A handled row goes, and no redundant run of it follows ("E1 should also   *)
(* be removed to avoid redundant run", event_queue_test.rb), unless its     *)
(* handler asked for a retry, or the oldest row of its key was itself a     *)
(* retry, in which case mark_in_progress has passed over newer rows.        *)
HandledRowGone ==
  [][ClearEvents /\ last \in events' => result = "retried" \/ processAfter[first] # Null]_vars

(* Rows whose last run has not finished, or that had none. *)
Owed == events \ served

(* Every committed event is eventually attended by a run begun after its    *)
(* commit (or dropped by a graceful stop under it), whatever races, retries *)
(* and crashes happen.                                                      *)
EveryEventAttended ==
  \A k \in Keys : (\E e \in Owed : e.key = k) ~> ~(\E e \in Owed : e.key = k)

(* The queue implements the level-triggered signal it is used as. *)
Signal == INSTANCE EventSignal
            WITH NoKey <- NoEvent,
                 serving <- IF pc \in {"run", "reschedule", "clear"}
                              THEN last.key ELSE NoEvent,
                 owed <- {e.key : e \in events \ (served \cup seen)}

ImplementsSignal == Signal!SigSpec
=============================================================================
