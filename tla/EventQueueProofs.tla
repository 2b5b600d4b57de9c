-------------------------- MODULE EventQueueProofs ---------------------------
(***************************************************************************)
(* Proofs about EventQueue, for any keys, delays and bounds.               *)
(*                                                                         *)
(* The argument of the safety theorems is one invariant: while a handler   *)
(* runs, every marked row of its key was visible when the handler began    *)
(* (MarkedRowsSeen), because mark_in_progress precedes the call of run and *)
(* a row that commits later is not marked.  clear_events deletes marked    *)
(* rows only, so it deletes rows that were seen.                           *)
(***************************************************************************)
EXTENDS EventQueue, TLAPS

Serving == {"run", "reschedule", "clear"}

(* The history variables belong to the handler that runs. *)
HistoryOK ==
  /\ \A e \in seen : e.key = last.key
  /\ pc \notin Serving => seen = {}
  /\ pc \notin {"reschedule", "clear"} => result = "none"
  /\ pc = "clear" => result # "none" \/ closing
  /\ result \in {"ok", "fail", "expired"} => seen \subseteq served

(* Creation times identify rows: a row in flight is nowhere else. *)
RowsFresh ==
  /\ \A e \in inserting \cup events \cup seen \cup served : e.created < now
  /\ inserting \cap (events \cup seen \cup served) = {}

(* A marked row of the key being served was visible when its run began. *)
MarkedRowsSeen ==
  pc \in Serving => \A e \in inProgress : e.key = last.key => e \in seen

(* The row being run is in the table, and is unmarked once rescheduled. *)
LastKept ==
  /\ last # NoEvent => last \in events
  /\ result = "retried" => pc = "clear" /\ last \notin inProgress

IInv == TypeOK /\ HistoryOK /\ RowsFresh /\ MarkedRowsSeen /\ LastKept

USE DEF Null

(* The initial states satisfy the invariant. *)
LEMMA InitIInv == Init => IInv
<1> SUFFICES ASSUME Init PROVE IInv
  OBVIOUS
<1>1. TypeOK
  <2>1. processAfter \in [Event -> Nat]
    BY DEF Init
  <2>2. /\ now \in 1..(MaxTime + 1)
        /\ stops \in 0..MaxStops
    BY QueueAssumption DEF Init
  <2>3. /\ first \in IF pc \in {"down", "next"} THEN {NoEvent} ELSE Event
        /\ last \in IF pc \in {"down", "next", "last"} THEN {NoEvent} ELSE Event
    BY DEF Init
  <2>4. /\ pc \in States /\ result \in Results /\ closing \in BOOLEAN
    BY DEF Init, States, Results
  <2>5. /\ inserting \subseteq Event /\ events \subseteq Event
        /\ inProgress \subseteq events /\ seen \subseteq Event
        /\ served \subseteq Event
    BY DEF Init
  <2> QED
    BY <2>1, <2>2, <2>3, <2>4, <2>5 DEF TypeOK
<1> QED
  BY <1>1 DEF Init, IInv, HistoryOK, RowsFresh, MarkedRowsSeen, LastKept, Serving

(* A push that takes its creation time preserves it: the row is not yet visible. *)
LEMMA PushBeginIInv == ASSUME IInv, NEW k \in Keys, PushBegin(k) PROVE IInv'
<1> USE QueueAssumption, NoEventAssumption
<1>1. [created |-> now, key |-> k] \in Event
  BY DEF PushBegin, IInv, TypeOK, Event
<1>2. TypeOK'
  BY <1>1 DEF PushBegin, IInv, TypeOK, thread, history
<1>3. RowsFresh'
  <2>1. [created |-> now, key |-> k] \notin events \cup seen \cup served
    BY DEF IInv, RowsFresh, TypeOK
  <2>2. \A e \in inserting \cup events \cup seen \cup served : e.created < now + 1
    BY DEF IInv, RowsFresh, TypeOK, Event
  <2> QED
    BY <2>1, <2>2 DEF PushBegin, IInv, TypeOK, RowsFresh, thread, history
<1>4. (HistoryOK /\ MarkedRowsSeen /\ LastKept)'
  BY DEF PushBegin, IInv, HistoryOK, MarkedRowsSeen, LastKept, thread, history
<1> QED BY <1>2, <1>3, <1>4 DEF IInv

(* A push that becomes visible preserves it. *)
LEMMA PushCommitIInv == ASSUME IInv, NEW e \in inserting, PushCommit(e) PROVE IInv'
  BY DEF PushCommit, IInv, TypeOK, HistoryOK, RowsFresh, MarkedRowsSeen,
         LastKept, thread, history

(* A push that is given up preserves it. *)
LEMMA PushAbortsIInv == ASSUME IInv, NEW e \in inserting, PushAborts(e) PROVE IInv'
  BY DEF PushAborts, IInv, TypeOK, HistoryOK, RowsFresh, MarkedRowsSeen,
         LastKept, thread, history

(* The clock preserves it. *)
LEMMA TickIInv == ASSUME IInv, Tick PROVE IInv'
<1> USE QueueAssumption
<1>1. TypeOK'
  BY DEF Tick, IInv, TypeOK, table, thread, history
<1>2. RowsFresh'
  BY DEF Tick, IInv, TypeOK, RowsFresh, Event, table, thread, history
<1> QED
  BY <1>1, <1>2 DEF Tick, IInv, HistoryOK, MarkedRowsSeen, LastKept, table,
     thread, history

(* reset_in_progress, at a start of the daemon, preserves it. *)
LEMMA StartIInv == ASSUME IInv, Start PROVE IInv'
  BY DEF Start, IInv, TypeOK, HistoryOK, RowsFresh, MarkedRowsSeen, LastKept,
         States, Serving, history

(* Loading the oldest runnable row preserves it. *)
LEMMA SelectFirstIInv == ASSUME IInv, SelectFirst PROVE IInv'
  BY DEF SelectFirst, Runnable, IInv, TypeOK, HistoryOK, RowsFresh,
         MarkedRowsSeen, LastKept, States, Serving, table, history

(* Loading the newest row of its key preserves it. *)
LEMMA SelectLastIInv == ASSUME IInv, SelectLast PROVE IInv'
  BY DEF SelectLast, SameKey, Runnable, IInv, TypeOK, HistoryOK, RowsFresh,
         MarkedRowsSeen, LastKept, States, Serving, table, history

(* mark_in_progress preserves it. *)
LEMMA MarkInProgressIInv == ASSUME IInv, MarkInProgress PROVE IInv'
  BY DEF MarkInProgress, ToMark, IInv, TypeOK, HistoryOK, RowsFresh,
         MarkedRowsSeen, LastKept, States, Serving, history

(* The step that makes MarkedRowsSeen true: marks are rows of the table, and *)
(* the run that begins sees the whole table.                                 *)
LEMMA RunBeginIInv == ASSUME IInv, RunBegin PROVE IInv'
<1>1. TypeOK'
  BY DEF RunBegin, IInv, TypeOK, States, Results, table
<1>2. MarkedRowsSeen'
  BY DEF RunBegin, IInv, TypeOK, MarkedRowsSeen, table
<1> QED
  BY <1>1, <1>2 DEF RunBegin, IInv, TypeOK, HistoryOK, RowsFresh, LastKept,
     Serving, table

(* The end of a handler preserves it, whatever its result. *)
LEMMA RunEndIInv == ASSUME IInv, NEW r \in Results, RunEnd(r) PROVE IInv'
<1>1. TypeOK'
  BY DEF RunEnd, IInv, TypeOK, States, Results, table
<1> QED
  BY <1>1 DEF RunEnd, IInv, TypeOK, HistoryOK, RowsFresh, MarkedRowsSeen,
     LastKept, Serving, table

(* reschedule_event preserves it. *)
LEMMA RescheduleIInv == ASSUME IInv, Reschedule PROVE IInv'
<1> USE QueueAssumption, NoEventAssumption
<1>1. TypeOK'
  BY DEF Reschedule, IInv, TypeOK, States, Results
<1>2. HistoryOK'
  BY DEF Reschedule, IInv, HistoryOK, Serving
<1>3. RowsFresh'
  BY DEF Reschedule, IInv, RowsFresh
<1>4. (MarkedRowsSeen /\ LastKept)'
  BY DEF Reschedule, IInv, TypeOK, MarkedRowsSeen, LastKept, Serving
<1> QED BY <1>1, <1>2, <1>3, <1>4 DEF IInv

(* clear_events preserves it. *)
LEMMA ClearEventsIInv == ASSUME IInv, ClearEvents PROVE IInv'
<1>1. TypeOK'
  <2>1. processAfter' \in [Event -> Nat]
    BY DEF ClearEvents, IInv, TypeOK
  <2>2. /\ pc' \in States /\ result' \in Results /\ closing' \in BOOLEAN
        /\ first' = NoEvent /\ last' = NoEvent /\ pc' \in {"down", "next"}
    BY DEF ClearEvents, States, Results
  <2>3. /\ events' \subseteq Event /\ inProgress' \subseteq events'
        /\ seen' \subseteq Event
    BY DEF ClearEvents, IInv, TypeOK
  <2>4. UNCHANGED <<now, inserting, stops, served>>
    BY DEF ClearEvents
  <2> QED
    BY <2>1, <2>2, <2>3, <2>4 DEF IInv, TypeOK
<1>2. RowsFresh'
  BY DEF ClearEvents, ToClear, IInv, TypeOK, RowsFresh
<1> QED
  BY <1>1, <1>2 DEF ClearEvents, IInv, HistoryOK, MarkedRowsSeen, LastKept,
     Serving

(* A crash of the daemon preserves it. *)
LEMMA CrashIInv == ASSUME IInv, Crash PROVE IInv'
<1>1. TypeOK'
  <2>1. stops' \in 0..MaxStops
    BY QueueAssumption DEF Crash, IInv, TypeOK
  <2>2. result' \in Results /\ pc' \in States /\ closing' \in BOOLEAN
    BY DEF Crash, Results, States
  <2> QED
    BY <2>1, <2>2 DEF Crash, IInv, TypeOK, table
<1> QED
  BY <1>1 DEF Crash, IInv, TypeOK, HistoryOK, RowsFresh, MarkedRowsSeen,
     LastKept, Serving, table

(* A graceful stop preserves it. *)
LEMMA CloseIInv == ASSUME IInv, Close PROVE IInv'
<1>1. TypeOK'
  BY QueueAssumption DEF Close, IInv, TypeOK, States, table, history
<1> QED
  BY <1>1 DEF Close, IInv, TypeOK, HistoryOK, RowsFresh, MarkedRowsSeen,
     LastKept, Serving, table, history

(* A step of nobody preserves it. *)
LEMMA StutterIInv == ASSUME IInv, UNCHANGED vars PROVE IInv'
  BY DEF vars, table, thread, history, IInv, TypeOK, HistoryOK, RowsFresh,
         MarkedRowsSeen, LastKept

(* The invariant of the queue and its poller, over every step of either. *)
THEOREM InductiveInvariant == Spec => []IInv
<1>1. IInv /\ [Next]_vars => IInv'
  BY PushBeginIInv, PushCommitIInv, PushAbortsIInv, TickIInv, StartIInv, SelectFirstIInv,
     SelectLastIInv, MarkInProgressIInv, RunBeginIInv, RunEndIInv,
     RescheduleIInv, ClearEventsIInv, CrashIInv, CloseIInv, StutterIInv
     DEF Next
<1> QED BY InitIInv, <1>1, PTL DEF Spec

(* Type correctness: in particular a row is loaded exactly when the program *)
(* point says so, and only rows of the table are marked in_progress.        *)
THEOREM TypeCorrect == Spec => []TypeOK
<1>1. IInv => TypeOK
  BY DEF IInv
<1> QED BY <1>1, InductiveInvariant, PTL

-----------------------------------------------------------------------------
(* Action properties. *)

(* clear_events deletes only rows the handler has seen. *)
LEMMA ClearDeletesSeen == ASSUME IInv, ClearEvents PROVE events \ events' \subseteq seen
  BY DEF ClearEvents, ToClear, IInv, TypeOK, MarkedRowsSeen, Serving

(* Coalescing never swallows a push that raced with the run: a row leaves   *)
(* the table only after a handler that began once the row was visible has   *)
(* ended, or was killed by a graceful stop.                                 *)
THEOREM NoPushSwallowed == Spec => NothingDroppedUnattended
<1> DEFINE Attended == \A e \in events \ events' : e \in seen /\ (result # "none" \/ closing)
<1>1. IInv /\ [Next]_vars => [Attended]_vars
  <2> SUFFICES ASSUME IInv, Next PROVE Attended
    OBVIOUS
  <2>1. CASE ClearEvents
    BY <2>1, ClearDeletesSeen DEF IInv, HistoryOK, ClearEvents
  <2>2. CASE ~ClearEvents
    <3>1. events \subseteq events'
      BY <2>2 DEF Next, PushBegin, PushCommit, PushAborts, Tick, Start, SelectFirst,
         SelectLast, MarkInProgress, RunBegin, RunEnd, Reschedule, Crash, Close,
         table
    <3> QED BY <3>1
  <2> QED BY <2>1, <2>2
<1> QED BY <1>1, InductiveInvariant, PTL DEF Spec, NothingDroppedUnattended

(* The clear_events that follows reschedule_event keeps the retried row. *)
THEOREM RetryKeepsRow == Spec => RescheduledRowSurvives
<1> DEFINE Kept == pc = "clear" /\ result = "retried" => last \in events'
<1>1. IInv /\ [Next]_vars => [Kept]_vars
  <2> SUFFICES ASSUME IInv, Next, pc = "clear", result = "retried"
               PROVE last \in events'
    OBVIOUS
  <2>1. last \in events /\ last \notin inProgress
    BY NoEventAssumption DEF IInv, TypeOK, LastKept
  <2>2. CASE ClearEvents
    BY <2>1, <2>2 DEF ClearEvents, ToClear
  <2>3. CASE ~ClearEvents
    BY <2>1, <2>3 DEF Next, PushBegin, PushCommit, PushAborts, Tick, Start, SelectFirst,
       SelectLast, MarkInProgress, RunBegin, RunEnd, Reschedule, Crash, Close,
       table
  <2> QED BY <2>2, <2>3
<1> QED BY <1>1, InductiveInvariant, PTL DEF Spec, RescheduledRowSurvives

(* mark_in_progress reaches the row that is run, unless the oldest row of    *)
(* its key is a retry.                                                      *)
RunMarked ==
  /\ pc = "mark" => last.key = first.key /\ last \notin inProgress
  /\ pc \in {"create"} \cup Serving =>
       last \in inProgress \/ result = "retried" \/ processAfter[first] # Null

(* Each step keeps the row that is run marked. *)
LEMMA RunMarkedKept == ASSUME IInv, RunMarked, [Next]_vars PROVE RunMarked'
<1> USE DEF Serving
<1>1. CASE MarkInProgress
  <2>1. last \in events
    BY <1>1, NoEventAssumption DEF IInv, TypeOK, LastKept, MarkInProgress
  <2>2. processAfter[first] = Null => last \in ToMark(first)
    BY <1>1, <2>1 DEF ToMark, RunMarked, MarkInProgress
  <2> QED BY <1>1, <2>2 DEF MarkInProgress, RunMarked
<1>2. CASE Reschedule
  <2>1. first \in Event /\ last \in Event /\ now \in Nat /\ processAfter \in [Event -> Nat]
    BY <1>2 DEF IInv, TypeOK, Reschedule
  <2>2. now + RetryDelay # Null
    BY <2>1, QueueAssumption
  <2>3. result # "retried"
    BY <1>2 DEF IInv, LastKept, Reschedule
  <2> QED BY <1>2, <2>1, <2>2, <2>3 DEF Reschedule, RunMarked
<1>3. CASE SelectLast
  BY <1>3 DEF SelectLast, SameKey, Runnable, RunMarked, table
<1>4. CASE ClearEvents \/ Crash \/ Start \/ SelectFirst
  BY <1>4 DEF ClearEvents, Crash, Start, SelectFirst, RunMarked
<1>5. CASE RunBegin \/ (\E r \in Results : RunEnd(r)) \/ Close
  BY <1>5 DEF RunBegin, RunEnd, Close, RunMarked, table, IInv, HistoryOK
<1>6. CASE Tick \/ (\E k \in Keys : PushBegin(k)) \/ (\E e \in inserting : PushCommit(e) \/ PushAborts(e)) \/ UNCHANGED vars
  BY <1>6 DEF Tick, PushBegin, PushCommit, PushAborts, vars, table, thread, RunMarked
<1> QED BY <1>1, <1>2, <1>3, <1>4, <1>5, <1>6 DEF Next

(* A handled row goes, unless a retry was asked for or stands in its way:   *)
(* nothing else, in any interleaving of pushes with the statements of the   *)
(* poller, makes an event run once more.                                    *)
THEOREM NoRedundantRun == Spec => HandledRowGone
<1> DEFINE Gone == ClearEvents /\ last \in events' => result = "retried" \/ processAfter[first] # Null
<1>1. Init => RunMarked
  BY DEF Init, RunMarked, Serving
<1>2. IInv /\ RunMarked /\ [Next]_vars => RunMarked'
  BY RunMarkedKept
<1>3. IInv /\ RunMarked /\ [Next]_vars => [Gone]_vars
  <2> SUFFICES ASSUME IInv, RunMarked, ClearEvents, last \in events'
               PROVE  result = "retried" \/ processAfter[first] # Null
    OBVIOUS
  <2>1. last \in Event
    BY DEF IInv, TypeOK, ClearEvents
  <2>2. last \notin inProgress
    BY <2>1 DEF ClearEvents, ToClear, Event
  <2> QED BY <2>2 DEF RunMarked, ClearEvents, Serving
<1> QED BY <1>1, <1>2, <1>3, InductiveInvariant, PTL DEF Spec, HandledRowGone

-----------------------------------------------------------------------------
(* Refinement of EventSignal. *)

(* The empty table owes no signal. *)
LEMMA InitRefines == Init => Signal!SigInit
  BY DEF Init, Signal!SigInit

(* A handler begins: every row of its key is seen, so nothing of the key is *)
(* owed any more, and the other keys are owed what they were.               *)
LEMMA RunBeginRefines ==
  ASSUME IInv, RunBegin PROVE \E k \in Keys : Signal!Begin(k)
<1>1. last \in Event /\ last.key \in Keys
  BY NoEventAssumption DEF IInv, TypeOK, RunBegin, Event
<1>2. seen = {}
  BY DEF IInv, HistoryOK, RunBegin, Serving
<1>3. {e.key : e \in events \ (served' \cup seen')}
        = {e.key : e \in events \ (served \cup seen)} \ {last.key}
  BY <1>2 DEF RunBegin
<1> QED
  BY <1>1, <1>3 DEF RunBegin, table, Signal!Begin

(* A push commits: the key is owed, even if a run of it is under way. *)
LEMMA PushCommitRefines ==
  ASSUME IInv, NEW e \in inserting, PushCommit(e) PROVE \E k \in Keys : Signal!Raise(k)
<1>1. e.key \in Keys
  BY DEF IInv, TypeOK, Event
<1>2. e \notin served \cup seen
  BY DEF IInv, RowsFresh
<1>3. {f.key : f \in events' \ (served \cup seen)}
        = {f.key : f \in events \ (served \cup seen)} \cup {e.key}
  BY <1>2 DEF PushCommit
<1> QED BY <1>1, <1>3 DEF PushCommit, thread, history, Signal!Raise

(* A run ends: the rows deleted were seen, so the key is owed again or not, *)
(* and no other key changes.                                                *)
LEMMA EndRefines ==
  ASSUME IInv, pc \in Serving, pc' \notin Serving, seen' = {}, served' = served,
         events \ events' \subseteq seen, events' \subseteq events
  PROVE  Signal!End
<1> DEFINE owed == {e.key : e \in events \ (served \cup seen)}
           owedNext == {e.key : e \in events' \ (served' \cup seen')}
<1>1. last \in Event /\ last.key \in Keys /\ last.key # NoEvent
  BY NoEventAssumption DEF IInv, TypeOK, Event, Serving
<1>2. \A e \in seen : e.key = last.key
  BY DEF IInv, HistoryOK
<1>3. owed \subseteq owedNext /\ owedNext \subseteq owed \cup {last.key}
  BY <1>2
<1>4. owedNext \in {owed, owed \cup {last.key}}
  BY <1>3
<1> HIDE DEF owed, owedNext
<1> QED BY <1>1, <1>4 DEF Signal!End, Serving, owed, owedNext

(* A crash outside of a handler is no step of the signal. *)
LEMMA IdleCrashRefines ==
  ASSUME IInv, Crash, pc \notin Serving PROVE UNCHANGED Signal!sigVars
  BY DEF Crash, IInv, HistoryOK, Serving, table, Signal!sigVars

(* A handler that ends before clear_events is no step of the signal. *)
LEMMA RunEndRefines ==
  ASSUME IInv, NEW r \in Results, RunEnd(r) PROVE UNCHANGED Signal!sigVars
  BY DEF RunEnd, table, Signal!sigVars

(* reschedule_event is no step of the signal. *)
LEMMA RescheduleRefines == ASSUME IInv, Reschedule PROVE UNCHANGED Signal!sigVars
  BY DEF Reschedule, Signal!sigVars

(* The other steps of the poller are none either. *)
LEMMA IdleRefines ==
  ASSUME IInv,
         Tick \/ Start \/ SelectFirst \/ SelectLast \/ MarkInProgress \/ Close
           \/ (\E k \in Keys : PushBegin(k)) \/ (\E e \in inserting : PushAborts(e))
           \/ UNCHANGED vars
  PROVE  UNCHANGED Signal!sigVars
  BY DEF Tick, Start, SelectFirst, SelectLast, MarkInProgress, Close, PushBegin, PushAborts,
         vars, table, thread, history, Signal!sigVars

(* The table, the marks and the retries implement a level-triggered signal: *)
(* what pushers rely on whichever way the poller coalesces, retries or dies. *)
THEOREM QueueIsASignal == Spec => ImplementsSignal
<1>1. IInv /\ [Next]_vars => [Signal!SigNext]_(Signal!sigVars)
  <2> SUFFICES ASSUME IInv, [Next]_vars
               PROVE  Signal!SigNext \/ UNCHANGED Signal!sigVars
    OBVIOUS
  <2>1. ASSUME NEW e \in inserting, PushCommit(e) PROVE Signal!SigNext
    BY <2>1, PushCommitRefines DEF Signal!SigNext
  <2>2. CASE RunBegin
    BY <2>2, RunBeginRefines DEF Signal!SigNext
  <2>3. CASE ClearEvents
    <3>1. Signal!End
      BY <2>3, ClearDeletesSeen, EndRefines DEF ClearEvents, Serving
    <3> QED BY <3>1 DEF Signal!SigNext
  <2>4. CASE Crash /\ pc \in Serving
    <3>1. Signal!End
      BY <2>4, EndRefines DEF Crash, Serving, table
    <3> QED BY <3>1 DEF Signal!SigNext
  <2> QED
    BY <2>1, <2>2, <2>3, <2>4, IdleCrashRefines, RunEndRefines,
       RescheduleRefines, IdleRefines DEF Next
<1> QED
  BY InitRefines, <1>1, InductiveInvariant, PTL DEF Spec, ImplementsSignal, Signal!SigSpec
=============================================================================
