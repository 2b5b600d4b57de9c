---------------------- MODULE ApplicabilityEventsProofs ----------------------
(***************************************************************************)
(* Proofs that Applicability over the table of the events implements        *)
(* Applicability over the signal, for any hosts, repositories, keys, times  *)
(* and bounds, so that what is proved of the one holds of the other.        *)
(*                                                                         *)
(* The argument: the handler is between its begin and its end exactly when  *)
(* the poller is inside a run of Gen (InStep); then the signal of Gen is    *)
(* owed exactly when the table has a row of Gen that this run has not seen   *)
(* and no run has answered.                                                 *)
(***************************************************************************)
EXTENDS ApplicabilityEvents, EventQueueProofs

AP == INSTANCE ApplicabilityProofs
        WITH NoKey   <- NoEvent,
             owed    <- {e.key : e \in events \ (served \cup seen)} \cap {Gen},
             serving <- IF InHandler THEN Gen ELSE NoEvent

(* The handler and the poller go together. *)
InStep ==
  /\ handler # "idle" <=> InHandler
  /\ InHandler => (handler = "stopping" <=> closing) /\ last \notin served
  /\ closing => pc = "clear"
  /\ pc = "reschedule" \/ result \in {"retry", "retried"} => last.key \in Retryable
  /\ row \in [Pushers -> {e \in Event : e.key = Gen} \cup {NoEvent}]

-----------------------------------------------------------------------------
(* The table behaves as EventQueue says, whatever the application does. *)
THEOREM QueueRuns == SystemSpec => Spec
<1>1. SystemInit => Init
  BY DEF SystemInit
<1>2. [SystemNext]_systemVars => [Next]_vars
  <2> SUFFICES ASSUME SystemNext PROVE Next \/ UNCHANGED vars
    BY DEF systemVars
  <2>1. ASSUME NEW p \in Pushers, BuildsRow(p) \/ CommitsRow(p) \/ Fails(p) PROVE Next \/ UNCHANGED vars
    <3>1. Gen \in Keys
      BY SystemAssumption
    <3>2. BuildsRow(p) => PushBegin(Gen)
      BY DEF BuildsRow
    <3>3. CommitsRow(p) => row[p] \in inserting /\ PushCommit(row[p])
      BY DEF CommitsRow, PushCommit
    <3>4. Fails(p) => UNCHANGED vars \/ (row[p] \in inserting /\ PushAborts(row[p]))
      BY DEF Fails, PushAborts
    <3> QED  BY <2>1, <3>1, <3>2, <3>3, <3>4 DEF Next
  <2>2. ASSUME RunBegins \/ RunEnds \/ Closes \/ Clears \/ Crashes PROVE Next
    <3>1. "ok" \in Results /\ "fail" \in Results
      BY DEF Results
    <3> QED  BY <2>2, <3>1 DEF RunBegins, RunEnds, Closes, Clears, Crashes, Next
  <2>3. ASSUME QueueStep PROVE Next
    BY <2>3 DEF QueueStep, Next
  <2>4. ASSUME AppStep PROVE UNCHANGED vars
    BY <2>4 DEF AppStep
  <2> QED  BY <2>1, <2>2, <2>3, <2>4 DEF SystemNext
<1> QED  BY <1>1, <1>2, PTL DEF SystemSpec, Spec

(* What holds of the table holds of the system. *)
LEMMA TableInv == SystemSpec => []IInv
BY QueueRuns, InductiveInvariant, PTL

-----------------------------------------------------------------------------
(* The handler and the poller stay in step. *)

(* The thread, and what it has answered. *)
Poll == <<pc, last, result, closing, served>>

(* The row of a pusher is one of Gen, or none. *)
LEMMA RowBuilt == ASSUME IInv, now < MaxPushTime PROVE [created |-> now, key |-> Gen] \in {e \in Event : e.key = Gen}
<1>1. now \in 1..MaxTime
  BY QueueAssumption DEF IInv, TypeOK
<1> QED  BY <1>1, SystemAssumption DEF Event

(* Pushers. *)
LEMMA PushersKeepStep ==
  ASSUME IInv, InStep, NEW p \in Pushers, BuildsRow(p) \/ CommitsRow(p) \/ Fails(p)
  PROVE  InStep'
<1>1. handler' = handler
  BY DEF BuildsRow, CommitsRow, Fails, app, A!UploadPushes, A!RegenPushes, A!RequestDies, A!RegenerateFails, A!run
<1>2. UNCHANGED Poll
  BY DEF BuildsRow, CommitsRow, Fails, PushBegin, PushCommit, PushAborts, vars, thread, history, Poll
<1>3. row' \in [Pushers -> {e \in Event : e.key = Gen} \cup {NoEvent}]
  BY RowBuilt DEF BuildsRow, PushBegin, CommitsRow, Fails, InStep
<1> QED  BY <1>1, <1>2, <1>3 DEF InStep, InHandler, Poll

(* The application, but for the begin and the end of the handler. *)
LEMMA AppKeepsStep ==
  ASSUME InStep, AppStep
  PROVE  InStep'
<1>1. UNCHANGED Poll /\ row' = row
  BY DEF AppStep, vars, thread, history, Poll
<1>2. handler' = handler \/ {handler, handler'} \subseteq {"check", "delete", "create"}
  BY DEF AppStep, A!StartTask, A!TaskStep, A!SaveVersion, A!IndexContent, A!FinalizeRemove, A!TaskFails,
         A!SaveFails, A!IndexFails, A!RemoveFails, A!RegenSelect, A!RegenPushHosts, A!RegenStamp, A!Upload,
         A!UploadPushHosts, A!PopSelect, A!PopDelete, A!CreateTask, A!WorkerStep, A!TakeJob, A!Compare,
         A!Import, A!EvaluationFails, A!run
<1>3. handler' # handler => handler # "idle" /\ handler' # "idle" /\ handler # "stopping" /\ handler' # "stopping"
  BY <1>2
<1> QED  BY <1>1, <1>3 DEF InStep, InHandler, Poll

(* The steps of the poller that no handler takes part in. *)
LEMMA QueueKeepsStep ==
  ASSUME IInv, InStep, QueueStep
  PROVE  InStep'
<1>1. handler' = handler /\ row' = row
  BY DEF QueueStep, app
<1>2. CASE (\E k \in Keys \ {Gen} : PushBegin(k)) \/ (\E e \in inserting : PushCommit(e) \/ PushAborts(e)) \/ Tick
  <2>1. UNCHANGED Poll
    BY <1>2 DEF PushBegin, PushCommit, PushAborts, Tick, thread, history, Poll
  <2> QED  BY <1>1, <2>1 DEF InStep, InHandler, Poll
<1>3. CASE Start \/ SelectFirst \/ SelectLast \/ MarkInProgress
  <2>1. ~InHandler /\ ~InHandler' /\ closing' = closing /\ ~closing /\ pc' # "reschedule" /\ result' = result
    BY <1>3 DEF Start, SelectFirst, SelectLast, MarkInProgress, InStep, InHandler
  <2>2. result = "none"
    BY <1>3 DEF Start, SelectFirst, SelectLast, MarkInProgress, IInv, HistoryOK
  <2> QED  BY <1>1, <2>1, <2>2 DEF InStep
<1>4. CASE Reschedule
  <2>1. ~InHandler /\ ~InHandler' /\ last' = last /\ closing' = closing /\ ~closing /\ pc' # "reschedule"
        /\ last.key \in Retryable
    BY <1>4 DEF Reschedule, InStep, InHandler
  <2> QED  BY <1>1, <2>1 DEF InStep
<1> QED  BY <1>2, <1>3, <1>4 DEF QueueStep

(* The begin and the end of a run. *)
LEMMA RunKeepsStep ==
  ASSUME IInv, InStep, RunBegins \/ RunEnds \/ Closes \/ Clears \/ Crashes
  PROVE  InStep'
<1> USE NoEventAssumption
<1>1. CASE RunBegins
  <2>1. /\ pc = "create" /\ pc' = "run" /\ UNCHANGED <<last, closing, row>> /\ ~closing /\ result' = "none"
        /\ last # NoEvent /\ last \in events
    BY <1>1 DEF RunBegins, RunBegin, InStep, IInv, TypeOK, LastKept
  <2>2. last \notin served'
    BY <1>1, <2>1 DEF RunBegins, RunBegin
  <2>3. handler = "idle" /\ InHandler' = (last.key = Gen)
    BY <2>1 DEF InStep, InHandler
  <2>4. handler' = IF last.key = Gen THEN "check" ELSE "idle"
    BY <1>1, <2>3 DEF RunBegins, app, A!Starts
  <2> QED  BY <2>1, <2>2, <2>3, <2>4 DEF InStep
<1>2. CASE RunEnds
  <2>1. PICK r \in Results : RunEnd(r)
    BY <1>2 DEF RunEnds, Results
  <2>2. /\ pc = "run" /\ UNCHANGED <<last, closing, row>> /\ ~closing /\ ~InHandler'
        /\ (result' = "retry" \/ pc' = "reschedule" => r = "retry") /\ result' # "retried"
    BY <1>2, <2>1 DEF RunEnds, RunEnd, InStep, InHandler
  <2>3. r = "retry" => last.key \in Retryable
    BY <2>1 DEF RunEnd
  <2>4. handler' = "idle"
    BY <1>2 DEF RunEnds, A!FindsEmpty, A!Raises, A!Returns, app, InStep
  <2> QED  BY <2>2, <2>3, <2>4 DEF InStep
<1>3. CASE Closes
  <2>1. /\ pc = "run" /\ pc' = "clear" /\ closing' /\ UNCHANGED <<last, result, served, row>>
        /\ InHandler' = InHandler /\ result = "none"
    BY <1>3 DEF Closes, Close, history, InHandler, IInv, HistoryOK
  <2>2. handler' = IF InHandler THEN "stopping" ELSE handler
    BY <1>3 DEF Closes, app, A!HandlerKilled
  <2> QED  BY <2>1, <2>2 DEF InStep
<1>4. CASE Clears \/ Crashes
  <2>1. last' = NoEvent /\ ~closing' /\ pc' # "reschedule" /\ result' = "none" /\ row' = row
    BY <1>4 DEF Clears, ClearEvents, Crashes, Crash
  <2>2. handler' = "idle"
    BY <1>4 DEF Clears, Crashes, A!Stops, A!Dies, A!Returns, app, InStep
  <2> QED  BY <2>1, <2>2 DEF InStep, InHandler
<1> QED  BY <1>1, <1>2, <1>3, <1>4

(* The handler is in its run exactly when the poller is. *)
THEOREM HandlerInStep == SystemSpec => []InStep
<1>1. SystemInit => InStep
  BY DEF SystemInit, Init, A!Init, InStep, InHandler
<1>2. InStep /\ IInv /\ [SystemNext]_systemVars => InStep'
  <2> SUFFICES ASSUME InStep, IInv, [SystemNext]_systemVars PROVE InStep'
    OBVIOUS
  <2>1. CASE UNCHANGED systemVars
    <3>1. UNCHANGED Poll /\ UNCHANGED <<handler, row>>
      BY <2>1 DEF systemVars, vars, thread, history, app, Poll
    <3> QED  BY <3>1 DEF InStep, InHandler, Poll
  <2> QED  BY <2>1, PushersKeepStep, AppKeepsStep, QueueKeepsStep, RunKeepsStep DEF SystemNext
<1> QED  BY <1>1, <1>2, TableInv, PTL DEF SystemSpec

-----------------------------------------------------------------------------
(* Refinement: every step is one of Applicability over the signal, or none. *)

(* The signal, as the table shows it. *)
Due == {e.key : e \in events \ (served \cup seen)} \cap {Gen}
Held == IF InHandler THEN Gen ELSE NoEvent

(* Gen is owed, and its handler is running, as they were. *)
SameSignal == Due' = Due /\ Held' = Held

(* Without the application a step is none, if it leaves the signal alone. *)
LEMMA Unseen ==
  ASSUME UNCHANGED app, SameSignal
  PROVE  UNCHANGED A!vars
BY DEF app, SameSignal, Due, Held, A!vars, A!content, A!task, A!regens, A!signal, A!run, A!work, A!counts,
       A!history

(* A row of another key, or one that is not committed, is none of Gen. *)
LEMMA TableKeepsSignal ==
  ASSUME IInv, InStep, QueueStep
  PROVE  SameSignal
<1> USE DEF SameSignal, Due, Held
<1>1. CASE (\E k \in Keys \ {Gen} : PushBegin(k)) \/ (\E e \in inserting : PushAborts(e)) \/ Tick
  BY <1>1 DEF PushBegin, PushAborts, Tick, table, thread, history, InHandler
<1>2. ASSUME NEW e \in inserting, e.key # Gen, PushCommit(e) PROVE SameSignal
  BY <1>2 DEF PushCommit, thread, history, InHandler
<1>3. CASE Start \/ SelectFirst \/ SelectLast \/ MarkInProgress
  <2>1. ~InHandler /\ ~InHandler'
    BY <1>3 DEF Start, SelectFirst, SelectLast, MarkInProgress, InStep, InHandler
  <2> QED  BY <1>3, <2>1 DEF Start, SelectFirst, SelectLast, MarkInProgress, table, history
<1>4. CASE Reschedule
  <2>1. ~InHandler /\ ~InHandler' /\ last.key # Gen
    BY <1>4, SystemAssumption DEF Reschedule, InStep, InHandler
  <2>2. \A e \in seen : e.key # Gen
    BY <2>1 DEF IInv, HistoryOK
  <2>3. events' = events /\ seen' = seen /\ (served' = served \/ served' = served \cup seen)
    BY <1>4 DEF Reschedule
  <2> QED  BY <2>1, <2>2, <2>3
<1> QED  BY <1>1, <1>2, <1>3, <1>4 DEF QueueStep

(* The push of a row raises the signal when it commits. *)
LEMMA PushersRefine ==
  ASSUME IInv, InStep, NEW p \in Pushers, BuildsRow(p) \/ CommitsRow(p) \/ Fails(p)
  PROVE  A!Next \/ UNCHANGED A!vars
<1>1. CASE BuildsRow(p)
  <2>1. SameSignal /\ UNCHANGED app
    BY <1>1 DEF BuildsRow, PushBegin, thread, history, InHandler, SameSignal, Due, Held
  <2> QED  BY <2>1, Unseen
<1>2. CASE CommitsRow(p)
  <2>1. row[p] \in inserting /\ row[p].key = Gen /\ row[p] \notin served \cup seen
    BY <1>2 DEF CommitsRow, PushCommit, InStep, IInv, RowsFresh
  <2>2. events' = events \cup {row[p]} /\ UNCHANGED <<pc, last, closing, seen, served>>
    BY <1>2 DEF CommitsRow, PushCommit, thread, history
  <2>3. Due' = Due \cup {Gen} /\ Held' = Held
    BY <2>1, <2>2 DEF Due, Held, InHandler
  <2>4. A!Signal!Raise(Gen)
    BY <2>3 DEF A!Signal!Raise, Due, Held
  <2>5. CASE p \in Hosts
    BY <1>2, <2>4, <2>5 DEF CommitsRow, A!Next, A!UploadStep, A!UploadPushEvent
  <2>6. CASE p \in A!Regenerates /\ p \notin Hosts
    BY <1>2, <2>4, <2>6 DEF CommitsRow, A!Next, A!RegenStep, A!RegenPushEvent
  <2> QED  BY <2>5, <2>6 DEF Pushers
<1>3. CASE Fails(p)
  <2>1. CASE p \in Hosts
    BY <1>3, <2>1 DEF Fails, A!Next
  <2>2. CASE p \in A!Regenerates /\ p \notin Hosts
    BY <1>3, <2>2 DEF Fails, A!Next
  <2> QED  BY <2>1, <2>2 DEF Pushers
<1> QED  BY <1>1, <1>2, <1>3

(* The handler begins with every row of Gen seen. *)
LEMMA BeginRefines ==
  ASSUME IInv, InStep, RunBegins
  PROVE  A!Next \/ UNCHANGED A!vars
<1>1. /\ pc = "create" /\ pc' = "run" /\ UNCHANGED <<events, last, closing>> /\ ~closing
      /\ last # NoEvent /\ seen = {}
      /\ seen' = {e \in events : e.key = last.key} /\ served' = served \ seen'
  BY NoEventAssumption DEF RunBegins, RunBegin, table, InStep, IInv, TypeOK, HistoryOK, Serving
<1>2. Held = NoEvent /\ (last.key = Gen => Held' = Gen) /\ (last.key # Gen => Held' = Held)
  BY <1>1 DEF Held, InHandler
<1>3. CASE last.key = Gen
  <2>1. Due' = Due \ {Gen}
    BY <1>1, <1>3 DEF Due
  <2>2. A!Signal!Begin(Gen)
    BY <1>2, <1>3, <2>1 DEF A!Signal!Begin, Due, Held
  <2>3. A!HandlerBegins
    BY <1>3, <2>2 DEF RunBegins, A!HandlerBegins
  <2> QED  BY <2>3 DEF A!Next, A!HandlerStep
<1>4. CASE last.key # Gen
  <2>1. SameSignal
    BY <1>1, <1>2, <1>4 DEF SameSignal, Due
  <2> QED  BY <1>4, <2>1, Unseen DEF RunBegins
<1> QED  BY <1>3, <1>4

(* The end of the handler of Gen. *)
LEMMA EndsSignal ==
  ASSUME InHandler, ~InHandler', Due' \in {Due, Due \cup {Gen}}
  PROVE  A!Signal!End
<1>1. Held = Gen /\ Held' = NoEvent /\ Gen # NoEvent
  BY NoEventAssumption, SystemAssumption DEF Held
<1> QED  BY <1>1 DEF A!Signal!End, Due, Held

(* The handler finds the queue empty, or raises. *)
LEMMA RunEndsRefine ==
  ASSUME IInv, InStep, RunEnds
  PROVE  A!Next \/ UNCHANGED A!vars
<1>1. PICK r \in Results : RunEnd(r)
  BY DEF RunEnds, Results
<1>2. ~InHandler' /\ UNCHANGED <<events, last, seen>> /\ served' \in {served, served \cup seen}
  BY <1>1 DEF RunEnd, table, InStep, InHandler
<1>3. Due' = Due
  BY <1>2 DEF Due
<1>4. CASE InHandler
  <2>1. A!Signal!End
    BY <1>2, <1>3, <1>4, EndsSignal
  <2>2. A!Drained \/ A!HandlerFails
    BY <1>3, <1>4, <2>1 DEF RunEnds, A!Drained, A!HandlerFails, Due
  <2> QED  BY <2>2 DEF A!Next, A!HandlerStep, A!HandlerFault
<1>5. CASE ~InHandler
  BY <1>2, <1>3, <1>5, Unseen DEF RunEnds, SameSignal, Held
<1> QED  BY <1>4, <1>5

(* Thread#kill. *)
LEMMA ClosesRefine ==
  ASSUME IInv, InStep, Closes
  PROVE  A!Next \/ UNCHANGED A!vars
<1>1. CASE InHandler
  BY <1>1 DEF Closes, A!Next, A!HandlerFault
<1>2. CASE ~InHandler
  <2>1. SameSignal
    BY <1>2 DEF Closes, Close, table, history, InHandler, SameSignal, Due, Held
  <2> QED  BY <1>2, <2>1, Unseen DEF Closes
<1> QED  BY <1>1, <1>2

(* Rows leave after a run that has seen them: Gen is owed what it was, or    *)
(* the rows of a run that was cut short.                                    *)
LEMMA LeavingRows ==
  ASSUME IInv, InStep, seen' = {}, served' = served, last' = NoEvent,
         events' \subseteq events, events \ events' \subseteq seen
  PROVE  /\ ~InHandler'
         /\ Due' \in {Due, Due \cup {Gen}}
         /\ ~InHandler /\ (pc = "clear" \/ seen = {} \/ last.key # Gen) => Due' = Due
<1>1. ~InHandler'
  BY DEF InHandler
<1>2. Due \subseteq Due' /\ Due' \subseteq {Gen}
  BY DEF Due
<1>3. ASSUME ~InHandler, pc = "clear" \/ seen = {} \/ last.key # Gen PROVE Due' = Due
  <2>1. CASE seen = {}
    BY <2>1 DEF Due
  <2>2. CASE last.key # Gen
    <3>1. \A e \in seen : e.key # Gen
      BY <2>2 DEF IInv, HistoryOK
    <3> QED  BY <3>1 DEF Due
  <2>3. CASE pc = "clear" /\ last.key = Gen
    <3>1. last # NoEvent /\ ~closing
      BY <1>3, <2>3, NoEventAssumption DEF IInv, TypeOK, InHandler
    <3>2. result \in {"ok", "fail", "expired"}
      <4>1. result \notin {"retry", "retried"}
        BY <2>3, SystemAssumption DEF InStep
      <4> QED  BY <2>3, <3>1, <4>1 DEF IInv, TypeOK, HistoryOK, Results
    <3>3. seen \subseteq served
      BY <3>2 DEF IInv, HistoryOK
    <3> QED  BY <3>3 DEF Due
  <2> QED  BY <1>3, <2>1, <2>2, <2>3
<1> QED  BY <1>1, <1>2, <1>3

(* clear_events. *)
LEMMA ClearsRefine ==
  ASSUME IInv, InStep, Clears
  PROVE  A!Next \/ UNCHANGED A!vars
<1>1. /\ ~InHandler' /\ Due' \in {Due, Due \cup {Gen}}
      /\ ~InHandler => Due' = Due
  BY LeavingRows, ClearDeletesSeen DEF Clears, ClearEvents
<1>2. CASE InHandler
  <2>1. A!HandlerStopped
    BY <1>1, <1>2, EndsSignal DEF Clears, A!HandlerStopped
  <2> QED  BY <2>1 DEF A!Next, A!HandlerStep
<1>3. CASE ~InHandler
  BY <1>1, <1>3, Unseen DEF Clears, SameSignal, Held
<1> QED  BY <1>2, <1>3

(* A crash: the row that is run stays, and is owed again. *)
LEMMA CrashesRefine ==
  ASSUME IInv, InStep, Crashes
  PROVE  A!Next \/ UNCHANGED A!vars
<1>1. seen' = {} /\ served' = served /\ last' = NoEvent /\ events' = events
  BY DEF Crashes, Crash, table
<1>2. ~InHandler' /\ Due' \in {Due, Due \cup {Gen}}
  BY <1>1, LeavingRows
<1>3. CASE InHandler
  <2>1. last \in events \ served /\ last.key = Gen
    BY <1>3 DEF IInv, LastKept, InStep, InHandler
  <2>2. Due' = Due \cup {Gen}
    BY <1>1, <1>2, <2>1 DEF Due
  <2>3. A!Signal!End
    BY <1>2, <1>3, EndsSignal
  <2>4. A!HandlerCrashes
    BY <1>3, <2>2, <2>3 DEF Crashes, A!HandlerCrashes, Due
  <2> QED  BY <2>4 DEF A!Next, A!HandlerFault
<1>4. CASE ~InHandler
  <2>1. pc = "clear" \/ seen = {} \/ last.key # Gen
    <3>1. CASE pc \in {"run", "reschedule"}
      BY <1>4, <3>1, NoEventAssumption, SystemAssumption DEF InStep, InHandler, IInv, TypeOK
    <3>2. CASE pc \notin {"run", "reschedule", "clear"}
      BY <3>2 DEF IInv, HistoryOK, Serving
    <3> QED  BY <3>1, <3>2
  <2>2. Due' = Due
    BY <1>1, <1>4, <2>1, LeavingRows
  <2> QED  BY <1>2, <1>4, <2>2, Unseen DEF Crashes, SameSignal, Held
<1> QED  BY <1>3, <1>4

(* The steps of the application alone. *)
LEMMA AppRefines == ASSUME AppStep PROVE A!Next
BY DEF AppStep, A!Next, A!RegenStep, A!UploadStep, A!HandlerStep

-----------------------------------------------------------------------------
(* The instance the model names and the one that has the proofs. *)

(* They have the same steps. *)
LEMMA SameNext == [A!Next]_(A!vars) <=> [AP!Next]_(AP!vars)
<1> USE DEF A!content, A!task, A!regens, A!signal, A!run, A!work, A!counts, A!history,
            AP!content, AP!task, AP!regens, AP!signal, AP!run, AP!work, AP!counts, AP!history
<1>1. ASSUME NEW t, NEW k PROVE A!StartTask(t, k) <=> AP!StartTask(t, k)
  BY DEF A!StartTask, A!Room, A!Unlocked, AP!StartTask, AP!Room, AP!Unlocked
<1>2. ASSUME NEW t PROVE A!SaveVersion(t) <=> AP!SaveVersion(t)
  BY DEF A!SaveVersion, A!AfterSave, A!ContentsChanged, A!Advance, A!Units, AP!SaveVersion,
         AP!AfterSave, AP!ContentsChanged, AP!Advance, AP!Units
<1>3. ASSUME NEW t PROVE (A!IndexContent(t) \/ A!FinalizeRemove(t)) <=> (AP!IndexContent(t) \/ AP!FinalizeRemove(t))
  BY DEF A!IndexContent, A!FinalizeRemove, A!TablesChange, A!InFlight, A!Regenerates, A!HostsOf,
         A!AfterIndex, A!Advance, AP!IndexContent, AP!FinalizeRemove, AP!TablesChange, AP!InFlight,
         AP!Regenerates, AP!HostsOf, AP!AfterIndex, AP!Advance
<1>4. ASSUME NEW t PROVE A!TaskFails(t) <=> AP!TaskFails(t)
  BY DEF A!TaskFails, A!SaveFails, A!IndexFails, A!RemoveFails, A!ContentsChanged, A!TablesChange,
         A!InFlight, A!Regenerates, A!HostsOf, A!AfterSave, A!AfterIndex, A!Advance, AP!TaskFails,
         AP!SaveFails, AP!IndexFails, AP!RemoveFails, AP!ContentsChanged, AP!TablesChange,
         AP!InFlight, AP!Regenerates, AP!HostsOf, AP!AfterSave, AP!AfterIndex, AP!Advance
<1>5. ASSUME NEW x PROVE A!RegenSelect(x) <=> AP!RegenSelect(x)
  BY DEF A!RegenSelect, A!Room, A!NeedsRegen, A!After, A!Advance, A!HostsOf, AP!RegenSelect,
         AP!Room, AP!NeedsRegen, AP!After, AP!Advance, AP!HostsOf
<1>6. ASSUME NEW x PROVE A!RegenStep(x) <=> AP!RegenStep(x)
  BY DEF A!RegenStep, A!RegenPushHosts, A!RegenPushEvent, A!RegenPushes, A!RegenStamp,
         A!Signal!Raise, A!After, A!Advance, A!HostsOf, AP!RegenStep, AP!RegenPushHosts,
         AP!RegenPushEvent, AP!RegenPushes, AP!RegenStamp, AP!Signal!Raise, AP!After, AP!Advance,
         AP!HostsOf
<1>7. ASSUME NEW x PROVE A!RegenerateFails(x) <=> AP!RegenerateFails(x)
  BY DEF A!RegenerateFails, A!Hit, A!Room, A!Advance, A!HostsOf, AP!RegenerateFails, AP!Hit,
         AP!Room, AP!Advance, AP!HostsOf
<1>8. ASSUME NEW h PROVE (A!Upload(h) \/ A!UploadStep(h)) <=> (AP!Upload(h) \/ AP!UploadStep(h))
  BY DEF A!Upload, A!UploadStep, A!UploadPushHosts, A!UploadPushEvent, A!UploadPushes,
         A!Signal!Raise, A!Room, AP!Upload, AP!UploadStep, AP!UploadPushHosts, AP!UploadPushEvent,
         AP!UploadPushes, AP!Signal!Raise, AP!Room
<1>9. ASSUME NEW h PROVE A!RequestDies(h) <=> AP!RequestDies(h)
  BY DEF A!RequestDies, A!Hit, A!Room, AP!RequestDies, AP!Hit, AP!Room
<1>10. A!HandlerStep <=> AP!HandlerStep
  <2>1. A!HandlerBegins <=> AP!HandlerBegins
    BY DEF A!HandlerBegins, A!Starts, A!Signal!Begin, AP!HandlerBegins, AP!Starts, AP!Signal!Begin
  <2>2. A!Drained <=> AP!Drained
    BY DEF A!Drained, A!FindsEmpty, A!Returns, A!Signal!End, AP!Drained, AP!FindsEmpty, AP!Returns,
           AP!Signal!End
  <2>3. A!HandlerStopped <=> AP!HandlerStopped
    BY DEF A!HandlerStopped, A!Stops, A!Drops, A!Left, A!Returns, A!Signal!End, AP!HandlerStopped,
           AP!Stops, AP!Drops, AP!Left, AP!Returns, AP!Signal!End
  <2>4. A!PopSelect <=> AP!PopSelect
    BY DEF A!PopSelect, A!Cardinality, AP!PopSelect, AP!Cardinality
  <2>5. A!PopDelete <=> AP!PopDelete
    BY DEF A!PopDelete, A!Deleted, AP!PopDelete, AP!Deleted
  <2>6. A!CreateTask <=> AP!CreateTask
    BY DEF A!CreateTask, AP!CreateTask
  <2> QED  BY <2>1, <2>2, <2>3, <2>4, <2>5, <2>6 DEF A!HandlerStep, AP!HandlerStep
<1>11. A!HandlerFault <=> AP!HandlerFault
  BY DEF A!HandlerFault, A!HandlerFails, A!Raises, A!HandlerKilled, A!HandlerCrashes, A!Dies,
         A!InRun, A!Hit, A!Room, A!Drops, A!Left, A!Returns, A!Signal!End, AP!HandlerFault,
         AP!HandlerFails, AP!Raises, AP!HandlerKilled, AP!HandlerCrashes, AP!Dies, AP!InRun, AP!Hit,
         AP!Room, AP!Drops, AP!Left, AP!Returns, AP!Signal!End
<1>12. ASSUME NEW w PROVE A!TakeJob(w) <=> AP!TakeJob(w)
  BY DEF A!TakeJob, A!NoEval, AP!TakeJob, AP!NoEval
<1>13. ASSUME NEW w, NEW h PROVE A!Compare(w, h) <=> AP!Compare(w, h)
  BY DEF A!Compare, A!Applies, A!NoEval, A!At, AP!Compare, AP!Applies, AP!NoEval, AP!At
<1>14. ASSUME NEW w PROVE (A!Import(w) \/ A!EvaluationFails(w)) <=> (AP!Import(w) \/ AP!EvaluationFails(w))
  BY DEF A!Import, A!EvaluationFails, A!Hit, A!Room, A!NoEval, A!At, AP!Import, AP!EvaluationFails,
         AP!Hit, AP!Room, AP!NoEval, AP!At
<1>15. A!Regenerates = AP!Regenerates
  BY DEF A!Regenerates, AP!Regenerates
<1>16. UNCHANGED A!vars <=> UNCHANGED AP!vars
  BY DEF A!vars, AP!vars
<1> QED
  BY <1>1, <1>2, <1>3, <1>4, <1>5, <1>6, <1>7, <1>8, <1>9, <1>10, <1>11, <1>12, <1>13, <1>14, <1>15, <1>16
  DEF A!Next, AP!Next, A!TaskStep, AP!TaskStep, A!WorkerStep, AP!WorkerStep

(* They have the same initial states. *)
LEMMA SameInit == A!Init <=> AP!Init
BY DEF A!Init, AP!Init, A!NoEval, AP!NoEval, A!Regenerates, AP!Regenerates, A!Units, AP!Units,
       A!Applies, AP!Applies, A!Signal!SigInit, AP!Signal!SigInit

(* The parameters of the application are those it asks for. *)
LEMMA ParametersHold == AP!Parameters
BY SystemAssumption DEF A!Parameters, AP!Parameters

-----------------------------------------------------------------------------
(* Results. *)

(* ImplementsApplicability (event_queue.rb, poller_thread.rb under          *)
(* content_facet.rb and generate_host_applicability.rb): the created_at     *)
(* order, the marks, the coalescing, retries of other events, stops and     *)
(* crashes change nothing the application can tell from a signal.           *)
THEOREM TableServesApplicability == SystemSpec => ImplementsApplicability
<1>1. SystemInit => A!Init
  BY DEF SystemInit
<1>2. IInv /\ InStep /\ [SystemNext]_systemVars => [A!Next]_(A!vars)
  <2> SUFFICES ASSUME IInv, InStep, [SystemNext]_systemVars PROVE A!Next \/ UNCHANGED A!vars
    OBVIOUS
  <2>1. CASE UNCHANGED systemVars
    <3>1. UNCHANGED app /\ SameSignal
      BY <2>1 DEF systemVars, vars, table, thread, history, InHandler, SameSignal, Due, Held
    <3> QED  BY <3>1, Unseen
  <2>2. CASE QueueStep
    BY <2>2, TableKeepsSignal, Unseen DEF QueueStep
  <2> QED  BY <2>1, <2>2, PushersRefine, BeginRefines, RunEndsRefine, ClosesRefine, ClearsRefine,
              CrashesRefine, AppRefines DEF SystemNext
<1> QED  BY <1>1, <1>2, TableInv, HandlerInStep, PTL DEF SystemSpec, ImplementsApplicability, A!Spec

(* The proofs about Applicability speak of the system. *)
LEMMA ApplicabilityHolds == SystemSpec => AP!Spec
<1>1. A!Spec => AP!Spec
  BY SameInit, SameNext, PTL DEF A!Spec, AP!Spec
<1> QED  BY <1>1, TableServesApplicability, PTL DEF ImplementsApplicability

(* HostsAttended: no host is left on the queue with no row to fetch it,     *)
(* whatever the poller has loaded, marked, cleared or lost.                 *)
THEOREM NoHostUnattended == SystemSpec => []HostsAttended
<1>1. AP!QueueAttended => HostsAttended
  BY DEF HostsAttended, A!QueueAttended, AP!QueueAttended, A!HostsOf, AP!HostsOf, A!Regenerates, AP!Regenerates
<1> QED  BY <1>1, ApplicabilityHolds, AP!NoLostWakeup, ParametersHold, PTL DEF AP!ApplicabilityAssumption

(* SystemTypeOK: the table, the application and the rows under way. *)
THEOREM SystemTypeCorrect == SystemSpec => []SystemTypeOK
<1>1. AP!TypeOK => A!TypeOK
  BY DEF A!TypeOK, AP!TypeOK, A!Regenerates, AP!Regenerates, A!Units, AP!Units, A!Evaluation, AP!Evaluation,
         A!NoEval, AP!NoEval
<1>2. IInv /\ InStep /\ A!TypeOK => SystemTypeOK
  BY DEF IInv, InStep, SystemTypeOK
<1> QED  BY <1>1, <1>2, TableInv, HandlerInStep, ApplicabilityHolds, AP!TypeCorrect, ParametersHold, PTL
         DEF AP!ApplicabilityAssumption

(* Settled hosts are current over the table too (Applicability's             *)
(* SettledMeansCurrent, from the push of the event to the stored result).   *)
THEOREM SettledOverTable == SystemSpec => []A!SettledMeansCurrent
<1>1. AP!SettledMeansCurrent => A!SettledMeansCurrent
  BY DEF A!SettledMeansCurrent, AP!SettledMeansCurrent, A!Pending, AP!Pending, A!Applies, AP!Applies,
         A!NoEval, AP!NoEval, A!At, AP!At
<1> QED  BY <1>1, ApplicabilityHolds, AP!SettledIsCurrent, ParametersHold, PTL DEF AP!ApplicabilityAssumption
=============================================================================
