------------------------- MODULE ApplicabilityProofs -------------------------
(***************************************************************************)
(* Proofs that no host is left on the queue without an event to fetch it,   *)
(* that the state is of its types, and that settled hosts are current.      *)
(***************************************************************************)
EXTENDS Applicability, TLAPS

(* The control the argument is about. *)
Control == /\ DOMAIN regen = Regenerates /\ DOMAIN chosen = Regenerates
           /\ DOMAIN upload = Hosts
           /\ queue \subseteq Hosts
           /\ handler # "idle" => serving = Gen

(* Whoever queued h will push the event. *)
Announced(h) ==
  \/ upload[h] = "queued"
  \/ \E x \in Regenerates : regen[x] = "queued" /\ h \in HostsOf(chosen[x])

(* The event is owed or being handled. *)
Signalled == owed # {} \/ serving # NoKey

Attended == \A h \in queue \ missed : Signalled \/ Announced(h)

IInv == Control /\ Attended

(* The steps that end, or begin, the control of one of its parties. *)
Signalling ==
  \/ \E x \in Regenerates : RegenSelect(x) \/ RegenStep(x) \/ RegenerateFails(x)
  \/ \E h \in Hosts : UploadStep(h) \/ RequestDies(h) \/ Upload(h)
  \/ HandlerStep \/ HandlerFault

(* What the other steps leave alone, but for more hosts dropped. *)
Aside == /\ UNCHANGED <<regen, chosen, upload, queue, owed, serving, handler>>
         /\ missed \subseteq missed'

(* A content task or a worker has nothing to do with the queue. *)
LEMMA OthersAside ==
  ASSUME [Next]_vars
  PROVE  Signalling \/ Aside
<1>1. ASSUME NEW t \in Tasks, NEW k \in Kinds, StartTask(t, k) PROVE Aside
  BY <1>1 DEF StartTask, Aside, regens, signal, run
<1>2. ASSUME NEW t \in Tasks, TaskStep(t) \/ TaskFails(t) PROVE Aside
  BY <1>2 DEF TaskStep, SaveVersion, IndexContent, FinalizeRemove, TaskFails, SaveFails, IndexFails, RemoveFails,
              Aside, regens, signal, run
<1>3. ASSUME NEW w \in Workers, WorkerStep(w) PROVE Aside
  BY <1>3 DEF WorkerStep, TakeJob, Compare, Import, Aside, regens, signal, run
<1>4. ASSUME NEW w \in Workers, EvaluationFails(w) PROVE Aside
  BY <1>4 DEF EvaluationFails, Aside, regens, signal, run
<1>5. CASE UNCHANGED vars
  BY <1>5 DEF vars, Aside, regens, signal, run
<1>6. CASE Next
  BY <1>1, <1>2, <1>3, <1>4, <1>6 DEF Next, Signalling
<1> QED  BY <1>5, <1>6

(* A handler that does not come to its end drops the hosts it has popped, and *)
(* those on the queue unless an event is still owed for them.               *)
LEMMA Interruption ==
  ASSUME HandlerStopped \/ HandlerFails \/ HandlerCrashes
  PROVE  /\ Returns /\ handler # "idle" /\ Signal!End
         /\ batch \ queue \subseteq missed' /\ missed \subseteq missed'
         /\ missed' \subseteq missed \cup batch \cup queue
         /\ owed' = {} => queue \subseteq missed'
BY DEF HandlerStopped, HandlerFails, HandlerCrashes, Stops, Raises, Dies, InRun, Drops, Left

(* The event key is a key. *)
LEMMA GenIsKey == Gen # NoKey
BY ApplicabilityAssumption DEF Parameters

(* What a set of repositories puts on the queue are hosts. *)
LEMMA HostsOfAreHosts == ASSUME NEW rs PROVE HostsOf(rs) \subseteq Hosts
BY DEF HostsOf

(* Regenerate: hosts are queued before the event is pushed. *)
LEMMA RegenKeeps ==
  ASSUME IInv, NEW x \in Regenerates, RegenSelect(x) \/ RegenStep(x)
  PROVE  IInv'
<1>1. CASE RegenSelect(x)
  <2>1. /\ UNCHANGED <<upload, queue, owed, serving, handler, missed>>
        /\ DOMAIN regen' = Regenerates /\ DOMAIN chosen' = Regenerates
        /\ \A y \in Regenerates : regen[y] = "queued" =>
                                  regen'[y] = "queued" /\ chosen'[y] = chosen[y]
    BY <1>1 DEF RegenSelect, signal, run, regens, IInv, Control
  <2> QED  BY <2>1 DEF IInv, Control, Attended, Signalled, Announced, HostsOf
<1>2. CASE RegenPushHosts(x)
  <2>1. /\ UNCHANGED <<chosen, upload, owed, serving, handler>>
        /\ DOMAIN regen' = Regenerates /\ regen'[x] = "queued"
        /\ \A y \in Regenerates : regen[y] = "queued" => regen'[y] = "queued"
    BY <1>2 DEF RegenPushHosts, signal, run, IInv, Control
  <2>2. /\ queue' = queue \cup HostsOf(chosen[x])
        /\ missed' = missed \ HostsOf(chosen[x])
    BY <1>2 DEF RegenPushHosts
  <2>3. Control'
    BY <2>1, <2>2, HostsOfAreHosts DEF IInv, Control
  <2>4. ASSUME NEW h \in queue' \ missed' PROVE (Signalled \/ Announced(h))'
    <3>1. CASE h \in HostsOf(chosen[x])
      <4>1. h \in HostsOf(chosen[x])'
        BY <3>1, <2>1 DEF HostsOf
      <4> QED  BY <4>1, <2>1 DEF Announced
    <3>2. CASE h \notin HostsOf(chosen[x])
      <4>1. h \in queue \ missed
        BY <3>2, <2>2
      <4> QED  BY <4>1, <2>1 DEF IInv, Attended, Signalled, Announced, HostsOf
    <3> QED  BY <3>1, <3>2
  <2> QED  BY <2>3, <2>4 DEF IInv, Attended
<1>3. CASE RegenPushEvent(x)
  <2>1. /\ UNCHANGED <<chosen, upload, queue, serving, handler>>
        /\ DOMAIN regen' = Regenerates /\ owed' = owed \cup {Gen}
    BY <1>3 DEF RegenPushEvent, RegenPushes, Signal!Raise, run, IInv, Control
  <2> QED  BY <2>1 DEF IInv, Control, Attended, Signalled
<1>4. CASE RegenStamp(x)
  <2>1. /\ UNCHANGED <<upload, queue, owed, serving, handler, missed>>
        /\ DOMAIN regen' = Regenerates /\ DOMAIN chosen' = Regenerates
        /\ \A y \in Regenerates : regen[y] = "queued" =>
                                  regen'[y] = "queued" /\ chosen'[y] = chosen[y]
    BY <1>4 DEF RegenStamp, signal, run, IInv, Control
  <2> QED  BY <2>1 DEF IInv, Control, Attended, Signalled, Announced, HostsOf
<1> QED  BY <1>1, <1>2, <1>3, <1>4 DEF RegenStep

(* A profile upload does the same. *)
LEMMA UploadKeeps ==
  ASSUME IInv, NEW h \in Hosts, UploadStep(h) \/ Upload(h)
  PROVE  IInv'
<1>1. CASE Upload(h)
  <2>1. /\ UNCHANGED <<regen, chosen, queue, owed, serving, handler, missed>>
        /\ DOMAIN upload' = Hosts
        /\ \A g \in Hosts : upload[g] = "queued" => upload'[g] = "queued"
    BY <1>1 DEF Upload, signal, run, regens, IInv, Control
  <2> QED  BY <2>1 DEF IInv, Control, Attended, Signalled, Announced, HostsOf
<1>2. CASE UploadPushHosts(h)
  <2>1. /\ UNCHANGED <<regen, chosen, owed, serving, handler>>
        /\ DOMAIN upload' = Hosts /\ upload'[h] = "queued"
        /\ \A g \in Hosts : upload[g] = "queued" => upload'[g] = "queued"
        /\ queue' = queue \cup {h} /\ missed' = missed \ {h}
    BY <1>2 DEF UploadPushHosts, signal, run, regens, IInv, Control
  <2> QED  BY <2>1 DEF IInv, Control, Attended, Signalled, Announced, HostsOf
<1>3. CASE UploadPushEvent(h)
  <2>1. /\ UNCHANGED <<regen, chosen, queue, serving, handler>>
        /\ DOMAIN upload' = Hosts /\ owed' = owed \cup {Gen}
    BY <1>3 DEF UploadPushEvent, UploadPushes, Signal!Raise, run, regens, IInv, Control
  <2> QED  BY <2>1 DEF IInv, Control, Attended, Signalled
<1> QED  BY <1>1, <1>2, <1>3 DEF UploadStep

(* An interrupted handler leaves the event owed or the queue dropped. *)
LEMMA InterruptionKeeps ==
  ASSUME IInv, HandlerStopped \/ HandlerFails \/ HandlerCrashes
  PROVE  IInv'
<1>1. /\ handler' = "idle" /\ UNCHANGED <<regen, chosen, upload, queue>>
      /\ owed' = {} => queue \subseteq missed'
  BY Interruption DEF Returns, regens
<1> QED  BY <1>1 DEF IInv, Control, Attended, Signalled

(* The handler leaves only with the queue empty. *)
LEMMA HandlerKeeps ==
  ASSUME IInv, HandlerStep
  PROVE  IInv'
<1>1. CASE HandlerBegins
  <2>1. serving' = Gen /\ UNCHANGED <<regen, chosen, upload, queue>>
    BY <1>1 DEF HandlerBegins, Starts, Signal!Begin, regens
  <2> QED  BY <2>1, GenIsKey DEF IInv, Control, Attended, Signalled
<1>2. CASE Drained
  <2>1. queue' = {} /\ handler' = "idle" /\ UNCHANGED <<regen, chosen, upload>>
    BY <1>2 DEF Drained, FindsEmpty, Returns, regens
  <2> QED  BY <2>1 DEF IInv, Control, Attended
<1>3. CASE PopSelect \/ PopDelete \/ CreateTask
  <2>1. serving = Gen
    BY <1>3 DEF PopSelect, PopDelete, CreateTask, IInv, Control
  <2>2. UNCHANGED <<regen, chosen, upload, serving>> /\ queue' \subseteq queue
    BY <1>3 DEF PopSelect, PopDelete, CreateTask, signal, regens
  <2> QED  BY <2>1, <2>2, GenIsKey DEF IInv, Control, Attended, Signalled
<1> QED  BY <1>1, <1>2, <1>3, InterruptionKeeps DEF HandlerStep

(* A crash puts the event back; the other faults drop the hosts they leave  *)
(* without an announcement.                                                 *)
LEMMA FaultKeeps ==
  ASSUME IInv,
         \/ HandlerFault
         \/ \E x \in Regenerates : RegenerateFails(x)
         \/ \E h \in Hosts : RequestDies(h)
  PROVE  IInv'
<1>1. CASE HandlerFails \/ HandlerCrashes
  BY <1>1, InterruptionKeeps
<1>2. CASE HandlerKilled
  BY <1>2 DEF HandlerKilled, InRun, IInv, Control, Attended, Signalled, Announced, HostsOf, regens, signal
<1>3. ASSUME NEW x \in Regenerates, RegenerateFails(x) PROVE IInv'
  <2>1. /\ DOMAIN regen' = Regenerates /\ DOMAIN chosen' = Regenerates
        /\ UNCHANGED <<upload, queue, owed, serving, handler>>
        /\ \A y \in Regenerates \ {x} : regen'[y] = regen[y] /\ chosen'[y] = chosen[y]
        /\ missed \subseteq missed'
        /\ regen[x] = "queued" => HostsOf(chosen[x]) \subseteq missed'
    BY <1>3 DEF RegenerateFails, signal, run, IInv, Control
  <2>2. ASSUME NEW h \in queue' \ missed' PROVE (Signalled \/ Announced(h))'
    <3>1. h \in queue \ missed /\ ~(regen[x] = "queued" /\ h \in HostsOf(chosen[x]))
      BY <2>1, <2>2
    <3> QED  BY <3>1, <2>1 DEF IInv, Attended, Signalled, Announced, HostsOf
  <2> QED  BY <2>1, <2>2 DEF IInv, Control, Attended
<1>4. ASSUME NEW h \in Hosts, RequestDies(h) PROVE IInv'
  <2>1. /\ DOMAIN upload' = Hosts
        /\ UNCHANGED <<regen, chosen, queue, owed, serving, handler>>
        /\ \A g \in Hosts \ {h} : upload'[g] = upload[g]
        /\ missed' = missed \cup {h}
    BY <1>4 DEF RequestDies, signal, run, regens, IInv, Control
  <2>2. ASSUME NEW g \in queue' \ missed' PROVE (Signalled \/ Announced(g))'
    <3>1. g \in queue \ missed /\ g # h /\ g \in Hosts
      BY <2>1, <2>2 DEF IInv, Control
    <3> QED  BY <3>1, <2>1 DEF IInv, Attended, Signalled, Announced, HostsOf
  <2> QED  BY <2>1, <2>2 DEF IInv, Control, Attended
<1> QED  BY <1>1, <1>2, <1>3, <1>4 DEF HandlerFault

-----------------------------------------------------------------------------
(* Nothing is queued at first. *)
LEMMA InitInv == Init => IInv
BY DEF Init, IInv, Control, Attended

(* The invariant holds of every behaviour of Spec. *)
THEOREM InductiveInvariant == Spec => []IInv
<1>1. Init => IInv
  BY InitInv
<1>2. IInv /\ [Next]_vars => IInv'
  <2> SUFFICES ASSUME IInv, [Next]_vars PROVE IInv'
    OBVIOUS
  <2>1. CASE Aside
    BY <2>1 DEF Aside, IInv, Control, Attended, Signalled, Announced, HostsOf
  <2>2. CASE Signalling
    BY <2>2, RegenKeeps, UploadKeeps, HandlerKeeps, FaultKeeps DEF Signalling
  <2> QED  BY <2>1, <2>2, OthersAside
<1> QED  BY <1>1, <1>2, PTL DEF Spec

(* QueueAttended (content_facet.rb pushes the hosts, then the event; the     *)
(* handler returns on an empty queue): for every number of repositories,    *)
(* hosts, plans, uploads, workers and faults.                               *)
THEOREM NoLostWakeup == Spec => []QueueAttended
<1>1. IInv => QueueAttended
  BY DEF IInv, Attended, Signalled, Announced, QueueAttended
<1> QED  BY <1>1, InductiveInvariant, PTL

-----------------------------------------------------------------------------
(* Type correctness. *)

LEMMA Bounds == /\ MaxUnit \in Nat
                /\ MaxTasks \in Nat /\ MaxPlanRuns \in Nat
                /\ MaxUploads \in Nat /\ MaxFaults \in Nat
BY ApplicabilityAssumption DEF Parameters

(* A content task is about a repository, and is no sync plan. *)
LEMMA OnType == on \in [Tasks -> Repos] /\ SyncPlan \notin Tasks
BY ApplicabilityAssumption DEF Parameters

(* Hosts are bound to repositories. *)
LEMMA BoundType == bound \in [Hosts -> SUBSET Repos]
BY ApplicabilityAssumption DEF Parameters

(* What applies to a host are units. *)
LEMMA AppliesType == ASSUME TypeOK, NEW h \in Hosts PROVE Applies(h) \subseteq Units
<1>1. \A r \in bound[h] : indexed[r] \subseteq Units
  BY BoundType DEF TypeOK
<1> QED  BY <1>1 DEF Applies

(* A fault is counted within its bound. *)
LEMMA HitCounts ==
  ASSUME TypeOK, NEW fault, Hit(fault)
  PROVE  /\ tasks' \in 0..MaxTasks /\ planRuns' \in 0..MaxPlanRuns
         /\ uploads' \in 0..MaxUploads /\ faults' \in 0..MaxFaults
<1>1. faults' \in 0..MaxFaults
  BY Bounds DEF TypeOK, Hit
<1> QED  BY <1>1 DEF TypeOK, Hit

(* The initial state is of the types. *)
LEMMA InitType == Init => TypeOK
<1> SUFFICES ASSUME Init PROVE TypeOK
  OBVIOUS
<1>1. /\ tasks \in 0..MaxTasks /\ planRuns \in 0..MaxPlanRuns
      /\ uploads \in 0..MaxUploads /\ faults \in 0..MaxFaults
  BY Bounds DEF Init
<1>2. /\ saved \in [Repos -> SUBSET Units] /\ indexed \in [Repos -> SUBSET Units]
      /\ toIndex \in [Repos -> BOOLEAN] /\ toRegen \in [Repos -> BOOLEAN]
      /\ installed \in [Hosts -> 0..MaxUnit]
  BY Bounds DEF Init
<1>3. applicable \in [Hosts -> SUBSET Units]
  <2>1. \A h \in Hosts : Applies(h) \subseteq Units
    BY <1>2, BoundType DEF Applies
  <2> QED  BY <2>1 DEF Init
<1>4. /\ jobs \in [SUBSET Hosts -> Nat] /\ todo \in [Workers -> SUBSET Hosts]
      /\ eval \in [Workers -> Evaluation \cup {NoEval}]
      /\ removing \in [Tasks -> SUBSET Units]
  BY DEF Init
<1> QED  BY <1>1, <1>2, <1>3, <1>4 DEF Init, TypeOK, Signal!SigInit

(* The steps of a content task. *)
Steps == {"idle", "save", "index", "regenerate", "finalize"}

(* A task goes on within its types. *)
LEMMA AdvanceType ==
  ASSUME TypeOK, NEW t \in Tasks, NEW to \in Steps, Advance(t, to)
  PROVE  /\ step' \in [Tasks -> Steps] /\ kind' \in [Tasks -> Kinds \cup {"none"}]
         /\ removing' \in [Tasks -> SUBSET Units]
BY DEF TypeOK, Advance, Steps

(* A task that has done its Regenerate, too. *)
LEMMA AfterType ==
  ASSUME TypeOK, NEW x \in Regenerates, After(x) \/ UNCHANGED task
  PROVE  /\ step' \in [Tasks -> Steps] /\ kind' \in [Tasks -> Kinds \cup {"none"}]
         /\ removing' \in [Tasks -> SUBSET Units]
<1>1. CASE UNCHANGED task
  BY <1>1 DEF task, TypeOK, Steps
<1>2. CASE x # SyncPlan /\ After(x)
  <2>1. x \in Tasks /\ \E to \in Steps : Advance(x, to)
    BY <1>2 DEF After, Regenerates, Steps
  <2> QED  BY <2>1, AdvanceType
<1> QED  BY <1>1, <1>2 DEF After

(* TypeOK: whatever tasks, uploads, handlers and faults do, for any bounds.  *)
THEOREM TypeCorrect == Spec => []TypeOK
<1>1. Init => TypeOK
  BY InitType
<1>2. TypeOK /\ [Next]_vars => TypeOK'
  <2> SUFFICES ASSUME TypeOK, [Next]_vars PROVE TypeOK'
    OBVIOUS
  <2> USE DEF TypeOK
  <2>1. ASSUME NEW t \in Tasks, NEW k \in Kinds, StartTask(t, k) PROVE TypeOK'
    <3>1. tasks' \in 0..MaxTasks
      BY <2>1, Bounds DEF StartTask
    <3>2. removing' \in [Tasks -> SUBSET Units]
      <4>1. indexed[on[t]] \subseteq Units
        BY OnType
      <4> QED  BY <2>1, <4>1 DEF StartTask
    <3> QED  BY <2>1, <3>1, <3>2 DEF StartTask, content, regens, signal, run, work, history
  <2>2. ASSUME NEW t \in Tasks, TaskStep(t) \/ TaskFails(t) PROVE TypeOK'
    <3>1. \E to \in Steps : Advance(t, to)
      BY <2>2 DEF TaskStep, SaveVersion, IndexContent, FinalizeRemove, TaskFails, SaveFails, IndexFails,
                  RemoveFails, AfterSave, AfterIndex, Steps
    <3>2. /\ step' \in [Tasks -> Steps] /\ kind' \in [Tasks -> Kinds \cup {"none"}]
          /\ removing' \in [Tasks -> SUBSET Units]
      BY <3>1, AdvanceType
    <3>3. CASE SaveVersion(t)
      <4>1. PICK c \in SUBSET (Units \ removing[t]), changed \in BOOLEAN :
              saved' = [saved EXCEPT ![on[t]] = c] /\ ContentsChanged(on[t], changed)
        BY <3>3 DEF SaveVersion
      <4>2. c \subseteq Units
        BY <4>1
      <4>3. saved' \in [Repos -> SUBSET Units]
        BY <4>1, <4>2
      <4>4. toIndex' \in [Repos -> BOOLEAN] /\ toRegen' \in [Repos -> BOOLEAN]
        BY <4>1 DEF ContentsChanged
      <4> QED  BY <3>2, <3>3, <4>3, <4>4 DEF SaveVersion, Steps, regens, signal, run, work, counts, history
    <3>4. CASE SaveFails(t) \/ RemoveFails(t)
      BY <2>2, <3>2, <3>4 DEF SaveFails, RemoveFails, ContentsChanged, Steps, regens, signal, run, work, counts,
                              history
    <3>5. CASE IndexContent(t) \/ IndexFails(t) \/ FinalizeRemove(t)
      <4>1. on[t] \in Repos
        BY OnType
      <4>2. indexed' \in [Repos -> SUBSET Units] /\ toIndex' \in [Repos -> BOOLEAN]
        <5>1. CASE IndexContent(t)
          BY <4>1, <5>1 DEF IndexContent
        <5>2. CASE IndexFails(t)
          <6>1. PICK units \in SUBSET (indexed[on[t]] \cup saved[on[t]]) :
                  indexed' = [indexed EXCEPT ![on[t]] = units]
            BY <5>2 DEF IndexFails
          <6>2. units \subseteq Units
            BY <4>1, <6>1
          <6> QED  BY <5>2, <6>1, <6>2 DEF IndexFails
        <5>3. CASE FinalizeRemove(t)
          <6>1. indexed[on[t]] \ removing[t] \in SUBSET Units
            BY <4>1
          <6> QED  BY <5>3, <6>1 DEF FinalizeRemove
        <5> QED  BY <3>5, <5>1, <5>2, <5>3
      <4>3. early' \subseteq Repos /\ behind' \subseteq Hosts
        BY <3>5, <4>1, HostsOfAreHosts DEF IndexContent, IndexFails, FinalizeRemove, TablesChange
      <4> QED  BY <3>2, <3>5, <4>2, <4>3 DEF IndexContent, IndexFails, FinalizeRemove, Steps, regens, signal,
                                             run, work, counts
    <3> QED  BY <2>2, <3>3, <3>4, <3>5 DEF TaskStep, TaskFails
  <2>4. ASSUME NEW x \in Regenerates, RegenSelect(x) PROVE TypeOK'
    <3>1. /\ step' \in [Tasks -> Steps] /\ kind' \in [Tasks -> Kinds \cup {"none"}]
          /\ removing' \in [Tasks -> SUBSET Units]
      BY <2>4, AfterType DEF RegenSelect
    <3>2. regen' \in [Regenerates -> {"off", "selected", "queued", "stamp"}] /\ chosen' \in [Regenerates -> SUBSET Repos]
      BY <2>4 DEF RegenSelect, regens
    <3>3. planRuns' \in 0..MaxPlanRuns
      BY <2>4, Bounds DEF RegenSelect
    <3> QED  BY <2>4, <3>1, <3>2, <3>3 DEF RegenSelect, Steps, content, signal, run, work, history
  <2>5. ASSUME NEW x \in Regenerates, RegenPushHosts(x) \/ RegenPushEvent(x) PROVE TypeOK'
    BY <2>5, HostsOfAreHosts DEF RegenPushHosts, RegenPushEvent, RegenPushes, Signal!Raise, content, task, run, work, history, counts, signal
  <2>6. ASSUME NEW x \in Regenerates, RegenStamp(x) PROVE TypeOK'
    <3>1. /\ step' \in [Tasks -> Steps] /\ kind' \in [Tasks -> Kinds \cup {"none"}]
          /\ removing' \in [Tasks -> SUBSET Units]
      BY <2>6, AfterType DEF RegenStamp
    <3>2. toRegen' \in [Repos -> BOOLEAN] /\ early' \subseteq Repos
      BY <2>6 DEF RegenStamp
    <3> QED  BY <2>6, <3>1, <3>2 DEF RegenStamp, Steps, signal, run, work, counts
  <2>7. ASSUME NEW h \in Hosts, Upload(h) \/ UploadPushHosts(h) \/ UploadPushEvent(h) PROVE TypeOK'
    <3>1. uploads' \in 0..MaxUploads
      BY <2>7, Bounds DEF Upload, UploadPushHosts, UploadPushEvent, UploadPushes, counts
    <3> QED  BY <2>7, <3>1 DEF Upload, UploadPushHosts, UploadPushEvent, UploadPushes, Signal!Raise, content, task, regens,
            signal, run, work, history, counts
  <2>8. ASSUME HandlerStep, ~HandlerStopped PROVE TypeOK'
    <3>1. /\ serving' \in {Gen, NoKey} /\ owed' \subseteq {Gen} /\ queue' \subseteq Hosts
          /\ handler' \in {"idle", "check", "delete", "create", "stopping"} /\ batch' \subseteq Hosts
      BY <2>8 DEF HandlerStep, HandlerBegins, Starts, Drained, FindsEmpty, PopSelect, PopDelete, CreateTask, Returns, Signal!Begin,
                  Signal!End, signal
    <3>2. jobs' \in [SUBSET Hosts -> Nat] /\ UNCHANGED <<todo, eval, applicable>>
      BY <2>8 DEF HandlerStep, HandlerBegins, Starts, Drained, FindsEmpty, PopSelect, PopDelete, CreateTask, Returns, work
    <3> QED  BY <2>8, <3>1, <3>2 DEF HandlerStep, HandlerBegins, Starts, Drained, FindsEmpty, PopSelect, PopDelete, CreateTask,
                                     Returns, content, task, regens, counts, history
  <2>9. ASSUME NEW w \in Workers, WorkerStep(w) PROVE TypeOK'
    <3>1. CASE TakeJob(w)
      <4>1. jobs' \in [SUBSET Hosts -> Nat] /\ todo' \in [Workers -> SUBSET Hosts]
        BY <3>1 DEF TakeJob
      <4> QED  BY <3>1, <4>1 DEF TakeJob, content, task, regens, signal, run, counts, history
    <3>2. ASSUME NEW h \in Hosts, Compare(w, h) PROVE TypeOK'
      <4>1. eval' \in [Workers -> Evaluation \cup {NoEval}]
        BY <3>2, AppliesType DEF Compare, Evaluation
      <4>2. todo' \in [Workers -> SUBSET Hosts] /\ behind' \subseteq Hosts /\ raced' \subseteq Hosts
        BY <3>2 DEF Compare
      <4> QED  BY <3>2, <4>1, <4>2 DEF Compare, content, task, regens, signal, run, counts
    <3>3. CASE Import(w)
      <4>1. eval[w].host \in Hosts /\ eval[w].add \subseteq Units
        BY <3>3 DEF Import, Evaluation
      <4>2. (applicable[eval[w].host] \cup eval[w].add) \ eval[w].remove \in SUBSET Units
        BY <4>1
      <4> QED  BY <3>3, <4>1, <4>2 DEF Import, content, task, regens, signal, run, counts, history
    <3> QED  BY <2>9, <3>1, <3>2, <3>3 DEF WorkerStep
  <2>10. ASSUME NEW w \in Workers, EvaluationFails(w) PROVE TypeOK'
    <3>1. missed' \subseteq Hosts /\ todo' \in [Workers -> SUBSET Hosts]
      <4>1. PICK lost \in {{}, todo[w]} : /\ todo' = [todo EXCEPT ![w] = @ \ lost]
                                         /\ missed' = missed \cup lost \cup {h \in Hosts : At(w, h)}
        BY <2>10 DEF EvaluationFails
      <4>2. lost \subseteq Hosts
        BY <4>1
      <4> QED  BY <4>1, <4>2
    <3>2. eval' \in [Workers -> Evaluation \cup {NoEval}]
      BY <2>10 DEF EvaluationFails
    <3> QED  BY <2>10, <3>1, <3>2, HitCounts DEF EvaluationFails, content, task, regens, signal, run, history
  <2>11. ASSUME HandlerStopped \/ HandlerFails \/ HandlerCrashes PROVE TypeOK'
    <3>1. /\ serving' \in {Gen, NoKey} /\ owed' \subseteq {Gen} /\ missed' \subseteq Hosts
          /\ handler' = "idle" /\ batch' = {}
      BY <2>11, Interruption DEF Returns, Signal!End
    <3>2. /\ tasks' \in 0..MaxTasks /\ planRuns' \in 0..MaxPlanRuns
          /\ uploads' \in 0..MaxUploads /\ faults' \in 0..MaxFaults
      BY <2>11, HitCounts DEF HandlerStopped, HandlerFails, HandlerCrashes, Stops, Raises, Dies, counts
    <3> QED  BY <2>11, <3>1, <3>2, Interruption DEF Returns, content, task, regens, work, history
  <2>15. CASE HandlerKilled
    BY <2>15, HitCounts DEF HandlerKilled, content, task, regens, signal, work, history
  <2>12. ASSUME NEW h \in Hosts, RequestDies(h) PROVE TypeOK'
    BY <2>12, HitCounts DEF RequestDies, content, task, regens, signal, run, work, history
  <2>13. ASSUME NEW x \in Regenerates, RegenerateFails(x) PROVE TypeOK'
    <3>1. /\ step' \in [Tasks -> Steps] /\ kind' \in [Tasks -> Kinds \cup {"none"}]
          /\ removing' \in [Tasks -> SUBSET Units]
      <4>1. CASE UNCHANGED task
        BY <4>1, AfterType
      <4>2. CASE x # SyncPlan /\ Advance(x, "idle")
        <5>1. x \in Tasks /\ "idle" \in Steps
          BY <4>2 DEF Regenerates, Steps
        <5> QED  BY <4>2, <5>1, AdvanceType
      <4> QED  BY <2>13, <4>1, <4>2 DEF RegenerateFails
    <3> QED  BY <2>13, <3>1, HostsOfAreHosts, HitCounts DEF RegenerateFails, Steps, content, signal, run, work, history
  <2>14. CASE UNCHANGED vars
    BY <2>14 DEF vars, content, task, regens, signal, run, work, history, counts
  <2> QED
    BY <2>1, <2>2, <2>4, <2>5, <2>6, <2>7, <2>8, <2>9, <2>10, <2>11, <2>12, <2>13, <2>14, <2>15
       DEF Next, TaskStep, RegenStep, UploadStep, HandlerStep, HandlerFault
<1> QED  BY <1>1, <1>2, PTL DEF Spec

-----------------------------------------------------------------------------
(* Settled hosts are current. *)

(* A batch is in hand only between its pop and its task. *)
BatchInHand == batch # {} => handler \in {"delete", "create", "stopping"}

(* Tables that are not those of the recorded version will be announced, or  *)
(* were stamped too early.                                                  *)
LagKnown == \A r \in Repos : indexed[r] # saved[r] => toRegen[r] \/ r \in early

(* The hosts of r are still to be queued. *)
ToQueue(r) == toRegen[r] /\ ~InFlight(r)

(* An evaluation of h has yet to begin. *)
Coming(h) ==
  \/ h \in queue \/ h \in batch
  \/ upload[h] = "stored"
  \/ \E b \in SUBSET Hosts : h \in b /\ jobs[b] > 0
  \/ \E w \in Workers : h \in todo[w]
  \/ \E r \in bound[h] : ToQueue(r)

(* What is stored for h once a worker that is at h has stored its difference. *)
EndsCurrent(h) ==
  /\ \A w \in Workers : At(w, h) => (applicable[h] \cup eval[w].add) \ eval[w].remove = Applies(h)
  /\ (\A w \in Workers : ~At(w, h)) => applicable[h] = Applies(h)

(* Two workers that are at one host have raced. *)
RacesKnown ==
  \A v, w \in Workers, h \in Hosts : At(v, h) /\ At(w, h) => v = w \/ h \in raced

(* The hosts that SettledMeansCurrent says nothing of. *)
Excused == missed \cup behind \cup raced

NotForgotten ==
  \A h \in Hosts \ Excused : bound[h] # {} => Coming(h) \/ EndsCurrent(h)

HInv == TypeOK /\ BatchInHand /\ LagKnown /\ RacesKnown /\ NotForgotten

(* The steps of the content tasks. *)
ContentStep(t) == TaskStep(t) \/ TaskFails(t) \/ \E k \in Kinds : StartTask(t, k)

(* The steps of a Regenerate. *)
RegenAny(x) == RegenSelect(x) \/ RegenStep(x) \/ RegenerateFails(x)

(* The steps of the requests of hosts, of the handler, and of no one. *)
Outside == \/ \E h \in Hosts : Upload(h) \/ UploadStep(h) \/ RequestDies(h)
           \/ HandlerStep \/ HandlerFault
           \/ UNCHANGED vars

(* What a step of a content task changes. *)
LEMMA ContentFrame ==
  ASSUME TypeOK, NEW t \in Tasks, ContentStep(t)
  PROVE  /\ UNCHANGED <<regen, chosen, installed, upload, queue, handler, batch, work, raced, missed>>
         /\ behind \subseteq behind' /\ early \subseteq early'
         /\ \A r \in Repos : toRegen[r] => toRegen'[r]
         /\ \A r \in Repos \ {on[t]} : saved'[r] = saved[r] /\ indexed'[r] = indexed[r]
<1>1. on[t] \in Repos
  BY OnType
<1>2. CASE \E k \in Kinds : StartTask(t, k)
  BY <1>2 DEF StartTask, content, regens, run, history
<1>3. CASE SaveVersion(t)
  BY <1>1, <1>3 DEF SaveVersion, ContentsChanged, regens, run, history, TypeOK
<1>4. CASE SaveFails(t) \/ RemoveFails(t)
  BY <1>1, <1>4 DEF SaveFails, RemoveFails, ContentsChanged, regens, run, history, TypeOK
<1>5. CASE IndexContent(t) \/ IndexFails(t) \/ FinalizeRemove(t)
  BY <1>1, <1>5 DEF IndexContent, IndexFails, FinalizeRemove, TablesChange, regens, run, TypeOK
<1> QED  BY <1>2, <1>3, <1>4, <1>5 DEF ContentStep, TaskStep, TaskFails

(* Indexing that fails changes nothing of tables that are up to date. *)
LEMMA IndexFailsAtRest ==
  ASSUME TypeOK, NEW t \in Tasks, IndexFails(t), indexed[on[t]] = saved[on[t]]
  PROVE  indexed' = indexed /\ saved' = saved
<1>1. on[t] \in Repos
  BY OnType
<1>2. PICK units \in SUBSET (indexed[on[t]] \cup saved[on[t]]) :
        /\ indexed[on[t]] \cap saved[on[t]] \subseteq units
        /\ indexed' = [indexed EXCEPT ![on[t]] = units]
  BY DEF IndexFails
<1>3. units = indexed[on[t]]
  BY <1>2
<1> QED  BY <1>1, <1>2, <1>3 DEF IndexFails, TypeOK

(* A new version is dated, and units that a removal takes out of the tables *)
(* when nothing is due count as early.                                      *)
LEMMA ContentKeepsLag ==
  ASSUME TypeOK, LagKnown, NEW t \in Tasks, ContentStep(t)
  PROVE  LagKnown'
<1>1. on[t] \in Repos
  BY OnType
<1>2. ASSUME indexed'[on[t]] # saved'[on[t]] PROVE toRegen'[on[t]] \/ on[t] \in early'
  <2>1. CASE indexed[on[t]] # saved[on[t]]
    BY <1>1, <2>1, ContentFrame DEF LagKnown
  <2>2. CASE indexed[on[t]] = saved[on[t]]
    <3>1. CASE \E k \in Kinds : StartTask(t, k)
      BY <1>2, <2>2, <3>1 DEF StartTask, content
    <3>2. CASE SaveVersion(t)
      <4>1. PICK c \in SUBSET (Units \ removing[t]), changed \in BOOLEAN :
              /\ c # saved[on[t]] => changed
              /\ saved' = [saved EXCEPT ![on[t]] = c] /\ ContentsChanged(on[t], changed)
        BY <3>2 DEF SaveVersion
      <4>2. indexed' = indexed /\ saved'[on[t]] = c
        BY <1>1, <3>2, <4>1 DEF SaveVersion, TypeOK
      <4>3. changed = TRUE
        BY <1>2, <2>2, <4>1, <4>2
      <4> QED  BY <1>1, <4>1, <4>3 DEF ContentsChanged, TypeOK
    <3>3. CASE SaveFails(t) \/ RemoveFails(t)
      BY <1>2, <2>2, <3>3 DEF SaveFails, RemoveFails
    <3>4. CASE IndexContent(t)
      BY <1>1, <1>2, <2>2, <3>4 DEF IndexContent, TypeOK
    <3>5. CASE IndexFails(t)
      BY <1>2, <2>2, <3>5, IndexFailsAtRest
    <3>6. CASE FinalizeRemove(t)
      BY <1>1, <1>2, <2>2, <3>6 DEF FinalizeRemove, TypeOK
    <3> QED  BY <3>1, <3>2, <3>3, <3>4, <3>5, <3>6 DEF ContentStep, TaskStep, TaskFails
  <2> QED  BY <2>1, <2>2
<1>3. ASSUME NEW r \in Repos \ {on[t]}, indexed'[r] # saved'[r] PROVE toRegen'[r] \/ r \in early'
  BY <1>3, ContentFrame DEF LagKnown
<1> QED  BY <1>2, <1>3 DEF LagKnown

(* Tables that change are announced by a Regenerate to come, or their hosts *)
(* are behind.                                                              *)
LEMMA ChangeAnnounced ==
  ASSUME TypeOK, LagKnown, NEW t \in Tasks, ContentStep(t), indexed'[on[t]] # indexed[on[t]]
  PROVE  HostsOf({on[t]}) \subseteq behind' \/ ToQueue(on[t])
<1>1. on[t] \in Repos
  BY OnType
<1>2. TablesChange(on[t])
  BY DEF ContentStep, TaskStep, TaskFails, StartTask, SaveVersion, SaveFails, RemoveFails, IndexContent,
         IndexFails, FinalizeRemove, content
<1>3. SUFFICES ASSUME ~InFlight(on[t]), ~toRegen[on[t]] PROVE on[t] \in early'
  BY <1>2 DEF TablesChange, ToQueue
<1>4. CASE FinalizeRemove(t)
  BY <1>3, <1>4 DEF FinalizeRemove
<1>5. CASE IndexContent(t) \/ IndexFails(t)
  <2>1. indexed[on[t]] # saved[on[t]] /\ early' = early
    <3>1. CASE IndexContent(t)
      BY <1>1, <3>1 DEF IndexContent, TypeOK
    <3>2. CASE IndexFails(t)
      BY <3>2, IndexFailsAtRest DEF IndexFails
    <3> QED  BY <1>5, <3>1, <3>2
  <2> QED  BY <1>1, <1>3, <2>1 DEF LagKnown
<1> QED
  BY <1>4, <1>5 DEF ContentStep, TaskStep, TaskFails, StartTask, SaveVersion, SaveFails, RemoveFails, content

(* Steps that store no result and change no content: it is enough that       *)
(* evaluations to come stay to come, and that dropped hosts get one.         *)
LEMMA StillComing ==
  ASSUME NotForgotten, UNCHANGED <<indexed, installed, applicable, eval>>,
         behind \subseteq behind', raced \subseteq raced',
         \A h \in Hosts \ missed' : bound[h] # {} /\ (Coming(h) \/ h \in missed) => Coming(h)'
  PROVE  NotForgotten'
<1> SUFFICES ASSUME NEW h \in Hosts \ Excused', bound[h] # {}, ~Coming(h)'
             PROVE  EndsCurrent(h)'
  BY DEF NotForgotten
<1>1. EndsCurrent(h)
  BY DEF NotForgotten, Excused
<1> QED  BY <1>1 DEF EndsCurrent, At, Applies

(* A new version and a failed step are found later; new tables are found by  *)
(* the regeneration that is due, or the hosts are behind them.               *)
LEMMA ContentTasksKeep ==
  ASSUME HInv, NEW t \in Tasks, ContentStep(t)
  PROVE  NotForgotten'
<1> DEFINE r == on[t]
<1>1. /\ UNCHANGED <<regen, chosen, installed, upload, queue, batch, jobs, todo, eval, applicable, raced, missed>>
      /\ behind \subseteq behind' /\ \A s \in Repos : toRegen[s] => toRegen'[s]
  BY ContentFrame DEF HInv, work
<1>2. \A s \in Repos \ {r} : indexed'[s] = indexed[s]
  BY ContentFrame DEF HInv
<1>3. \A s \in Repos : ToQueue(s) => ToQueue(s)'
  BY <1>1 DEF ToQueue, InFlight
<1>4. \A h \in Hosts : Coming(h) => Coming(h)'
  BY <1>1, <1>3, BoundType DEF Coming
<1>5. ASSUME NEW h \in Hosts \ Excused', bound[h] # {}, ~Coming(h)'
      PROVE  EndsCurrent(h)'
  <2>1. r \in bound[h] => indexed'[r] = indexed[r]
    <3> SUFFICES ASSUME r \in bound[h], indexed'[r] # indexed[r] PROVE FALSE
      OBVIOUS
    <3>1. HostsOf({r}) \subseteq behind' \/ ToQueue(r)
      BY ChangeAnnounced DEF HInv
    <3>2. r \in Repos /\ h \in HostsOf({r})
      BY OnType DEF HostsOf
    <3>3. CASE ToQueue(r)
      BY <1>3, <1>5, <3>2, <3>3 DEF Coming
    <3> QED  BY <1>5, <3>1, <3>2, <3>3 DEF Excused
  <2>2. {indexed[s] : s \in bound[h]}' = {indexed[s] : s \in bound[h]}
    BY <1>2, <2>1, BoundType
  <2>3. Applies(h)' = Applies(h)
    BY <1>1, <2>2 DEF Applies
  <2>4. EndsCurrent(h)
    BY <1>1, <1>4, <1>5 DEF HInv, NotForgotten, Excused
  <2> QED  BY <1>1, <2>3, <2>4 DEF EndsCurrent, At
<1> QED  BY <1>5 DEF NotForgotten

(* Regenerate queues the hosts of its repositories before it counts as done, *)
(* and leaves a repository early if it stamps it before its tables change.  *)
LEMMA RegenFrame ==
  ASSUME TypeOK, NEW x \in Regenerates, RegenAny(x)
  PROVE  /\ UNCHANGED <<saved, indexed, installed, upload, handler, batch, work, behind, raced>>
         /\ \A y \in Regenerates \ {x} : regen'[y] = regen[y] /\ chosen'[y] = chosen[y]
BY DEF RegenAny, RegenSelect, RegenStep, RegenPushHosts, RegenPushEvent, RegenPushes, RegenStamp, RegenerateFails,
       content, run, regens, history, TypeOK

(* The lag of the tables stays known. *)
LEMMA RegenKeepsLag ==
  ASSUME TypeOK, LagKnown, NEW x \in Regenerates, RegenAny(x)
  PROVE  LagKnown'
<1>1. CASE RegenStamp(x)
  <2>1. /\ UNCHANGED <<saved, indexed>>
        /\ toRegen' = [r \in Repos |-> toRegen[r] /\ r \notin chosen[x]]
        /\ early' = (early \ chosen[x]) \cup {r \in chosen[x] : indexed[r] # saved[r]}
    BY <1>1 DEF RegenStamp
  <2>2. ASSUME NEW r \in Repos, indexed'[r] # saved'[r] PROVE toRegen'[r] \/ r \in early'
    <3>1. CASE r \in chosen[x]
      BY <2>1, <2>2, <3>1
    <3>2. CASE r \notin chosen[x]
      <4>1. (toRegen[r] \/ r \in early) /\ (toRegen'[r] = toRegen[r])
        BY <2>1, <2>2, <3>2 DEF LagKnown, TypeOK
      <4> QED  BY <2>1, <3>2, <4>1
    <3> QED  BY <3>1, <3>2
  <2> QED  BY <2>2 DEF LagKnown
<1>2. CASE ~RegenStamp(x)
  <2>1. UNCHANGED <<saved, indexed, toRegen, early>>
    BY <1>2 DEF RegenAny, RegenSelect, RegenStep, RegenPushHosts, RegenPushEvent, RegenPushes, RegenerateFails,
                content, history
  <2> QED  BY <2>1 DEF LagKnown
<1> QED  BY <1>1, <1>2

(* A repository that is due to be queued still is, unless its hosts now are. *)
LEMMA RegenKeepsToQueue ==
  ASSUME TypeOK, NEW x \in Regenerates, RegenAny(x), NEW r \in Repos, ToQueue(r)
  PROVE  ToQueue(r)' \/ HostsOf({r}) \subseteq queue'
<1>1. \A y \in Regenerates \ {x} : regen'[y] = regen[y] /\ chosen'[y] = chosen[y]
  BY RegenFrame
<1>2. CASE RegenPushHosts(x)
  <2>1. toRegen' = toRegen /\ chosen' = chosen /\ queue' = queue \cup HostsOf(chosen[x])
    BY <1>2 DEF RegenPushHosts, content
  <2>2. CASE r \in chosen[x]
    <3>1. HostsOf({r}) \subseteq HostsOf(chosen[x])
      BY <2>2 DEF HostsOf
    <3> QED  BY <2>1, <3>1
  <2>3. CASE r \notin chosen[x]
    BY <1>1, <2>1, <2>3 DEF ToQueue, InFlight
  <2> QED  BY <2>2, <2>3
<1>3. CASE RegenSelect(x)
  <2> DEFINE found == {s \in Repos : (x = SyncPlan \/ s = on[x]) /\ NeedsRegen(s)}
  <2>1. toRegen' = toRegen /\ regen[x] = "off"
    BY <1>3 DEF RegenSelect, content
  <2>2. CASE UNCHANGED regens
    BY <2>1, <2>2 DEF regens, ToQueue, InFlight
  <2>3. CASE /\ regen' = [regen EXCEPT ![x] = IF HostsOf(found) = {} THEN "stamp" ELSE "selected"]
             /\ chosen' = [chosen EXCEPT ![x] = found]
    <3>1. regen'[x] \in {"queued", "stamp"} /\ r \in chosen'[x] => HostsOf(found) = {} /\ r \in found
      BY <2>3 DEF TypeOK
    <3>2. r \in found => HostsOf({r}) \subseteq HostsOf(found)
      BY DEF HostsOf
    <3> QED  BY <1>1, <2>1, <3>1, <3>2 DEF ToQueue, InFlight
  <2> QED  BY <1>3, <2>2, <2>3 DEF RegenSelect
<1>4. CASE RegenPushEvent(x)
  <2>1. toRegen' = toRegen /\ chosen' = chosen /\ regen[x] = "queued"
    BY <1>4 DEF RegenPushEvent, RegenPushes, content
  <2> QED  BY <1>1, <2>1 DEF ToQueue, InFlight
<1>5. CASE RegenStamp(x)
  <2>1. /\ regen[x] = "stamp" /\ regen'[x] = "off"
        /\ toRegen' = [s \in Repos |-> toRegen[s] /\ s \notin chosen[x]]
    BY <1>5 DEF RegenStamp, TypeOK
  <2>2. r \notin chosen[x]
    BY <2>1 DEF ToQueue, InFlight
  <2> QED  BY <1>1, <2>1, <2>2 DEF ToQueue, InFlight
<1>6. CASE RegenerateFails(x)
  <2>1. toRegen' = toRegen /\ regen'[x] = "off"
    BY <1>6 DEF RegenerateFails, content, TypeOK
  <2> QED  BY <1>1, <2>1 DEF ToQueue, InFlight
<1> QED  BY <1>2, <1>3, <1>4, <1>5, <1>6 DEF RegenAny, RegenStep

(* Regenerate forgets no host. *)
LEMMA RegenKeepsHosts ==
  ASSUME HInv, NEW x \in Regenerates, RegenAny(x)
  PROVE  NotForgotten'
<1>1. UNCHANGED <<indexed, installed, upload, batch, jobs, todo, eval, applicable, behind, raced>>
  BY RegenFrame DEF HInv, work
<1>2. queue \subseteq queue' /\ missed \ missed' \subseteq queue'
  BY DEF RegenAny, RegenSelect, RegenStep, RegenPushHosts, RegenPushEvent, RegenPushes, RegenStamp, RegenerateFails
<1>3. ASSUME NEW h \in Hosts \ missed', Coming(h) \/ h \in missed PROVE Coming(h)'
  <2>1. CASE h \in missed
    BY <1>2, <1>3, <2>1 DEF Coming
  <2>2. ASSUME NEW r \in bound[h], ToQueue(r) PROVE Coming(h)'
    <3>1. r \in Repos /\ h \in HostsOf({r})
      BY BoundType DEF HostsOf
    <3>2. ToQueue(r)' \/ HostsOf({r}) \subseteq queue'
      BY <2>2, <3>1, RegenKeepsToQueue DEF HInv
    <3> QED  BY <3>1, <3>2 DEF Coming
  <2>3. CASE ~(\E r \in bound[h] : ToQueue(r)) /\ Coming(h)
    BY <1>1, <1>2, <2>3 DEF Coming
  <2> QED  BY <1>3, <2>1, <2>2, <2>3
<1> QED  BY <1>1, <1>3, StillComing DEF HInv

(* Requests and the handler leave the content and the workers alone. *)
LEMMA OutsideFrame ==
  ASSUME Outside
  PROVE  UNCHANGED <<content, task, regens, todo, eval, applicable, history>>
<1>1. CASE HandlerStep \/ HandlerFault
  BY <1>1, Interruption DEF HandlerStep, HandlerBegins, Starts, Drained, FindsEmpty, PopSelect, PopDelete, CreateTask,
         HandlerFault, HandlerKilled, Returns, work
<1>2. CASE ~HandlerStep /\ ~HandlerFault
  BY <1>2 DEF Outside, Upload, UploadStep, UploadPushHosts, UploadPushEvent, UploadPushes, RequestDies, vars, work
<1> QED  BY <1>1, <1>2

(* The handler holds a batch only between its pop and its task. *)
LEMMA OutsideKeepsBatch ==
  ASSUME BatchInHand, Outside
  PROVE  BatchInHand'
<1>1. CASE HandlerBegins
  BY <1>1 DEF HandlerBegins, Starts, BatchInHand
<1>2. CASE Drained \/ HandlerStopped \/ HandlerFails \/ HandlerCrashes
  BY <1>2, Interruption DEF Drained, FindsEmpty, Returns, BatchInHand
<1>3. CASE PopSelect \/ PopDelete \/ CreateTask \/ HandlerKilled
  BY <1>3 DEF PopSelect, PopDelete, CreateTask, HandlerKilled, BatchInHand
<1>4. CASE ~HandlerStep /\ ~HandlerFault
  BY <1>4 DEF Outside, Upload, UploadStep, UploadPushHosts, UploadPushEvent, UploadPushes, RequestDies, vars, run,
              BatchInHand
<1> QED  BY <1>1, <1>2, <1>3, <1>4 DEF HandlerStep, HandlerFault

(* An upload queues its host before it counts as done. *)
LEMMA UploadKeepsHosts ==
  ASSUME HInv, NEW h \in Hosts, Upload(h) \/ UploadStep(h) \/ RequestDies(h)
  PROVE  NotForgotten'
<1>1. UNCHANGED <<toRegen, regen, chosen, indexed, applicable, todo, eval, behind, raced>>
  BY OutsideFrame DEF Outside, content, regens, history
<1>2. UNCHANGED <<batch, jobs>>
  BY DEF Upload, UploadStep, UploadPushHosts, UploadPushEvent, UploadPushes, RequestDies, run, work
<1>3. \A g \in Hosts \ {h} : upload'[g] = upload[g] /\ installed'[g] = installed[g]
  BY DEF Upload, UploadStep, UploadPushHosts, UploadPushEvent, UploadPushes, RequestDies, HInv, TypeOK
<1>4. \A r \in Repos : ToQueue(r)' = ToQueue(r)
  BY <1>1 DEF ToQueue, InFlight
<1>5. CASE Upload(h)
  <2>1. UNCHANGED <<queue, missed>> /\ upload'[h] = "stored"
    BY <1>5 DEF Upload, HInv, TypeOK
  <2>2. ASSUME NEW g \in Hosts \ Excused', bound[g] # {}, ~Coming(g)'
        PROVE  EndsCurrent(g)'
    <3>1. g # h
      BY <2>1, <2>2 DEF Coming
    <3>2. ~Coming(g)
      BY <1>1, <1>2, <1>3, <1>4, <2>1, <2>2, <3>1, BoundType DEF Coming
    <3>3. EndsCurrent(g)
      BY <1>1, <2>1, <2>2, <3>2 DEF HInv, NotForgotten, Excused
    <3> QED  BY <1>1, <1>3, <3>1, <3>3 DEF EndsCurrent, At, Applies
  <2> QED  BY <2>2 DEF NotForgotten
<1>6. CASE UploadPushHosts(h)
  <2>1. queue' = queue \cup {h} /\ missed' = missed \ {h} /\ installed' = installed
    BY <1>6 DEF UploadPushHosts
  <2>2. \A g \in Hosts \ {h} : Coming(g) => Coming(g)'
    BY <1>1, <1>2, <1>3, <1>4, <2>1, BoundType DEF Coming
  <2>3. Coming(h)'
    BY <2>1 DEF Coming
  <2> QED  BY <1>1, <2>1, <2>2, <2>3, StillComing DEF HInv
<1>7. CASE UploadPushEvent(h) \/ RequestDies(h)
  <2>1. UNCHANGED <<queue, installed>> /\ missed \subseteq missed'
        /\ (upload[h] = "stored" => h \in missed')
    BY <1>7 DEF UploadPushEvent, UploadPushes, RequestDies, HInv, TypeOK
  <2>2. \A g \in Hosts \ missed' : Coming(g) => Coming(g)'
    BY <1>1, <1>2, <1>3, <1>4, <2>1, BoundType DEF Coming
  <2> QED  BY <1>1, <2>1, <2>2, StillComing DEF HInv
<1> QED  BY <1>5, <1>6, <1>7 DEF UploadStep

(* The handler hands on every host it takes, unless a fault stops it. *)
LEMMA HandlerKeepsHosts ==
  ASSUME HInv, HandlerStep \/ HandlerFault
  PROVE  NotForgotten'
<1>1. UNCHANGED <<toRegen, regen, chosen, indexed, todo, eval, applicable, behind, raced>>
  BY OutsideFrame DEF Outside, content, regens, history
<1>2. UNCHANGED <<upload, installed>> /\ missed \subseteq missed'
  <2>1. CASE HandlerStopped \/ HandlerFails \/ HandlerCrashes
    BY <2>1, Interruption DEF Returns
  <2>2. CASE ~(HandlerStopped \/ HandlerFails \/ HandlerCrashes)
    BY <2>2 DEF HandlerStep, HandlerBegins, Starts, Drained, FindsEmpty, Returns, PopSelect, PopDelete, CreateTask,
           HandlerFault, HandlerKilled
  <2> QED  BY <2>1, <2>2
<1>3. \A r \in Repos : ToQueue(r)' = ToQueue(r)
  BY <1>1 DEF ToQueue, InFlight
<1>4. \A b \in SUBSET Hosts : jobs[b] > 0 => jobs'[b] > 0
  <2>1. CASE CreateTask
    BY <2>1 DEF CreateTask, HInv, TypeOK
  <2>2. CASE ~CreateTask
    <3>1. jobs' = jobs
      BY <2>2, Interruption DEF HandlerStep, HandlerBegins, Starts, Drained, FindsEmpty, Returns, PopSelect, PopDelete,
             HandlerFault, HandlerKilled, work
    <3> QED  BY <3>1
  <2> QED  BY <2>1, <2>2
<1>5. ASSUME NEW h \in Hosts \ missed', h \in queue \cup batch
      PROVE  h \in queue' \cup batch' \/ \E b \in SUBSET Hosts : h \in b /\ jobs'[b] > 0
  <2>1. CASE HandlerBegins
    BY <1>5, <2>1 DEF HandlerBegins, Starts
  <2>2. CASE Drained \/ PopSelect
    <3>1. batch = {}
      BY <2>2 DEF Drained, FindsEmpty, PopSelect, HInv, BatchInHand
    <3> QED  BY <1>5, <2>2, <3>1 DEF Drained, FindsEmpty, PopSelect
  <2>3. CASE PopDelete
    BY <1>5, <2>3 DEF PopDelete, Deleted
  <2>4. CASE CreateTask
    <3>1. batch \in SUBSET Hosts /\ jobs'[batch] = jobs[batch] + 1 /\ jobs[batch] \in Nat /\ queue' = queue
      BY <2>4 DEF CreateTask, HInv, TypeOK
    <3> QED  BY <1>5, <3>1
  <2>5. CASE HandlerStopped \/ HandlerFails \/ HandlerCrashes
    BY <1>5, <2>5, Interruption DEF Returns
  <2>6. CASE HandlerKilled
    BY <1>5, <2>6 DEF HandlerKilled
  <2> QED  BY <2>1, <2>2, <2>3, <2>4, <2>5, <2>6 DEF HandlerStep, HandlerFault
<1>6. \A h \in Hosts \ missed' : Coming(h) => Coming(h)'
  BY <1>1, <1>2, <1>3, <1>4, <1>5, BoundType DEF Coming
<1> QED  BY <1>1, <1>2, <1>6, StillComing DEF HInv

(* What is computed from the present tables and profile, and stored over the *)
(* applicable content it was computed from, is the content that applies.     *)
LEMMA WorkersKeepHosts ==
  ASSUME HInv, NEW w \in Workers, WorkerStep(w)
  PROVE  NotForgotten'
<1>1. UNCHANGED <<toRegen, regen, chosen, upload, indexed, installed, queue, batch, missed>>
  BY DEF WorkerStep, TakeJob, Compare, Import, content, regens, run
<1>2. \A h \in Hosts : Applies(h)' = Applies(h)
  BY <1>1 DEF Applies
<1>3. \A r \in Repos : ToQueue(r)' = ToQueue(r)
  BY <1>1 DEF ToQueue, InFlight
<1>4. CASE TakeJob(w)
  <2>1. UNCHANGED <<eval, applicable, behind, raced>>
    BY <1>4 DEF TakeJob, history
  <2>2. PICK b \in SUBSET Hosts : /\ jobs' = [jobs EXCEPT ![b] = @ - 1]
                                 /\ todo' = [todo EXCEPT ![w] = b]
    BY <1>4 DEF TakeJob
  <2>3. \A c \in SUBSET Hosts : c # b => jobs'[c] = jobs[c]
    BY <2>2 DEF HInv, TypeOK
  <2>4. todo[w] = {} /\ todo'[w] = b /\ \A v \in Workers \ {w} : todo'[v] = todo[v]
    BY <1>4, <2>2 DEF TakeJob, HInv, TypeOK
  <2>5. ASSUME NEW h \in Hosts, Coming(h) PROVE Coming(h)'
    BY <1>1, <1>3, <2>3, <2>4, <2>5, BoundType DEF Coming
  <2> QED  BY <1>1, <2>1, <2>5, StillComing DEF HInv
<1>5. ASSUME NEW h \in Hosts, Compare(w, h) PROVE NotForgotten'
  <2>1. /\ UNCHANGED <<jobs, applicable>> /\ behind' = behind \ {h} /\ eval[w] = NoEval
        /\ \A v \in Workers \ {w} : eval'[v] = eval[v] /\ todo'[v] = todo[v]
    BY <1>5 DEF Compare, HInv, TypeOK
  <2>2. todo'[w] = todo[w] \ {h} /\ \A g \in Hosts : At(w, g)' => g = h
    BY <1>5 DEF Compare, At, HInv, TypeOK
  <2>3. ASSUME bound[h] # {}, h \notin raced' PROVE EndsCurrent(h)'
    <3>1. \A v \in Workers : ~At(v, h)
      BY <1>5, <2>3 DEF Compare
    <3>2. eval'[w] = [host |-> h, add |-> Applies(h) \ applicable[h], remove |-> applicable[h] \ Applies(h)]
      BY <1>5, <2>3 DEF Compare, HInv, TypeOK
    <3>3. At(w, h)'
      BY <3>2 DEF At, NoEval
    <3>4. (applicable[h] \cup eval'[w].add) \ eval'[w].remove = Applies(h)
      BY <3>2
    <3>5. \A v \in Workers : At(v, h)' => v = w
      BY <2>1, <3>1 DEF At
    <3> QED  BY <1>2, <2>1, <3>3, <3>4, <3>5 DEF EndsCurrent
  <2>4. ASSUME NEW g \in Hosts \ {h}, EndsCurrent(g) PROVE EndsCurrent(g)'
    <3>1. ~At(w, g) /\ ~At(w, g)'
      BY <2>1, <2>2 DEF At
    <3> QED  BY <1>2, <2>1, <2>4, <3>1 DEF EndsCurrent, At
  <2>5. \A g \in Hosts \ {h} : Coming(g) => Coming(g)'
    BY <1>1, <1>3, <2>1, <2>2, BoundType DEF Coming
  <2>6. \A g \in Hosts \ {h} : g \in Excused <=> g \in Excused'
    BY <1>1, <1>5, <2>1 DEF Compare, Excused
  <2> QED  BY <2>3, <2>4, <2>5, <2>6 DEF HInv, NotForgotten, Excused
<1>6. CASE Import(w)
  <2> DEFINE k == eval[w].host
  <2>1. /\ UNCHANGED <<jobs, todo, behind, raced>> /\ At(w, k) /\ k \in Hosts /\ eval'[w] = NoEval
        /\ applicable'[k] = (applicable[k] \cup eval[w].add) \ eval[w].remove
        /\ \A g \in Hosts \ {k} : applicable'[g] = applicable[g]
        /\ \A v \in Workers \ {w} : eval'[v] = eval[v]
    <3>1. eval[w] \in Evaluation
      BY <1>6 DEF Import, HInv, TypeOK
    <3> QED  BY <1>6, <3>1 DEF Import, At, Evaluation, HInv, TypeOK, history
  <2>2. \A g \in Hosts : Coming(g) => Coming(g)'
    BY <1>1, <1>3, <2>1, BoundType DEF Coming
  <2>3. ASSUME NEW g \in Hosts \ Excused', EndsCurrent(g) PROVE EndsCurrent(g)'
    <3>1. CASE g = k
      <4>1. \A v \in Workers : At(v, g) => v = w
        BY <2>1, <2>3, <3>1 DEF HInv, RacesKnown, Excused
      <4>2. \A v \in Workers : ~At(v, g)'
        BY <2>1, <4>1 DEF At
      <4> QED  BY <1>2, <2>1, <2>3, <3>1, <4>2 DEF EndsCurrent
    <3>2. CASE g # k
      <4>1. ~At(w, g) /\ ~At(w, g)'
        BY <2>1, <3>2 DEF At
      <4> QED  BY <1>2, <2>1, <2>3, <3>2, <4>1 DEF EndsCurrent, At
    <3> QED  BY <3>1, <3>2
  <2> QED  BY <1>1, <2>1, <2>2, <2>3 DEF HInv, NotForgotten, Excused
<1> QED  BY <1>4, <1>5, <1>6 DEF WorkerStep

(* An evaluation that fails has dropped its host, or all of its task. *)
LEMMA FailuresKeepHosts ==
  ASSUME HInv, NEW w \in Workers, EvaluationFails(w)
  PROVE  NotForgotten'
<1>1. /\ UNCHANGED <<toRegen, regen, chosen, upload, indexed, installed, queue, batch, jobs,
                     applicable, behind, raced>>
      /\ eval'[w] = NoEval /\ \A v \in Workers \ {w} : eval'[v] = eval[v]
  BY DEF EvaluationFails, content, regens, run, history, HInv, TypeOK
<1>2. PICK lost \in {{}, todo[w]} : /\ todo' = [todo EXCEPT ![w] = @ \ lost]
                                   /\ missed' = missed \cup lost \cup {h \in Hosts : At(w, h)}
  BY DEF EvaluationFails
<1>3. todo'[w] = todo[w] \ lost /\ \A v \in Workers \ {w} : todo'[v] = todo[v]
  BY <1>2 DEF HInv, TypeOK
<1>4. \A r \in Repos : ToQueue(r)' = ToQueue(r)
  BY <1>1 DEF ToQueue, InFlight
<1>5. \A h \in Hosts \ missed' : Coming(h) => Coming(h)'
  BY <1>1, <1>2, <1>3, <1>4, BoundType DEF Coming
<1>6. ASSUME NEW h \in Hosts \ missed', EndsCurrent(h) PROVE EndsCurrent(h)'
  <2>1. ~At(w, h) /\ ~At(w, h)'
    BY <1>1, <1>2 DEF At
  <2>2. Applies(h)' = Applies(h)
    BY <1>1 DEF Applies
  <2> QED  BY <1>1, <1>6, <2>1, <2>2 DEF EndsCurrent, At
<1>7. Excused \subseteq Excused'
  BY <1>1, <1>2 DEF Excused
<1> QED  BY <1>5, <1>6, <1>7 DEF HInv, NotForgotten, Excused

(* Workers that meet at a host are recorded. *)
LEMMA WorkersKeepRaces ==
  ASSUME TypeOK, RacesKnown, NEW w \in Workers, WorkerStep(w) \/ EvaluationFails(w)
  PROVE  RacesKnown'
<1>1. ASSUME NEW h \in Hosts, Compare(w, h) PROVE RacesKnown'
  <2>1. \A v \in Workers \ {w} : eval'[v] = eval[v]
    BY <1>1 DEF Compare, TypeOK
  <2>2. \A g \in Hosts : At(w, g)' => g = h
    BY <1>1 DEF Compare, At, TypeOK
  <2>3. \A g \in Hosts \ {h} : g \in raced' <=> g \in raced
    BY <1>1 DEF Compare
  <2>4. (\E v \in Workers : At(v, h)) => h \in raced'
    BY <1>1 DEF Compare
  <2>5. ASSUME NEW u \in Workers, NEW v \in Workers, NEW g \in Hosts, At(u, g)', At(v, g)'
        PROVE  u = v \/ g \in raced'
    <3>1. CASE g = h
      BY <2>1, <2>4, <2>5, <3>1 DEF At
    <3>2. CASE g # h
      <4>1. u # w /\ v # w
        BY <2>2, <2>5, <3>2
      <4> QED  BY <2>1, <2>3, <2>5, <3>2, <4>1 DEF RacesKnown, At
    <3> QED  BY <3>1, <3>2
  <2> QED  BY <2>5 DEF RacesKnown
<1>2. CASE TakeJob(w) \/ Import(w) \/ EvaluationFails(w)
  <2>1. raced' = raced /\ \A v \in Workers, h \in Hosts : At(v, h)' => At(v, h)
    BY <1>2 DEF TakeJob, Import, EvaluationFails, history, At, TypeOK
  <2> QED  BY <2>1 DEF RacesKnown
<1> QED  BY <1>1, <1>2 DEF WorkerStep

(* No host is forgotten in any behaviour of Spec. *)
THEOREM HostsRemembered == Spec => []HInv
<1>1. Init => HInv
  <2> SUFFICES ASSUME Init PROVE BatchInHand /\ LagKnown /\ RacesKnown /\ NotForgotten
    BY InitType DEF HInv
  <2>1. BatchInHand /\ LagKnown
    BY DEF Init, BatchInHand, LagKnown
  <2>2. \A w \in Workers, h \in Hosts : ~At(w, h)
    BY DEF Init, At
  <2>3. \A h \in Hosts : applicable[h] = Applies(h)
    BY DEF Init
  <2> QED  BY <2>1, <2>2, <2>3 DEF RacesKnown, NotForgotten, EndsCurrent
<1>2. HInv /\ [Next]_vars /\ TypeOK' => HInv'
  <2> SUFFICES ASSUME HInv, [Next]_vars
               PROVE  BatchInHand' /\ LagKnown' /\ RacesKnown' /\ NotForgotten'
    BY DEF HInv
  <2>1. ASSUME NEW t \in Tasks, ContentStep(t)
        PROVE  BatchInHand' /\ LagKnown' /\ RacesKnown' /\ NotForgotten'
    <3>1. UNCHANGED <<handler, batch, eval, raced>>
      BY <2>1, ContentFrame DEF HInv, work
    <3>2. BatchInHand' /\ RacesKnown'
      BY <3>1 DEF HInv, BatchInHand, RacesKnown, At
    <3> QED  BY <2>1, <3>2, ContentKeepsLag, ContentTasksKeep DEF HInv
  <2>2. ASSUME NEW x \in Regenerates, RegenAny(x)
        PROVE  BatchInHand' /\ LagKnown' /\ RacesKnown' /\ NotForgotten'
    <3>1. UNCHANGED <<handler, batch, eval, raced>>
      BY <2>2, RegenFrame DEF HInv, work
    <3>2. BatchInHand' /\ RacesKnown'
      BY <3>1 DEF HInv, BatchInHand, RacesKnown, At
    <3> QED  BY <2>2, <3>2, RegenKeepsLag, RegenKeepsHosts DEF HInv
  <2>3. CASE Outside
    <3>1. UNCHANGED <<saved, indexed, toRegen, regen, chosen, todo, eval, applicable, early, behind, raced>>
      BY <2>3, OutsideFrame DEF content, regens, history
    <3>2. BatchInHand' /\ LagKnown' /\ RacesKnown'
      BY <2>3, <3>1, OutsideKeepsBatch DEF HInv, LagKnown, RacesKnown, At
    <3>3. CASE UNCHANGED vars
      <4>1. UNCHANGED <<indexed, installed, upload, queue, batch, jobs, missed>>
        BY <3>3 DEF vars, content, run, work
      <4>2. \A h \in Hosts : Coming(h)' = Coming(h)
        BY <3>1, <4>1 DEF Coming, ToQueue, InFlight
      <4> QED  BY <3>1, <3>2, <4>1, <4>2, StillComing DEF HInv
    <3> QED  BY <2>3, <3>2, <3>3, UploadKeepsHosts, HandlerKeepsHosts DEF Outside
  <2>4. ASSUME NEW w \in Workers, WorkerStep(w) \/ EvaluationFails(w)
        PROVE  BatchInHand' /\ LagKnown' /\ RacesKnown' /\ NotForgotten'
    <3>1. UNCHANGED <<saved, indexed, toRegen, early, handler, batch>>
      BY <2>4 DEF WorkerStep, TakeJob, Compare, Import, EvaluationFails, content, run, history
    <3>2. BatchInHand' /\ LagKnown'
      BY <3>1 DEF HInv, BatchInHand, LagKnown
    <3> QED  BY <2>4, <3>2, WorkersKeepRaces, WorkersKeepHosts, FailuresKeepHosts DEF HInv
  <2> QED  BY <2>1, <2>2, <2>3, <2>4 DEF Next, ContentStep, RegenAny, Outside
<1> QED  BY <1>1, <1>2, TypeCorrect, PTL DEF Spec

(* SettledMeansCurrent (content_facet.rb, bulk_generate.rb, regenerate.rb):   *)
(* for every number of repositories, hosts, syncs, removals beside them,     *)
(* plans, uploads, faults and workers, and every batch size.                 *)
THEOREM SettledIsCurrent == Spec => []SettledMeansCurrent
<1>1. HInv => SettledMeansCurrent
  <2> SUFFICES ASSUME HInv, NEW h \in Hosts, ~Pending(h), h \notin Excused, bound[h] # {}
               PROVE  applicable[h] = Applies(h)
    BY DEF SettledMeansCurrent, Excused
  <2>1. ~Coming(h) /\ \A w \in Workers : ~At(w, h)
    BY DEF Pending, Coming, ToQueue
  <2> QED  BY <2>1 DEF HInv, NotForgotten, EndsCurrent
<1> QED  BY <1>1, HostsRemembered, PTL
=============================================================================
