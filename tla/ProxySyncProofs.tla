--------------------------- MODULE ProxySyncProofs ---------------------------
(***************************************************************************)
(* Proofs about ProxySync: no proxy is skipped while it lacks content, for  *)
(* any proxies, numbers of syncs at once, versions and failures.            *)
(***************************************************************************)
EXTENDS ProxySync, TLAPS

(* A row that is not in doubt. *)
Sure(p) == history[p] # None /\ ~history[p].doubt

Publishing == /\ op["sync"].changed /\ ~op["sync"].broken
              /\ op["sync"].stage \in {"distribution", "finalize"}

(* While a sure row exists no early change is on its way, and only a sync   *)
(* that will delete the row has published what is not served yet.           *)
RowsSeeServed == \A p \in Proxies : Sure(p) => ~WindowOpen /\ (served = published \/ Publishing)

BrokenSkips == op["sync"].broken => op["sync"].stage = "distribution"

Reading(s, p) == SyncAt(s, "reading") /\ sync[s].proxy = p

OneReader == \A p \in Proxies : \A s, t \in Slots : Reading(s, p) /\ Reading(t, p) => s = t

Owns(s, p) == /\ sync[s].row /\ sync[s].proxy = p
              /\ history[p] # None /\ history[p].by = s /\ ~history[p].finished

(* The content of the row has arrived on the mirror. *)
Arrived(p) == history[p].finished \/ \E s \in Slots : Owns(s, p) /\ SyncAt(s, "written")

Current(version) == version = served \/ ClearPending

(* What is read for a sure row, or after it has arrived, is what is served. *)
ReadsServed ==
  \A p \in Proxies : Sure(p) =>
    /\ Arrived(p) => Current(synced[p])
    /\ \A s \in Slots : Reading(s, p) /\ (Arrived(p) \/ Owns(s, p)) => Current(sync[s].read)

WillOffer(p) == \E s \in Slots : sync[s].stage \in {"written", "refresh"} /\ sync[s].proxy = p

OffersSynced == \A p \in Proxies : Sure(p) /\ history[p].finished => offered[p] = synced[p] \/ WillOffer(p)

IInv == TypeOK /\ BrokenSkips /\ OneReader /\ RowsSeeServed /\ ReadsServed /\ OffersSynced

OpRecord == [stage : OpStages, new : Versions \cup {None}, changed : BOOLEAN,
             broken : BOOLEAN, clean : BOOLEAN]

SyncRecord == [stage : Stages, proxy : Proxies \cup {None}, row : BOOLEAN, read : Versions \cup {None}]

RowRecord == [by : Slots, finished : BOOLEAN, doubt : BOOLEAN]

-----------------------------------------------------------------------------
(* The operators the actions are made of. *)

LEMMA GoStep ==
  ASSUME NEW k \in Kinds, NEW new \in OpRecord, op \in [Kinds -> OpRecord], Go(k, new)
  PROVE  /\ op' \in [Kinds -> OpRecord]
         /\ \A j \in Early : op'[j] = IF j = k THEN new ELSE op[j]
         /\ op'["sync"].stage = IF k = "sync" THEN new.stage ELSE op["sync"].stage
         /\ op'["sync"].changed = IF k = "sync" THEN new.changed ELSE op["sync"].changed
         /\ op'["sync"].broken = IF k = "sync" THEN new.broken ELSE op["sync"].broken
<1> DEFINE alone(j) == IF j = k THEN \A other \in Kinds \ {k} : At(other, "idle") ELSE At(j, "idle")
           mine(j) == IF j = k THEN new ELSE op[j]
           next(j) == IF j = "sync" THEN [mine(j) EXCEPT !.clean = @ /\ alone(j)] ELSE mine(j)
<1>1. op' = [j \in Kinds |-> next(j)]
  BY DEF Go
<1>2. \A j \in Kinds : mine(j) \in OpRecord /\ alone(j) \in BOOLEAN
  BY DEF At
<1>3. \A j \in Kinds : next(j) \in OpRecord
  <2> SUFFICES ASSUME NEW j \in Kinds PROVE next(j) \in OpRecord
    OBVIOUS
  <2>1. mine(j) \in OpRecord /\ alone(j) \in BOOLEAN
    BY <1>2
  <2> HIDE DEF mine, alone
  <2> QED
    BY <2>1 DEF OpRecord
<1>4. "sync" \in Kinds /\ Early \subseteq Kinds /\ "sync" \notin Early
  BY DEF Kinds, Early
<1>5. \A j \in Early : op'[j] = mine(j)
  BY <1>1, <1>4
<1>6. op'["sync"] = [mine("sync") EXCEPT !.clean = @ /\ alone("sync")]
  BY <1>1, <1>4
<1>7. /\ op'["sync"].stage = mine("sync").stage
      /\ op'["sync"].changed = mine("sync").changed
      /\ op'["sync"].broken = mine("sync").broken
  <2>1. mine("sync") \in OpRecord
    BY <1>2, <1>4
  <2> HIDE DEF mine, alone
  <2> QED
    BY <1>6, <2>1 DEF OpRecord
<1> QED
  BY <1>1, <1>3, <1>5, <1>7

LEMMA IdleTyped == ASSUME ProxyAssumption PROVE Idle \in OpRecord /\ Free \in SyncRecord
BY DEF Idle, Free, OpRecord, SyncRecord, OpStages, Stages

LEMMA RowsTyped ==
  ASSUME TypeOK
  PROVE  /\ Cleared \in [Proxies -> RowRecord \cup {None}]
         /\ \A ps : Doubted(ps) \in [Proxies -> RowRecord \cup {None}]
         /\ \A s \in Slots, late \in BOOLEAN :
              sync[s].proxy \in Proxies => WithRow(s, late) \in [Proxies -> RowRecord \cup {None}]
<1>0. history \in [Proxies -> RowRecord \cup {None}]
  BY DEF TypeOK, RowRecord
<1>1. Cleared \in [Proxies -> RowRecord \cup {None}]
  BY DEF Cleared
<1>2. ASSUME NEW ps PROVE Doubted(ps) \in [Proxies -> RowRecord \cup {None}]
  <2>1. ASSUME NEW p \in Proxies, history[p] # None PROVE [history[p] EXCEPT !.doubt = TRUE] \in RowRecord
    <3>1. history[p] \in RowRecord
      BY <1>0, <2>1
    <3> QED
      BY <3>1 DEF RowRecord
  <2> QED
    BY <1>0, <2>1 DEF Doubted
<1>3. ASSUME NEW s \in Slots, NEW late \in BOOLEAN, sync[s].proxy \in Proxies
      PROVE  WithRow(s, late) \in [Proxies -> RowRecord \cup {None}]
  <2> DEFINE row == [by |-> s, finished |-> FALSE, doubt |-> late \/ WindowOpen \/ served # published]
  <2>1. row \in RowRecord
    <3>1. (late \/ WindowOpen \/ served # published) \in BOOLEAN
      BY DEF WindowOpen
    <3> QED
      BY <3>1 DEF RowRecord
  <2> HIDE DEF row
  <2>2. [history EXCEPT ![sync[s].proxy] = row] \in [Proxies -> RowRecord \cup {None}]
    BY <1>0, <1>3, <2>1
  <2> QED
    BY <2>2 DEF WithRow, row
<1> QED
  BY <1>1, <1>2, <1>3

LEMMA ServerTypes == ASSUME ProxyAssumption, TypeOK, ServerStep PROVE TypeOK'
<1>0. /\ pulp \in Versions /\ saved \in Versions /\ published \in Versions /\ served \in Versions
      /\ op \in [Kinds -> OpRecord]
      /\ history \in [Proxies -> RowRecord \cup {None}]
      /\ due \subseteq Proxies
      /\ sync \in [Slots -> SyncRecord]
      /\ synced \in [Proxies -> Versions] /\ offered \in [Proxies -> Versions]
      /\ failed \in [Proxies -> BOOLEAN]
      /\ faults \in 0..MaxFaults
      /\ \A s \in Slots : sync[s].stage # "free" => sync[s].proxy \in Proxies
      /\ \A s \in Slots : SyncAt(s, "reading") => sync[s].read \in Versions
      /\ \A k \in Kinds : op[k] \in OpRecord
      /\ "sync" \in Kinds /\ Early \subseteq Kinds
  BY DEF TypeOK, OpRecord, RowRecord, SyncRecord, Kinds, Early
<1>1. Idle \in OpRecord
  BY IdleTyped
<1>2. UNCHANGED proxyVars
  BY DEF ServerStep, BeginSync, BeginChange, PulpTask, SaveVersion, CreatePublication,
         RefreshDistribution, Finalize, StepFails
<1>3. ASSUME NEW k \in Kinds, NEW new \in OpRecord, Go(k, new),
             pulp' \in Versions, saved' \in Versions, published' \in Versions, served' \in Versions,
             history' \in [Proxies -> RowRecord \cup {None}], due' \subseteq Proxies, faults' \in 0..MaxFaults
      PROVE  TypeOK'
  <2>1. op' \in [Kinds -> OpRecord]
    BY <1>0, <1>3, GoStep
  <2> QED
    BY <1>0, <1>2, <1>3, <2>1 DEF TypeOK, OpRecord, RowRecord, SyncRecord, proxyVars, SyncAt
<1>4. CASE BeginSync
  <2>1. [Idle EXCEPT !.stage = "pulp"] \in OpRecord
    BY <1>1 DEF OpRecord, OpStages
  <2> QED
    BY <1>0, <1>3, <1>4, <2>1 DEF BeginSync
<1>5. ASSUME NEW k \in Early, BeginChange(k) PROVE TypeOK'
  <2>1. [Idle EXCEPT !.stage = "pulp"] \in OpRecord
    BY <1>1 DEF OpRecord, OpStages
  <2>2. history' \in [Proxies -> RowRecord \cup {None}]
    BY <1>5, RowsTyped DEF BeginChange
  <2> QED
    BY <1>0, <1>3, <1>5, <2>1, <2>2 DEF BeginChange
<1>6. ASSUME NEW k \in Kinds, PulpTask(k) PROVE TypeOK'
  <2>1. CASE pulp < MaxVersion /\ pulp' = pulp + 1 /\ Go(k, [op[k] EXCEPT !.stage = "version", !.new = pulp + 1])
    <3>1. pulp + 1 \in Versions
      BY <1>0, <2>1, ProxyAssumption DEF Versions, ProxyAssumption
    <3>2. [op[k] EXCEPT !.stage = "version", !.new = pulp + 1] \in OpRecord
      BY <1>0, <3>1 DEF OpRecord, OpStages
    <3> QED
      BY <1>0, <1>3, <1>6, <2>1, <3>1, <3>2 DEF PulpTask
  <2>2. CASE UNCHANGED pulp /\ Go(k, [op[k] EXCEPT !.stage = "version"])
    <3>1. [op[k] EXCEPT !.stage = "version"] \in OpRecord
      BY <1>0 DEF OpRecord, OpStages
    <3> QED
      BY <1>0, <1>3, <1>6, <2>2, <3>1 DEF PulpTask
  <2> QED
    BY <1>6, <2>1, <2>2 DEF PulpTask
<1>7. ASSUME NEW k \in Kinds, SaveVersion(k) PROVE TypeOK'
  <2> DEFINE new == [op[k] EXCEPT !.stage = "publication", !.new = None,
                                  !.changed = k = "sync" /\ ContentsChanged(k)]
  <2>1. saved' \in Versions
    BY <1>0, <1>7 DEF SaveVersion, SavedVersion, OpRecord
  <2>2. new \in OpRecord
    <3>1. (k = "sync" /\ ContentsChanged(k)) \in BOOLEAN
      BY DEF ContentsChanged
    <3>2. op[k] \in OpRecord
      BY <1>0
    <3> QED
      BY <3>1, <3>2 DEF OpRecord, OpStages
  <2>3. Go(k, new)
    BY <1>7 DEF SaveVersion
  <2> HIDE DEF new
  <2> QED
    BY <1>0, <1>3, <1>7, <2>1, <2>2, <2>3 DEF SaveVersion
<1>8. ASSUME NEW k \in Kinds, CreatePublication(k) PROVE TypeOK'
  <2>1. [op[k] EXCEPT !.stage = "distribution"] \in OpRecord
    BY <1>0 DEF OpRecord, OpStages
  <2>2. published' \in Versions
    BY <1>0, <1>8 DEF CreatePublication
  <2> QED
    BY <1>0, <1>3, <1>8, <2>1, <2>2 DEF CreatePublication
<1>9. ASSUME NEW k \in Kinds, RefreshDistribution(k) PROVE TypeOK'
  <2>1. (IF op[k].broken THEN Idle ELSE [op[k] EXCEPT !.stage = "finalize"]) \in OpRecord
    <3>1. [op[k] EXCEPT !.stage = "finalize"] \in OpRecord
      BY <1>0 DEF OpRecord, OpStages
    <3> QED
      BY <1>1, <3>1
  <2> QED
    BY <1>0, <1>3, <1>9, <2>1 DEF RefreshDistribution
<1>10. ASSUME NEW k \in Kinds, Finalize(k) PROVE TypeOK'
  <2>1. history' \in [Proxies -> RowRecord \cup {None}]
    BY <1>0, <1>10, RowsTyped DEF Finalize
  <2> QED
    BY <1>0, <1>1, <1>3, <1>10, <2>1 DEF Finalize
<1>11. ASSUME NEW k \in Kinds, StepFails(k) PROVE TypeOK'
  <2>1. PICK new \in OpRecord : Go(k, new)
    <3> DEFINE stage == op[k].stage
               versionless == stage \in {"pulp", "version"}
               next == CASE versionless /\ k = "sync" -> "distribution"
                         [] versionless /\ k = "upload" -> "publication"
                         [] stage = "publication" -> "distribution"
                         [] stage = "distribution" /\ ~op[k].broken -> "finalize"
                         [] OTHER -> "idle"
               other == [op[k] EXCEPT !.stage = next, !.new = None, !.clean = @ /\ k # "sync",
                                      !.broken = versionless /\ k = "sync"]
    <3>1. next \in OpStages
      BY DEF OpStages
    <3>2. op[k] \in OpRecord
      BY <1>0
    <3>3. (op[k].clean /\ k # "sync") \in BOOLEAN /\ (versionless /\ k = "sync") \in BOOLEAN
      OBVIOUS
    <3> HIDE DEF next, versionless
    <3>4. other \in OpRecord
      BY <3>1, <3>2, <3>3 DEF OpRecord
    <3>5. Go(k, IF k = "remove" \/ next = "idle" THEN Idle ELSE other)
      BY <1>11 DEF StepFails, next, versionless
    <3> HIDE DEF other
    <3> QED
      BY <1>1, <3>4, <3>5
  <2>2. history' \in [Proxies -> RowRecord \cup {None}]
    BY <1>0, <1>11, RowsTyped DEF StepFails
  <2>3. faults' \in 0..MaxFaults
    BY <1>0, <1>11, ProxyAssumption DEF StepFails, Fault, ProxyAssumption
  <2> QED
    BY <1>0, <1>3, <1>11, <2>1, <2>2, <2>3 DEF StepFails
<1> QED
  BY <1>4, <1>5, <1>6, <1>7, <1>8, <1>9, <1>10, <1>11 DEF ServerStep

LEMMA ProxyTypes == ASSUME ProxyAssumption, TypeOK, ProxyStep PROVE TypeOK'
<1>0. /\ pulp \in Versions /\ saved \in Versions /\ published \in Versions /\ served \in Versions
      /\ op \in [Kinds -> OpRecord]
      /\ history \in [Proxies -> RowRecord \cup {None}]
      /\ due \subseteq Proxies
      /\ sync \in [Slots -> SyncRecord]
      /\ synced \in [Proxies -> Versions] /\ offered \in [Proxies -> Versions]
      /\ failed \in [Proxies -> BOOLEAN]
      /\ faults \in 0..MaxFaults
      /\ \A s \in Slots : sync[s].stage # "free" => sync[s].proxy \in Proxies
      /\ \A s \in Slots : SyncAt(s, "reading") => sync[s].read \in Versions
      /\ \A s \in Slots : sync[s] \in SyncRecord
  BY DEF TypeOK, OpRecord, RowRecord, SyncRecord
<1>1. UNCHANGED serverVars
  BY DEF ProxyStep, SyncStep, PlanSync, PlanForced, Start, PulpReads, PulpWrites, PulpFails, SavesLate,
         PollDone, PollError, PollFails, Refresh
<1>2. Fault => faults' \in 0..MaxFaults
  BY <1>0, ProxyAssumption DEF Fault, ProxyAssumption
<1>3. ASSUME NEW s \in Slots, NEW rec \in SyncRecord, sync' = [sync EXCEPT ![s] = rec],
             rec.stage # "free" => rec.proxy \in Proxies, rec.stage = "reading" => rec.read \in Versions,
             history' \in [Proxies -> RowRecord \cup {None}], due' \subseteq Proxies, faults' \in 0..MaxFaults,
             synced' \in [Proxies -> Versions], offered' \in [Proxies -> Versions], failed' \in [Proxies -> BOOLEAN]
      PROVE  TypeOK'
  <2>1. sync' \in [Slots -> SyncRecord]
    BY <1>0, <1>3
  <2>2. \A t \in Slots : sync'[t] = IF t = s THEN rec ELSE sync[t]
    BY <1>0, <1>3
  <2>3. /\ \A t \in Slots : sync'[t].stage # "free" => sync'[t].proxy \in Proxies
        /\ \A t \in Slots : sync'[t].stage = "reading" => sync'[t].read \in Versions
    BY <1>0, <1>3, <2>2 DEF SyncAt
  <2> QED
    BY <1>0, <1>1, <1>3, <2>1, <2>3 DEF TypeOK, OpRecord, RowRecord, SyncRecord, serverVars, SyncAt
<1>4. SUFFICES ASSUME NEW s \in Slots,
                      (\E p \in Proxies : PlanSync(s, p) \/ PlanForced(s, p)) \/ SyncStep(s) \/ PulpFails(s) \/ PollFails(s)
               PROVE  TypeOK'
  BY DEF ProxyStep
<1> DEFINE moved(stage) == [sync[s] EXCEPT !.stage = stage]
<1>5. ASSUME NEW p \in Proxies, PlanSync(s, p) \/ PlanForced(s, p) PROVE TypeOK'
  <2> DEFINE rec == [Free EXCEPT !.stage = "planned", !.proxy = p]
  <2>1. rec \in SyncRecord /\ rec.stage = "planned" /\ rec.proxy \in Proxies
    BY IdleTyped DEF SyncRecord, Stages, Free
  <2>2. [failed EXCEPT ![p] = FALSE] \in [Proxies -> BOOLEAN]
    BY <1>0
  <2>3. sync' = [sync EXCEPT ![s] = rec] \/ sync' = sync
    BY <1>5 DEF PlanSync, PlanForced, Planned
  <2>4. sync = [sync EXCEPT ![s] = sync[s]]
    BY <1>0
  <2>5. /\ history' \in [Proxies -> RowRecord \cup {None}] /\ due' \subseteq Proxies
        /\ failed' \in [Proxies -> BOOLEAN] /\ UNCHANGED <<synced, offered, faults>>
    BY <1>0, <1>5, <2>2 DEF PlanSync, PlanForced
  <2> HIDE DEF rec
  <2>6. CASE sync' = [sync EXCEPT ![s] = rec]
    BY <1>0, <1>3, <2>1, <2>5, <2>6
  <2>7. CASE sync' = sync
    BY <1>0, <1>3, <2>4, <2>5, <2>7 DEF SyncAt
  <2> QED
    BY <2>3, <2>6, <2>7
<1>6. ASSUME NEW rec \in SyncRecord, sync[s].stage # "free", sync' = [sync EXCEPT ![s] = rec],
             rec.proxy = sync[s].proxy, rec.stage = "reading" => rec.read \in Versions,
             history' \in [Proxies -> RowRecord \cup {None}], due' = due, faults' \in 0..MaxFaults,
             synced' \in [Proxies -> Versions], offered' \in [Proxies -> Versions], failed' \in [Proxies -> BOOLEAN]
      PROVE  TypeOK'
  BY <1>0, <1>3, <1>6
<1>7. CASE Start(s)
  <2>1. sync[s].stage = "planned" /\ sync[s].proxy \in Proxies
    BY <1>0, <1>7 DEF Start, SyncAt
  <2>2. history' \in [Proxies -> RowRecord \cup {None}]
    <3>1. WithRow(s, FALSE) \in [Proxies -> RowRecord \cup {None}]
      BY <2>1, RowsTyped
    <3> QED
      BY <1>0, <1>7, <3>1 DEF Start
  <2>3. failed' \in [Proxies -> BOOLEAN] /\ faults' \in 0..MaxFaults /\ UNCHANGED <<due, synced, offered>>
    BY <1>0, <1>2, <1>7 DEF Start
  <2>4. PICK rec \in SyncRecord : sync' = [sync EXCEPT ![s] = rec] /\ rec.proxy = sync[s].proxy /\ rec.stage # "reading"
    <3>1. CASE sync' = [sync EXCEPT ![s].stage = "waiting", ![s].row = TRUE]
      <4>1. [sync[s] EXCEPT !.stage = "waiting", !.row = TRUE] \in SyncRecord
        BY <1>0 DEF SyncRecord, Stages
      <4>2. sync' = [sync EXCEPT ![s] = [sync[s] EXCEPT !.stage = "waiting", !.row = TRUE]]
        BY <1>0, <3>1
      <4> QED
        BY <1>0, <4>1, <4>2 DEF SyncRecord
    <3>2. ASSUME NEW stage \in {"waiting", "refresh"}, sync' = [sync EXCEPT ![s].stage = stage]
          PROVE  \E rec \in SyncRecord : sync' = [sync EXCEPT ![s] = rec] /\ rec.proxy = sync[s].proxy /\ rec.stage # "reading"
      <4>1. moved(stage) \in SyncRecord
        BY <1>0 DEF SyncRecord, Stages
      <4> QED
        BY <1>0, <3>2, <4>1 DEF SyncRecord
    <3> QED
      BY <1>7, <3>1, <3>2 DEF Start, To
  <2> QED
    BY <1>0, <1>6, <2>1, <2>2, <2>3, <2>4
<1>8. CASE PulpReads(s)
  <2> DEFINE rec == [sync[s] EXCEPT !.stage = "reading", !.read = served]
  <2>1. rec \in SyncRecord /\ rec.proxy = sync[s].proxy /\ rec.read \in Versions
    BY <1>0 DEF SyncRecord, Stages
  <2>2. sync' = [sync EXCEPT ![s] = rec] /\ sync[s].stage # "free"
    BY <1>0, <1>8 DEF PulpReads, SyncAt
  <2> HIDE DEF rec
  <2> QED
    BY <1>0, <1>6, <1>8, <2>1, <2>2 DEF PulpReads
<1>9. CASE PulpWrites(s)
  <2> DEFINE rec == [sync[s] EXCEPT !.stage = "written", !.read = None]
  <2>1. rec \in SyncRecord /\ rec.proxy = sync[s].proxy /\ rec.stage # "reading"
    BY <1>0 DEF SyncRecord, Stages
  <2>2. sync' = [sync EXCEPT ![s] = rec] /\ sync[s].stage # "free" /\ sync[s].read \in Versions
    BY <1>0, <1>9 DEF PulpWrites, SyncAt
  <2>3. synced' \in [Proxies -> Versions]
    BY <1>0, <1>9, <2>2 DEF PulpWrites
  <2> HIDE DEF rec
  <2> QED
    BY <1>0, <1>6, <1>9, <2>1, <2>2, <2>3 DEF PulpWrites
<1>10. CASE PulpFails(s)
  <2> DEFINE rec == [sync[s] EXCEPT !.stage = "error", !.read = None]
  <2>1. rec \in SyncRecord /\ rec.proxy = sync[s].proxy /\ rec.stage # "reading"
    BY <1>0 DEF SyncRecord, Stages
  <2>2. sync' = [sync EXCEPT ![s] = rec] /\ sync[s].stage # "free"
    BY <1>0, <1>10 DEF PulpFails, SyncAt
  <2>3. failed' \in [Proxies -> BOOLEAN]
    BY <1>0, <1>10 DEF PulpFails
  <2> HIDE DEF rec
  <2> QED
    BY <1>0, <1>2, <1>6, <1>10, <2>1, <2>2, <2>3 DEF PulpFails
<1>11. CASE SavesLate(s)
  <2> DEFINE rec == [sync[s] EXCEPT !.row = TRUE]
  <2>1. rec \in SyncRecord /\ rec.proxy = sync[s].proxy /\ rec.stage = sync[s].stage /\ rec.read = sync[s].read
    BY <1>0 DEF SyncRecord, Stages
  <2>2. sync' = [sync EXCEPT ![s] = rec] /\ sync[s].stage # "free"
    BY <1>0, <1>11 DEF SavesLate, SyncAt
  <2>3. history' \in [Proxies -> RowRecord \cup {None}]
    BY <1>0, <1>11, <2>2, RowsTyped DEF SavesLate
  <2> HIDE DEF rec
  <2> QED
    BY <1>0, <1>6, <1>11, <2>1, <2>2, <2>3 DEF SavesLate, SyncAt
<1>12. Records(s) \in [Proxies -> RowRecord \cup {None}] /\ Withdraws(s) \in [Proxies -> RowRecord \cup {None}]
  <2>1. CASE OwnRow(s)
    <3>1. CASE sync[s].proxy \in Proxies
      <4>1. history[sync[s].proxy] \in RowRecord
        BY <1>0, <2>1, <3>1 DEF OwnRow
      <4>2. [history[sync[s].proxy] EXCEPT !.finished = TRUE] \in RowRecord
        BY <4>1 DEF RowRecord
      <4> QED
        BY <1>0, <2>1, <3>1, <4>2 DEF Records, Withdraws
    <3>2. CASE sync[s].proxy \notin Proxies
      BY <1>0, <2>1, <3>2 DEF Records, Withdraws
    <3> QED
      BY <3>1, <3>2
  <2>2. CASE ~OwnRow(s)
    BY <1>0, <2>2 DEF Records, Withdraws
  <2> QED
    BY <2>1, <2>2
<1>13. CASE PollDone(s) \/ PollError(s)
  <2> DEFINE rec == [sync[s] EXCEPT !.stage = "refresh", !.row = FALSE]
  <2>1. rec \in SyncRecord /\ rec.proxy = sync[s].proxy /\ rec.stage # "reading"
    BY <1>0 DEF SyncRecord, Stages
  <2>2. sync' = [sync EXCEPT ![s] = rec] /\ sync[s].stage # "free"
    BY <1>0, <1>13 DEF PollDone, PollError, SyncAt
  <2> HIDE DEF rec
  <2> QED
    BY <1>0, <1>6, <1>12, <1>13, <2>1, <2>2 DEF PollDone, PollError
<1>14. CASE PollFails(s)
  <2>1. sync = [sync EXCEPT ![s] = sync[s]] /\ sync[s].stage # "free" /\ sync[s] \in SyncRecord
    BY <1>0, <1>14 DEF PollFails
  <2> QED
    BY <1>0, <1>2, <1>6, <1>12, <1>14, <2>1 DEF PollFails, proxyVars, SyncAt
<1>15. CASE Refresh(s)
  <2>1. sync[s].stage # "free" /\ sync[s].proxy \in Proxies /\ Free \in SyncRecord /\ Free.stage = "free"
    BY <1>0, <1>15, IdleTyped DEF Refresh, SyncAt, Free
  <2>2. /\ sync' = [sync EXCEPT ![s] = Free] /\ UNCHANGED <<due, synced>>
        /\ offered' \in [Proxies -> Versions] /\ failed' \in [Proxies -> BOOLEAN] /\ faults' \in 0..MaxFaults
    BY <1>0, <1>2, <1>15, <2>1 DEF Refresh
  <2>3. history' \in [Proxies -> RowRecord \cup {None}]
    BY <1>0, <1>15, RowsTyped DEF Refresh
  <2> QED
    BY <1>0, <1>3, <2>1, <2>2, <2>3
<1> QED
  BY <1>4, <1>5, <1>7, <1>8, <1>9, <1>10, <1>11, <1>13, <1>14, <1>15 DEF SyncStep

-----------------------------------------------------------------------------
(* Steps of the server. *)

GoesTo(k, stage, changed, broken) == \A j \in Kinds :
  /\ op'[j].stage = IF j = k THEN stage ELSE op[j].stage
  /\ j = "sync" => /\ op'[j].changed = IF j = k THEN changed ELSE op[j].changed
                   /\ op'[j].broken = IF j = k THEN broken ELSE op[j].broken

LEMMA Goes ==
  ASSUME TypeOK, NEW k \in Kinds, NEW new \in OpRecord, Go(k, new)
  PROVE  GoesTo(k, new.stage, new.changed, new.broken)
<1>1. op \in [Kinds -> OpRecord] /\ Kinds = {"sync"} \cup Early
  BY DEF TypeOK, OpRecord, Kinds, Early
<1> QED
  BY <1>1, GoStep DEF GoesTo, Early

(* Where each action takes its task. *)
LEMMA Moves ==
  ASSUME ProxyAssumption, TypeOK, NEW k \in Kinds
  PROVE  /\ BeginSync => GoesTo("sync", "pulp", FALSE, FALSE)
         /\ BeginChange(k) => GoesTo(k, "pulp", FALSE, FALSE)
         /\ PulpTask(k) => GoesTo(k, "version", op[k].changed, op[k].broken)
         /\ SaveVersion(k) => \E changed : GoesTo(k, "publication", changed, op[k].broken)
         /\ CreatePublication(k) => GoesTo(k, "distribution", op[k].changed, op[k].broken)
         /\ RefreshDistribution(k) => \/ op[k].broken /\ GoesTo(k, "idle", FALSE, FALSE)
                                      \/ ~op[k].broken /\ GoesTo(k, "finalize", op[k].changed, op[k].broken)
         /\ Finalize(k) => GoesTo(k, "idle", FALSE, FALSE)
<1>0. op[k] \in OpRecord /\ Idle \in OpRecord /\ "sync" \in Kinds
  BY IdleTyped DEF TypeOK, OpRecord, Kinds
<1>1. ASSUME NEW j \in Kinds, Go(j, [Idle EXCEPT !.stage = "pulp"]) PROVE GoesTo(j, "pulp", FALSE, FALSE)
  <2> DEFINE new == [Idle EXCEPT !.stage = "pulp"]
  <2>1. new \in OpRecord /\ new.stage = "pulp" /\ new.changed = FALSE /\ new.broken = FALSE
    BY <1>0 DEF Idle, OpRecord, OpStages
  <2>2. GoesTo(j, new.stage, new.changed, new.broken)
    BY <1>1, <2>1, Goes
  <2> HIDE DEF new
  <2> QED
    BY <2>1, <2>2
<1>2. ASSUME Go(k, Idle) PROVE GoesTo(k, "idle", FALSE, FALSE)
  <2>1. Idle.stage = "idle" /\ Idle.changed = FALSE /\ Idle.broken = FALSE
    BY DEF Idle
  <2>2. GoesTo(k, Idle.stage, Idle.changed, Idle.broken)
    BY <1>0, <1>2, Goes
  <2> QED
    BY <2>1, <2>2
<1>3. ASSUME NEW stage \in OpStages, NEW new \in OpRecord, Go(k, new),
             new.stage = stage, new.changed = op[k].changed, new.broken = op[k].broken
      PROVE  GoesTo(k, stage, op[k].changed, op[k].broken)
  <2>1. GoesTo(k, new.stage, new.changed, new.broken)
    BY <1>3, Goes
  <2> QED
    BY <1>3, <2>1
<1>4. ASSUME NEW stage \in OpStages, Go(k, [op[k] EXCEPT !.stage = stage])
      PROVE  GoesTo(k, stage, op[k].changed, op[k].broken)
  <2>1. [op[k] EXCEPT !.stage = stage] \in OpRecord
    BY <1>0 DEF OpRecord
  <2>2. /\ [op[k] EXCEPT !.stage = stage].stage = stage
        /\ [op[k] EXCEPT !.stage = stage].changed = op[k].changed
        /\ [op[k] EXCEPT !.stage = stage].broken = op[k].broken
    BY <1>0 DEF OpRecord
  <2> QED
    BY <1>3, <1>4, <2>1, <2>2
<1>5. PulpTask(k) => GoesTo(k, "version", op[k].changed, op[k].broken)
  <2> SUFFICES ASSUME PulpTask(k) PROVE GoesTo(k, "version", op[k].changed, op[k].broken)
    OBVIOUS
  <2>1. "version" \in OpStages
    BY DEF OpStages
  <2>2. CASE pulp < MaxVersion /\ Go(k, [op[k] EXCEPT !.stage = "version", !.new = pulp + 1])
    <3> DEFINE new == [op[k] EXCEPT !.stage = "version", !.new = pulp + 1]
    <3>1. pulp + 1 \in Versions
      BY <2>2, ProxyAssumption DEF TypeOK, Versions, ProxyAssumption
    <3>2. /\ new \in OpRecord /\ new.stage = "version"
          /\ new.changed = op[k].changed /\ new.broken = op[k].broken
      BY <1>0, <2>1, <3>1 DEF OpRecord
    <3>3. Go(k, new)
      BY <2>2
    <3> HIDE DEF new
    <3> QED
      BY <1>3, <2>1, <3>2, <3>3
  <2>3. CASE Go(k, [op[k] EXCEPT !.stage = "version"])
    BY <1>4, <2>1, <2>3
  <2> QED
    BY <2>2, <2>3 DEF PulpTask
<1>6. SaveVersion(k) => \E changed : GoesTo(k, "publication", changed, op[k].broken)
  <2> SUFFICES ASSUME SaveVersion(k) PROVE \E changed : GoesTo(k, "publication", changed, op[k].broken)
    OBVIOUS
  <2> DEFINE changed == k = "sync" /\ ContentsChanged(k)
             new == [op[k] EXCEPT !.stage = "publication", !.new = None, !.changed = changed]
  <2>1. changed \in BOOLEAN
    BY DEF ContentsChanged
  <2>2. Go(k, new)
    BY DEF SaveVersion
  <2> HIDE DEF changed
  <2>3. new \in OpRecord /\ new.stage = "publication" /\ new.changed = changed /\ new.broken = op[k].broken
    BY <1>0, <2>1 DEF OpRecord, OpStages
  <2> HIDE DEF new
  <2>4. GoesTo(k, new.stage, new.changed, new.broken)
    BY <2>2, <2>3, Goes
  <2> QED
    BY <2>3, <2>4
<1>7. CreatePublication(k) => GoesTo(k, "distribution", op[k].changed, op[k].broken)
  BY <1>4 DEF CreatePublication, OpStages
<1>8. RefreshDistribution(k) => \/ op[k].broken /\ GoesTo(k, "idle", FALSE, FALSE)
                                \/ ~op[k].broken /\ GoesTo(k, "finalize", op[k].changed, op[k].broken)
  <2>1. "finalize" \in OpStages
    BY DEF OpStages
  <2> QED
    BY <1>2, <1>4, <2>1 DEF RefreshDistribution
<1> QED
  BY <1>0, <1>1, <1>2, <1>5, <1>6, <1>7, <1>8 DEF BeginSync, BeginChange, Finalize

LEMMA Fails ==
  ASSUME ProxyAssumption, TypeOK, NEW k \in Kinds, StepFails(k)
  PROVE  \E stage \in OpStages, changed \in BOOLEAN, broken \in BOOLEAN :
           /\ GoesTo(k, stage, changed, broken)
           /\ broken => stage = "distribution"
           /\ op[k].stage = "finalize" => stage = "idle"
           /\ stage = "idle" \/ (changed = op[k].changed /\ (k = "sync" /\ stage = "finalize" => op[k].stage = "distribution" /\ ~op[k].broken))
           /\ k = "sync" /\ op[k].stage = "distribution" /\ ~op[k].broken => stage = "finalize"
<1> DEFINE now == op[k].stage
           versionless == now \in {"pulp", "version"}
           next == CASE versionless /\ k = "sync" -> "distribution"
                     [] versionless /\ k = "upload" -> "publication"
                     [] now = "publication" -> "distribution"
                     [] now = "distribution" /\ ~op[k].broken -> "finalize"
                     [] OTHER -> "idle"
           other == [op[k] EXCEPT !.stage = next, !.new = None, !.clean = @ /\ k # "sync",
                                  !.broken = versionless /\ k = "sync"]
<1>0. op[k] \in OpRecord /\ Idle \in OpRecord
  BY IdleTyped DEF TypeOK, OpRecord
<1>1. Go(k, IF k = "remove" \/ next = "idle" THEN Idle ELSE other)
  BY DEF StepFails
<1>2. next \in OpStages
  BY DEF OpStages
<1>3. (versionless /\ k = "sync") \in BOOLEAN /\ (op[k].clean /\ k # "sync") \in BOOLEAN
  OBVIOUS
<1>4. /\ versionless /\ k = "sync" => next = "distribution"
      /\ now = "finalize" => next = "idle"
      /\ next = "finalize" => now = "distribution" /\ ~op[k].broken
      /\ now = "distribution" /\ ~op[k].broken => next = "finalize"
  OBVIOUS
<1> HIDE DEF next
<1>5. CASE k = "remove" \/ next = "idle"
  <2>1. GoesTo(k, Idle.stage, Idle.changed, Idle.broken)
    BY <1>0, <1>1, <1>5, Goes
  <2>2. Idle.stage = "idle" /\ Idle.changed = FALSE /\ Idle.broken = FALSE /\ "idle" \in OpStages
    BY DEF Idle, OpStages
  <2>3. GoesTo(k, "idle", FALSE, FALSE)
    BY <2>1, <2>2
  <2>4. ~(k = "sync" /\ now = "distribution" /\ ~op[k].broken)
    BY <1>4, <1>5
  <2> QED
    BY <2>2, <2>3, <2>4
<1>6. CASE ~(k = "remove" \/ next = "idle")
  <2> DEFINE broken == versionless /\ k = "sync"
  <2>1. Go(k, other)
    BY <1>1, <1>6
  <2> HIDE DEF versionless
  <2>2. other \in OpRecord /\ other.stage = next /\ other.changed = op[k].changed /\ other.broken = broken
    BY <1>0, <1>2, <1>3 DEF OpRecord
  <2>3. op[k].changed \in BOOLEAN
    BY <1>0 DEF OpRecord
  <2> HIDE DEF other
  <2>4. GoesTo(k, other.stage, other.changed, other.broken)
    BY <2>1, <2>2, Goes
  <2> HIDE DEF broken
  <2>5. GoesTo(k, next, op[k].changed, broken)
    BY <2>2, <2>4
  <2>6. (broken => next = "distribution") /\ broken \in BOOLEAN
    BY <1>3, <1>4 DEF broken
  <2>7. /\ now = "finalize" => next = "idle"
        /\ k = "sync" /\ next = "finalize" => now = "distribution" /\ ~op[k].broken
        /\ k = "sync" /\ now = "distribution" /\ ~op[k].broken => next = "finalize"
    BY <1>4
  <2> QED
    BY <1>2, <2>3, <2>5, <2>6, <2>7
<1> QED
  BY <1>5, <1>6

(* A step of the server leaves a sure row alone, and keeps what the row     *)
(* says: no early change begins, publications are served before the rows    *)
(* are looked at again, and what is served changes only under a sync that   *)
(* will delete the rows.                                                    *)
LEMMA ServerKeeps ==
  ASSUME ProxyAssumption, TypeOK, BrokenSkips, RowsSeeServed, ServerStep, NEW p \in Proxies, Sure(p)'
  PROVE  /\ Sure(p) /\ history'[p] = history[p]
         /\ ~WindowOpen' /\ (served = published \/ Publishing)'
         /\ \A version : Current(version) => Current(version)'
<1>0. /\ op \in [Kinds -> OpRecord] /\ \A k \in Kinds : op[k].stage \in OpStages
      /\ "sync" \in Kinds /\ Early \subseteq Kinds /\ "sync" \notin Early /\ Kinds = {"sync"} \cup Early
      /\ ClearPending <=> op["sync"].stage = "finalize" /\ op["sync"].changed
      /\ ClearPending' <=> op'["sync"].stage = "finalize" /\ op'["sync"].changed
  BY DEF TypeOK, OpRecord, Kinds, Early, ClearPending, At
<1>1. history' # Cleared
  BY DEF Sure, Cleared
<1>2. \A ps : history' = Doubted(ps) => p \notin ps /\ history'[p] = history[p]
  <2> SUFFICES ASSUME NEW ps, history' = Doubted(ps) PROVE p \notin ps /\ history'[p] = history[p]
    OBVIOUS
  <2>1. history'[p] = IF p \in ps /\ history[p] # None THEN [history[p] EXCEPT !.doubt = TRUE] ELSE history[p]
    BY DEF Doubted
  <2>2. history \in [Proxies -> RowRecord \cup {None}]
    BY DEF TypeOK, RowRecord
  <2>3. history[p] # None => [history[p] EXCEPT !.doubt = TRUE].doubt = TRUE
    BY <2>2 DEF RowRecord
  <2> QED
    BY <2>1, <2>3 DEF Sure
<1>3. Sure(p) /\ history'[p] = history[p]
  <2>1. history' = history \/ history' = Cleared \/ history' = Doubted(Proxies)
    BY DEF ServerStep, BeginSync, BeginChange, PulpTask, SaveVersion, CreatePublication,
           RefreshDistribution, Finalize, StepFails
  <2>2. history' = history
    BY <1>1, <1>2, <2>1
  <2> QED
    BY <2>2 DEF Sure
<1>4. ~WindowOpen /\ (served = published \/ Publishing)
  BY <1>3 DEF RowsSeeServed
<1>5. \A k \in Early : op[k].stage \notin {"pulp", "version", "publication", "distribution"}
  BY <1>4 DEF WindowOpen
<1>6. ASSUME NEW k \in Early, op'["sync"].stage = op["sync"].stage,
             op'["sync"].changed = op["sync"].changed, op'["sync"].broken = op["sync"].broken,
             op'[k].stage = "idle", \A j \in Early \ {k} : op'[j].stage = op[j].stage, UNCHANGED <<served, published>>
      PROVE  /\ ~WindowOpen' /\ (served = published \/ Publishing)'
             /\ \A version : Current(version) => Current(version)'
  BY <1>0, <1>4, <1>5, <1>6 DEF WindowOpen, Publishing, Current
<1>7. ASSUME \A j \in Early : op'[j].stage = op[j].stage PROVE ~WindowOpen'
  BY <1>5, <1>7 DEF WindowOpen
<1>8. CASE BeginSync
  <2>1. GoesTo("sync", "pulp", FALSE, FALSE) /\ op["sync"].stage = "idle" /\ UNCHANGED <<served, published>>
    BY <1>0, <1>8, Moves DEF BeginSync, Unlocked, At
  <2> QED
    BY <1>0, <1>3, <1>4, <1>7, <2>1 DEF GoesTo, Publishing, Current
<1>9. ASSUME NEW k \in Early, BeginChange(k) PROVE FALSE
  BY <1>1, <1>9 DEF BeginChange
<1>10. ASSUME NEW k \in Kinds, PulpTask(k) \/ SaveVersion(k)
       PROVE  /\ ~WindowOpen' /\ (served = published \/ Publishing)'
              /\ \A version : Current(version) => Current(version)'
  <2>1. op[k].stage \in {"pulp", "version"} /\ UNCHANGED <<served, published>>
    BY <1>10 DEF PulpTask, SaveVersion, At
  <2>2. k = "sync"
    BY <1>0, <1>5, <2>1
  <2>3. \E stage \in {"version", "publication"} : \E changed : GoesTo(k, stage, changed, op[k].broken)
    BY <1>10, Moves
  <2> QED
    BY <1>0, <1>4, <1>7, <2>1, <2>2, <2>3 DEF GoesTo, Publishing, Current
<1>11. ASSUME NEW k \in Kinds, CreatePublication(k)
       PROVE  /\ ~WindowOpen' /\ (served = published \/ Publishing)'
              /\ \A version : Current(version) => Current(version)'
  <2>1. op[k].stage = "publication" /\ served' = served
    BY <1>11 DEF CreatePublication, At
  <2>2. k = "sync"
    BY <1>0, <1>5, <2>1
  <2>3. GoesTo(k, "distribution", op[k].changed, op[k].broken) /\ ~op[k].broken
    BY <1>11, <2>1, <2>2, Moves DEF BrokenSkips
  <2>4. op'["sync"].stage = "distribution" /\ op'["sync"].changed = op["sync"].changed /\ ~op'["sync"].broken
    BY <1>0, <2>2, <2>3 DEF GoesTo
  <2>5. served = published /\ (op["sync"].changed \/ published' = published)
    BY <1>0, <1>4, <1>11, <2>1, <2>2 DEF CreatePublication, Publishing
  <2>6. (served = published \/ Publishing)'
    BY <2>1, <2>4, <2>5 DEF Publishing
  <2>7. ~WindowOpen'
    BY <1>0, <1>7, <2>2, <2>3 DEF GoesTo
  <2> QED
    BY <1>0, <2>1, <2>2, <2>6, <2>7 DEF Current
<1>12. ASSUME NEW k \in Kinds, RefreshDistribution(k)
       PROVE  /\ ~WindowOpen' /\ (served = published \/ Publishing)'
              /\ \A version : Current(version) => Current(version)'
  <2>1. op[k].stage = "distribution" /\ served' = published /\ published' = published
    BY <1>12 DEF RefreshDistribution, At
  <2>2. k = "sync"
    BY <1>0, <1>5, <2>1
  <2>3. \/ op[k].broken /\ GoesTo(k, "idle", FALSE, FALSE)
        \/ ~op[k].broken /\ GoesTo(k, "finalize", op[k].changed, op[k].broken)
    BY <1>12, Moves
  <2>4. ~WindowOpen'
    BY <1>0, <1>7, <2>2, <2>3 DEF GoesTo
  <2>5. served' = served \/ ClearPending'
    BY <1>0, <1>4, <2>1, <2>2, <2>3 DEF GoesTo, Publishing
  <2> QED
    BY <1>0, <2>1, <2>2, <2>4, <2>5 DEF Current
<1>13. ASSUME NEW k \in Kinds, Finalize(k)
       PROVE  /\ ~WindowOpen' /\ (served = published \/ Publishing)'
              /\ \A version : Current(version) => Current(version)'
  <2>1. op[k].stage = "finalize" /\ UNCHANGED <<served, published>> /\ GoesTo(k, "idle", FALSE, FALSE)
    BY <1>13, Moves DEF Finalize, At
  <2>2. CASE k = "sync"
    <3>1. ~op["sync"].changed
      BY <1>1, <1>13, <2>2 DEF Finalize
    <3> QED
      BY <1>0, <1>4, <1>7, <2>1, <2>2, <3>1 DEF GoesTo, Publishing, Current
  <2>3. CASE k # "sync"
    BY <1>0, <1>6, <2>1, <2>3 DEF GoesTo
  <2> QED
    BY <2>2, <2>3
<1>14. ASSUME NEW k \in Kinds, StepFails(k)
       PROVE  /\ ~WindowOpen' /\ (served = published \/ Publishing)'
              /\ \A version : Current(version) => Current(version)'
  <2>1. op[k].stage # "idle" /\ UNCHANGED <<served, published>>
    BY <1>14 DEF StepFails, At
  <2>2. PICK stage \in OpStages, changed \in BOOLEAN, broken \in BOOLEAN :
          /\ GoesTo(k, stage, changed, broken)
          /\ broken => stage = "distribution"
          /\ op[k].stage = "finalize" => stage = "idle"
          /\ stage = "idle" \/ (changed = op[k].changed /\ (k = "sync" /\ stage = "finalize" => op[k].stage = "distribution" /\ ~op[k].broken))
          /\ k = "sync" /\ op[k].stage = "distribution" /\ ~op[k].broken => stage = "finalize"
    BY <1>14, Fails
  <2>3. CASE k = "sync"
    <3>1. ~(op["sync"].stage = "finalize" /\ op["sync"].changed)
      <4> SUFFICES ASSUME op["sync"].stage = "finalize" /\ op["sync"].changed PROVE FALSE
        OBVIOUS
      <4>1. history' = Doubted(Proxies)
        BY <1>14, <2>3 DEF StepFails
      <4> QED
        BY <1>2, <4>1
    <3>2. ~WindowOpen'
      BY <1>0, <1>7, <2>2, <2>3 DEF GoesTo
    <3>3. op'["sync"].stage = stage /\ op'["sync"].changed = changed /\ op'["sync"].broken = broken
      BY <1>0, <2>2, <2>3 DEF GoesTo
    <3>4. (served = published \/ Publishing)'
      <4>1. CASE Publishing
        <5>1. op["sync"].stage = "distribution" /\ ~op["sync"].broken /\ op["sync"].changed
          BY <3>1, <4>1 DEF Publishing
        <5>2. stage = "finalize" /\ changed /\ ~broken
          BY <2>2, <2>3, <5>1
        <5> QED
          BY <3>3, <5>2 DEF Publishing
      <4> QED
        BY <1>4, <2>1, <4>1
    <3>5. ~ClearPending
      BY <1>0, <3>1
    <3> QED
      BY <2>1, <3>2, <3>4, <3>5 DEF Current
  <2>4. CASE k # "sync"
    <3>1. k \in Early /\ op[k].stage = "finalize"
      BY <1>0, <1>5, <2>1, <2>4 DEF OpStages
    <3>2. /\ op'[k].stage = "idle"
          /\ \A j \in Kinds \ {k} : op'[j].stage = op[j].stage
          /\ op'["sync"].changed = op["sync"].changed /\ op'["sync"].broken = op["sync"].broken
      BY <1>0, <2>2, <2>4, <3>1 DEF GoesTo
    <3> QED
      BY <1>0, <1>6, <2>1, <2>4, <3>1, <3>2
  <2> QED
    BY <2>3, <2>4
<1> QED
  BY <1>3, <1>8, <1>9, <1>10, <1>11, <1>12, <1>13, <1>14 DEF ServerStep

LEMMA BrokenKept == ASSUME ProxyAssumption, TypeOK, BrokenSkips, ServerStep PROVE BrokenSkips'
<1>0. "sync" \in Kinds /\ Early \subseteq Kinds /\ "sync" \notin Early
  BY DEF Kinds, Early
<1>1. ASSUME NEW k \in Kinds, NEW stage, NEW changed, NEW broken, GoesTo(k, stage, changed, broken),
             broken => stage = "distribution" \/ k # "sync"
      PROVE  BrokenSkips'
  BY <1>0, <1>1 DEF GoesTo, BrokenSkips
<1>2. CASE BeginSync
  BY <1>0, <1>1, <1>2, Moves
<1>3. ASSUME NEW k \in Early, BeginChange(k) PROVE BrokenSkips'
  BY <1>0, <1>1, <1>3, Moves
<1>4. ASSUME NEW k \in Kinds, PulpTask(k) \/ SaveVersion(k) \/ CreatePublication(k) PROVE BrokenSkips'
  <2>1. k = "sync" => ~op[k].broken
    BY <1>4 DEF BrokenSkips, PulpTask, SaveVersion, CreatePublication, At
  <2>2. \E stage, changed : GoesTo(k, stage, changed, op[k].broken)
    BY <1>4, Moves
  <2> QED
    BY <1>1, <2>1, <2>2
<1>5. ASSUME NEW k \in Kinds, RefreshDistribution(k) PROVE BrokenSkips'
  BY <1>1, <1>5, Moves
<1>6. ASSUME NEW k \in Kinds, Finalize(k) PROVE BrokenSkips'
  BY <1>1, <1>6, Moves
<1>7. ASSUME NEW k \in Kinds, StepFails(k) PROVE BrokenSkips'
  BY <1>1, <1>7, Fails
<1> QED
  BY <1>2, <1>3, <1>4, <1>5, <1>6, <1>7 DEF ServerStep

-----------------------------------------------------------------------------
(* Steps of proxies. *)

(* What each step makes of its slot and of the rows.  Only Start makes a    *)
(* row that may be sure.                                                    *)
LEMMA SureRows ==
  ASSUME TypeOK, NEW s \in Slots, SyncStep(s) \/ PulpFails(s) \/ PollFails(s), NEW p \in Proxies, Sure(p)'
  PROVE  \/ Sure(p) /\ history'[p] = history[p]
         \/ /\ Start(s) /\ p = sync[s].proxy /\ sync'[s].stage # "written"
            /\ history'[p].by = s /\ ~history'[p].finished /\ ~WindowOpen /\ served = published
         \/ /\ PollDone(s) /\ OwnRow(s) /\ p = sync[s].proxy /\ Sure(p)
            /\ history'[p].by = history[p].by /\ history'[p].finished
<1>0. history \in [Proxies -> RowRecord \cup {None}] /\ sync \in [Slots -> SyncRecord]
  BY DEF TypeOK, RowRecord, SyncRecord
<1>1. CASE history' = history
  BY <1>1 DEF Sure
<1>2. ASSUME NEW late \in BOOLEAN, history' = WithRow(s, late), ~late => Start(s)
      PROVE  \/ Sure(p) /\ history'[p] = history[p]
             \/ /\ Start(s) /\ p = sync[s].proxy /\ sync'[s].stage # "written"
                /\ history'[p].by = s /\ ~history'[p].finished /\ ~WindowOpen /\ served = published
  <2> DEFINE doubt == late \/ WindowOpen \/ served # published
             row == [by |-> s, finished |-> FALSE, doubt |-> doubt]
  <2>1. history' = [history EXCEPT ![sync[s].proxy] = row]
    BY <1>2 DEF WithRow
  <2>2. row.by = s /\ ~row.finished /\ row.doubt = doubt
    OBVIOUS
  <2> HIDE DEF row
  <2>3. CASE p = sync[s].proxy
    <3>1. history'[p] = row
      BY <1>0, <2>1, <2>3
    <3>2. ~doubt
      BY <2>2, <3>1 DEF Sure
    <3>3. Start(s) /\ ~WindowOpen /\ served = published
      BY <1>2, <3>2
    <3>4. sync'[s].stage # "written"
      BY <1>0, <3>3 DEF Start, To, SyncRecord
    <3> QED
      BY <2>2, <2>3, <3>1, <3>3, <3>4
  <2>4. CASE p # sync[s].proxy
    BY <1>0, <2>1, <2>4 DEF Sure
  <2> QED
    BY <2>3, <2>4
<1>3. CASE OwnRow(s) /\ history' = [history EXCEPT ![sync[s].proxy] = None]
  BY <1>0, <1>3 DEF Sure
<1>4. CASE PollDone(s) /\ OwnRow(s)
  <2>1. history' = [history EXCEPT ![sync[s].proxy].finished = TRUE]
    BY <1>4 DEF PollDone, Records
  <2>2. CASE p = sync[s].proxy
    <3>1. history[p] # None /\ history[p] \in RowRecord
      BY <1>0, <1>4, <2>2 DEF OwnRow
    <3>2. history'[p] = [history[p] EXCEPT !.finished = TRUE]
      BY <1>0, <2>1, <2>2
    <3>3. history'[p].by = history[p].by /\ history'[p].finished = TRUE /\ history'[p].doubt = history[p].doubt
      BY <3>1, <3>2 DEF RowRecord
    <3> QED
      BY <1>4, <2>2, <3>1, <3>3 DEF Sure
  <2>3. CASE p # sync[s].proxy
    BY <1>0, <2>1, <2>3 DEF Sure
  <2> QED
    BY <2>2, <2>3
<1>5. ASSUME NEW ps, history' = Doubted(ps) PROVE Sure(p) /\ history'[p] = history[p]
  <2>1. history'[p] = IF p \in ps /\ history[p] # None THEN [history[p] EXCEPT !.doubt = TRUE] ELSE history[p]
    BY <1>5 DEF Doubted
  <2>2. history[p] # None => [history[p] EXCEPT !.doubt = TRUE].doubt = TRUE
    BY <1>0 DEF RowRecord
  <2> QED
    BY <2>1, <2>2 DEF Sure
<1>6. \/ history' = history
      \/ Start(s) /\ history' = WithRow(s, FALSE)
      \/ history' = WithRow(s, TRUE)
      \/ OwnRow(s) /\ history' = [history EXCEPT ![sync[s].proxy] = None]
      \/ PollDone(s) /\ OwnRow(s)
      \/ history' = Doubted({sync[s].proxy})
  <2>1. CASE PulpReads(s) \/ PulpWrites(s) \/ PulpFails(s)
    BY <2>1 DEF PulpReads, PulpWrites, PulpFails
  <2>2. CASE Start(s) \/ SavesLate(s)
    BY <2>2 DEF Start, SavesLate
  <2>3. CASE PollDone(s) \/ PollError(s) \/ PollFails(s)
    BY <2>3 DEF PollDone, PollError, PollFails, Records, Withdraws
  <2>4. CASE Refresh(s)
    BY <2>4 DEF Refresh
  <2> QED
    BY <2>1, <2>2, <2>3, <2>4 DEF SyncStep
<1> QED
  BY <1>1, <1>2, <1>3, <1>4, <1>5, <1>6

(* A started sync waits for Pulp, or has failed and goes on to its end. *)
LEMMA StartsSlot ==
  ASSUME TypeOK, NEW s \in Slots, Start(s)
  PROVE  /\ sync[s].stage = "planned" /\ sync'[s].stage \in {"waiting", "refresh"}
         /\ sync'[s].proxy = sync[s].proxy
         /\ \A t \in Slots \ {s} : sync'[t] = sync[t]
<1>0. sync \in [Slots -> SyncRecord] /\ sync[s] \in SyncRecord
  BY DEF TypeOK, SyncRecord
<1>1. CASE sync' = [sync EXCEPT ![s].stage = "waiting", ![s].row = TRUE]
  BY <1>0, <1>1 DEF SyncRecord, Start, SyncAt
<1>2. CASE sync' = [sync EXCEPT ![s].stage = "waiting"]
  BY <1>0, <1>2 DEF SyncRecord, Start, SyncAt
<1>3. CASE sync' = [sync EXCEPT ![s].stage = "refresh"]
  BY <1>0, <1>3 DEF SyncRecord, Start, SyncAt
<1> QED
  BY <1>1, <1>2, <1>3 DEF Start, To

(* What each step makes of its slot. *)
LEMMA SlotMoves ==
  ASSUME TypeOK, NEW s \in Slots, SyncStep(s) \/ PulpFails(s) \/ PollFails(s)
  PROVE  /\ \A t \in Slots \ {s} : sync'[t] = sync[t]
         /\ sync'[s].stage # "free" => sync'[s].proxy = sync[s].proxy
         /\ sync'[s].stage = "reading" /\ ~PulpReads(s) =>
              /\ sync[s].stage = "reading" /\ sync'[s].read = sync[s].read
              /\ sync'[s].row = sync[s].row \/ SavesLate(s)
         /\ sync'[s].stage = "written" =>
              /\ sync[s].stage = IF PulpWrites(s) THEN "reading" ELSE "written"
              /\ sync'[s].row = sync[s].row \/ SavesLate(s)
         /\ sync[s].stage = "written" => sync'[s].stage \in {"written", "refresh"}
         /\ sync[s].stage = "refresh" => Refresh(s)
         /\ PulpReads(s) => /\ sync[s].stage = "waiting" /\ sync'[s].stage = "reading"
                            /\ sync'[s].read = served /\ sync'[s].row = sync[s].row
         /\ PulpWrites(s) => sync[s].stage = "reading" /\ sync'[s].stage = "written"
<1>0. sync \in [Slots -> SyncRecord] /\ sync[s] \in SyncRecord
  BY DEF TypeOK, SyncRecord
<1>1. CASE Start(s)
  <2>1. sync[s].stage = "planned" /\ sync'[s].stage \in {"waiting", "refresh"}
    BY <1>1, StartsSlot
  <2>2. sync'[s].proxy = sync[s].proxy /\ \A t \in Slots \ {s} : sync'[t] = sync[t]
    BY <1>1, StartsSlot
  <2>3. ~PulpReads(s) /\ ~PulpWrites(s)
    BY <2>1 DEF PulpReads, PulpWrites, SyncAt
  <2> QED
    BY <2>1, <2>2, <2>3
<1>2. CASE PulpReads(s)
  <2>1. /\ sync[s].stage = "waiting" /\ \A t \in Slots \ {s} : sync'[t] = sync[t]
        /\ sync'[s] = [sync[s] EXCEPT !.stage = "reading", !.read = served]
    BY <1>0, <1>2 DEF SyncAt, PulpReads
  <2>2. /\ sync'[s].stage = "reading" /\ sync'[s].read = served
        /\ sync'[s].row = sync[s].row /\ sync'[s].proxy = sync[s].proxy
    BY <1>0, <2>1 DEF SyncRecord
  <2>3. ~PulpWrites(s)
    BY <2>1 DEF PulpWrites, SyncAt
  <2> QED
    BY <1>2, <2>1, <2>2, <2>3
<1>3. CASE PulpWrites(s)
  BY <1>0, <1>3 DEF SyncAt, SyncRecord, PulpReads, PulpWrites, Refresh
<1>4. CASE PulpFails(s)
  BY <1>0, <1>4 DEF SyncAt, SyncRecord, PulpReads, PulpWrites, PulpFails, Refresh
<1>5. CASE SavesLate(s)
  <2>1. /\ sync'[s].stage = sync[s].stage /\ sync'[s].proxy = sync[s].proxy /\ sync'[s].read = sync[s].read
        /\ \A t \in Slots \ {s} : sync'[t] = sync[t]
        /\ sync[s].stage # "refresh"
    BY <1>0, <1>5 DEF SavesLate, SyncRecord
  <2>2. ~PulpReads(s) /\ ~PulpWrites(s)
    BY <1>0, <2>1 DEF PulpReads, PulpWrites, SyncAt, SyncRecord
  <2> QED
    BY <1>5, <2>1, <2>2
<1>6. CASE PollDone(s)
  BY <1>0, <1>6 DEF SyncAt, SyncRecord, PulpReads, PulpWrites, PollDone, Refresh
<1>7. CASE PollError(s)
  BY <1>0, <1>7 DEF SyncAt, SyncRecord, PulpReads, PulpWrites, PollError, Refresh
<1>8. CASE PollFails(s)
  <2>1. sync' = sync /\ sync[s].stage # "refresh"
    BY <1>8 DEF PollFails, proxyVars
  <2>2. ~PulpReads(s) /\ ~PulpWrites(s)
    BY <1>0, <2>1 DEF PulpReads, PulpWrites, SyncAt, SyncRecord
  <2> QED
    BY <2>1, <2>2
<1>9. CASE Refresh(s)
  BY <1>0, <1>9 DEF SyncAt, SyncRecord, PulpReads, PulpWrites, Refresh, Free
<1> QED
  BY <1>1, <1>2, <1>3, <1>4, <1>5, <1>6, <1>7, <1>8, <1>9 DEF SyncStep

(* A slot that was free and a row that may have gone change nothing else. *)
LEMMA PlanMoves ==
  ASSUME TypeOK, NEW s \in Slots, NEW q \in Proxies, PlanSync(s, q) \/ PlanForced(s, q)
  PROVE  /\ \A t \in Slots \ {s} : sync'[t] = sync[t]
         /\ sync[s].stage = "free" /\ sync'[s].stage \in {"free", "planned"}
         /\ sync'[s].row => sync[s].row /\ sync'[s] = sync[s]
         /\ \A p \in Proxies : Sure(p)' => Sure(p) /\ history'[p] = history[p]
         /\ UNCHANGED <<synced, offered>>
<1>0. sync \in [Slots -> SyncRecord] /\ history \in [Proxies -> RowRecord \cup {None}]
  BY DEF TypeOK, SyncRecord, RowRecord
<1>1. sync' = sync \/ sync' = [sync EXCEPT ![s] = [Free EXCEPT !.stage = "planned", !.proxy = q]]
  BY DEF PlanSync, PlanForced, Planned
<1>2. history' = history \/ history' = [history EXCEPT ![q] = None]
  BY DEF PlanSync, PlanForced
<1>3. /\ \A t \in Slots \ {s} : sync'[t] = sync[t]
      /\ sync[s].stage = "free" /\ sync'[s].stage \in {"free", "planned"}
      /\ sync'[s].row => sync[s].row /\ sync'[s] = sync[s]
  <2> DEFINE planned == [Free EXCEPT !.stage = "planned", !.proxy = q]
  <2>1. planned.stage = "planned" /\ ~planned.row
    BY DEF Free
  <2>2. sync' = sync \/ sync' = [sync EXCEPT ![s] = planned]
    BY <1>1
  <2>3. sync[s].stage = "free"
    BY DEF PlanSync, PlanForced, SyncAt
  <2> HIDE DEF planned
  <2> QED
    BY <1>0, <2>1, <2>2, <2>3
<1>4. \A p \in Proxies : Sure(p)' => Sure(p) /\ history'[p] = history[p]
  BY <1>0, <1>2 DEF Sure
<1> QED
  BY <1>3, <1>4 DEF PlanSync, PlanForced

LEMMA OneReaderKept == ASSUME TypeOK, OneReader, ProxyStep PROVE OneReader'
<1>1. ASSUME NEW s \in Slots, SyncStep(s) \/ PulpFails(s) \/ PollFails(s) PROVE OneReader'
  <2>1. CASE PulpReads(s)
    <3>1. \A t \in Slots \ {s} : ~Reading(t, sync[s].proxy)
      BY <2>1 DEF PulpReads, Reading, SyncAt
    <3> QED
      BY <1>1, <2>1, <3>1, SlotMoves DEF OneReader, Reading, SyncAt
  <2>2. CASE ~PulpReads(s)
    BY <1>1, <2>2, SlotMoves DEF OneReader, Reading, SyncAt
  <2> QED
    BY <2>1, <2>2
<1>2. ASSUME NEW s \in Slots, NEW p \in Proxies, PlanSync(s, p) \/ PlanForced(s, p) PROVE OneReader'
  BY <1>2, PlanMoves DEF OneReader, Reading, SyncAt
<1> QED
  BY <1>1, <1>2 DEF ProxyStep

LEMMA RowsKept == ASSUME TypeOK, RowsSeeServed, ProxyStep PROVE RowsSeeServed'
<1>1. UNCHANGED serverVars
  BY DEF ProxyStep, SyncStep, PlanSync, PlanForced, Start, PulpReads, PulpWrites, PulpFails, SavesLate,
         PollDone, PollError, PollFails, Refresh
<1>2. /\ WindowOpen' <=> WindowOpen
      /\ (served = published \/ Publishing)' <=> served = published \/ Publishing
  BY <1>1 DEF serverVars, WindowOpen, Publishing
<1>3. ASSUME NEW p \in Proxies, Sure(p)' PROVE ~WindowOpen /\ (served = published \/ Publishing)
  <2>1. ASSUME NEW s \in Slots, SyncStep(s) \/ PulpFails(s) \/ PollFails(s)
        PROVE  ~WindowOpen /\ (served = published \/ Publishing)
    BY <1>3, <2>1, SureRows DEF RowsSeeServed
  <2>2. ASSUME NEW s \in Slots, NEW q \in Proxies, PlanSync(s, q) \/ PlanForced(s, q)
        PROVE  ~WindowOpen /\ (served = published \/ Publishing)
    BY <1>3, <2>2, PlanMoves DEF RowsSeeServed
  <2> QED
    BY <2>1, <2>2 DEF ProxyStep
<1> QED
  BY <1>2, <1>3 DEF RowsSeeServed

LEMMA OffersKept == ASSUME TypeOK, OffersSynced, ProxyStep PROVE OffersSynced'
<1>0. synced \in [Proxies -> Versions] /\ offered \in [Proxies -> Versions]
  BY DEF TypeOK
<1>1. SUFFICES ASSUME NEW p \in Proxies, Sure(p)', history'[p].finished
               PROVE  offered'[p] = synced'[p] \/ WillOffer(p)'
  BY DEF OffersSynced
<1>2. ASSUME NEW s \in Slots, NEW q \in Proxies, PlanSync(s, q) \/ PlanForced(s, q)
      PROVE  offered'[p] = synced'[p] \/ WillOffer(p)'
  BY <1>1, <1>2, PlanMoves DEF OffersSynced, WillOffer
<1>3. ASSUME NEW s \in Slots, SyncStep(s) \/ PulpFails(s) \/ PollFails(s)
      PROVE  offered'[p] = synced'[p] \/ WillOffer(p)'
  <2>1. CASE PollDone(s) /\ p = sync[s].proxy
    <3>1. sync'[s].stage = "refresh"
      BY <2>1 DEF PollDone, TypeOK
    <3> QED
      BY <1>3, <2>1, <3>1, SlotMoves DEF WillOffer
  <2>2. CASE PulpWrites(s) /\ p = sync[s].proxy
    BY <1>3, <2>2, SlotMoves DEF WillOffer
  <2>3. CASE Refresh(s) /\ p = sync[s].proxy
    <3>1. CASE offered' = [offered EXCEPT ![sync[s].proxy] = synced[sync[s].proxy]]
      BY <1>0, <2>3, <3>1 DEF Refresh
    <3>2. CASE history' = Doubted({sync[s].proxy})
      <4>1. history' \in [Proxies -> RowRecord \cup {None}] /\ history \in [Proxies -> RowRecord \cup {None}]
        BY <3>2, RowsTyped DEF TypeOK, RowRecord
      <4>2. history'[p] = IF history[p] # None THEN [history[p] EXCEPT !.doubt = TRUE] ELSE history[p]
        BY <2>3, <3>2 DEF Doubted
      <4>3. history[p] # None => [history[p] EXCEPT !.doubt = TRUE].doubt = TRUE
        BY <4>1 DEF RowRecord
      <4> QED
        BY <1>1, <4>2, <4>3 DEF Sure
    <3> QED
      BY <2>3, <3>1, <3>2 DEF Refresh
  <2>4. CASE p # sync[s].proxy \/ ~(PollDone(s) \/ PulpWrites(s) \/ Refresh(s))
    <3>1. Sure(p) /\ history'[p] = history[p]
      BY <1>1, <1>3, <2>4, SureRows
    <3>2. offered'[p] = offered[p] /\ synced'[p] = synced[p]
      BY <1>0, <1>3, <2>4 DEF SyncStep, Start, PulpReads, PulpWrites, PulpFails, SavesLate,
                              PollDone, PollError, PollFails, Refresh, proxyVars
    <3>3. offered[p] = synced[p] \/ WillOffer(p)
      BY <1>1, <3>1 DEF OffersSynced
    <3>4. ASSUME NEW t \in Slots, sync[t].stage \in {"written", "refresh"}, sync[t].proxy = p PROVE WillOffer(p)'
      BY <1>3, <2>4, <3>4, SlotMoves DEF WillOffer
    <3> QED
      BY <3>2, <3>3, <3>4 DEF WillOffer
  <2> QED
    BY <2>1, <2>2, <2>3, <2>4
<1> QED
  BY <1>2, <1>3 DEF ProxyStep

LEMMA ReadsKept == ASSUME TypeOK, OneReader, ReadsServed, ProxyStep PROVE ReadsServed'
<1>0. synced \in [Proxies -> Versions] /\ history \in [Proxies -> RowRecord \cup {None}]
  BY DEF TypeOK, RowRecord
<1>1. UNCHANGED serverVars
  BY DEF ProxyStep, SyncStep, PlanSync, PlanForced, Start, PulpReads, PulpWrites, PulpFails, SavesLate,
         PollDone, PollError, PollFails, Refresh
<1>2. \A version : Current(version)' <=> Current(version)
  BY <1>1 DEF serverVars, Current, ClearPending, At
<1>3. SUFFICES ASSUME NEW p \in Proxies, Sure(p)'
               PROVE  /\ Arrived(p)' => Current(synced'[p])
                      /\ \A t \in Slots : Reading(t, p)' /\ (Arrived(p)' \/ Owns(t, p)') => Current(sync'[t].read)
  BY <1>2 DEF ReadsServed, Current
<1>4. ASSUME NEW s \in Slots, NEW q \in Proxies, PlanSync(s, q) \/ PlanForced(s, q)
      PROVE  /\ Arrived(p)' => Current(synced'[p])
             /\ \A t \in Slots : Reading(t, p)' /\ (Arrived(p)' \/ Owns(t, p)') => Current(sync'[t].read)
  <2>1. Sure(p) /\ history'[p] = history[p] /\ synced' = synced /\ sync'[s].stage \in {"free", "planned"}
        /\ \A t \in Slots \ {s} : sync'[t] = sync[t]
    BY <1>3, <1>4, PlanMoves
  <2>2. \A t \in Slots \ {s} : (Owns(t, p)' <=> Owns(t, p)) /\ (Reading(t, p)' <=> Reading(t, p))
    BY <2>1 DEF Owns, Reading, SyncAt
  <2>3. Arrived(p)' => Arrived(p)
    BY <2>1, <2>2 DEF Arrived, SyncAt
  <2> QED
    BY <1>2, <2>1, <2>2, <2>3 DEF ReadsServed, Reading, SyncAt
<1>5. ASSUME NEW s \in Slots, SyncStep(s) \/ PulpFails(s) \/ PollFails(s)
      PROVE  /\ Arrived(p)' => Current(synced'[p])
             /\ \A t \in Slots : Reading(t, p)' /\ (Arrived(p)' \/ Owns(t, p)') => Current(sync'[t].read)
  <2>1. /\ \A t \in Slots \ {s} : sync'[t] = sync[t]
        /\ \A t \in Slots \ {s} : (Reading(t, p)' <=> Reading(t, p))
    BY <1>5, SlotMoves DEF Reading, SyncAt
  <2>2. CASE Sure(p) /\ history'[p] = history[p]
    <3>1. \A t \in Slots \ {s} : Owns(t, p)' <=> Owns(t, p)
      BY <2>1, <2>2 DEF Owns
    <3>2. SavesLate(s) => p # sync[s].proxy
      <4> SUFFICES ASSUME SavesLate(s), p = sync[s].proxy PROVE FALSE
        OBVIOUS
      <4>1. history'[p] = [by |-> s, finished |-> FALSE, doubt |-> TRUE]
        BY <1>0 DEF SavesLate, WithRow
      <4> QED
        BY <1>3, <4>1 DEF Sure
    <3>3. sync'[s].stage \in {"reading", "written"} /\ Owns(s, p)' => Owns(s, p)
      BY <1>5, <2>2, <3>2, SlotMoves DEF Owns
    <3>4. ~PulpWrites(s) /\ Arrived(p)' => Arrived(p)
      BY <1>5, <2>1, <2>2, <3>1, <3>3, SlotMoves DEF Arrived, SyncAt
    <3>5. CASE PulpWrites(s)
      <4>1. sync[s].stage = "reading" /\ sync'[s].stage = "written" /\ sync'[s].proxy = sync[s].proxy
        BY <1>5, <3>5, SlotMoves
      <4>2. Arrived(p)' => Arrived(p) \/ Owns(s, p)
        BY <2>1, <2>2, <3>1, <3>3, <4>1 DEF Arrived, SyncAt
      <4>3. CASE p = sync[s].proxy
        <5>1. synced'[p] = sync[s].read
          BY <1>0, <3>5, <4>3 DEF PulpWrites
        <5>2. Reading(s, p)
          BY <4>1, <4>3 DEF Reading, SyncAt
        <5>3. Arrived(p)' => Current(synced'[p])
          BY <2>2, <4>2, <5>1, <5>2 DEF ReadsServed
        <5>4. \A t \in Slots : ~Reading(t, p)'
          BY <2>1, <4>1, <5>2 DEF OneReader, Reading, SyncAt
        <5> QED
          BY <5>3, <5>4
      <4>4. CASE p # sync[s].proxy
        <5>1. synced'[p] = synced[p]
          BY <1>0, <3>5, <4>4 DEF PulpWrites
        <5>2. ~Owns(s, p) /\ ~Reading(s, p)'
          BY <4>1, <4>4 DEF Owns, Reading, SyncAt
        <5> QED
          BY <2>1, <2>2, <3>1, <4>2, <5>1, <5>2 DEF ReadsServed, Reading, SyncAt
      <4> QED
        BY <4>3, <4>4
    <3>6. CASE ~PulpWrites(s)
      <4>1. synced' = synced
        BY <1>5, <3>6 DEF SyncStep, Start, PulpReads, PulpFails, SavesLate,
                          PollDone, PollError, PollFails, Refresh, proxyVars
      <4>2. Arrived(p)' => Current(synced'[p])
        BY <2>2, <3>4, <3>6, <4>1 DEF ReadsServed
      <4>3. PulpReads(s) => Current(sync'[s].read)
        BY <1>5, SlotMoves DEF Current
      <4>4. Reading(s, p)' /\ ~PulpReads(s) => Reading(s, p) /\ sync'[s].read = sync[s].read
        BY <1>5, SlotMoves DEF Reading, SyncAt
      <4>5. Reading(s, p)' /\ (Arrived(p)' \/ Owns(s, p)') => Current(sync'[s].read)
        BY <2>2, <3>3, <3>4, <3>6, <4>3, <4>4 DEF ReadsServed, Reading, SyncAt
      <4>6. ASSUME NEW t \in Slots \ {s}, Reading(t, p)', Arrived(p)' \/ Owns(t, p)' PROVE Current(sync'[t].read)
        BY <2>1, <2>2, <3>1, <3>4, <3>6, <4>6 DEF ReadsServed
      <4> QED
        BY <4>2, <4>5, <4>6
    <3> QED
      BY <3>5, <3>6
  <2>3. CASE /\ Start(s) /\ p = sync[s].proxy /\ sync'[s].stage # "written"
             /\ history'[p].by = s /\ ~history'[p].finished
    <3>1. \A t \in Slots \ {s} : ~Owns(t, p)'
      BY <2>3 DEF Owns
    <3>2. ~Arrived(p)'
      BY <2>3, <3>1 DEF Arrived, SyncAt
    <3>3. ~Reading(s, p)'
      BY <2>3, StartsSlot DEF Reading, SyncAt
    <3> QED
      BY <3>1, <3>2, <3>3
  <2>4. CASE PollDone(s) /\ OwnRow(s) /\ p = sync[s].proxy /\ Sure(p)
    <3>1. Arrived(p)
      BY <2>4 DEF PollDone, OwnRow, Arrived, Owns
    <3>2. synced' = synced /\ ~Reading(s, p)'
      BY <2>4 DEF PollDone, Reading, SyncAt, TypeOK
    <3> QED
      BY <2>1, <2>4, <3>1, <3>2 DEF ReadsServed
  <2> QED
    BY <1>3, <1>5, <2>2, <2>3, <2>4, SureRows
<1> QED
  BY <1>4, <1>5 DEF ProxyStep

-----------------------------------------------------------------------------

LEMMA InitHolds == ASSUME ProxyAssumption, Init PROVE IInv
<1>1. TypeOK
  <2>1. 0 \in Versions /\ 0 \in 0..MaxFaults
    BY ProxyAssumption DEF Versions, ProxyAssumption
  <2>2. Idle \in OpRecord /\ Free \in SyncRecord /\ Free.stage = "free"
    BY IdleTyped DEF Free
  <2> QED
    BY <2>1, <2>2 DEF Init, TypeOK, OpRecord, SyncRecord, SyncAt
<1>2. BrokenSkips
  BY DEF Init, BrokenSkips, Kinds, Idle
<1>3. OneReader
  BY DEF Init, OneReader, Reading, SyncAt, Free
<1>4. \A p \in Proxies : ~Sure(p)
  BY DEF Init, Sure
<1> QED
  BY <1>1, <1>2, <1>3, <1>4 DEF IInv, RowsSeeServed, ReadsServed, OffersSynced

LEMMA ServerHolds == ASSUME ProxyAssumption, IInv, ServerStep PROVE IInv'
<1>0. TypeOK /\ BrokenSkips /\ OneReader /\ RowsSeeServed /\ ReadsServed /\ OffersSynced
  BY DEF IInv
<1>1. TypeOK' /\ BrokenSkips'
  BY <1>0, ServerTypes, BrokenKept
<1>2. UNCHANGED <<sync, synced, offered>>
  BY DEF ServerStep, BeginSync, BeginChange, PulpTask, SaveVersion, CreatePublication,
         RefreshDistribution, Finalize, StepFails, proxyVars
<1>3. OneReader'
  BY <1>0, <1>2 DEF OneReader, Reading, SyncAt
<1>4. RowsSeeServed'
  BY <1>0, ServerKeeps DEF RowsSeeServed
<1>5. ReadsServed'
  <2> SUFFICES ASSUME NEW p \in Proxies, Sure(p)'
               PROVE  /\ Arrived(p)' => Current(synced[p])'
                      /\ \A s \in Slots : Reading(s, p)' /\ (Arrived(p)' \/ Owns(s, p)') => Current(sync[s].read)'
    BY DEF ReadsServed
  <2>1. Sure(p) /\ history'[p] = history[p] /\ \A version : Current(version) => Current(version)'
    BY <1>0, ServerKeeps
  <2>2. /\ Arrived(p)' <=> Arrived(p)
        /\ \A s \in Slots : (Reading(s, p)' <=> Reading(s, p)) /\ (Owns(s, p)' <=> Owns(s, p))
    BY <1>2, <2>1 DEF Arrived, Reading, Owns, SyncAt
  <2>3. /\ Arrived(p) => Current(synced[p])
        /\ \A s \in Slots : Reading(s, p) /\ (Arrived(p) \/ Owns(s, p)) => Current(sync[s].read)
    BY <1>0, <2>1 DEF ReadsServed
  <2> QED
    BY <1>2, <2>1, <2>2, <2>3 DEF Current
<1>6. OffersSynced'
  <2> SUFFICES ASSUME NEW p \in Proxies, Sure(p)', history'[p].finished
               PROVE  offered'[p] = synced'[p] \/ WillOffer(p)'
    BY DEF OffersSynced
  <2>1. Sure(p) /\ history'[p] = history[p]
    BY <1>0, ServerKeeps
  <2> QED
    BY <1>0, <1>2, <2>1 DEF OffersSynced, WillOffer
<1> QED
  BY <1>1, <1>3, <1>4, <1>5, <1>6 DEF IInv

LEMMA ProxyHolds == ASSUME ProxyAssumption, IInv, ProxyStep PROVE IInv'
<1>0. TypeOK /\ BrokenSkips /\ OneReader /\ RowsSeeServed /\ ReadsServed /\ OffersSynced
  BY DEF IInv
<1>1. op' = op
  BY DEF ProxyStep, SyncStep, PlanSync, PlanForced, Start, PulpReads, PulpWrites, PulpFails, SavesLate,
         PollDone, PollError, PollFails, Refresh, serverVars
<1>2. BrokenSkips'
  BY <1>0, <1>1 DEF BrokenSkips
<1> QED
  BY <1>0, <1>2, ProxyTypes, OneReaderKept, RowsKept, ReadsKept, OffersKept DEF IInv

LEMMA StutterHolds == ASSUME IInv, UNCHANGED vars PROVE IInv'
BY DEF IInv, TypeOK, BrokenSkips, OneReader, RowsSeeServed, ReadsServed, OffersSynced, SyncAt, Sure, Publishing,
       WindowOpen, Reading, Owns, Arrived, Current, ClearPending, At, WillOffer, vars, serverVars, proxyVars

LEMMA Invariance == ASSUME ProxyAssumption PROVE Spec => []IInv
<1>1. Init => IInv
  BY InitHolds
<1>2. IInv /\ [Next]_vars => IInv'
  BY ServerHolds, ProxyHolds, StutterHolds DEF Next
<1> QED
  BY <1>1, <1>2, PTL DEF Spec

(* The types of the state: in particular a slot that is in use knows its    *)
(* proxy, and Pulp reads versions that exist.                               *)
THEOREM TypeCorrect == Spec => []TypeOK
<1>1. IInv => TypeOK
  BY DEF IInv
<1> QED
  BY <1>1, Invariance, ProxyAssumption, PTL

(* repos_to_sync skips a repository only when the proxy has what the server *)
(* serves, unless the row is in doubt, for any number of proxies, of syncs  *)
(* at once, of versions and of failures.                                    *)
THEOREM NoProxySkippedWrongly == Spec => []FinishedMeansCurrent
<1>1. IInv => FinishedMeansCurrent
  <2> SUFFICES ASSUME IInv, NEW p \in Proxies, Skips(p) /\ ~history[p].doubt /\ ~ClearPending
               PROVE  synced[p] = served /\ (offered[p] = served \/ UnderWay(p))
    BY DEF FinishedMeansCurrent
  <2>1. Sure(p) /\ history[p].finished
    BY DEF Skips, Sure
  <2>2. synced[p] = served
    BY <2>1 DEF IInv, ReadsServed, Arrived, Current
  <2>3. offered[p] = synced[p] \/ WillOffer(p)
    BY <2>1 DEF IInv, OffersSynced
  <2>4. WillOffer(p) => UnderWay(p)
    BY DEF WillOffer, UnderWay
  <2> QED
    BY <2>2, <2>3, <2>4
<1> QED
  BY <1>1, Invariance, ProxyAssumption, PTL

-----------------------------------------------------------------------------
(* A sync that works alone. *)

(* A sync that may still claim to have worked alone and without a failure    *)
(* publishes what it has found changed, and serves what it has published.    *)
AloneInOrder ==
  LET o == op["sync"]
  IN o.clean => /\ o.stage = "publication" => o.changed \/ published = saved
                /\ o.stage = "distribution" => published = saved
                /\ o.stage = "finalize" => served = saved

(* A step of another task takes the claim from a sync that is under way. *)
LEMMA OthersTakeClean ==
  ASSUME TypeOK, NEW k \in Early, NEW new, Go(k, new), op'["sync"].clean
  PROVE  op'["sync"].stage = "idle"
<1>1. op["sync"] \in OpRecord /\ At("sync", "idle") \in BOOLEAN
  BY DEF TypeOK, OpRecord, Kinds, At
<1>2. op'["sync"] = [op["sync"] EXCEPT !.clean = @ /\ At("sync", "idle")]
  BY DEF Go, Kinds, Early
<1>3. /\ op'["sync"].stage = op["sync"].stage
      /\ op'["sync"].clean = (op["sync"].clean /\ At("sync", "idle"))
  <2> DEFINE idle == At("sync", "idle")
  <2> HIDE DEF idle
  <2> QED
    BY <1>1, <1>2 DEF OpRecord, idle
<1> QED
  BY <1>3 DEF At

LEMMA SyncTakesClean ==
  ASSUME TypeOK, NEW new \in OpRecord, Go("sync", new)
  PROVE  /\ op'["sync"].stage = new.stage /\ op'["sync"].changed = new.changed
         /\ op'["sync"].clean => new.clean
<1> DEFINE alone == \A other \in Kinds \ {"sync"} : At(other, "idle")
<1>1. op'["sync"] = [new EXCEPT !.clean = @ /\ alone] /\ alone \in BOOLEAN
  BY DEF Go, Kinds, At
<1> HIDE DEF alone
<1>2. op'["sync"].clean = (new.clean /\ alone)
  BY <1>1 DEF OpRecord
<1>3. op'["sync"].stage = new.stage /\ op'["sync"].changed = new.changed
  BY <1>1 DEF OpRecord
<1> QED
  BY <1>2, <1>3

(* Nothing but the sync itself makes any of this true of it. *)
LEMMA AloneKept ==
  ASSUME ProxyAssumption, TypeOK, AloneInOrder, ServerStep
  PROVE  AloneInOrder'
<1> SUFFICES ASSUME op'["sync"].clean
             PROVE  /\ op'["sync"].stage = "publication" => op'["sync"].changed \/ published' = saved'
                    /\ op'["sync"].stage = "distribution" => published' = saved'
                    /\ op'["sync"].stage = "finalize" => served' = saved'
  BY DEF AloneInOrder
<1> DEFINE o == op["sync"]
<1>0. o \in OpRecord /\ Idle \in OpRecord
  BY IdleTyped DEF TypeOK, OpRecord, Kinds
<1>1. ASSUME NEW k \in Early, NEW new, Go(k, new) PROVE op'["sync"].stage = "idle"
  BY <1>1, OthersTakeClean
<1>2. ASSUME NEW k \in Early, \/ BeginChange(k) \/ PulpTask(k) \/ SaveVersion(k) \/ CreatePublication(k)
                              \/ RefreshDistribution(k) \/ Finalize(k) \/ StepFails(k)
      PROVE  op'["sync"].stage = "idle"
  BY <1>1, <1>2 DEF BeginChange, PulpTask, SaveVersion, CreatePublication, RefreshDistribution, Finalize, StepFails
<1>3. CASE BeginSync \/ PulpTask("sync") \/ Finalize("sync")
  <2>1. op'["sync"].stage \in {"pulp", "version", "idle"}
    BY <1>3, Moves DEF GoesTo, Kinds
  <2> QED
    BY <2>1
<1>4. CASE SaveVersion("sync")
  <2> DEFINE changed == "sync" = "sync" /\ ContentsChanged("sync")
             new == [o EXCEPT !.stage = "publication", !.new = None, !.changed = changed]
  <2>1. changed \in BOOLEAN /\ (changed = ContentsChanged("sync"))
    BY DEF ContentsChanged
  <2>2. Go("sync", new)
    BY <1>4 DEF SaveVersion
  <2> HIDE DEF changed
  <2>3. new \in OpRecord /\ new.stage = "publication" /\ new.changed = changed
    BY <1>0, <2>1 DEF OpRecord, OpStages
  <2> HIDE DEF new
  <2>4. op'["sync"].stage = "publication" /\ op'["sync"].changed = changed
    BY <2>2, <2>3, SyncTakesClean
  <2>5. ~ContentsChanged("sync") => published' = saved'
    BY <1>4 DEF SaveVersion, ContentsChanged, SavedVersion
  <2> QED
    BY <2>1, <2>4, <2>5
<1>5. CASE CreatePublication("sync")
  <2> DEFINE new == [o EXCEPT !.stage = "distribution"]
  <2>1. new \in OpRecord /\ new.stage = "distribution" /\ new.clean = o.clean
    BY <1>0 DEF OpRecord, OpStages
  <2>2. Go("sync", new)
    BY <1>5 DEF CreatePublication
  <2> HIDE DEF new
  <2>3. op'["sync"].stage = "distribution" /\ o.clean
    BY <2>1, <2>2, SyncTakesClean
  <2>4. o.stage = "publication" /\ saved' = saved /\ (published' = IF o.changed THEN saved ELSE published)
    BY <1>5 DEF CreatePublication, At, Early
  <2> QED
    BY <2>3, <2>4 DEF AloneInOrder
<1>6. CASE RefreshDistribution("sync")
  <2>1. o.stage = "distribution" /\ saved' = saved /\ published' = published /\ served' = published
    BY <1>6 DEF RefreshDistribution, At
  <2>2. CASE o.broken
    <3>1. op'["sync"].stage = "idle"
      BY <1>6, <2>2, Moves DEF GoesTo, Kinds
    <3> QED
      BY <3>1
  <2>3. CASE ~o.broken
    <3> DEFINE new == [o EXCEPT !.stage = "finalize"]
    <3>1. new \in OpRecord /\ new.stage = "finalize" /\ new.clean = o.clean
      BY <1>0 DEF OpRecord, OpStages
    <3>2. Go("sync", new)
      BY <1>6, <2>3 DEF RefreshDistribution
    <3> HIDE DEF new
    <3>3. op'["sync"].stage = "finalize" /\ o.clean
      BY <3>1, <3>2, SyncTakesClean
    <3> QED
      BY <2>1, <3>3 DEF AloneInOrder
  <2> QED
    BY <2>2, <2>3
<1>7. CASE StepFails("sync")
  <2>1. \/ Go("sync", Idle)
        \/ \E stage \in OpStages, broken \in BOOLEAN :
             Go("sync", [o EXCEPT !.stage = stage, !.new = None, !.clean = @ /\ "sync" # "sync", !.broken = broken])
    BY <1>7 DEF StepFails, OpStages, At
  <2>2. CASE Go("sync", Idle)
    <3>1. op'["sync"].stage = "idle"
      BY <1>0, <2>2, SyncTakesClean DEF Idle
    <3> QED
      BY <3>1
  <2>3. ASSUME NEW stage \in OpStages, NEW broken \in BOOLEAN,
               Go("sync", [o EXCEPT !.stage = stage, !.new = None, !.clean = @ /\ "sync" # "sync", !.broken = broken])
        PROVE  FALSE
    <3> DEFINE new == [o EXCEPT !.stage = stage, !.new = None, !.clean = @ /\ "sync" # "sync", !.broken = broken]
    <3>1. new \in OpRecord /\ ~new.clean
      BY <1>0 DEF OpRecord
    <3> HIDE DEF new
    <3>2. Go("sync", new)
      BY <2>3 DEF new
    <3> QED
      BY <3>1, <3>2, SyncTakesClean
  <2> QED
    BY <2>1, <2>2, <2>3
<1>8. ServerStep => \/ BeginSync \/ \E k \in Early : \/ BeginChange(k) \/ PulpTask(k) \/ SaveVersion(k)
                                                     \/ CreatePublication(k) \/ RefreshDistribution(k)
                                                     \/ Finalize(k) \/ StepFails(k)
                    \/ PulpTask("sync") \/ SaveVersion("sync") \/ CreatePublication("sync")
                    \/ RefreshDistribution("sync") \/ Finalize("sync") \/ StepFails("sync")
  <2>1. Kinds = {"sync"} \cup Early
    BY DEF Kinds, Early
  <2> QED
    BY <2>1 DEF ServerStep
<1>9. CASE op'["sync"].stage = "idle"
  BY <1>9
<1> QED
  BY <1>2, <1>3, <1>4, <1>5, <1>6, <1>7, <1>8, <1>9

(* CleanSyncServes (check_publication_version_match): a sync that worked     *)
(* alone ends with its version served, for any number of versions, whatever *)
(* has failed before it.                                                    *)
THEOREM CleanSyncsServe == Spec => []CleanSyncServes
<1>1. Init => AloneInOrder
  BY DEF Init, AloneInOrder, Idle, Kinds
<1>2. IInv /\ AloneInOrder /\ [Next]_vars => AloneInOrder'
  <2> SUFFICES ASSUME IInv, AloneInOrder, [Next]_vars PROVE AloneInOrder'
    OBVIOUS
  <2>1. CASE ServerStep
    BY <2>1, AloneKept, ProxyAssumption DEF IInv
  <2>2. CASE ProxyStep \/ UNCHANGED vars
    <3>1. UNCHANGED serverVars
      BY <2>2 DEF ProxyStep, SyncStep, PlanSync, PlanForced, Start, PulpReads, PulpWrites, PulpFails, SavesLate,
                  PollDone, PollError, PollFails, Refresh, vars
    <3> QED
      BY <3>1 DEF AloneInOrder, serverVars
  <2> QED
    BY <2>1, <2>2 DEF Next
<1>3. AloneInOrder => CleanSyncServes
  BY DEF AloneInOrder, CleanSyncServes, At
<1> QED
  BY <1>1, <1>2, <1>3, Invariance, ProxyAssumption, PTL DEF Spec
=============================================================================
