---------------------------- MODULE Applicability ----------------------------
(***************************************************************************)
(* How hosts learn which updates apply to them.  A change of a repository   *)
(* (SaveVersion, IndexContent, RemoveContent) or of a host's package        *)
(* profile puts hosts on the ApplicableHostQueue and raises one event; the  *)
(* handler of the event, GenerateHostApplicability, turns the queue into    *)
(* BulkGenerate tasks, whose workers compare the host with the indexed      *)
(* content and store the difference.                                        *)
(*                                                                         *)
(* The event queue is the signal EventSignal, which EventQueue implements.  *)
(* Steps that take part in one of the signal are in two halves, the first of *)
(* which is what the application does: ApplicabilityEvents joins it with the *)
(* table of the events instead of the signal.                               *)
(***************************************************************************)
EXTENDS Integers, FiniteSets

CONSTANTS
  Repos,       \* library repositories
  Synced,      \* those that may have been synced before
  Hosts,
  bound,       \* bound[h]: the repositories of host h
  MaxUnit,     \* bound: a unit is a version of one package, 1..MaxUnit
  BatchSize,   \* applicability_batch_size
  Workers,     \* workers of the hosts queue
  Tasks, on,   \* content tasks that may be under way together, and their repositories
  SyncPlan,    \* the one sync plan
  Kinds,       \* the kinds of content task
  Gen, NoKey,  \* the event key of the handler, no handler running
  Faults,      \* kinds of fault that may happen: see Hit
  MaxTasks, MaxPlanRuns, MaxUploads, MaxFaults,  \* bounds on each ...
  MaxEvents    \* ... and on all together

Parameters ==
  /\ bound \in [Hosts -> SUBSET Repos]
  /\ MaxUnit \in Nat /\ BatchSize \in Nat \ {0}
  /\ Synced \subseteq Repos
  /\ on \in [Tasks -> Repos]
  /\ SyncPlan \notin Tasks
  /\ Kinds \subseteq {"sync", "quiet sync", "remove"}
  /\ Gen # NoKey
  /\ Faults \subseteq {"stop", "crash", "handler fails", "evaluation fails",
                       "request dies", "regenerate fails"}
  /\ {MaxTasks, MaxPlanRuns, MaxUploads, MaxFaults, MaxEvents} \subseteq Nat

ASSUME ApplicabilityAssumption == Parameters

Units == 1..MaxUnit
Regenerates == Tasks \cup {SyncPlan}
NoEval == [host |-> "none"]

VARIABLES
  saved,      \* saved[r]: the units of the repository version of r
  indexed,    \* indexed[r]: the units of r in Katello's tables
  toIndex,    \* last_contents_changed >= last_indexed
  toRegen,    \* last_contents_changed >= last_applicability_regen
  kind, step, \* what the content task t is, and its next step
  removing,   \* removing[t]: the units it removes
  regen,      \* regen[x]: where the Regenerate action of x is
  chosen,     \* chosen[x]: the repositories it found changed
  installed,  \* installed[h]: the version of the package on h
  upload,     \* upload[h]: where the request with h's profile is
  queue,      \* hosts with a HostQueueElement
  owed, serving, \* the event: see EventSignal
  handler, batch, \* where the handler is, the hosts it popped
  jobs,       \* jobs[b]: BulkGenerate tasks for the hosts b that no worker has begun
  todo,       \* todo[w]: the hosts that the task of worker w has ahead
  eval,       \* eval[w]: the host worker w is at, and its difference
  applicable, \* applicable[h]: the units stored as applicable
  tasks, planRuns, uploads, faults,
  early,      \* history: repositories stamped before their tables had the change
  behind,     \* history: hosts whose tables changed when nothing more was due
              \* for them, until they are compared again
  raced,      \* history: hosts evaluated by two workers at once, until one alone
              \* evaluates them again
  missed      \* history: hosts a fault has dropped, until they are queued again

content == <<saved, indexed, toIndex, toRegen>>
task    == <<kind, step, removing>>
regens  == <<regen, chosen>>
signal  == <<owed, serving>>
run     == <<handler, batch>>
work    == <<jobs, todo, eval, applicable>>
counts  == <<tasks, planRuns, uploads, faults>>
history == <<early, behind, raced>>
vars == <<content, task, regens, installed, upload, queue, signal, run, work, counts,
          history, missed>>

Signal == INSTANCE EventSignal WITH Keys <- {Gen}

Evaluation == [host : Hosts, add : SUBSET Units, remove : SUBSET Units]

TypeOK ==
  /\ saved \in [Repos -> SUBSET Units] /\ indexed \in [Repos -> SUBSET Units]
  /\ toIndex \in [Repos -> BOOLEAN] /\ toRegen \in [Repos -> BOOLEAN]
  /\ kind \in [Tasks -> Kinds \cup {"none"}]
  /\ step \in [Tasks -> {"idle", "save", "index", "regenerate", "finalize"}]
  /\ removing \in [Tasks -> SUBSET Units]
  /\ regen \in [Regenerates -> {"off", "selected", "queued", "stamp"}]
  /\ chosen \in [Regenerates -> SUBSET Repos]
  /\ installed \in [Hosts -> 0..MaxUnit]
  /\ upload \in [Hosts -> {"idle", "stored", "queued"}]
  /\ queue \subseteq Hosts
  /\ owed \subseteq {Gen} /\ serving \in {Gen, NoKey}
  /\ handler \in {"idle", "check", "delete", "create", "stopping"}
  /\ batch \subseteq Hosts
  /\ jobs \in [SUBSET Hosts -> Nat] /\ todo \in [Workers -> SUBSET Hosts]
  /\ eval \in [Workers -> Evaluation \cup {NoEval}]
  /\ applicable \in [Hosts -> SUBSET Units]
  /\ tasks \in 0..MaxTasks /\ planRuns \in 0..MaxPlanRuns
  /\ uploads \in 0..MaxUploads /\ faults \in 0..MaxFaults
  /\ early \subseteq Repos
  /\ behind \subseteq Hosts /\ raced \subseteq Hosts /\ missed \subseteq Hosts

Applies(h) == {u \in UNION {indexed[r] : r \in bound[h]} : u > installed[h]}

(* Repositories are new, with all their dates equal, or were synced and     *)
(* indexed before and their hosts compared.                                 *)
Init ==
  /\ saved \in [Repos -> SUBSET Units] /\ indexed = saved
  /\ \A r \in Repos \ Synced : saved[r] = {}
  /\ toIndex = [r \in Repos |-> saved[r] = {}] /\ toRegen = toIndex
  /\ kind = [t \in Tasks |-> "none"] /\ step = [t \in Tasks |-> "idle"]
  /\ removing = [t \in Tasks |-> {}]
  /\ regen = [x \in Regenerates |-> "off"] /\ chosen = [x \in Regenerates |-> {}]
  /\ installed = [h \in Hosts |-> 0] /\ upload = [h \in Hosts |-> "idle"]
  /\ queue = {} /\ handler = "idle" /\ batch = {}
  /\ Signal!SigInit
  /\ jobs = [b \in SUBSET Hosts |-> 0] /\ todo = [w \in Workers |-> {}]
  /\ eval = [w \in Workers |-> NoEval]
  /\ applicable = [h \in Hosts |-> Applies(h)]
  /\ tasks = 0 /\ planRuns = 0 /\ uploads = 0 /\ faults = 0
  /\ early = {} /\ behind = {} /\ raced = {} /\ missed = {}

-----------------------------------------------------------------------------
(* Content tasks. *)

Room == tasks + planRuns + uploads + faults < MaxEvents

(* A sync locks its repository against other syncs; a removal only links to *)
(* it, and goes on beside a sync and beside other removals.                 *)
Unlocked(r) ==
  \A t \in Tasks : on[t] = r /\ step[t] # "idle" => kind[t] = "remove"

StartTask(t, k) ==
  /\ step[t] = "idle" /\ tasks < MaxTasks /\ Room
  /\ k # "remove" => Unlocked(on[t])
  /\ tasks' = tasks + 1
  /\ kind' = [kind EXCEPT ![t] = k]
  /\ step' = [step EXCEPT ![t] = "save"]
  /\ \E units \in SUBSET indexed[on[t]] :
       /\ (units # {}) = (k = "remove")
       /\ removing' = [removing EXCEPT ![t] = units]
  /\ UNCHANGED <<content, regens, installed, upload, queue, signal, run, work,
                 planRuns, uploads, faults, history, missed>>

Advance(t, to) ==
  /\ step' = [step EXCEPT ![t] = to]
  /\ kind' = IF to = "idle" THEN [kind EXCEPT ![t] = "none"] ELSE kind
  /\ removing' = IF to = "idle" THEN [removing EXCEPT ![t] = {}] ELSE removing

(* The step after a sync's own steps, which fail or not. *)
AfterSave(t)  == IF kind[t] = "remove" THEN "regenerate" ELSE "index"
AfterIndex(t) == IF kind[t] = "sync" THEN "regenerate" ELSE "idle"

(* last_contents_changed is set, to now. *)
ContentsChanged(r, changed) ==
  /\ toIndex' = [toIndex EXCEPT ![r] = @ \/ changed]
  /\ toRegen' = [toRegen EXCEPT ![r] = @ \/ changed]

(* Pulp has synced, or removed the units, and SaveVersion records its       *)
(* version; tasks beside it may have made other versions.                   *)
SaveVersion(t) ==
  /\ step[t] = "save"
  /\ \E c \in SUBSET (Units \ removing[t]), changed \in BOOLEAN :
       /\ c # saved[on[t]] => changed
       /\ saved' = [saved EXCEPT ![on[t]] = c]
       /\ ContentsChanged(on[t], changed)
  /\ Advance(t, AfterSave(t))
  /\ UNCHANGED <<indexed, regens, installed, upload, queue, signal, run, work, counts,
                 history, missed>>

HostsOf(rs) == {h \in Hosts : bound[h] \cap rs # {}}

(* A Regenerate has queued the hosts of r and will stamp r. *)
InFlight(r) == \E x \in Regenerates : regen[x] \in {"queued", "stamp"} /\ r \in chosen[x]

(* The tables of r have changed.  Nobody will queue its hosts again when a  *)
(* Regenerate has just queued them, or none is due because one came before  *)
(* the tables had what it was for.                                          *)
TablesChange(r) ==
  behind' = IF /\ indexed' # indexed
               /\ InFlight(r) \/ (r \in early' /\ ~toRegen[r])
              THEN behind \cup HostsOf({r})
              ELSE behind

(* IndexContent, forced or not; only a sync outside of a sync plan goes on  *)
(* to Regenerate.                                                           *)
IndexContent(t) ==
  LET r == on[t]
  IN /\ step[t] = "index"
     /\ \E force \in BOOLEAN :
          indexed' = IF force \/ toIndex[r] THEN [indexed EXCEPT ![r] = saved[r]] ELSE indexed
     /\ UNCHANGED early /\ TablesChange(r)
     /\ toIndex' = [toIndex EXCEPT ![r] = FALSE]
     /\ Advance(t, AfterIndex(t))
     /\ UNCHANGED <<saved, toRegen, regens, installed, upload, queue, signal, run, work,
                    counts, raced, missed>>

(* RemoveContent takes the units out of the tables in its finalize phase,   *)
(* after its Regenerate.                                                    *)
FinalizeRemove(t) ==
  LET r == on[t]
  IN /\ step[t] = "finalize"
     /\ indexed' = [indexed EXCEPT ![r] = @ \ removing[t]]
     /\ early' = IF indexed' # indexed /\ ~toRegen[r] THEN early \cup {r} ELSE early
     /\ TablesChange(r)
     /\ Advance(t, "idle")
     /\ UNCHANGED <<saved, toIndex, toRegen, regens, installed, upload, queue, signal, run,
                    work, counts, raced, missed>>

(* SaveVersion fails, before or after it has dated the change, or a step    *)
(* before it does.  A sync, whose rescue strategy is Skip, goes on.         *)
SaveFails(t) ==
  /\ step[t] = "save" /\ kind[t] # "remove"
  /\ \E changed \in BOOLEAN : ContentsChanged(on[t], changed)
  /\ Advance(t, AfterSave(t))
  /\ UNCHANGED <<saved, indexed, regens, installed, upload, queue, signal, run, work, counts,
                 history, missed>>

(* IndexContent fails, with some of the tables written and last_indexed not. *)
IndexFails(t) ==
  LET r == on[t]
  IN /\ step[t] = "index"
     /\ \E units \in SUBSET (indexed[r] \cup saved[r]) :
          /\ indexed[r] \cap saved[r] \subseteq units
          /\ indexed' = [indexed EXCEPT ![r] = units]
     /\ UNCHANGED early /\ TablesChange(r)
     /\ Advance(t, AfterIndex(t))
     /\ UNCHANGED <<saved, toIndex, toRegen, regens, installed, upload, queue, signal, run,
                    work, counts, raced, missed>>

(* A step of a removal fails and the task is paused, until it is resumed or  *)
(* cancelled; Regenerate fails in RegenerateFails.                           *)
RemoveFails(t) ==
  /\ kind[t] = "remove" /\ regen[t] = "off"
  /\ \E changed \in BOOLEAN : /\ changed => step[t] = "save"
                              /\ ContentsChanged(on[t], changed)
  /\ \E to \in {step[t], "idle"} : Advance(t, to)
  /\ UNCHANGED <<saved, indexed, regens, installed, upload, queue, signal, run, work, counts,
                 history, missed>>

TaskFails(t) == SaveFails(t) \/ IndexFails(t) \/ RemoveFails(t)

-----------------------------------------------------------------------------
(* Actions::Katello::Applicability::Repository::Regenerate, as a step of a  *)
(* content task or at the end of a sync plan, which holds no repository.    *)

(* last_contents_changed >= last_applicability_regen *)
NeedsRegen(r) == toRegen[r]

After(x) == IF x = SyncPlan THEN UNCHANGED task
            ELSE Advance(x, IF kind[x] = "remove" THEN "finalize" ELSE "idle")

RegenSelect(x) ==
  LET found == {r \in Repos : (x = SyncPlan \/ r = on[x]) /\ NeedsRegen(r)}
  IN /\ regen[x] = "off"
     /\ IF x = SyncPlan
          THEN /\ planRuns < MaxPlanRuns /\ Room
               /\ planRuns' = planRuns + 1
          ELSE /\ step[x] = "regenerate"
               /\ UNCHANGED planRuns
     /\ IF found = {}
          THEN After(x) /\ UNCHANGED regens
          ELSE /\ regen' = [regen EXCEPT ![x] = IF HostsOf(found) = {} THEN "stamp" ELSE "selected"]
               /\ chosen' = [chosen EXCEPT ![x] = found]
               /\ UNCHANGED task
     /\ UNCHANGED <<content, installed, upload, queue, signal, run, work, tasks, uploads, faults,
                    history, missed>>

(* trigger_applicability_generation: push_hosts, then push_event. *)
RegenPushHosts(x) ==
  /\ regen[x] = "selected"
  /\ regen' = [regen EXCEPT ![x] = "queued"]
  /\ queue' = queue \cup HostsOf(chosen[x])
  /\ missed' = missed \ HostsOf(chosen[x])
  /\ UNCHANGED <<content, task, chosen, installed, upload, signal, run, work, counts, history>>

RegenPushes(x) ==
  /\ regen[x] = "queued"
  /\ regen' = [regen EXCEPT ![x] = "stamp"]
  /\ UNCHANGED <<content, task, chosen, installed, upload, queue, run, work, counts, history,
                 missed>>

RegenPushEvent(x) == RegenPushes(x) /\ Signal!Raise(Gen)

(* update_all(last_applicability_regen: DateTime.now) *)
RegenStamp(x) ==
  /\ regen[x] = "stamp"
  /\ toRegen' = [r \in Repos |-> toRegen[r] /\ r \notin chosen[x]]
  /\ early' = (early \ chosen[x]) \cup {r \in chosen[x] : indexed[r] # saved[r]}
  /\ regen' = [regen EXCEPT ![x] = "off"]
  /\ chosen' = [chosen EXCEPT ![x] = {}]
  /\ After(x)
  /\ UNCHANGED <<saved, indexed, toIndex, installed, upload, queue, signal, run, work, counts,
                 behind, raced, missed>>

-----------------------------------------------------------------------------
(* A host uploads its package profile. *)

Upload(h) ==
  /\ upload[h] = "idle" /\ uploads < MaxUploads /\ Room
  /\ uploads' = uploads + 1
  /\ upload' = [upload EXCEPT ![h] = "stored"]
  /\ \E v \in 0..MaxUnit : installed' = [installed EXCEPT ![h] = v]
  /\ UNCHANGED <<content, task, regens, queue, signal, run, work, tasks, planRuns, faults,
                 history, missed>>

UploadPushHosts(h) ==
  /\ upload[h] = "stored"
  /\ upload' = [upload EXCEPT ![h] = "queued"]
  /\ queue' = queue \cup {h}
  /\ missed' = missed \ {h}
  /\ UNCHANGED <<content, task, regens, installed, signal, run, work, counts, history>>

UploadPushes(h) ==
  /\ upload[h] = "queued"
  /\ upload' = [upload EXCEPT ![h] = "idle"]
  /\ UNCHANGED <<content, task, regens, installed, queue, run, work, counts, history,
                 missed>>

UploadPushEvent(h) == UploadPushes(h) /\ Signal!Raise(Gen)

-----------------------------------------------------------------------------
(* GenerateHostApplicability#run. *)

Starts ==
  /\ handler = "idle"
  /\ handler' = "check"
  /\ UNCHANGED <<content, task, regens, installed, upload, queue, batch, work, counts,
                 history, missed>>

HandlerBegins == Starts /\ Signal!Begin(Gen)

Returns == /\ handler' = "idle" /\ batch' = {}
           /\ UNCHANGED <<content, task, regens, installed, upload, queue, work, history>>

(* Mutant: one batch per event. *)
FindsAny ==
  /\ handler = "check"
  /\ Returns
  /\ UNCHANGED <<counts, missed>>

(* queue_depth == 0 *)
FindsEmpty ==
  /\ handler = "check" /\ queue = {}
  /\ Returns
  /\ UNCHANGED <<counts, missed>>

Drained == FindsEmpty /\ Signal!End /\ owed' = owed

(* pop_hosts: hosts in no particular order, at most a batch of them ... *)
PopSelect ==
  /\ handler = "check" /\ queue # {}
  /\ batch' \in {b \in SUBSET queue :
                   Cardinality(b) = IF Cardinality(queue) < BatchSize
                                      THEN Cardinality(queue) ELSE BatchSize}
  /\ handler' = "delete"
  /\ UNCHANGED <<content, task, regens, installed, upload, queue, signal, work, counts,
                 history, missed>>

(* Mutant: every row is deleted, not the batch's. *)
DeletedAll(b) == queue

(* where(host_id: ...).delete_all *)
Deleted(b) == queue \cap b

(* ... and every row of theirs goes, rows pushed meanwhile too. *)
PopDelete ==
  /\ handler = "delete"
  /\ queue' = queue \ Deleted(batch)
  /\ handler' = "create"
  /\ UNCHANGED <<content, task, regens, installed, upload, signal, batch, work, counts,
                 history, missed>>

(* async_task(BulkGenerate) *)
CreateTask ==
  /\ handler = "create"
  /\ jobs' = [jobs EXCEPT ![batch] = @ + 1]
  /\ handler' = "check" /\ batch' = {}
  /\ UNCHANGED <<content, task, regens, installed, upload, queue, signal, todo, eval, applicable,
                 counts, history, missed>>

-----------------------------------------------------------------------------
(* BulkGenerate: applicable_differences, then the transaction, host by host. *)

(* Mutant: the task taken need not be there. *)
TakeAnyJob(w) ==
  /\ eval[w] = NoEval /\ todo[w] = {}
  /\ \E b \in SUBSET Hosts : /\ jobs' = [jobs EXCEPT ![b] = @ - 1]
                            /\ todo' = [todo EXCEPT ![w] = b]
  /\ UNCHANGED <<content, task, regens, installed, upload, queue, signal, run, eval, applicable,
                 counts, history, missed>>

TakeJob(w) ==
  /\ eval[w] = NoEval /\ todo[w] = {}
  /\ \E b \in SUBSET Hosts :
       /\ jobs[b] > 0
       /\ jobs' = [jobs EXCEPT ![b] = @ - 1]
       /\ todo' = [todo EXCEPT ![w] = b]
  /\ UNCHANGED <<content, task, regens, installed, upload, queue, signal, run, eval, applicable,
                 counts, history, missed>>

At(w, h) == eval[w] # NoEval /\ eval[w].host = h

Compare(w, h) ==
  /\ eval[w] = NoEval /\ h \in todo[w]
  /\ todo' = [todo EXCEPT ![w] = @ \ {h}]
  /\ eval' = [eval EXCEPT ![w] =
       IF bound[h] = {} THEN NoEval
       ELSE [host |-> h, add |-> Applies(h) \ applicable[h],
             remove |-> applicable[h] \ Applies(h)]]
  /\ behind' = behind \ {h}
  /\ raced' = IF \E v \in Workers : At(v, h) THEN raced \cup {h} ELSE raced \ {h}
  /\ UNCHANGED <<content, task, regens, installed, upload, queue, signal, run, jobs, applicable,
                 counts, early, missed>>

Import(w) ==
  /\ eval[w] # NoEval
  /\ applicable' = [applicable EXCEPT ![eval[w].host] = (@ \cup eval[w].add) \ eval[w].remove]
  /\ eval' = [eval EXCEPT ![w] = NoEval]
  /\ UNCHANGED <<content, task, regens, installed, upload, queue, signal, run, jobs, todo, counts,
                 history, missed>>

-----------------------------------------------------------------------------
(* Faults. *)

Hit(fault) == /\ fault \in Faults
              /\ faults < MaxFaults /\ Room
              /\ faults' = faults + 1
              /\ UNCHANGED <<tasks, planRuns, uploads>>

InRun == handler \in {"check", "delete", "create"}

(* Hosts that were popped, and those left on the queue without an event. *)
Drops(left) == missed' = missed \cup (batch \ queue) \cup left
Left == IF owed' = {} THEN queue ELSE {}

(* A query or async_task raises: the event is cleared. *)
Raises == InRun /\ Hit("handler fails") /\ Returns /\ Drops(Left)

HandlerFails == Signal!End /\ owed' = owed /\ Raises

(* The daemon is stopped: Thread#kill ends the handler ... *)
HandlerKilled ==
  /\ InRun /\ Hit("stop")
  /\ handler' = "stopping"
  /\ UNCHANGED <<content, task, regens, installed, upload, queue, signal, batch, work,
                 history, missed>>

(* ... and the ensure block clears the event, but for rows it may not reach. *)
Stops == handler = "stopping" /\ Returns /\ Drops(Left) /\ UNCHANGED counts

HandlerStopped == Signal!End /\ Stops

(* The daemon is killed and the event is run again. *)
Dies == handler # "idle" /\ Hit("crash") /\ Returns /\ Drops({})

HandlerCrashes == Signal!End /\ owed' = owed \cup {Gen} /\ Dies

(* A NoMethodError or PG::Error is logged and the next host is taken; any   *)
(* other error, ActiveRecord's own among them, ends the task.               *)
EvaluationFails(w) ==
  /\ eval[w] # NoEval \/ todo[w] # {}
  /\ Hit("evaluation fails")
  /\ \E lost \in {{}, todo[w]} :
       /\ todo' = [todo EXCEPT ![w] = @ \ lost]
       /\ missed' = missed \cup lost \cup {h \in Hosts : At(w, h)}
  /\ eval' = [eval EXCEPT ![w] = NoEval]
  /\ UNCHANGED <<content, task, regens, installed, upload, queue, signal, run, jobs, applicable,
                 history>>

RequestDies(h) ==
  /\ upload[h] # "idle"
  /\ Hit("request dies")
  /\ missed' = missed \cup {h}
  /\ upload' = [upload EXCEPT ![h] = "idle"]
  /\ UNCHANGED <<content, task, regens, installed, queue, signal, run, work, history>>

(* Regenerate fails: a sync and a sync plan skip it; a removal is paused,    *)
(* and runs it again or is cancelled.  Hosts are dropped if they are queued  *)
(* and the event is not pushed; before and after that nothing is lost, for   *)
(* the repositories are not stamped.                                         *)
RegenerateFails(x) ==
  /\ regen[x] # "off"
  /\ Hit("regenerate fails")
  /\ regen' = [regen EXCEPT ![x] = "off"]
  /\ chosen' = [chosen EXCEPT ![x] = {}]
  /\ missed' = missed \cup (IF regen[x] = "queued" THEN HostsOf(chosen[x]) ELSE {})
  /\ \/ x = SyncPlan /\ UNCHANGED task
     \/ x # SyncPlan /\ Advance(x, "idle")
     \/ x # SyncPlan /\ kind[x] = "remove" /\ UNCHANGED task
  /\ UNCHANGED <<content, installed, upload, queue, signal, run, work, history>>

-----------------------------------------------------------------------------
TaskStep(t) == SaveVersion(t) \/ IndexContent(t) \/ FinalizeRemove(t)
RegenStep(x) == RegenPushHosts(x) \/ RegenPushEvent(x) \/ RegenStamp(x)
UploadStep(h) == UploadPushHosts(h) \/ UploadPushEvent(h)
HandlerStep == \/ HandlerBegins \/ Drained \/ PopSelect \/ PopDelete \/ CreateTask
               \/ HandlerStopped
WorkerStep(w) == TakeJob(w) \/ (\E h \in Hosts : Compare(w, h)) \/ Import(w)
HandlerFault == HandlerFails \/ HandlerKilled \/ HandlerCrashes

Next ==
  \/ \E t \in Tasks : \/ \E k \in Kinds : StartTask(t, k)
                      \/ TaskStep(t) \/ TaskFails(t)
  \/ \E x \in Regenerates : RegenSelect(x) \/ RegenStep(x) \/ RegenerateFails(x)
  \/ \E h \in Hosts : Upload(h) \/ UploadStep(h) \/ RequestDies(h)
  \/ HandlerStep \/ HandlerFault
  \/ \E w \in Workers : WorkerStep(w) \/ EvaluationFails(w)

Spec == Init /\ [][Next]_vars

-----------------------------------------------------------------------------
(* Properties. *)

(* No lost wakeup: while a host is queued, the event is owed or being        *)
(* handled, or whoever queued the host is about to push it.  Only a fault    *)
(* that dropped the host ends this, and a crash of the daemon does not.      *)
QueueAttended ==
  \A h \in queue \ missed :
    \/ owed # {} \/ serving # NoKey
    \/ upload[h] = "queued"
    \/ \E x \in Regenerates : regen[x] = "queued" /\ h \in HostsOf(chosen[x])

(* Somebody is still going to evaluate h, or to find out that it must be.   *)
Pending(h) ==
  \/ h \in queue \/ h \in batch
  \/ upload[h] # "idle"
  \/ \E b \in SUBSET Hosts : h \in b /\ jobs[b] > 0
  \/ \E w \in Workers : h \in todo[w] \/ At(w, h)
  \/ \E r \in bound[h] : toRegen[r]

(* A host nobody is going to look at again shows what applies to it, over   *)
(* syncs beside removals, skipped and repeated steps, sync plans and any    *)
(* number of workers (content_facet.rb pushes before it stamps, pop_hosts   *)
(* deletes what it hands on, SaveVersion dates a change before it is        *)
(* indexed).  It may be wrong, until it is evaluated again, only if its     *)
(* evaluation was dropped by a fault, if two workers evaluated it at once,  *)
(* or if its tables changed after a Regenerate that was to announce it: one *)
(* that had queued the hosts, or had stamped while the tables were not yet, *)
(* or no longer, those of the recorded version.                             *)
SettledMeansCurrent ==
  \A h \in Hosts : ~Pending(h) /\ h \notin missed \cup behind \cup raced /\ bound[h] # {}
                     => applicable[h] = Applies(h)

(* A test names what Regenerate leaves out: "skips applicability triggering *)
(* if not needed" (repository_regenerate_applicability_test.rb).  When the  *)
(* Regenerate of a sync passes over its repository, the hosts of it show    *)
(* the content it has just indexed, or are on their way to.                 *)
SkipsOnlyIfNotNeeded ==
  [][\A t \in Tasks : RegenSelect(t) /\ ~NeedsRegen(on[t]) =>
       \A h \in HostsOf({on[t]}) : Pending(h)' \/ applicable[h] = Applies(h)]_vars
=============================================================================
