------------------------------ MODULE ProxySync ------------------------------
(***************************************************************************)
(* When a smart proxy may skip a repository.  The server changes a          *)
(* repository's content by tasks of several steps (Repository::Sync,        *)
(* RemoveContent, UploadFiles); proxies mirror what the server serves.  A   *)
(* row of SmartProxySyncHistory with a finished_at says that a proxy has    *)
(* the content, and the next sync of the proxy skips the repository, until  *)
(* somebody deletes the row.                                                *)
(*                                                                          *)
(* One repository is enough: rows and locks of different ones have nothing  *)
(* to do with each other.  Content is the number of its version in Pulp.    *)
(***************************************************************************)
EXTENDS Naturals, FiniteSets

CONSTANTS
  Proxies,     \* smart proxies with the repository's environment
  Slots,       \* syncs of proxies that may be under way at once
  None,
  MaxVersion,  \* bound on the versions of the content
  MaxFaults    \* bound on the steps that fail

ASSUME ProxyAssumption ==
  /\ MaxVersion \in Nat \ {0} /\ MaxFaults \in Nat
  /\ None \notin Nat /\ None \notin Slots

VARIABLES
  pulp,      \* latest version of the repository in Pulp
  saved,     \* Repository.version_href
  published, \* the version Repository.publication_href was made from
  served,    \* the version whose publication the server's distribution offers
  op,        \* the task of each kind that changes the content
  history,   \* row of SmartProxySyncHistory of each proxy
  due,       \* proxies for which CapsuleSync has a sync to plan
  sync,      \* CapsuleContent::Sync in each slot
  synced,    \* latest version of the mirror on each proxy
  offered,   \* the version a proxy's distribution offers
  failed,    \* history: a sync of the proxy has failed since the last was planned
  faults

serverVars == <<pulp, saved, published, served, op>>
proxyVars == <<sync, synced, offered, failed>>
vars == <<serverVars, history, due, proxyVars, faults>>

Kinds == {"sync", "upload", "remove"}

OpStages == {"idle", "pulp", "version", "publication", "distribution", "finalize"}

Stages == {"free", "planned", "waiting", "reading", "written", "error", "refresh"}

Idle == [stage |-> "idle", new |-> None, changed |-> FALSE, broken |-> FALSE, clean |-> TRUE]

Free == [stage |-> "free", proxy |-> None, row |-> FALSE, read |-> None]

Versions == 0..MaxVersion

SyncAt(s, stage) == sync[s].stage = stage

TypeOK ==
  /\ pulp \in Versions /\ saved \in Versions /\ published \in Versions /\ served \in Versions
  /\ op \in [Kinds -> [stage : OpStages, new : Versions \cup {None}, changed : BOOLEAN,
                       broken : BOOLEAN, clean : BOOLEAN]]
  /\ history \in [Proxies -> [by : Slots, finished : BOOLEAN, doubt : BOOLEAN] \cup {None}]
  /\ due \subseteq Proxies
  /\ sync \in [Slots -> [stage : Stages, proxy : Proxies \cup {None}, row : BOOLEAN,
                         read : Versions \cup {None}]]
  /\ synced \in [Proxies -> Versions] /\ offered \in [Proxies -> Versions]
  /\ failed \in [Proxies -> BOOLEAN]
  /\ faults \in 0..MaxFaults
  /\ \A s \in Slots : sync[s].stage # "free" => sync[s].proxy \in Proxies
  /\ \A s \in Slots : SyncAt(s, "reading") => sync[s].read \in Versions

Init ==
  /\ pulp = 0 /\ saved = 0 /\ published = 0 /\ served = 0
  /\ op = [k \in Kinds |-> Idle]
  /\ history = [p \in Proxies |-> None]
  /\ due = {}
  /\ sync = [s \in Slots |-> Free]
  /\ synced = [p \in Proxies |-> 0] /\ offered = [p \in Proxies |-> 0]
  /\ failed = [p \in Proxies |-> FALSE]
  /\ faults = 0

Fault == faults < MaxFaults /\ faults' = faults + 1

(* Mutant: only rows of syncs that have finished are deleted. *)
ClearedFinished == [p \in Proxies |-> IF history[p] # None /\ history[p].finished THEN None ELSE history[p]]

(* clear_smart_proxy_sync_histories *)
Cleared == [p \in Proxies |-> None]

-----------------------------------------------------------------------------
(* Tasks that change the content on the server. *)

At(k, stage) == op[k].stage = stage

(* The next stage of k.  A task that takes a step while another is under    *)
(* way takes from it the claim to have worked alone.                        *)
Go(k, new) == op' = [j \in Kinds |->
  LET alone == IF j = k THEN \A other \in Kinds \ {k} : At(other, "idle") ELSE At(j, "idle")
      mine == IF j = k THEN new ELSE op[j]
  IN IF j = "sync" THEN [mine EXCEPT !.clean = @ /\ alone] ELSE mine]

Early == {"upload", "remove"}

(* Repository::Sync and UploadFiles lock the repository, RemoveContent only *)
(* links to it.                                                             *)
Unlocked(k) == At(k, "idle") /\ (k \in {"sync", "upload"} => At("sync", "idle") /\ At("upload", "idle"))

(* plan of Repository::Sync *)
BeginSync ==
  /\ Unlocked("sync")
  /\ Go("sync", [Idle EXCEPT !.stage = "pulp"])
  /\ UNCHANGED <<pulp, saved, published, served, history, due, proxyVars, faults>>

(* plan of UploadFiles or RemoveContent *)
BeginChange(k) ==
  /\ Unlocked(k)
  /\ pulp < MaxVersion
  /\ history' = Cleared
  /\ Go(k, [Idle EXCEPT !.stage = "pulp"])
  /\ UNCHANGED <<pulp, saved, published, served, due, proxyVars, faults>>

(* Pulp's task: a sync may find nothing new. *)
PulpTask(k) ==
  /\ At(k, "pulp")
  /\ \/ /\ pulp < MaxVersion
        /\ pulp' = pulp + 1
        /\ Go(k, [op[k] EXCEPT !.stage = "version", !.new = pulp + 1])
     \/ /\ k = "sync" \/ pulp = MaxVersion
        /\ Go(k, [op[k] EXCEPT !.stage = "version"])
        /\ UNCHANGED pulp
  /\ UNCHANGED <<saved, published, served, history, due, proxyVars, faults>>

(* Mutant: a sync without a new version has changed nothing. *)
ContentsChangedNew(k) == op[k].new # None

(* save_version_if_changed, check_publication_version_match *)
ContentsChanged(k) == op[k].new # None \/ published # saved

(* Mutant: the version of the tasks is saved also if they made none. *)
SavedAlways(k) == op[k].new

SavedVersion(k) == IF op[k].new # None THEN op[k].new ELSE saved

SaveVersion(k) ==
  /\ At(k, "version")
  /\ saved' = SavedVersion(k)
  /\ Go(k, [op[k] EXCEPT !.stage = "publication", !.new = None,
                         !.changed = k = "sync" /\ ContentsChanged(k)])
  /\ UNCHANGED <<pulp, published, served, history, due, proxyVars, faults>>

(* CreatePublication with SavePublication; they are skipped if the contents *)
(* have not changed, and forced after an upload or a removal.               *)
CreatePublication(k) ==
  /\ At(k, "publication")
  /\ published' = IF op[k].changed \/ k \in Early THEN saved ELSE published
  /\ Go(k, [op[k] EXCEPT !.stage = "distribution"])
  /\ UNCHANGED <<pulp, saved, served, history, due, proxyVars, faults>>

RefreshDistribution(k) ==
  /\ At(k, "distribution")
  /\ served' = published
  /\ Go(k, IF op[k].broken THEN Idle ELSE [op[k] EXCEPT !.stage = "finalize"])
  /\ UNCHANGED <<pulp, saved, published, history, due, proxyVars, faults>>

(* finalize of Sync, which deletes the rows and which ExecuteIfContentsChanged *)
(* passes over if the contents have not changed; run of UploadFiles;        *)
(* CapsuleSync of RemoveContent                                             *)
Finalize(k) ==
  /\ At(k, "finalize")
  /\ history' = IF op[k].changed THEN Cleared ELSE history
  /\ due' = IF k = "sync" /\ ~op[k].changed THEN due ELSE Proxies
  /\ Go(k, Idle)
  /\ UNCHANGED <<pulp, saved, published, served, proxyVars, faults>>

(* A finished row of an earlier content may be left. *)
Doubted(ps) == [p \in Proxies |-> IF p \in ps /\ history[p] # None THEN [history[p] EXCEPT !.doubt = TRUE] ELSE history[p]]

(* A step of k fails.  Sync and UploadFiles skip it with the steps that use *)
(* its output: without a version a sync has no publication and no finalize, *)
(* but refreshes the distribution.  RemoveContent is paused and cancelled.  *)
StepFails(k) ==
  LET stage == op[k].stage
      versionless == stage \in {"pulp", "version"}
      next == CASE versionless /\ k = "sync" -> "distribution"
                [] versionless /\ k = "upload" -> "publication"
                [] stage = "publication" -> "distribution"
                [] stage = "distribution" /\ ~op[k].broken -> "finalize"
                [] OTHER -> "idle"
  IN /\ ~At(k, "idle")
     /\ Fault
     /\ Go(k, IF k = "remove" \/ next = "idle" THEN Idle
              ELSE [op[k] EXCEPT !.stage = next, !.new = None, !.clean = @ /\ k # "sync",
                                 !.broken = versionless /\ k = "sync"])
     /\ history' = IF stage = "finalize" /\ op[k].changed THEN Doubted(Proxies) ELSE history
     /\ UNCHANGED <<pulp, saved, published, served, due, proxyVars>>

ServerStep ==
  \/ BeginSync
  \/ \E k \in Early : BeginChange(k)
  \/ \E k \in Kinds : \/ PulpTask(k) \/ SaveVersion(k) \/ CreatePublication(k)
                      \/ RefreshDistribution(k) \/ Finalize(k) \/ StepFails(k)

-----------------------------------------------------------------------------
(* Syncs of proxies.  They only link to their proxy: several may run.       *)

To(s, stage) == sync' = [sync EXCEPT ![s].stage = stage]

(* Mutant: a sync that has begun counts as one that has finished. *)
SkipsBegun(p) == history[p] # None

(* repos_to_sync without skip_metadata_check *)
Skips(p) == history[p] # None /\ history[p].finished

Planned(s, p) == sync' = [sync EXCEPT ![s] = [Free EXCEPT !.stage = "planned", !.proxy = p]]

(* SyncCapsule is planned for p: by CapsuleSync, or by a user. *)
PlanSync(s, p) ==
  /\ SyncAt(s, "free")
  /\ due' = due \ {p}
  /\ IF Skips(p) THEN UNCHANGED sync ELSE Planned(s, p)
  /\ failed' = [failed EXCEPT ![p] = FALSE]
  /\ UNCHANGED <<serverVars, history, synced, offered, faults>>

(* The same with skip_metadata_check; for all repositories of the proxy it  *)
(* deletes their rows.                                                      *)
PlanForced(s, p) ==
  /\ SyncAt(s, "free")
  /\ history' \in {history, [history EXCEPT ![p] = None]}
  /\ Planned(s, p)
  /\ failed' = [failed EXCEPT ![p] = FALSE]
  /\ UNCHANGED <<serverVars, due, synced, offered, faults>>

(* An upload or a removal has deleted the rows and does not yet serve what  *)
(* it changes.                                                              *)
WindowOpen == \E k \in Early : op[k].stage \in {"pulp", "version", "publication", "distribution"}

(* create_smart_proxy_sync_history.  The row is in doubt when it is saved   *)
(* too late, or while what is served lags behind.                           *)
WithRow(s, late) == [history EXCEPT ![sync[s].proxy] =
  [by |-> s, finished |-> FALSE, doubt |-> late \/ WindowOpen \/ served # published]]

(* The first run: RecordSmartProxySyncHistory, then the request to Pulp,    *)
(* which may fail, and so may the row.                                      *)
Start(s) ==
  /\ SyncAt(s, "planned")
  /\ \/ /\ history' = WithRow(s, FALSE)
        /\ sync' = [sync EXCEPT ![s].stage = "waiting", ![s].row = TRUE]
        /\ UNCHANGED <<failed, faults>>
     \/ /\ Fault
        /\ To(s, "waiting")
        /\ UNCHANGED <<history, failed>>
     \/ /\ Fault
        /\ history' = WithRow(s, FALSE)
        /\ sync' = [sync EXCEPT ![s].stage = "refresh"]
        /\ failed' = [failed EXCEPT ![sync[s].proxy] = TRUE]
  /\ UNCHANGED <<serverVars, due, synced, offered>>

(* The proxy's Pulp runs one task at a time on the mirror. *)
PulpReads(s) ==
  /\ SyncAt(s, "waiting")
  /\ \A other \in Slots : ~(SyncAt(other, "reading") /\ sync[other].proxy = sync[s].proxy)
  /\ sync' = [sync EXCEPT ![s].stage = "reading", ![s].read = served]
  /\ UNCHANGED <<serverVars, history, due, synced, offered, failed, faults>>

PulpWrites(s) ==
  /\ SyncAt(s, "reading")
  /\ synced' = [synced EXCEPT ![sync[s].proxy] = sync[s].read]
  /\ sync' = [sync EXCEPT ![s].stage = "written", ![s].read = None]
  /\ UNCHANGED <<serverVars, history, due, offered, failed, faults>>

PulpFails(s) ==
  /\ SyncAt(s, "reading")
  /\ Fault
  /\ sync' = [sync EXCEPT ![s].stage = "error", ![s].read = None]
  /\ failed' = [failed EXCEPT ![sync[s].proxy] = TRUE]
  /\ UNCHANGED <<serverVars, history, due, synced, offered>>

(* The row this sync has created, if it is still there and not finished. *)
OwnRow(s) == LET row == history[sync[s].proxy]
             IN sync[s].row /\ row # None /\ row.by = s /\ ~row.finished

(* done? records the end on its own row if that is still there. *)
Records(s) == IF OwnRow(s) THEN [history EXCEPT ![sync[s].proxy].finished = TRUE] ELSE history

(* rescue_external_task deletes it, whether the error is Pulp's or that of  *)
(* a poll that will be repeated.                                            *)
Withdraws(s) == IF OwnRow(s) THEN [history EXCEPT ![sync[s].proxy] = None] ELSE history

(* A row that could not be saved is saved when the action runs again. *)
SavesLate(s) ==
  /\ sync[s].stage \in {"waiting", "reading", "written", "error"} /\ ~sync[s].row
  /\ history' = WithRow(s, TRUE)
  /\ sync' = [sync EXCEPT ![s].row = TRUE]
  /\ UNCHANGED <<serverVars, due, synced, offered, failed, faults>>

(* Polls that find the Pulp task done, failed, or nothing at all. *)
PollDone(s) ==
  /\ SyncAt(s, "written") /\ sync[s].row
  /\ history' = Records(s)
  /\ sync' = [sync EXCEPT ![s].stage = "refresh", ![s].row = FALSE]
  /\ UNCHANGED <<serverVars, due, synced, offered, failed, faults>>

PollError(s) ==
  /\ SyncAt(s, "error") /\ sync[s].row
  /\ history' = Withdraws(s)
  /\ sync' = [sync EXCEPT ![s].stage = "refresh", ![s].row = FALSE]
  /\ UNCHANGED <<serverVars, due, synced, offered, failed, faults>>

PollFails(s) ==
  /\ sync[s].stage \in {"waiting", "reading", "written", "error"} /\ sync[s].row
  /\ Fault
  /\ history' = Withdraws(s)
  /\ UNCHANGED <<serverVars, due, proxyVars>>

(* GenerateMetadata and RefreshDistribution on the proxy *)
Refresh(s) ==
  /\ SyncAt(s, "refresh")
  /\ sync' = [sync EXCEPT ![s] = Free]
  /\ \/ /\ offered' = [offered EXCEPT ![sync[s].proxy] = synced[sync[s].proxy]]
        /\ UNCHANGED <<history, failed, faults>>
     \/ /\ Fault
        /\ failed' = [failed EXCEPT ![sync[s].proxy] = TRUE]
        /\ history' = Doubted({sync[s].proxy})
        /\ UNCHANGED offered
  /\ UNCHANGED <<serverVars, due, synced>>

SyncStep(s) == Start(s) \/ PulpReads(s) \/ PulpWrites(s) \/ SavesLate(s) \/ PollDone(s) \/ PollError(s) \/ Refresh(s)

ProxyStep ==
  \E s \in Slots : \/ \E p \in Proxies : PlanSync(s, p) \/ PlanForced(s, p)
                   \/ SyncStep(s) \/ PulpFails(s) \/ PollFails(s)

Next == ServerStep \/ ProxyStep

Spec == Init /\ [][Next]_vars

(* Dynflow runs the steps of tasks and plans the syncs that are due. *)
FairSpec ==
  /\ Spec
  /\ \A k \in Kinds : WF_vars(PulpTask(k) \/ SaveVersion(k) \/ CreatePublication(k) \/ RefreshDistribution(k) \/ Finalize(k))
  /\ \A s \in Slots : WF_vars(Start(s) \/ SavesLate(s) \/ PulpWrites(s) \/ PollDone(s) \/ PollError(s) \/ Refresh(s))
  /\ \A s \in Slots : SF_vars(PulpReads(s))
  /\ \A p \in Proxies : SF_vars(p \in due /\ \E s \in Slots : PlanSync(s, p))

-----------------------------------------------------------------------------
(* Properties. *)

(* A sync has changed what is served and has not deleted the rows yet. *)
ClearPending == At("sync", "finalize") /\ op["sync"].changed

UnderWay(p) == \E s \in Slots : sync[s].stage # "free" /\ sync[s].proxy = p

(* A proxy is not skipped while it lacks content: a finished row means that *)
(* its mirror is what the server serves, and that its distribution offers   *)
(* it or will (repos_to_sync, smart_proxy_sync_history_helper.rb).  Only a  *)
(* row in doubt may be wrong: one made while an upload or a removal had     *)
(* deleted the rows but did not serve its change yet, or while the server's *)
(* distribution had failed to follow its publication; one saved after its   *)
(* sync had begun; one that was there when the finalize of a sync failed,   *)
(* or when its proxy failed to refresh its distribution.                    *)
FinishedMeansCurrent ==
  \A p \in Proxies :
    (Skips(p) /\ ~history[p].doubt /\ ~ClearPending)
      => synced[p] = served /\ (offered[p] = served \/ UnderWay(p))

(* A sync of the repository that worked alone and without a failure ends    *)
(* with its version served, also when it has found nothing new because an   *)
(* earlier one had failed to publish (check_publication_version_match).     *)
CleanSyncServes == At("sync", "finalize") /\ op["sync"].clean => served = saved

(* A sync that is due brings the proxy up to what is served, whatever rows  *)
(* are left by syncs that failed, unless it fails itself or the content     *)
(* is changing again.                                                       *)
DueProxiesCatchUp ==
  \A p \in Proxies :
    p \in due ~> (p \notin due /\ (\/ offered[p] = served
                                   \/ failed[p]
                                   \/ Skips(p) /\ history[p].doubt
                                   \/ \E k \in Kinds : ~At(k, "idle")))
=============================================================================
