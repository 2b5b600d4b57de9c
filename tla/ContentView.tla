---------------------------- MODULE ContentView ------------------------------
(***************************************************************************)
(* One content view: its versions, the lifecycle environments that serve    *)
(* them and the tasks that publish, promote and remove (app/lib/actions/    *)
(* katello/content_view/*, content_view_version/destroy,                    *)
(* content_view_environment/destroy).                                       *)
(*                                                                         *)
(* A task is planned in one database transaction, which takes an exclusive  *)
(* lock on the view.  Its run steps then act on Pulp and Candlepin one by   *)
(* one, and its finalize phase is one more transaction.  The lock is held   *)
(* to the end, also by a paused task: a step that failed and waits to be    *)
(* resumed is a step that has not been taken yet.  DELETE                   *)
(* /content_view_versions/:id plans ContentViewVersion::Destroy, which      *)
(* locks the repositories it deletes and not the view.                      *)
(***************************************************************************)
EXTENDS Naturals

CONSTANTS
  Envs,               \* lifecycle environments
  Library,            \* the one a publish promotes to
  Prior,              \* Prior[e]: the environment before e, NoEnv for Library
  NoEnv,
  Repos,              \* library repositories the view may select
  Hosts,              \* hosts and activation keys
  Elsewhere, Lost,    \* a host of another view, a host left without any
  NoTask,
  MaxVersion,         \* bound: major versions published
  MaxFailures,        \* bound: finalize phases that fail and are resumed
  MaxDirectDeletes    \* bound: calls of DELETE /content_view_versions/:id

Versions == 1..MaxVersion
NoVersion == 0
NothingServed == MaxVersion + 1   \* a repository in Pulp with no content yet

ASSUME ViewAssumption ==
  /\ Library \in Envs
  /\ NoEnv \notin Envs
  /\ Elsewhere \notin Envs /\ Lost \notin Envs /\ Elsewhere # Lost
  /\ Prior \in [Envs -> Envs \cup {NoEnv}]
  /\ MaxVersion \in Nat /\ MaxFailures \in Nat /\ MaxDirectDeletes \in Nat

VARIABLES
  alive,         \* the view has not been destroyed
  selected,      \* repositories of the view
  nextVersion,   \* next_version
  versions,      \* existing versions
  archive,       \* archive[v][r]: the archived repository of r in version v
  cve,           \* cve[e]: the version the ContentViewEnvironment row points to
  clone,         \* clone[e][r]: the version whose content r serves in e
  cpEnv,         \* environments of the view that exist in Candlepin
  cpContent,     \* cpContent[e]: repositories Candlepin entitles hosts of e to
  host,          \* host[h]: the environment of the view h is in
  openHistory,   \* ContentViewHistory rows "in progress"
  task,          \* the task that holds the view's lock
  deletion,      \* a ContentViewVersion::Destroy outside the lock
  failures, directDeletes,
  prevCve,       \* history: the version cve[e] replaced, while the task runs
  stripped,      \* history: Library, when a publish that skips the promotion
                 \*   has deleted repositories of it
  abandoned      \* history: rows whose closing failed and was skipped

settings == <<selected, nextVersion>>
content  == <<archive, clone>>
cp       == <<cpEnv, cpContent>>
counters == <<failures, directDeletes>>
marks    == <<stripped, abandoned>>
history  == <<prevCve, marks>>
vars == <<alive, settings, versions, content, cve, cp, host, openHistory, task,
          deletion, counters, history>>

-----------------------------------------------------------------------------
(* Views of the state. *)

EnvsOf(v) == {e \in Envs : cve[e] = v}
HostsIn(E) == {h \in Hosts : host[h] \in E}

(* The repositories that have a row in the archive of v, or in e. *)
Archived(v) == {r \in Repos : archive[v][r] # "none"}
Cloned(e)   == {r \in Repos : clone[e][r] # NoVersion}

(* Mutant: the check of environments is always skipped. *)
DestroyableAlways(v) == v = v

(* validate_destroyable!, for a version of a component view *)
Destroyable(v) == EnvsOf(v) = {}

(* version.promotable?(targets), when the version is in `there` *)
Promotable(targets, there) ==
  \A e \in targets : \/ Prior[e] \in targets \cup there
                     \/ there = {} /\ e = Library

(* Repository locks: a publish holds those of the archive it creates, a     *)
(* removal and a direct delete those of the archive they delete.            *)
ArchiveLocked(v) ==
  /\ Archived(v) # {}
  /\ \/ task # NoTask /\ task.action = "publish" /\ task.version = v
     \/ task # NoTask /\ v \in task.removed
     \/ deletion # NoTask /\ deletion.version = v

Tasks ==
  [action   : {"publish", "promotion", "removal", "destroy"},
   version  : Versions \cup {NoVersion},
   targets  : SUBSET Envs,          \* environments promoted to or left
   removed  : SUBSET Versions,
   stale    : SUBSET (Envs \X Repos),    \* rows the finalize phase deletes
   fills    : SUBSET Repos,         \* run steps still to be done:
   clones   : SUBSET (Envs \X Repos),    \* CloneToEnvironment
   drops    : SUBSET (Envs \X Repos),    \* Repository::Destroy in an environment
   cpDrops  : SUBSET Envs,               \* Candlepin::Environment::Destroy
   purges   : SUBSET (Versions \X Repos)]\* Repository::Destroy of the archive

Deletions == [version : Versions, purges : SUBSET Repos]

ASSUME NoTaskAssumption == NoTask \notin Tasks /\ NoTask \notin Deletions

Histories == [version : Versions, env : Envs \cup {NoEnv},
              action : {"publish", "promotion", "removal"}]

TypeOK ==
  /\ alive \in BOOLEAN
  /\ selected \subseteq Repos
  /\ nextVersion \in 1..(MaxVersion + 1) /\ \A v \in versions : v < nextVersion
  /\ versions \subseteq Versions
  /\ archive \in [Versions -> [Repos -> {"none", "empty", "filled", "gone"}]]
  /\ cve \in [Envs -> Versions \cup {NoVersion}]
  /\ clone \in [Envs -> [Repos -> 0..(MaxVersion + 1)]]
  /\ cpEnv \subseteq Envs
  /\ cpContent \in [Envs -> SUBSET Repos]
  /\ host \in [Hosts -> Envs \cup {Elsewhere, Lost}]
  /\ openHistory \subseteq Histories
  /\ task \in Tasks \cup {NoTask}
  /\ deletion \in Deletions \cup {NoTask}
  /\ failures \in 0..MaxFailures
  /\ directDeletes \in 0..MaxDirectDeletes
  /\ prevCve \in [Envs -> Versions \cup {NoVersion}]
  /\ stripped \subseteq Envs
  /\ abandoned \subseteq Histories

Init ==
  /\ alive = TRUE
  /\ selected \in SUBSET Repos
  /\ nextVersion = 1
  /\ versions = {}
  /\ archive = [v \in Versions |-> [r \in Repos |-> "none"]]
  /\ cve = [e \in Envs |-> NoVersion]
  /\ clone = [e \in Envs |-> [r \in Repos |-> NoVersion]]
  /\ cpEnv = {}
  /\ cpContent = [e \in Envs |-> {}]
  /\ host = [h \in Hosts |-> Elsewhere]
  /\ openHistory = {}
  /\ task = NoTask /\ deletion = NoTask
  /\ failures = 0 /\ directDeletes = 0
  /\ prevCve = [e \in Envs |-> NoVersion]
  /\ stripped = {} /\ abandoned = {}

-----------------------------------------------------------------------------
(* Plan phases. *)

(* ContentView::Update with new repository_ids, over before the lock shows. *)
SelectRepos(S) ==
  /\ alive /\ task = NoTask
  /\ S # selected
  /\ selected' = S
  /\ UNCHANGED <<alive, nextVersion, versions, content, cve, cp, host,
                 openHistory, task, deletion, counters, history>>

(* AddToEnvironment and the plan of CloneToEnvironment, for each target: the *)
(* row points to v at once and every repository missing there is created.   *)
AddToEnvironments(v, repos, targets) ==
  /\ cve' = [e \in Envs |-> IF e \in targets THEN v ELSE cve[e]]
  /\ prevCve' = [e \in Envs |-> IF e \in targets THEN cve[e] ELSE prevCve[e]]
  /\ cpEnv' = cpEnv \cup targets
  /\ clone' = [e \in Envs |-> [r \in Repos |->
                 IF e \in targets /\ r \in repos /\ clone[e][r] = NoVersion
                   THEN NothingServed ELSE clone[e][r]]]

(* Mutant: the new next_version is not saved. *)
NextMajorUnsaved == nextVersion

(* create_new_version *)
NextMajor == nextVersion + 1

(* repos_to_delete: what the targets hold beside `repos` *)
StaleClones(repos, targets) ==
  {p \in targets \X Repos : p[2] \in Cloned(p[1]) \ repos}

(* A publish that skips the promotion leaves the row of Library as it is,    *)
(* but still deletes Library's repositories that are no longer selected.    *)
PublishPlan(skipPromotion, targets, force) ==
  LET v == nextVersion
      library == IF skipPromotion THEN {} ELSE {Library}
      into == library \cup targets
      drops == StaleClones(selected, targets \cup {Library})
  IN /\ alive /\ task = NoTask
     /\ nextVersion <= MaxVersion
     /\ v \notin versions
     /\ force \/ Promotable(targets, library)
     /\ versions' = versions \cup {v}
     /\ nextVersion' = NextMajor
     /\ archive' = [archive EXCEPT ![v] =
                      [r \in Repos |-> IF r \in selected THEN "empty" ELSE "none"]]
     /\ AddToEnvironments(v, selected, into)
     /\ task' = [action |-> "publish", version |-> v, targets |-> into,
                 removed |-> {}, stale |-> drops,
                 fills |-> selected, clones |-> into \X selected,
                 drops |-> drops, cpDrops |-> {}, purges |-> {}]
     /\ stripped' = (stripped \cup {p[1] : p \in drops}) \ into
     /\ openHistory' = openHistory
          \cup {[version |-> v, env |-> NoEnv, action |-> "publish"]}
          \cup {[version |-> v, env |-> e, action |-> "promotion"] : e \in targets}
     /\ UNCHANGED <<alive, selected, cpContent, host, deletion, counters,
                    abandoned>>

PromotePlan(v, targets, force) ==
  /\ alive /\ task = NoTask
  /\ v \in versions
  /\ targets # {}
  /\ force \/ Promotable(targets, EnvsOf(v))
  /\ AddToEnvironments(v, Archived(v), targets)
  /\ task' = [action |-> "promotion", version |-> v, targets |-> targets,
              removed |-> {}, stale |-> StaleClones(Archived(v), targets),
              fills |-> {}, clones |-> targets \X Archived(v),
              drops |-> StaleClones(Archived(v), targets),
              cpDrops |-> {}, purges |-> {}]
  /\ openHistory' = openHistory
       \cup {[version |-> v, env |-> e, action |-> "promotion"] : e \in targets}
  /\ stripped' = stripped \ targets
  /\ UNCHANGED <<alive, settings, versions, archive, cpContent, host, deletion,
                 counters, abandoned>>

(* Mutant: nothing stands in the way of a deletion. *)
EnvsKeptIgnored(v, envs) == envs \ envs

(* check_version_deletion: environments of v that the removal does not leave *)
EnvsKept(v, envs) == EnvsOf(v) \ envs

(* Remove: environments to leave, versions to delete, and where hosts that  *)
(* stand in the way go.  They are moved in the plan phase, and each         *)
(* ContentViewEnvironment::Destroy then checks that none is left.           *)
RemovePlan(envs, doomed, refuge, whole) ==
  /\ alive /\ task = NoTask
  /\ whole \/ envs \cup doomed # {}
  /\ envs \subseteq {e \in Envs : cve[e] # NoVersion}
  /\ doomed \subseteq versions
  /\ whole => doomed = versions /\ envs = {e \in Envs : cve[e] # NoVersion}
  /\ \A v \in doomed : EnvsKept(v, envs) = {} /\ ~ArchiveLocked(v)
  /\ HostsIn(envs) # {} =>
       /\ refuge \notin envs
       /\ refuge # Elsewhere => refuge \in cpEnv /\ cve[refuge] # NoVersion
  /\ host' = [h \in Hosts |-> IF host[h] \in envs THEN refuge ELSE host[h]]
  /\ task' = [action |-> IF whole THEN "destroy" ELSE "removal",
              version |-> NoVersion, targets |-> envs,
              removed |-> doomed, stale |-> StaleClones({}, envs),
              fills |-> {}, clones |-> {}, drops |-> StaleClones({}, envs),
              cpDrops |-> envs,
              purges |-> {p \in doomed \X Repos : p[2] \in Archived(p[1])}]
  /\ openHistory' = openHistory
       \cup {[version |-> cve[e], env |-> e, action |-> "removal"] : e \in envs}
       \cup {[version |-> v, env |-> NoEnv, action |-> "removal"] : v \in doomed}
  /\ UNCHANGED <<alive, settings, versions, content, cve, cp, deletion,
                 counters, history>>

-----------------------------------------------------------------------------
(* Run steps. *)

unplanned == <<alive, settings, versions, cve, host, openHistory, deletion,
               counters, history>>

(* CloneToVersion: the archive of r receives its content. *)
FillArchive(r) ==
  /\ task # NoTask /\ r \in task.fills
  /\ archive' = [archive EXCEPT ![task.version][r] = "filled"]
  /\ task' = [task EXCEPT !.fills = @ \ {r}]
  /\ UNCHANGED <<clone, cp, unplanned>>

(* Mutant: the environments are filled concurrently with the archive. *)
CloneAtOnce(e, r) == e \in task.targets /\ r \in Repos

(* CloneToEnvironment.  In a publish it follows CloneToVersion of the same  *)
(* repository, and the promotions follow everything done for Library.  The  *)
(* step fails for good once the archived repository is gone.                *)
CloneReady(e, r) ==
  task.action = "publish" =>
    IF e = Library THEN r \notin task.fills
    ELSE /\ task.fills = {}
         /\ (task.clones \cup task.drops) \cap ({Library} \X Repos) = {}

(* Mutant: the newest version is copied instead of the one promoted. *)
CopiedFromLatest(r) == IF r \in Repos THEN nextVersion - 1 ELSE NothingServed

Copied(r) == IF archive[task.version][r] = "filled" THEN task.version
             ELSE NothingServed

CloneToEnvironment(e, r) ==
  /\ task # NoTask /\ <<e, r>> \in task.clones
  /\ CloneReady(e, r)
  /\ archive[task.version][r] \in {"empty", "filled"}
  /\ clone' = [clone EXCEPT ![e][r] = Copied(r)]
  /\ task' = [task EXCEPT !.clones = @ \ {<<e, r>>}]
  /\ UNCHANGED <<archive, cp, unplanned>>

(* Repository::Destroy of an environment's repository: Pulp stops serving   *)
(* it now, its row goes in the finalize phase.                              *)
DropClone(e, r) ==
  /\ task # NoTask /\ <<e, r>> \in task.drops
  /\ clone' = [clone EXCEPT ![e][r] = NothingServed]
  /\ task' = [task EXCEPT !.drops = @ \ {<<e, r>>}]
  /\ UNCHANGED <<archive, cp, unplanned>>

(* The repositories of an environment go before Candlepin's record of it. *)
CandlepinReady(e) == task.drops \cap ({e} \X Repos) = {}

(* Candlepin::Environment::Destroy *)
DropCandlepin(e) ==
  /\ task # NoTask /\ e \in task.cpDrops
  /\ CandlepinReady(e)
  /\ cpEnv' = cpEnv \ {e}
  /\ cpContent' = [cpContent EXCEPT ![e] = {}]
  /\ task' = [task EXCEPT !.cpDrops = @ \ {e}]
  /\ UNCHANGED <<content, unplanned>>

(* Repository::Destroy of an archived repository. *)
PurgeArchive(v, r) ==
  /\ task # NoTask /\ <<v, r>> \in task.purges
  /\ task.cpDrops = {}
  /\ archive' = [archive EXCEPT ![v][r] = "gone"]
  /\ task' = [task EXCEPT !.purges = @ \ {<<v, r>>}]
  /\ UNCHANGED <<clone, cp, unplanned>>

(* Mutant: Publish, which looks its version up again, cannot be skipped.    *)
RunDoneFound ==
  /\ task # NoTask
  /\ task.fills = {} /\ task.clones = {} /\ task.drops = {}
  /\ task.cpDrops = {} /\ task.purges = {}
  /\ task.action = "publish" => task.version \in versions

(* The run phase is over. *)
RunDone == /\ task # NoTask
           /\ task.fills = {} /\ task.clones = {} /\ task.drops = {}
           /\ task.cpDrops = {} /\ task.purges = {}

-----------------------------------------------------------------------------
(* Finalize phases. *)

Promoting == task.action \in {"publish", "promotion"}

(* What e holds once the rows of the dropped repositories are deleted. *)
Kept(e) == {r \in Cloned(e) : <<e, r>> \notin task.stale}

(* Mutant: only Publish closes its history. *)
ClosedByPublish ==
  {h \in openHistory : h.version = task.version /\ h.action = "publish"}

(* The histories the finalize methods of Publish and of every               *)
(* PromoteToEnvironment mark successful.                                    *)
ClosedHistories ==
  {h \in openHistory : h.version = task.version /\ h.action \in {"publish", "promotion"}}

(* SetContent tells Candlepin, then the histories are closed, but for those  *)
(* whose closing is skipped.                                                *)
FinalizePromotion ==
  /\ RunDone /\ Promoting
  /\ clone' = [e \in Envs |-> [r \in Repos |->
                 IF <<e, r>> \in task.stale THEN NoVersion ELSE clone[e][r]]]
  /\ cpContent' = [e \in Envs |-> IF e \in task.targets THEN Kept(e) ELSE cpContent[e]]
  /\ openHistory' = openHistory \ (ClosedHistories \ abandoned)
  /\ task' = NoTask
  /\ prevCve' = [e \in Envs |-> NoVersion]
  /\ UNCHANGED <<alive, settings, versions, archive, cve, cpEnv, host, deletion,
                 counters, marks>>

(* SetContent or another action of the phase raises: the database rolls back *)
(* and the task is paused, but Candlepin has been told about some of the    *)
(* environments.                                                            *)
FinalizeFails(told) ==
  /\ RunDone /\ Promoting
  /\ failures < MaxFailures
  /\ told \subseteq task.targets
  /\ failures' = failures + 1
  /\ cpContent' = [e \in Envs |-> IF e \in told THEN Kept(e) ELSE cpContent[e]]
  /\ UNCHANGED <<alive, settings, versions, content, cve, cpEnv, host,
                 openHistory, task, deletion, directDeletes, history>>

(* Publish or a PromoteToEnvironment raises in its own finalize method, or   *)
(* Publish in run: the rescue strategy of both skips it.  The database rolls *)
(* back, and the phase goes on without the closing of h.                    *)
OwnFinalizeSkipped(h, told) ==
  /\ RunDone /\ Promoting
  /\ failures < MaxFailures
  /\ h \in ClosedHistories
  /\ told \subseteq task.targets /\ h.env \in told \cup {NoEnv}
  /\ failures' = failures + 1
  /\ abandoned' = abandoned \cup {h}
  /\ cpContent' = [e \in Envs |-> IF e \in told THEN Kept(e) ELSE cpContent[e]]
  /\ UNCHANGED <<alive, settings, versions, content, cve, cpEnv, host,
                 openHistory, task, deletion, directDeletes, prevCve, stripped>>

(* The rows of the environments left and of the versions deleted go, and    *)
(* with them the assignments of hosts (dependent: :destroy).                *)
FinalizeRemoval ==
  LET inEnv(e) == e \in task.targets
      gone(v) == v \in task.removed
  IN /\ RunDone /\ ~Promoting
     /\ \A v \in task.removed : EnvsOf(v) \subseteq task.targets
     /\ alive' = (task.action # "destroy")
     /\ versions' = versions \ task.removed
     /\ cve' = [e \in Envs |-> IF inEnv(e) THEN NoVersion ELSE cve[e]]
     /\ clone' = [e \in Envs |-> [r \in Repos |->
                    IF <<e, r>> \in task.stale THEN NoVersion ELSE clone[e][r]]]
     /\ archive' = [v \in Versions |-> IF gone(v) THEN [r \in Repos |-> "none"]
                                       ELSE archive[v]]
     /\ host' = [h \in Hosts |-> IF inEnv(host[h]) THEN Lost ELSE host[h]]
     /\ openHistory' = {h \in openHistory :
                          ~gone(h.version) /\ ~(h.action = "removal" /\ inEnv(h.env))}
     /\ task' = NoTask
     /\ UNCHANGED <<settings, cp, deletion, counters, history>>

-----------------------------------------------------------------------------
(* DELETE /content_view_versions/:id *)

DirectDeletePlan(v) ==
  /\ alive /\ deletion = NoTask
  /\ directDeletes < MaxDirectDeletes
  /\ v \in versions
  /\ Destroyable(v) /\ ~ArchiveLocked(v)
  /\ deletion' = [version |-> v, purges |-> Archived(v)]
  /\ directDeletes' = directDeletes + 1
  /\ UNCHANGED <<alive, settings, versions, content, cve, cp, host, openHistory,
                 task, failures, history>>

DirectPurge(r) ==
  /\ deletion # NoTask /\ r \in deletion.purges
  /\ archive' = [archive EXCEPT ![deletion.version][r] = "gone"]
  /\ deletion' = [deletion EXCEPT !.purges = @ \ {r}]
  /\ UNCHANGED <<alive, settings, versions, clone, cve, cp, host, openHistory,
                 task, counters, history>>

(* before_destroy repeats validate_destroyable!: a version that got into an *)
(* environment meanwhile stays, and the task is paused.                     *)
DirectFinalize ==
  LET v == deletion.version
  IN /\ deletion # NoTask /\ deletion.purges = {}
     /\ Destroyable(v)
     /\ versions' = versions \ {v}
     /\ archive' = [archive EXCEPT ![v] = [r \in Repos |-> "none"]]
     /\ openHistory' = {h \in openHistory : h.version # v}
     /\ deletion' = NoTask
     /\ UNCHANGED <<alive, settings, clone, cve, cp, host, task, counters, history>>

-----------------------------------------------------------------------------
(* Hosts and activation keys take no lock. *)

(* content_view_environments= needs the row, and Candlepin to know it. *)
AssignHost(h, e) ==
  /\ alive /\ cve[e] # NoVersion /\ e \in cpEnv
  /\ host[h] # e
  /\ host' = [host EXCEPT ![h] = e]
  /\ UNCHANGED <<alive, settings, versions, content, cve, cp, openHistory, task,
                 deletion, counters, history>>

LeaveView(h) ==
  /\ host[h] # Elsewhere
  /\ host' = [host EXCEPT ![h] = Elsewhere]
  /\ UNCHANGED <<alive, settings, versions, content, cve, cp, openHistory, task,
                 deletion, counters, history>>

-----------------------------------------------------------------------------
RunStep ==
  \/ \E r \in Repos : FillArchive(r)
  \/ \E e \in Envs, r \in Repos : CloneToEnvironment(e, r) \/ DropClone(e, r)
  \/ \E e \in Envs : DropCandlepin(e)
  \/ \E v \in Versions, r \in Repos : PurgeArchive(v, r)

Next ==
  \/ \E S \in SUBSET Repos : SelectRepos(S)
  \/ \E skip, force \in BOOLEAN, targets \in SUBSET (Envs \ {Library}) :
       /\ skip => targets = {}
       /\ PublishPlan(skip, targets, force)
  \/ \E v \in Versions, targets \in SUBSET Envs, force \in BOOLEAN :
       PromotePlan(v, targets, force)
  \/ \E envs \in SUBSET Envs, doomed \in SUBSET Versions,
        refuge \in Envs \cup {Elsewhere}, whole \in BOOLEAN :
       RemovePlan(envs, doomed, refuge, whole)
  \/ RunStep
  \/ FinalizePromotion
  \/ \E told \in SUBSET Envs : FinalizeFails(told)
  \/ \E told \in SUBSET Envs, h \in openHistory : OwnFinalizeSkipped(h, told)
  \/ FinalizeRemoval
  \/ \E v \in Versions : DirectDeletePlan(v)
  \/ \E r \in Repos : DirectPurge(r)
  \/ DirectFinalize
  \/ \E h \in Hosts, e \in Envs : AssignHost(h, e)
  \/ \E h \in Hosts : LeaveView(h)

Spec == Init /\ [][Next]_vars

(* Dynflow executes what is planned, and a paused task is resumed. *)
FairSpec == Spec /\ WF_vars(RunStep \/ FinalizePromotion \/ FinalizeRemoval)

-----------------------------------------------------------------------------
(* Properties. *)

Serves(e) ==
  /\ IF e \in stripped THEN Cloned(e) \subseteq Archived(cve[e])
                       ELSE Cloned(e) = Archived(cve[e])
  /\ \A r \in Cloned(e) : clone[e][r] = cve[e]
  /\ cpContent[e] = Archived(cve[e])

(* Whenever no task holds the lock, what Pulp serves in each environment,    *)
(* what Candlepin entitles its hosts to and what the database says about the *)
(* environment agree: exactly the repositories of its version, each with     *)
(* the content of that version.  Only Library, after a publish that skips    *)
(* the promotion, may be short of repositories that Candlepin still offers.  *)
EnvironmentsServeTheirVersion ==
  task = NoTask => \A e \in Envs : cve[e] # NoVersion => Serves(e)

(* While a task runs, a repository of an environment serves the content of   *)
(* the version it had before or of the one it is promoted to, never         *)
(* anything else, and with no task only that of its version.                *)
OnlyOldOrNewContent ==
  \A e \in Envs, r \in Repos :
    clone[e][r] \in {NoVersion, NothingServed, cve[e], prevCve[e]}

(* An environment never points to a version that has been deleted. *)
VersionsInUseExist == \A e \in Envs : cve[e] # NoVersion => cve[e] \in versions

Purged(v) == \E r \in Repos : archive[v][r] = "gone"
InUse(v)  == \E e \in cpEnv : cve[e] = v

(* The error of validate_destroyable! says "Cannot delete version while it   *)
(* is in environments" (app/models/katello/content_view_version.rb:402), but *)
(* the check and the deletion are apart.  Only a deletion outside the lock   *)
(* can purge the content of a version that an environment known to Candlepin *)
(* serves, and it does not end as long as that is so: no task of the view    *)
(* purges a version in use, and none is left purged with nothing under way.  *)
PurgedInUseIsBeingDeleted ==
  \A v \in Versions :
    InUse(v) /\ Purged(v) => deletion # NoTask /\ deletion.version = v

(* A history row is "in progress" only while a task is, unless the closing  *)
(* of a row like it has failed and was skipped.                             *)
HistoriesClosed == task = NoTask => openHistory \subseteq abandoned

(* A deletion outside the lock has purged what the task has yet to clone. *)
Undermined == \E p \in task.clones : archive[task.version][p[2]] = "gone"

(* Every task comes to its end and releases the view, however often it is   *)
(* paused: only a deletion outside the lock can keep it from there.         *)
TasksFinish == task # NoTask ~> task = NoTask \/ Undermined
=============================================================================
