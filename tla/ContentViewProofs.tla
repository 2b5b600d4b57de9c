-------------------------- MODULE ContentViewProofs --------------------------
(***************************************************************************)
(* Safety of the content view life cycle, for every set of environments,    *)
(* repositories and hosts and every bound.  The inductive invariant says,   *)
(* for each environment, where the running task has brought it: untouched,  *)
(* being promoted (which repositories still wait for their copy) or being   *)
(* left.                                                                    *)
(***************************************************************************)
EXTENDS ContentView, TLAPS

Running(actions) == task # NoTask /\ task.action \in actions
Promotion == Running({"publish", "promotion"})
Removal   == Running({"removal", "destroy"})

(* An open history belongs to the task that will close or delete it, unless  *)
(* its closing has been skipped.                                            *)
HistoryOwned ==
  \A h \in openHistory :
    \/ h \in abandoned
    \/ Promotion /\ h.version = task.version /\ h.action \in {"publish", "promotion"}
    \/ /\ Removal /\ h.action = "removal"
       /\ h.env \in task.targets \/ h.version \in task.removed

(* An archive is empty only until its publish fills it. *)
EmptyWhilePublished ==
  \A v \in Versions, r \in Repos : archive[v][r] = "empty" =>
    Running({"publish"}) /\ v = task.version /\ r \in task.fills

(* What a direct delete is about to purge is there, and no task's concern. *)
DeletionApart ==
  deletion # NoTask =>
    /\ deletion.version < nextVersion
    /\ \A r \in deletion.purges : archive[deletion.version][r] # "none"
    /\ Running({"publish"}) /\ task.version = deletion.version => task.fills = {}
    /\ Removal /\ deletion.version \in task.removed => deletion.purges = {}

(* The steps a task still has to do stay within what it was planned for. *)
TaskInBounds ==
  /\ task # NoTask => /\ task.clones \subseteq task.targets \X Repos
                      /\ task.stale \subseteq (task.targets \cup stripped) \X Repos
                      /\ task.drops \subseteq task.stale
                      /\ \A p \in task.stale : clone[p[1]][p[2]] # NoVersion
  /\ Promotion =>
       /\ task.removed = {} /\ task.cpDrops = {} /\ task.purges = {}
       /\ task.version \in Versions
       /\ \A e \in task.targets : cve[e] = task.version
       /\ \A r \in task.fills : archive[task.version][r] # "none"
       /\ task.action = "promotion" => task.fills = {}
  /\ Removal =>
       /\ task.fills = {} /\ task.clones = {} /\ task.cpDrops \subseteq task.targets
       /\ \A e \in task.targets : cve[e] # NoVersion
       /\ \A v \in task.removed, e \in Envs : cve[e] = v => e \in task.targets
       /\ \A p \in task.purges : p[1] \in task.removed

(* As Serves(e), but for repositories a task is about to delete. *)
Serving(e) ==
  /\ Cloned(e) \subseteq Archived(cve[e])
  /\ e \notin stripped => Cloned(e) = Archived(cve[e])
  /\ \A r \in Cloned(e) :
       clone[e][r] = cve[e] \/ (task # NoTask /\ <<e, r>> \in task.stale)
  /\ cpContent[e] = Archived(cve[e])

(* Environments no task works on serve their version. *)
UntouchedServe ==
  \A e \in Envs : cve[e] # NoVersion /\ (task # NoTask => e \notin task.targets) =>
    Serving(e)

(* A repository of an environment under promotion is stale, waits for its   *)
(* copy, or has it.                                                         *)
PromotedSoFar ==
  Promotion => \A e \in task.targets, r \in Repos :
    /\ <<e, r>> \in task.stale => archive[task.version][r] = "none"
    /\ <<e, r>> \notin task.stale =>
         (archive[task.version][r] = "none" <=> clone[e][r] = NoVersion)
    /\ archive[task.version][r] # "none" /\ <<e, r>> \notin task.clones =>
         clone[e][r] = task.version
    /\ <<e, r>> \in task.clones => archive[task.version][r] # "none"

(* Every repository of an environment to be left is dropped with it. *)
LeftEntirely ==
  Removal => \A e \in task.targets, r \in Repos :
    clone[e][r] # NoVersion => <<e, r>> \in task.stale

(* No version, no repositories. *)
AbsentEmpty ==
  \A e \in Envs : cve[e] = NoVersion => \A r \in Repos : clone[e][r] = NoVersion

IInv ==
  /\ TypeOK
  /\ VersionsInUseExist
  /\ HistoryOwned
  /\ EmptyWhilePublished
  /\ DeletionApart
  /\ TaskInBounds
  /\ UntouchedServe
  /\ PromotedSoFar
  /\ LeftEntirely
  /\ AbsentEmpty
  /\ OnlyOldOrNewContent
-----------------------------------------------------------------------------
USE DEF NoVersion, NothingServed, Versions, history, marks

(* Version numbers are naturals, and none is NoVersion. *)
LEMMA VersionNumbers ==
  ASSUME NEW v \in Versions
  PROVE  v \in Nat /\ v # NoVersion /\ v # NothingServed /\ v <= MaxVersion
  BY ViewAssumption

(* The initial state satisfies the invariant: nothing is served yet. *)
LEMMA InitInvariant == Init => IInv
<1> SUFFICES ASSUME Init PROVE IInv
  OBVIOUS
<1> USE ViewAssumption DEF Init
<1>1. TypeOK
  BY DEF TypeOK
<1>2. VersionsInUseExist /\ HistoryOwned /\ EmptyWhilePublished /\ DeletionApart
  BY DEF VersionsInUseExist, HistoryOwned, EmptyWhilePublished, DeletionApart
<1>3. TaskInBounds /\ UntouchedServe /\ PromotedSoFar /\ LeftEntirely
  BY DEF TaskInBounds, UntouchedServe, PromotedSoFar, LeftEntirely, Promotion,
         Removal, Running
<1>4. AbsentEmpty /\ OnlyOldOrNewContent
  BY DEF AbsentEmpty, OnlyOldOrNewContent
<1> QED BY <1>1, <1>2, <1>3, <1>4 DEF IInv

-----------------------------------------------------------------------------
(* Plan phases. *)

(* A change of the repositories of the view preserves the invariant. *)
LEMMA SelectReposInvariant ==
  ASSUME IInv, NEW S \in SUBSET Repos, SelectRepos(S)
  PROVE  IInv'
<1> USE DEF SelectRepos, content, cp, counters
<1>1. TypeOK'
  BY DEF IInv, TypeOK
<1>2. (VersionsInUseExist /\ HistoryOwned /\ EmptyWhilePublished /\ DeletionApart)'
  BY DEF IInv, VersionsInUseExist, HistoryOwned, EmptyWhilePublished, DeletionApart,
         Promotion, Removal, Running
<1>3. (TaskInBounds /\ PromotedSoFar /\ LeftEntirely)'
  BY DEF IInv, TaskInBounds, PromotedSoFar, LeftEntirely, Promotion, Removal, Running
<1>4. (UntouchedServe /\ AbsentEmpty /\ OnlyOldOrNewContent)'
  BY DEF IInv, UntouchedServe, Serving, Cloned, Archived, AbsentEmpty,
         OnlyOldOrNewContent
<1> QED BY <1>1, <1>2, <1>3, <1>4 DEF IInv

(* What AddToEnvironments leaves, for an invariant state. *)
LEMMA AddToEnvironmentsEffect ==
  ASSUME IInv, task = NoTask, NEW v \in Versions, NEW repos \in SUBSET Repos,
         NEW targets \in SUBSET Envs, AddToEnvironments(v, repos, targets)
  PROVE  /\ cve' \in [Envs -> Versions \cup {NoVersion}]
         /\ prevCve' \in [Envs -> Versions \cup {NoVersion}]
         /\ cpEnv' \subseteq Envs
         /\ clone' \in [Envs -> [Repos -> 0..(MaxVersion + 1)]]
         /\ \A e \in targets : cve'[e] = v /\ prevCve'[e] = cve[e]
         /\ \A e \in Envs \ targets :
              cve'[e] = cve[e] /\ prevCve'[e] = prevCve[e] /\ clone'[e] = clone[e]
         /\ \A e \in targets, r \in Repos :
              /\ clone[e][r] # NoVersion => clone'[e][r] = clone[e][r]
              /\ clone[e][r] = NoVersion /\ r \in repos => clone'[e][r] = NothingServed
              /\ clone[e][r] = NoVersion /\ r \notin repos => clone'[e][r] = NoVersion
              /\ clone[e][r] \in {NoVersion, cve[e]}
<1> USE ViewAssumption DEF IInv, TypeOK
<1>1. /\ cve' = [e \in Envs |-> IF e \in targets THEN v ELSE cve[e]]
      /\ prevCve' = [e \in Envs |-> IF e \in targets THEN cve[e] ELSE prevCve[e]]
      /\ cpEnv' = cpEnv \cup targets
  BY DEF AddToEnvironments
<1>2. clone' = [e \in Envs |-> [r \in Repos |->
                 IF e \in targets /\ r \in repos /\ clone[e][r] = NoVersion
                   THEN NothingServed ELSE clone[e][r]]]
  BY DEF AddToEnvironments
<1>3. /\ cve' \in [Envs -> Versions \cup {NoVersion}]
      /\ prevCve' \in [Envs -> Versions \cup {NoVersion}]
      /\ cpEnv' \subseteq Envs
  BY <1>1
<1>4. clone' \in [Envs -> [Repos -> 0..(MaxVersion + 1)]]
  <2>1. \A e \in Envs, r \in Repos : clone[e][r] \in 0..(MaxVersion + 1)
    OBVIOUS
  <2> QED BY <1>2, <2>1
<1>5. \A e \in Envs \ targets : clone'[e] = clone[e]
  <2> SUFFICES ASSUME NEW e \in Envs \ targets PROVE clone'[e] = clone[e]
    OBVIOUS
  <2>1. clone'[e] = [r \in Repos |-> clone[e][r]]
    BY <1>2
  <2>2. clone[e] \in [Repos -> 0..(MaxVersion + 1)]
    OBVIOUS
  <2> QED BY <2>1, <2>2
<1>6. \A e \in targets, r \in Repos : clone[e][r] \in {NoVersion, cve[e]}
  BY DEF UntouchedServe, Serving, Cloned, AbsentEmpty
<1> QED BY <1>1, <1>2, <1>3, <1>4, <1>5, <1>6

(* The plan of a publish preserves it. *)
LEMMA PublishPlanInvariant ==
  ASSUME IInv, NEW skip \in BOOLEAN, NEW force \in BOOLEAN,
         NEW targets \in SUBSET (Envs \ {Library}), PublishPlan(skip, targets, force)
  PROVE  IInv'
<1> DEFINE v == nextVersion
           into == (IF skip THEN {} ELSE {Library}) \cup targets
           there == targets \cup {Library}
<1> USE ViewAssumption
<1>1. /\ task = NoTask /\ v \in Versions /\ v \notin versions
      /\ into \subseteq there /\ there \in SUBSET Envs /\ selected \in SUBSET Repos
  BY DEF PublishPlan, IInv, TypeOK
<1>2. /\ versions' = versions \cup {v} /\ nextVersion' = v + 1
      /\ archive' = [archive EXCEPT ![v] =
                      [r \in Repos |-> IF r \in selected THEN "empty" ELSE "none"]]
      /\ AddToEnvironments(v, selected, into)
      /\ UNCHANGED <<alive, selected, cpContent, host, deletion, failures, directDeletes,
                     abandoned>>
  BY DEF PublishPlan, NextMajor, counters
<1>3. /\ task' = [action |-> "publish", version |-> v, targets |-> into,
                 removed |-> {}, stale |-> StaleClones(selected, there),
                 fills |-> selected, clones |-> into \X selected,
                 drops |-> StaleClones(selected, there), cpDrops |-> {}, purges |-> {}]
      /\ stripped' = (stripped \cup {p[1] : p \in StaleClones(selected, there)}) \ into
      /\ openHistory' = openHistory
          \cup {[version |-> v, env |-> NoEnv, action |-> "publish"]}
          \cup {[version |-> v, env |-> e, action |-> "promotion"] : e \in targets}
  BY DEF PublishPlan
<1> HIDE DEF v, into, there
<1>4. /\ cve' \in [Envs -> Versions \cup {NoVersion}]
      /\ prevCve' \in [Envs -> Versions \cup {NoVersion}]
      /\ cpEnv' \subseteq Envs
      /\ clone' \in [Envs -> [Repos -> 0..(MaxVersion + 1)]]
      /\ \A e \in into : cve'[e] = v /\ prevCve'[e] = cve[e]
      /\ \A e \in Envs \ into :
           cve'[e] = cve[e] /\ prevCve'[e] = prevCve[e] /\ clone'[e] = clone[e]
      /\ \A e \in into, r \in Repos :
           /\ clone[e][r] # NoVersion => clone'[e][r] = clone[e][r]
           /\ clone[e][r] = NoVersion /\ r \in selected => clone'[e][r] = NothingServed
           /\ clone[e][r] = NoVersion /\ r \notin selected => clone'[e][r] = NoVersion
           /\ clone[e][r] \in {NoVersion, cve[e]}
  BY <1>1, <1>2, AddToEnvironmentsEffect
<1>5. /\ StaleClones(selected, there) \subseteq there \X Repos
      /\ \A e \in there, r \in Repos :
           <<e, r>> \in StaleClones(selected, there) <=> clone[e][r] # NoVersion /\ r \notin selected
  BY <1>1 DEF StaleClones, Cloned
<1>6. /\ archive' \in [Versions -> [Repos -> {"none", "empty", "filled", "gone"}]]
      /\ \A w \in Versions \ {v} : archive'[w] = archive[w]
      /\ \A r \in Repos : archive'[v][r] = IF r \in selected THEN "empty" ELSE "none"
  <2>1. archive \in [Versions -> [Repos -> {"none", "empty", "filled", "gone"}]]
    BY DEF IInv, TypeOK
  <2>2. [r \in Repos |-> IF r \in selected THEN "empty" ELSE "none"]
          \in [Repos -> {"none", "empty", "filled", "gone"}]
    OBVIOUS
  <2> QED BY <1>1, <1>2, <2>1, <2>2
<1>c. /\ stripped' \subseteq Envs
      /\ \A e \in Envs \ into : e \in stripped => e \in stripped'
      /\ StaleClones(selected, there) \subseteq (into \cup stripped') \X Repos
  <2>1. \A p \in StaleClones(selected, there) : p[1] \in there /\ p[2] \in Repos /\ p = <<p[1], p[2]>>
    BY <1>5
  <2> QED BY <1>1, <1>3, <2>1 DEF IInv, TypeOK
<1>d. \A p \in StaleClones(selected, there) : clone'[p[1]][p[2]] # NoVersion
  BY <1>1, <1>4, <1>5
<1>b. task' \in Tasks
  <2>1. into \X selected \subseteq Envs \X Repos
    BY <1>1
  <2>2. StaleClones(selected, there) \subseteq Envs \X Repos
    BY <1>1, <1>5
  <2> QED BY <1>1, <1>3, <2>1, <2>2 DEF Tasks
<1>7. TypeOK'
  <2>2. openHistory' \in SUBSET Histories
    <3>1. [version |-> v, env |-> NoEnv, action |-> "publish"] \in Histories
      BY <1>1 DEF Histories
    <3>2. \A e \in Envs : [version |-> v, env |-> e, action |-> "promotion"] \in Histories
      BY <1>1 DEF Histories
    <3> QED BY <1>3, <3>1, <3>2 DEF IInv, TypeOK
  <2>3. /\ nextVersion' \in 1..(MaxVersion + 1)
        /\ versions' \subseteq Versions /\ \A w \in versions' : w < nextVersion'
    BY <1>1, <1>2 DEF IInv, TypeOK, v
  <2> QED BY <1>1, <1>2, <1>4, <1>6, <1>b, <1>c, <2>2, <2>3 DEF IInv, TypeOK
<1>8. VersionsInUseExist'
  BY <1>1, <1>2, <1>4 DEF IInv, VersionsInUseExist
<1>a. /\ task' # NoTask /\ Running({"publish"})' /\ Promotion' /\ ~Removal'
      /\ task'.action = "publish" /\ task'.version = v /\ task'.targets = into
      /\ task'.stale = StaleClones(selected, there)
      /\ task'.clones = into \X selected /\ task'.fills = selected
  <2>1. task' # NoTask
    BY <1>b, NoTaskAssumption
  <2> QED BY <2>1, <1>3 DEF Running, Promotion, Removal
<1>9. HistoryOwned'
  <2>1. openHistory \subseteq abandoned
    BY <1>1 DEF IInv, HistoryOwned, Promotion, Removal, Running
  <2> QED BY <2>1, <1>2, <1>3, <1>a DEF HistoryOwned
<1>10. EmptyWhilePublished' /\ DeletionApart'
  <2>1. EmptyWhilePublished'
    BY <1>1, <1>6, <1>a DEF IInv, EmptyWhilePublished, Running
  <2>2. deletion # NoTask => deletion.version \in Versions /\ deletion.version < v
    BY DEF IInv, TypeOK, Deletions, DeletionApart, v
  <2>3. v \in Nat /\ nextVersion' = v + 1 /\ deletion' = deletion
    BY <1>1, <1>2
  <2>4. deletion # NoTask =>
          \A r \in deletion.purges : r \in Repos /\ archive[deletion.version][r] # "none"
    BY DEF IInv, TypeOK, Deletions, DeletionApart
  <2>5. DeletionApart'
    <3> SUFFICES ASSUME deletion # NoTask PROVE DeletionApart'
      BY <2>3 DEF DeletionApart
    <3>1. archive'[deletion.version] = archive[deletion.version]
      BY <1>6, <2>2, <2>3
    <3>2. deletion.version < v + 1 /\ deletion.version # v
      BY <2>2, <2>3
    <3> QED BY <3>1, <3>2, <2>3, <2>4, <1>a DEF DeletionApart
  <2> QED BY <2>1, <2>5
<1>11. (TaskInBounds /\ LeftEntirely)'
  BY <1>1, <1>2, <1>3, <1>4, <1>c, <1>d, <1>6 DEF TaskInBounds, LeftEntirely, Running, Removal, Promotion
<1>12. UntouchedServe'
  <2> SUFFICES ASSUME NEW e \in Envs, cve'[e] # NoVersion, e \notin into
               PROVE  Serving(e)'
    BY <1>a DEF UntouchedServe
  <2>1. cve'[e] = cve[e] /\ clone'[e] = clone[e] /\ cpContent' = cpContent
    BY <1>2, <1>4
  <2>2. Serving(e) /\ cve[e] \in Versions \ {v}
    BY <1>1, <2>1 DEF IInv, UntouchedServe, VersionsInUseExist, TypeOK
  <2>3. archive'[cve[e]] = archive[cve[e]]
    BY <1>6, <2>2
  <2>4. Cloned(e)' = Cloned(e) /\ Archived(cve[e])' = Archived(cve[e])
    BY <2>1, <2>3 DEF Cloned, Archived
  <2>5. \A r \in Cloned(e) : clone[e][r] = cve[e]
    BY <1>1, <2>2 DEF Serving
  <2>6. e \notin stripped' => e \notin stripped
    BY <1>c
  <2> QED BY <2>1, <2>2, <2>4, <2>5, <2>6 DEF Serving
<1>13. PromotedSoFar'
  <2> SUFFICES ASSUME NEW e \in task'.targets, NEW r \in Repos
      PROVE  /\ <<e, r>> \in task'.stale => archive'[task'.version][r] = "none"
             /\ <<e, r>> \notin task'.stale =>
                  (archive'[task'.version][r] = "none" <=> clone'[e][r] = NoVersion)
             /\ archive'[task'.version][r] # "none" /\ <<e, r>> \notin task'.clones =>
                  clone'[e][r] = task'.version
             /\ <<e, r>> \in task'.clones => archive'[task'.version][r] # "none"
    BY DEF PromotedSoFar
  <2>1. archive'[task'.version][r] = "none" <=> r \notin selected
    BY <1>6, <1>a
  <2>2. <<e, r>> \in task'.clones <=> r \in selected
    BY <1>a
  <2>3. <<e, r>> \in task'.stale <=> clone[e][r] # NoVersion /\ r \notin selected
    BY <1>1, <1>5, <1>a
  <2>4. clone'[e][r] = NoVersion <=> clone[e][r] = NoVersion /\ r \notin selected
    BY <1>4, <1>a
  <2> QED BY <2>1, <2>2, <2>3, <2>4
<1>14. (AbsentEmpty /\ OnlyOldOrNewContent)'
  <2>1. AbsentEmpty'
    BY <1>1, <1>4, VersionNumbers DEF IInv, AbsentEmpty
  <2>2. OnlyOldOrNewContent'
    BY <1>1, <1>4 DEF IInv, OnlyOldOrNewContent
  <2> QED BY <2>1, <2>2
<1> QED BY <1>7, <1>8, <1>9, <1>10, <1>11, <1>12, <1>13, <1>14 DEF IInv

(* The plan of a promotion preserves it. *)
LEMMA PromotePlanInvariant ==
  ASSUME IInv, NEW v \in Versions, NEW targets \in SUBSET Envs, NEW force \in BOOLEAN,
         PromotePlan(v, targets, force)
  PROVE  IInv'
<1> USE ViewAssumption
<1>1. task = NoTask /\ v \in versions /\ Archived(v) \in SUBSET Repos
  BY DEF PromotePlan, Archived
<1>2. /\ AddToEnvironments(v, Archived(v), targets)
      /\ UNCHANGED <<alive, selected, nextVersion, versions, archive, cpContent,
                     host, deletion, failures, directDeletes, abandoned>>
      /\ stripped' = stripped \ targets
  BY DEF PromotePlan, settings, counters
<1>3. /\ task' = [action |-> "promotion", version |-> v, targets |-> targets,
              removed |-> {}, stale |-> StaleClones(Archived(v), targets),
              fills |-> {}, clones |-> targets \X Archived(v),
              drops |-> StaleClones(Archived(v), targets),
              cpDrops |-> {}, purges |-> {}]
      /\ openHistory' = openHistory
           \cup {[version |-> v, env |-> e, action |-> "promotion"] : e \in targets}
  BY DEF PromotePlan
<1>4. /\ cve' \in [Envs -> Versions \cup {NoVersion}]
      /\ prevCve' \in [Envs -> Versions \cup {NoVersion}]
      /\ cpEnv' \subseteq Envs
      /\ clone' \in [Envs -> [Repos -> 0..(MaxVersion + 1)]]
      /\ \A e \in targets : cve'[e] = v /\ prevCve'[e] = cve[e]
      /\ \A e \in Envs \ targets :
           cve'[e] = cve[e] /\ prevCve'[e] = prevCve[e] /\ clone'[e] = clone[e]
      /\ \A e \in targets, r \in Repos :
           /\ clone[e][r] # NoVersion => clone'[e][r] = clone[e][r]
           /\ clone[e][r] = NoVersion /\ r \in Archived(v) => clone'[e][r] = NothingServed
           /\ clone[e][r] = NoVersion /\ r \notin Archived(v) => clone'[e][r] = NoVersion
           /\ clone[e][r] \in {NoVersion, cve[e]}
  BY <1>1, <1>2, AddToEnvironmentsEffect
<1>5. /\ StaleClones(Archived(v), targets) \subseteq targets \X Repos
      /\ \A e \in targets, r \in Repos :
           <<e, r>> \in StaleClones(Archived(v), targets)
             <=> clone[e][r] # NoVersion /\ r \notin Archived(v)
  BY <1>1 DEF StaleClones, Cloned
<1>6. task' \in Tasks
  <2>1. targets \X Archived(v) \subseteq Envs \X Repos
    BY <1>1
  <2>2. StaleClones(Archived(v), targets) \subseteq Envs \X Repos
    BY <1>1, <1>5
  <2> QED BY <1>1, <1>3, <2>1, <2>2 DEF Tasks
<1>7. TypeOK'
  <2>1. \A e \in Envs : [version |-> v, env |-> e, action |-> "promotion"] \in Histories
    BY <1>1 DEF Histories
  <2>2. openHistory' \in SUBSET Histories
    BY <1>3, <2>1 DEF IInv, TypeOK
  <2> QED BY <1>1, <1>2, <1>4, <1>6, <2>2 DEF IInv, TypeOK
<1>8. VersionsInUseExist'
  BY <1>1, <1>2, <1>4 DEF IInv, VersionsInUseExist
<1>9. /\ task' # NoTask /\ Promotion' /\ ~Removal' /\ ~Running({"publish"})'
      /\ task'.action = "promotion" /\ task'.version = v /\ task'.targets = targets
      /\ task'.stale = StaleClones(Archived(v), targets)
      /\ task'.clones = targets \X Archived(v) /\ task'.fills = {}
  <2>1. task' # NoTask
    BY <1>6, NoTaskAssumption
  <2> QED BY <2>1, <1>3 DEF Running, Promotion, Removal
<1>10. HistoryOwned'
  <2>1. openHistory \subseteq abandoned
    BY <1>1 DEF IInv, HistoryOwned, Promotion, Removal, Running
  <2> QED BY <2>1, <1>2, <1>3, <1>9 DEF HistoryOwned
<1>11. EmptyWhilePublished' /\ DeletionApart'
  BY <1>1, <1>2, <1>9 DEF IInv, EmptyWhilePublished, DeletionApart, Running
<1>12. (TaskInBounds /\ LeftEntirely)'
  BY <1>1, <1>2, <1>3, <1>4, <1>5 DEF TaskInBounds, LeftEntirely, Running, Removal, Promotion
<1>13. UntouchedServe'
  <2> SUFFICES ASSUME NEW e \in Envs, cve'[e] # NoVersion, e \notin targets
               PROVE  Serving(e)'
    BY <1>9 DEF UntouchedServe
  <2>1. /\ cve'[e] = cve[e] /\ clone'[e] = clone[e]
        /\ cpContent' = cpContent /\ archive' = archive
    BY <1>2, <1>4
  <2>2. Serving(e)
    BY <1>1, <2>1 DEF IInv, UntouchedServe
  <2>3. Cloned(e)' = Cloned(e) /\ Archived(cve[e])' = Archived(cve[e])
    BY <2>1 DEF Cloned, Archived
  <2>4. \A r \in Cloned(e) : clone[e][r] = cve[e]
    BY <1>1, <2>2 DEF Serving
  <2> QED BY <1>2, <2>1, <2>2, <2>3, <2>4 DEF Serving
<1>14. PromotedSoFar'
  <2> SUFFICES ASSUME NEW e \in task'.targets, NEW r \in Repos
      PROVE  /\ <<e, r>> \in task'.stale => archive'[task'.version][r] = "none"
             /\ <<e, r>> \notin task'.stale =>
                  (archive'[task'.version][r] = "none" <=> clone'[e][r] = NoVersion)
             /\ archive'[task'.version][r] # "none" /\ <<e, r>> \notin task'.clones =>
                  clone'[e][r] = task'.version
             /\ <<e, r>> \in task'.clones => archive'[task'.version][r] # "none"
    BY DEF PromotedSoFar
  <2>1. archive'[task'.version][r] = "none" <=> r \notin Archived(v)
    BY <1>2, <1>9 DEF Archived
  <2>2. <<e, r>> \in task'.clones <=> r \in Archived(v)
    BY <1>9
  <2>3. <<e, r>> \in task'.stale <=> clone[e][r] # NoVersion /\ r \notin Archived(v)
    BY <1>5, <1>9
  <2>4. clone'[e][r] = NoVersion <=> clone[e][r] = NoVersion /\ r \notin Archived(v)
    BY <1>4, <1>9
  <2> QED BY <2>1, <2>2, <2>3, <2>4
<1>15. (AbsentEmpty /\ OnlyOldOrNewContent)'
  <2>1. AbsentEmpty'
    BY <1>1, <1>4, VersionNumbers DEF IInv, AbsentEmpty
  <2>2. OnlyOldOrNewContent'
    BY <1>1, <1>4 DEF IInv, OnlyOldOrNewContent
  <2> QED BY <2>1, <2>2
<1> QED BY <1>7, <1>8, <1>10, <1>11, <1>12, <1>13, <1>14, <1>15 DEF IInv

(* The plan of a removal preserves it. *)
LEMMA RemovePlanInvariant ==
  ASSUME IInv, NEW envs \in SUBSET Envs, NEW doomed \in SUBSET Versions,
         NEW refuge \in Envs \cup {Elsewhere}, NEW whole \in BOOLEAN,
         RemovePlan(envs, doomed, refuge, whole)
  PROVE  IInv'
<1> USE ViewAssumption
<1> DEFINE purges == {p \in doomed \X Repos : p[2] \in Archived(p[1])}
<1>1. /\ task = NoTask /\ doomed \subseteq versions
      /\ \A e \in envs : cve[e] # NoVersion
      /\ \A v \in doomed : EnvsOf(v) \subseteq envs /\ ~ArchiveLocked(v)
      /\ host' = [h \in Hosts |-> IF host[h] \in envs THEN refuge ELSE host[h]]
  BY DEF RemovePlan, EnvsKept, EnvsOf
<1>2. UNCHANGED <<alive, selected, nextVersion, versions, archive, clone, cve, cpEnv,
                  cpContent, deletion, failures, directDeletes, prevCve, stripped, abandoned>>
  BY DEF RemovePlan, settings, content, cp, counters
<1>3. task' = [action |-> IF whole THEN "destroy" ELSE "removal",
              version |-> NoVersion, targets |-> envs,
              removed |-> doomed, stale |-> StaleClones({}, envs),
              fills |-> {}, clones |-> {}, drops |-> StaleClones({}, envs),
              cpDrops |-> envs, purges |-> purges]
  BY DEF RemovePlan
<1>4. openHistory' = openHistory
       \cup {[version |-> cve[e], env |-> e, action |-> "removal"] : e \in envs}
       \cup {[version |-> v, env |-> NoEnv, action |-> "removal"] : v \in doomed}
  BY DEF RemovePlan
<1>5. /\ StaleClones({}, envs) \subseteq envs \X Repos
      /\ \A e \in envs, r \in Repos :
           <<e, r>> \in StaleClones({}, envs) <=> clone[e][r] # NoVersion
      /\ \A p \in StaleClones({}, envs) : clone[p[1]][p[2]] # NoVersion
  BY DEF StaleClones, Cloned
<1>6. task' \in Tasks
  <2>1. StaleClones({}, envs) \subseteq Envs \X Repos
    BY <1>5
  <2>2. purges \subseteq Versions \X Repos
    OBVIOUS
  <2> HIDE DEF purges
  <2> QED BY <1>3, <2>1, <2>2 DEF Tasks
<1>7. TypeOK'
  <2>1. \A e \in envs : [version |-> cve[e], env |-> e, action |-> "removal"] \in Histories
    BY <1>1 DEF Histories, IInv, TypeOK
  <2>2. \A v \in doomed : [version |-> v, env |-> NoEnv, action |-> "removal"] \in Histories
    BY DEF Histories
  <2>3. openHistory' \in SUBSET Histories
    BY <1>4, <2>1, <2>2 DEF IInv, TypeOK
  <2>4. host' \in [Hosts -> Envs \cup {Elsewhere, Lost}]
    BY <1>1 DEF IInv, TypeOK
  <2> QED BY <1>2, <1>6, <2>3, <2>4 DEF IInv, TypeOK
<1>8. /\ task' # NoTask /\ ~Promotion' /\ Removal' /\ ~Running({"publish"})'
      /\ task'.targets = envs /\ task'.removed = doomed /\ task'.purges = purges
      /\ task'.stale = StaleClones({}, envs)
      /\ task'.clones = {} /\ task'.fills = {} /\ task'.drops = task'.stale
      /\ task'.cpDrops = envs
  <2>1. task' # NoTask
    BY <1>6, NoTaskAssumption
  <2> HIDE DEF purges
  <2> QED BY <2>1, <1>3 DEF Running, Promotion, Removal
<1>9. VersionsInUseExist'
  BY <1>2 DEF IInv, VersionsInUseExist
<1>10. HistoryOwned'
  <2>1. openHistory \subseteq abandoned
    BY <1>1 DEF IInv, HistoryOwned, Promotion, Removal, Running
  <2> QED BY <2>1, <1>2, <1>4, <1>8 DEF HistoryOwned
<1>11. EmptyWhilePublished' /\ DeletionApart'
  <2>1. EmptyWhilePublished'
    BY <1>1, <1>2, <1>8 DEF IInv, EmptyWhilePublished, Running
  <2>2. deletion # NoTask /\ deletion.version \in doomed => deletion.purges = {}
    BY <1>1 DEF IInv, DeletionApart, ArchiveLocked, Archived, TypeOK, Deletions
  <2> QED BY <1>1, <1>2, <1>8, <2>1, <2>2 DEF IInv, DeletionApart
<1>12. TaskInBounds'
  <2>1. /\ task'.stale \subseteq (task'.targets \cup stripped') \X Repos
        /\ \A p \in task'.stale : clone'[p[1]][p[2]] # NoVersion
    BY <1>2, <1>5, <1>8
  <2>2. \A w \in doomed, e \in Envs : cve[e] = w => e \in envs
    BY <1>1 DEF EnvsOf
  <2>3. \A p \in purges : p[1] \in doomed
    OBVIOUS
  <2> HIDE DEF purges
  <2> QED BY <1>1, <1>2, <1>8, <2>1, <2>2, <2>3 DEF TaskInBounds
<1>13. UntouchedServe' /\ PromotedSoFar' /\ LeftEntirely'
  BY <1>1, <1>2, <1>5, <1>8 DEF IInv, UntouchedServe, Serving, Cloned, Archived,
     PromotedSoFar, LeftEntirely
<1>14. (AbsentEmpty /\ OnlyOldOrNewContent)'
  BY <1>2 DEF IInv, AbsentEmpty, OnlyOldOrNewContent
<1> QED BY <1>7, <1>9, <1>10, <1>11, <1>12, <1>13, <1>14 DEF IInv

-----------------------------------------------------------------------------
(* Run steps. *)

(* CloneToVersion preserves it. *)
LEMMA FillArchiveInvariant ==
  ASSUME IInv, NEW r \in Repos, FillArchive(r)
  PROVE  IInv'
<1> USE ViewAssumption
<1> DEFINE v == task.version
<1>1. /\ task # NoTask /\ r \in task.fills /\ task \in Tasks
      /\ task' = [task EXCEPT !.fills = @ \ {r}]
      /\ archive' = [archive EXCEPT ![v][r] = "filled"]
  BY DEF FillArchive, IInv, TypeOK
<1>2. UNCHANGED <<alive, selected, nextVersion, versions, clone, cve, cpEnv, cpContent,
                  host, openHistory, deletion, failures, directDeletes, prevCve, stripped, abandoned>>
  BY DEF FillArchive, cp, unplanned, settings, counters
<1>3. /\ task' \in Tasks /\ task' # NoTask
      /\ task'.action = task.action /\ task'.version = v /\ task'.targets = task.targets
      /\ task'.removed = task.removed /\ task'.stale = task.stale
      /\ task'.fills = task.fills \ {r} /\ task'.clones = task.clones
      /\ task'.drops = task.drops /\ task'.cpDrops = task.cpDrops
      /\ task'.purges = task.purges
  BY <1>1, NoTaskAssumption DEF Tasks
<1>4. Running({"publish"}) /\ Promotion /\ ~Removal /\ v \in Versions
      /\ archive[v][r] # "none"
  BY <1>1 DEF IInv, TaskInBounds, Running, Promotion, Removal, Tasks
<1>5. Running({"publish"})' /\ Promotion' /\ ~Removal'
  BY <1>3, <1>4 DEF Running, Promotion, Removal
<1>6. archive' \in [Versions -> [Repos -> {"none", "empty", "filled", "gone"}]]
  BY <1>1, <1>4 DEF IInv, TypeOK
<1>7. /\ archive'[v][r] = "filled"
      /\ \A w \in Versions, q \in Repos :
           /\ w # v \/ q # r => archive'[w][q] = archive[w][q]
           /\ archive'[w][q] = "none" <=> archive[w][q] = "none"
  BY <1>1, <1>4 DEF IInv, TypeOK
<1>8. TypeOK'
  BY <1>2, <1>3, <1>6 DEF IInv, TypeOK
<1>9. VersionsInUseExist' /\ HistoryOwned'
  BY <1>2, <1>3, <1>4, <1>5 DEF IInv, VersionsInUseExist, HistoryOwned
<1>10. EmptyWhilePublished'
  BY <1>3, <1>5, <1>7 DEF IInv, EmptyWhilePublished, Running
<1>11. DeletionApart'
  BY <1>2, <1>3, <1>4, <1>5, <1>7 DEF IInv, DeletionApart, TypeOK, Deletions
<1>12. TaskInBounds' /\ LeftEntirely'
  <2>1. \A q \in task.fills : q \in Repos /\ archive[v][q] # "none"
    BY <1>1, <1>4 DEF IInv, TaskInBounds, Tasks
  <2>2. \A q \in task'.fills : archive'[v][q] # "none"
    BY <1>3, <1>4, <1>7, <2>1
  <2> QED BY <1>1, <1>2, <1>3, <1>4, <1>5, <2>2 DEF IInv, TaskInBounds, LeftEntirely
<1>13. UntouchedServe'
  <2> SUFFICES ASSUME NEW e \in Envs, cve[e] # NoVersion, e \notin task.targets
               PROVE  Serving(e)'
    BY <1>1, <1>2, <1>3 DEF UntouchedServe
  <2>1. Serving(e) /\ cve[e] \in Versions
    BY DEF IInv, UntouchedServe, TypeOK
  <2>2. Archived(cve[e])' = Archived(cve[e]) /\ Cloned(e)' = Cloned(e)
    BY <1>2, <1>7, <2>1 DEF Archived, Cloned
  <2> QED BY <1>1, <1>2, <1>3, <2>1, <2>2 DEF Serving
<1>14. PromotedSoFar'
  <2> SUFFICES ASSUME NEW e \in task'.targets, NEW q \in Repos
      PROVE  /\ <<e, q>> \in task'.stale => archive'[task'.version][q] = "none"
             /\ <<e, q>> \notin task'.stale =>
                  (archive'[task'.version][q] = "none" <=> clone'[e][q] = NoVersion)
             /\ archive'[task'.version][q] # "none" /\ <<e, q>> \notin task'.clones =>
                  clone'[e][q] = task'.version
             /\ <<e, q>> \in task'.clones => archive'[task'.version][q] # "none"
    BY DEF PromotedSoFar
  <2>1. archive'[task'.version][q] = "none" <=> archive[v][q] = "none"
    BY <1>3, <1>4, <1>7
  <2> QED BY <1>2, <1>3, <1>4, <2>1 DEF IInv, PromotedSoFar
<1>15. AbsentEmpty' /\ OnlyOldOrNewContent'
  BY <1>2 DEF IInv, AbsentEmpty, OnlyOldOrNewContent
<1> QED BY <1>8, <1>9, <1>10, <1>11, <1>12, <1>13, <1>14, <1>15 DEF IInv

(* CloneReady puts a copy behind the archive it copies. *)
LEMMA CopiedIsVersion ==
  ASSUME IInv, NEW e \in Envs, NEW r \in Repos, CloneToEnvironment(e, r)
  PROVE  Promotion /\ e \in task.targets /\ Copied(r) = task.version
<1>1. task # NoTask /\ task \in Tasks /\ <<e, r>> \in task.clones
      /\ CloneReady(e, r) /\ archive[task.version][r] \in {"empty", "filled"}
  BY DEF CloneToEnvironment, IInv, TypeOK
<1>2. Promotion /\ e \in task.targets /\ task.version \in Versions
  BY <1>1 DEF IInv, TaskInBounds, Promotion, Removal, Running, Tasks
<1>3. archive[task.version][r] # "empty"
  BY <1>1, <1>2 DEF CloneReady, IInv, EmptyWhilePublished, Running
<1> QED BY <1>1, <1>2, <1>3 DEF Copied

(* CloneToEnvironment preserves it. *)
LEMMA CloneToEnvironmentInvariant ==
  ASSUME IInv, NEW e \in Envs, NEW r \in Repos, CloneToEnvironment(e, r)
  PROVE  IInv'
<1> USE ViewAssumption
<1>1. /\ task # NoTask /\ <<e, r>> \in task.clones /\ task \in Tasks
      /\ task' = [task EXCEPT !.clones = @ \ {<<e, r>>}]
      /\ Promotion /\ ~Removal /\ e \in task.targets /\ task.version \in Versions
      /\ clone' = [clone EXCEPT ![e][r] = task.version]
  BY CopiedIsVersion DEF CloneToEnvironment, IInv, TypeOK, TaskInBounds, Promotion,
     Removal, Running
<1>2. UNCHANGED <<alive, selected, nextVersion, versions, archive, cve, cpEnv, cpContent,
                  host, openHistory, deletion, failures, directDeletes, prevCve, stripped, abandoned>>
  BY DEF CloneToEnvironment, cp, unplanned, settings, counters
<1>3. /\ task' \in Tasks /\ task' # NoTask
      /\ task'.action = task.action /\ task'.version = task.version
      /\ task'.targets = task.targets
      /\ task'.removed = task.removed /\ task'.stale = task.stale
      /\ task'.fills = task.fills /\ task'.clones = task.clones \ {<<e, r>>}
      /\ task'.drops = task.drops /\ task'.cpDrops = task.cpDrops
      /\ task'.purges = task.purges
  BY <1>1, NoTaskAssumption DEF Tasks
<1>4. Promotion' /\ ~Removal' /\ (Running({"publish"})' <=> Running({"publish"}))
  BY <1>1, <1>3 DEF Running, Promotion, Removal
<1>5. clone' \in [Envs -> [Repos -> 0..(MaxVersion + 1)]]
  BY <1>1 DEF IInv, TypeOK
<1>6. /\ clone'[e][r] = task.version /\ cve[e] = task.version
      /\ task.version # NoVersion
      /\ \A d \in Envs, q \in Repos : d # e \/ q # r => clone'[d][q] = clone[d][q]
      /\ \A d \in Envs \ {e} : clone'[d] = clone[d]
  BY <1>1 DEF IInv, TypeOK, TaskInBounds
<1>7. TypeOK'
  BY <1>2, <1>3, <1>5 DEF IInv, TypeOK
<1>8. VersionsInUseExist' /\ HistoryOwned' /\ EmptyWhilePublished' /\ DeletionApart'
  BY <1>1, <1>2, <1>3, <1>4
     DEF IInv, VersionsInUseExist, HistoryOwned, EmptyWhilePublished, DeletionApart
<1>9. TaskInBounds' /\ LeftEntirely'
  BY <1>1, <1>2, <1>3, <1>4 DEF IInv, TaskInBounds, LeftEntirely
<1>10. UntouchedServe'
  BY <1>1, <1>2, <1>3, <1>6 DEF IInv, UntouchedServe, Serving, Cloned, Archived
<1>11. PromotedSoFar'
  <2> SUFFICES ASSUME NEW d \in task'.targets, NEW q \in Repos
      PROVE  /\ <<d, q>> \in task'.stale => archive'[task'.version][q] = "none"
             /\ <<d, q>> \notin task'.stale =>
                  (archive'[task'.version][q] = "none" <=> clone'[d][q] = NoVersion)
             /\ archive'[task'.version][q] # "none" /\ <<d, q>> \notin task'.clones =>
                  clone'[d][q] = task'.version
             /\ <<d, q>> \in task'.clones => archive'[task'.version][q] # "none"
    BY DEF PromotedSoFar
  <2>1. d \in Envs
    BY <1>3 DEF Tasks
  <2>2. CASE d = e /\ q = r
    <3>1. archive[task.version][r] # "none" /\ <<e, r>> \notin task.stale
      BY <1>1 DEF IInv, PromotedSoFar
    <3> QED BY <1>2, <1>3, <1>6, <2>2, <3>1
  <2>3. CASE ~(d = e /\ q = r)
    <3>1. clone'[d][q] = clone[d][q] /\ (<<d, q>> \in task'.clones <=> <<d, q>> \in task.clones)
      BY <1>3, <1>6, <2>1, <2>3
    <3> QED BY <1>1, <1>2, <1>3, <3>1 DEF IInv, PromotedSoFar
  <2> QED BY <2>2, <2>3
<1>12. AbsentEmpty'
  BY <1>2, <1>6 DEF IInv, AbsentEmpty
<1>13. OnlyOldOrNewContent'
  BY <1>2, <1>6 DEF IInv, OnlyOldOrNewContent
<1> QED BY <1>7, <1>8, <1>9, <1>10, <1>11, <1>12, <1>13 DEF IInv

(* The removal of a repository from an environment preserves it. *)
LEMMA DropCloneInvariant ==
  ASSUME IInv, NEW e \in Envs, NEW r \in Repos, DropClone(e, r)
  PROVE  IInv'
<1> USE ViewAssumption
<1>1. /\ task # NoTask /\ <<e, r>> \in task.stale /\ task \in Tasks
      /\ task' = [task EXCEPT !.drops = @ \ {<<e, r>>}]
      /\ clone' = [clone EXCEPT ![e][r] = NothingServed]
      /\ clone[e][r] # NoVersion /\ cve[e] # NoVersion
  BY DEF DropClone, IInv, TypeOK, TaskInBounds, AbsentEmpty
<1>2. UNCHANGED <<alive, selected, nextVersion, versions, archive, cve, cpEnv, cpContent,
                  host, openHistory, deletion, failures, directDeletes, prevCve, stripped, abandoned>>
  BY DEF DropClone, cp, unplanned, settings, counters
<1>3. /\ task' \in Tasks /\ task' # NoTask
      /\ task'.action = task.action /\ task'.version = task.version
      /\ task'.targets = task.targets
      /\ task'.removed = task.removed /\ task'.stale = task.stale
      /\ task'.fills = task.fills /\ task'.clones = task.clones
      /\ task'.drops = task.drops \ {<<e, r>>} /\ task'.cpDrops = task.cpDrops
      /\ task'.purges = task.purges
  BY <1>1, NoTaskAssumption DEF Tasks
<1>4. /\ Promotion' <=> Promotion
      /\ Removal' <=> Removal
      /\ Running({"publish"})' <=> Running({"publish"})
  BY <1>1, <1>3 DEF Running, Promotion, Removal
<1>5. clone' \in [Envs -> [Repos -> 0..(MaxVersion + 1)]]
  BY <1>1 DEF IInv, TypeOK
<1>6. /\ clone'[e][r] = NothingServed /\ NothingServed # NoVersion
      /\ \A d \in Envs, q \in Repos : d # e \/ q # r => clone'[d][q] = clone[d][q]
      /\ \A d \in Envs \ {e} : clone'[d] = clone[d]
  BY <1>1 DEF IInv, TypeOK
<1>7. TypeOK'
  BY <1>2, <1>3, <1>5 DEF IInv, TypeOK
<1>8. VersionsInUseExist' /\ HistoryOwned' /\ EmptyWhilePublished' /\ DeletionApart'
  BY <1>1, <1>2, <1>3, <1>4
     DEF IInv, VersionsInUseExist, HistoryOwned, EmptyWhilePublished, DeletionApart
<1>9. TaskInBounds'
  BY <1>1, <1>2, <1>3, <1>4 DEF IInv, TaskInBounds
<1>10. LeftEntirely'
  <2> SUFFICES ASSUME Removal, NEW d \in task.targets, NEW q \in Repos,
                      clone'[d][q] # NoVersion
               PROVE  <<d, q>> \in task.stale
    BY <1>3, <1>4 DEF LeftEntirely
  <2>1. d \in Envs
    BY <1>1 DEF Tasks
  <2> QED BY <1>1, <1>6, <2>1 DEF IInv, LeftEntirely
<1>11. UntouchedServe'
  <2> SUFFICES ASSUME NEW d \in Envs, cve[d] # NoVersion, d \notin task.targets
               PROVE  Serving(d)'
    BY <1>1, <1>2, <1>3 DEF UntouchedServe
  <2>1. Serving(d)
    BY DEF IInv, UntouchedServe
  <2>2. \A q \in Repos : /\ clone'[d][q] # NoVersion <=> clone[d][q] # NoVersion
                         /\ (clone'[d][q] = clone[d][q] \/ <<d, q>> \in task.stale)
    BY <1>1, <1>6
  <2>3. Cloned(d)' = Cloned(d) /\ Archived(cve[d])' = Archived(cve[d])
    BY <1>2, <2>2 DEF Cloned, Archived
  <2>4. \A q \in Cloned(d) : clone'[d][q] = cve[d] \/ <<d, q>> \in task.stale
    BY <2>1, <2>2 DEF Serving, Cloned
  <2> QED BY <1>2, <1>3, <2>1, <2>3, <2>4 DEF Serving
<1>12. PromotedSoFar'
  <2> SUFFICES ASSUME Promotion, NEW d \in task'.targets, NEW q \in Repos
      PROVE  /\ <<d, q>> \in task'.stale => archive'[task'.version][q] = "none"
             /\ <<d, q>> \notin task'.stale =>
                  (archive'[task'.version][q] = "none" <=> clone'[d][q] = NoVersion)
             /\ archive'[task'.version][q] # "none" /\ <<d, q>> \notin task'.clones =>
                  clone'[d][q] = task'.version
             /\ <<d, q>> \in task'.clones => archive'[task'.version][q] # "none"
    BY <1>4 DEF PromotedSoFar
  <2>1. d \in Envs
    BY <1>3 DEF Tasks
  <2>2. CASE d = e /\ q = r
    BY <1>1, <1>2, <1>3, <2>2 DEF IInv, PromotedSoFar
  <2>3. CASE ~(d = e /\ q = r)
    <3>1. clone'[d][q] = clone[d][q]
      BY <1>6, <2>1, <2>3
    <3> QED BY <1>1, <1>2, <1>3, <3>1 DEF IInv, PromotedSoFar
  <2> QED BY <2>2, <2>3
<1>14. AbsentEmpty'
  BY <1>1, <1>2, <1>6 DEF IInv, AbsentEmpty
<1>15. OnlyOldOrNewContent'
  BY <1>2, <1>6 DEF IInv, OnlyOldOrNewContent
<1> QED BY <1>7, <1>8, <1>9, <1>10, <1>11, <1>12, <1>14, <1>15 DEF IInv

(* The steps that leave environments and archived repositories as rows. *)
LEMMA DropCandlepinInvariant ==
  ASSUME IInv, NEW e \in Envs, DropCandlepin(e)
  PROVE  IInv'
<1> USE ViewAssumption
<1>1. /\ task # NoTask /\ e \in task.cpDrops /\ task \in Tasks
      /\ task' = [task EXCEPT !.cpDrops = @ \ {e}]
      /\ cpEnv' = cpEnv \ {e}
      /\ cpContent' = [cpContent EXCEPT ![e] = {}]
  BY DEF DropCandlepin, IInv, TypeOK
<1>2. UNCHANGED <<alive, selected, nextVersion, versions, archive, clone, cve,
                  host, openHistory, deletion, failures, directDeletes, prevCve, stripped, abandoned>>
  BY DEF DropCandlepin, content, unplanned, settings, counters
<1>3. /\ task' \in Tasks /\ task' # NoTask
      /\ task'.action = task.action /\ task'.version = task.version
      /\ task'.targets = task.targets
      /\ task'.removed = task.removed /\ task'.stale = task.stale
      /\ task'.fills = task.fills /\ task'.clones = task.clones
      /\ task'.drops = task.drops /\ task'.cpDrops = task.cpDrops \ {e}
      /\ task'.purges = task.purges
  BY <1>1, NoTaskAssumption DEF Tasks
<1>4. /\ Removal /\ ~Promotion /\ ~Promotion' /\ Removal'
      /\ ~Running({"publish"}) /\ ~Running({"publish"})'
  BY <1>1, <1>3 DEF Running, Promotion, Removal, IInv, TaskInBounds, Tasks
<1>5. TypeOK'
  BY <1>1, <1>2, <1>3 DEF IInv, TypeOK
<1>6. VersionsInUseExist' /\ HistoryOwned' /\ EmptyWhilePublished' /\ DeletionApart'
  BY <1>1, <1>2, <1>3, <1>4
     DEF IInv, VersionsInUseExist, HistoryOwned, EmptyWhilePublished, DeletionApart
<1>7. TaskInBounds' /\ LeftEntirely' /\ PromotedSoFar'
  BY <1>1, <1>2, <1>3, <1>4 DEF IInv, TaskInBounds, LeftEntirely, PromotedSoFar
<1>8. UntouchedServe'
  <2>1. e \in task.targets
    BY <1>1, <1>4 DEF IInv, TaskInBounds
  <2>2. \A d \in Envs \ {e} : cpContent'[d] = cpContent[d]
    BY <1>1 DEF IInv, TypeOK
  <2> QED BY <1>1, <1>2, <1>3, <2>1, <2>2 DEF IInv, UntouchedServe, Serving, Cloned, Archived
<1>9. AbsentEmpty' /\ OnlyOldOrNewContent'
  BY <1>2 DEF IInv, AbsentEmpty, OnlyOldOrNewContent
<1> QED BY <1>5, <1>6, <1>7, <1>8, <1>9 DEF IInv

(* The deletion of an archived repository preserves it. *)
LEMMA PurgeArchiveInvariant ==
  ASSUME IInv, NEW v \in Versions, NEW r \in Repos, PurgeArchive(v, r)
  PROVE  IInv'
<1> USE ViewAssumption
<1>1. /\ task # NoTask /\ <<v, r>> \in task.purges /\ task \in Tasks
      /\ task' = [task EXCEPT !.purges = @ \ {<<v, r>>}]
      /\ archive' = [archive EXCEPT ![v][r] = "gone"]
  BY DEF PurgeArchive, IInv, TypeOK
<1>2. UNCHANGED <<alive, selected, nextVersion, versions, clone, cve, cpEnv, cpContent,
                  host, openHistory, deletion, failures, directDeletes, prevCve, stripped, abandoned>>
  BY DEF PurgeArchive, cp, unplanned, settings, counters
<1>3. /\ task' \in Tasks /\ task' # NoTask
      /\ task'.action = task.action /\ task'.version = task.version
      /\ task'.targets = task.targets
      /\ task'.removed = task.removed /\ task'.stale = task.stale
      /\ task'.fills = task.fills /\ task'.clones = task.clones
      /\ task'.drops = task.drops /\ task'.cpDrops = task.cpDrops
      /\ task'.purges = task.purges \ {<<v, r>>}
  BY <1>1, NoTaskAssumption DEF Tasks
<1>4. /\ Removal /\ ~Promotion /\ ~Promotion' /\ Removal' /\ v \in task.removed
      /\ ~Running({"publish"}) /\ ~Running({"publish"})'
  BY <1>1, <1>3 DEF Running, Promotion, Removal, IInv, TaskInBounds, Tasks
<1>5. /\ archive' \in [Versions -> [Repos -> {"none", "empty", "filled", "gone"}]]
      /\ archive'[v][r] = "gone"
      /\ \A w \in Versions, q \in Repos : w # v \/ q # r => archive'[w][q] = archive[w][q]
      /\ \A w \in Versions \ {v} : archive'[w] = archive[w]
  BY <1>1 DEF IInv, TypeOK
<1>6. TypeOK'
  BY <1>2, <1>3, <1>5 DEF IInv, TypeOK
<1>7. VersionsInUseExist' /\ HistoryOwned' /\ EmptyWhilePublished'
  BY <1>1, <1>2, <1>3, <1>4, <1>5
     DEF IInv, VersionsInUseExist, HistoryOwned, EmptyWhilePublished
<1>8. DeletionApart'
  BY <1>2, <1>3, <1>4, <1>5 DEF IInv, DeletionApart, TypeOK, Deletions
<1>9. TaskInBounds' /\ LeftEntirely' /\ PromotedSoFar'
  BY <1>1, <1>2, <1>3, <1>4 DEF IInv, TaskInBounds, LeftEntirely, PromotedSoFar
<1>10. UntouchedServe'
  <2> SUFFICES ASSUME NEW e \in Envs, cve[e] # NoVersion, e \notin task.targets
               PROVE  Serving(e)'
    BY <1>1, <1>2, <1>3 DEF UntouchedServe
  <2>1. Serving(e) /\ cve[e] \in Versions \ {v}
    BY <1>4 DEF IInv, UntouchedServe, TypeOK, TaskInBounds
  <2>2. Archived(cve[e])' = Archived(cve[e]) /\ Cloned(e)' = Cloned(e)
    BY <1>2, <1>5, <2>1 DEF Archived, Cloned
  <2> QED BY <1>1, <1>2, <1>3, <2>1, <2>2 DEF Serving
<1>11. AbsentEmpty' /\ OnlyOldOrNewContent'
  BY <1>2 DEF IInv, AbsentEmpty, OnlyOldOrNewContent
<1> QED BY <1>6, <1>7, <1>8, <1>9, <1>10, <1>11 DEF IInv

-----------------------------------------------------------------------------
(* Finalize phases. *)

(* The finalize phase of a publish or a promotion preserves it. *)
LEMMA FinalizePromotionInvariant ==
  ASSUME IInv, FinalizePromotion
  PROVE  IInv'
<1> USE ViewAssumption
<1>1. /\ task # NoTask /\ task \in Tasks /\ Promotion
      /\ task.fills = {} /\ task.clones = {} /\ task' = NoTask
      /\ openHistory' = openHistory \ (ClosedHistories \ abandoned)
  BY DEF FinalizePromotion, RunDone, Promoting, Promotion, Running, IInv, TypeOK
<1>2. /\ clone' = [e \in Envs |-> [r \in Repos |->
                    IF <<e, r>> \in task.stale THEN NoVersion ELSE clone[e][r]]]
      /\ cpContent' = [e \in Envs |-> IF e \in task.targets THEN Kept(e) ELSE cpContent[e]]
  BY DEF FinalizePromotion
<1>3. UNCHANGED <<alive, selected, nextVersion, versions, archive, cve, cpEnv,
                  host, deletion, failures, directDeletes, stripped, abandoned>>
      /\ prevCve' = [e \in Envs |-> NoVersion]
  BY DEF FinalizePromotion, settings, counters
<1>4. ~Promotion' /\ ~Removal' /\ ~Running({"publish"})'
  BY <1>1 DEF Running, Promotion, Removal
<1>5. clone' \in [Envs -> [Repos -> 0..(MaxVersion + 1)]]
  <2>1. \A e \in Envs, r \in Repos : clone[e][r] \in 0..(MaxVersion + 1)
    BY DEF IInv, TypeOK
  <2> QED BY <1>2, <2>1
<1>6. cpContent' \in [Envs -> SUBSET Repos]
  BY <1>2 DEF IInv, TypeOK, Kept, Cloned
<1>7. TypeOK'
  BY <1>1, <1>3, <1>5, <1>6 DEF IInv, TypeOK
<1>8. VersionsInUseExist' /\ EmptyWhilePublished' /\ DeletionApart'
  BY <1>1, <1>3, <1>4
     DEF IInv, VersionsInUseExist, EmptyWhilePublished, DeletionApart, Running
<1>9. openHistory' \subseteq abandoned
  BY <1>1 DEF IInv, HistoryOwned, ClosedHistories, Promotion, Removal, Running
<1>10. HistoryOwned' /\ TaskInBounds' /\ LeftEntirely' /\ PromotedSoFar'
  BY <1>1, <1>3, <1>4, <1>9 DEF HistoryOwned, TaskInBounds, LeftEntirely, PromotedSoFar
<1>11. \A e \in Envs, r \in Repos :
         clone'[e][r] = IF <<e, r>> \in task.stale THEN NoVersion ELSE clone[e][r]
  BY <1>2
<1>12. UntouchedServe'
  <2> SUFFICES ASSUME NEW e \in Envs, cve[e] # NoVersion PROVE Serving(e)'
    BY <1>3 DEF UntouchedServe
  <2>1. CASE e \in task.targets
    <3>1. cve[e] = task.version
      BY <1>1, <2>1 DEF IInv, TaskInBounds
    <3>2. \A r \in Repos :
            /\ clone'[e][r] # NoVersion <=> archive[cve[e]][r] # "none"
            /\ clone'[e][r] # NoVersion => clone'[e][r] = cve[e]
      BY <1>1, <1>11, <2>1, <3>1 DEF IInv, PromotedSoFar
    <3>3. cpContent'[e] = Cloned(e)'
      BY <1>2, <1>11, <2>1 DEF Kept, Cloned
    <3> QED BY <1>3, <3>2, <3>3 DEF Serving, Cloned, Archived
  <2>2. CASE e \notin task.targets
    <3>1. Serving(e) /\ cpContent'[e] = cpContent[e] /\ Archived(cve[e])' = Archived(cve[e])
      BY <1>2, <1>3, <2>2 DEF IInv, UntouchedServe, Archived
    <3>2. \A r \in Repos : clone'[e][r] # NoVersion =>
            clone'[e][r] = clone[e][r] /\ <<e, r>> \notin task.stale
      BY <1>11
    <3>3. Cloned(e)' \subseteq Cloned(e) /\ \A r \in Cloned(e)' : clone'[e][r] = cve[e]
      BY <3>1, <3>2 DEF Serving, Cloned
    <3>4. e \notin stripped => Cloned(e)' = Cloned(e)
      <4>1. e \notin stripped => \A r \in Repos : <<e, r>> \notin task.stale
        BY <1>1, <2>2 DEF IInv, TaskInBounds
      <4> QED BY <1>11, <4>1 DEF Cloned
    <3> QED BY <1>3, <3>1, <3>3, <3>4 DEF Serving
  <2> QED BY <2>1, <2>2
<1>13. AbsentEmpty'
  BY <1>3, <1>11 DEF IInv, AbsentEmpty
<1>14. OnlyOldOrNewContent'
  <2> SUFFICES ASSUME NEW e \in Envs, NEW r \in Repos, clone'[e][r] # NoVersion
               PROVE  clone'[e][r] = cve[e]
    BY <1>3 DEF OnlyOldOrNewContent
  <2>1. cve[e] # NoVersion
    BY <1>3, <1>13 DEF AbsentEmpty
  <2>2. Serving(e)'
    BY <1>3, <1>1, <1>12, <2>1 DEF UntouchedServe
  <2> QED BY <1>1, <1>3, <2>2 DEF Serving, Cloned
<1> QED BY <1>7, <1>8, <1>10, <1>12, <1>13, <1>14 DEF IInv

(* A finalize phase that raises preserves it, whatever Candlepin was told    *)
(* and whatever is skipped when it goes on.                                 *)
LEMMA FinalizeFailsInvariant ==
  ASSUME IInv, NEW told \in SUBSET Envs,
         FinalizeFails(told) \/ \E h \in openHistory : OwnFinalizeSkipped(h, told)
  PROVE  IInv'
<1> USE ViewAssumption
<1>1. /\ task # NoTask /\ told \subseteq task.targets
      /\ failures' = failures + 1 /\ failures < MaxFailures
      /\ cpContent' = [e \in Envs |-> IF e \in told THEN Kept(e) ELSE cpContent[e]]
  BY DEF FinalizeFails, OwnFinalizeSkipped, RunDone
<1>2. UNCHANGED <<alive, selected, nextVersion, versions, archive, clone, cve, cpEnv,
                  host, openHistory, task, deletion, directDeletes, prevCve, stripped>>
  BY DEF FinalizeFails, OwnFinalizeSkipped, settings, content
<1>3. abandoned \subseteq abandoned' /\ abandoned' \subseteq Histories
  BY DEF FinalizeFails, OwnFinalizeSkipped, IInv, TypeOK
<1>4. cpContent' \in [Envs -> SUBSET Repos] /\ failures' \in 0..MaxFailures
  BY <1>1 DEF IInv, TypeOK, Kept, Cloned
<1>5. TypeOK'
  BY <1>2, <1>3, <1>4 DEF IInv, TypeOK
<1>6. VersionsInUseExist' /\ HistoryOwned' /\ EmptyWhilePublished' /\ DeletionApart'
  BY <1>2, <1>3 DEF IInv, VersionsInUseExist, HistoryOwned, EmptyWhilePublished,
     DeletionApart, Promotion, Removal, Running
<1>7. TaskInBounds' /\ LeftEntirely' /\ PromotedSoFar'
  BY <1>2 DEF IInv, TaskInBounds, LeftEntirely, PromotedSoFar, Promotion, Removal, Running
<1>8. UntouchedServe'
  <2>1. \A e \in Envs : e \notin task.targets => cpContent'[e] = cpContent[e]
    BY <1>1
  <2> QED BY <1>1, <1>2, <2>1 DEF IInv, UntouchedServe, Serving, Cloned, Archived
<1>9. AbsentEmpty' /\ OnlyOldOrNewContent'
  BY <1>2 DEF IInv, AbsentEmpty, OnlyOldOrNewContent
<1> QED BY <1>5, <1>6, <1>7, <1>8, <1>9 DEF IInv

(* The finalize phase of a removal preserves it. *)
LEMMA FinalizeRemovalInvariant ==
  ASSUME IInv, FinalizeRemoval
  PROVE  IInv'
<1> USE ViewAssumption
<1>1. /\ task # NoTask /\ task \in Tasks /\ Removal /\ task' = NoTask
      /\ versions' = versions \ task.removed
      /\ \A v \in task.removed : EnvsOf(v) \subseteq task.targets
      /\ alive' \in BOOLEAN
  BY DEF FinalizeRemoval, RunDone, Promoting, Removal, Running, IInv, TypeOK, Tasks
<1>2. openHistory' = {h \in openHistory :
                        /\ h.version \notin task.removed
                        /\ ~(h.action = "removal" /\ h.env \in task.targets)}
  BY DEF FinalizeRemoval
<1>3. /\ cve' = [e \in Envs |-> IF e \in task.targets THEN NoVersion ELSE cve[e]]
      /\ host' = [h \in Hosts |-> IF host[h] \in task.targets THEN Lost ELSE host[h]]
  BY DEF FinalizeRemoval
<1>4. /\ clone' = [e \in Envs |-> [r \in Repos |->
                    IF <<e, r>> \in task.stale THEN NoVersion ELSE clone[e][r]]]
      /\ archive' = [v \in Versions |-> IF v \in task.removed THEN [r \in Repos |-> "none"]
                                        ELSE archive[v]]
  BY DEF FinalizeRemoval
<1>5. UNCHANGED <<selected, nextVersion, cpEnv, cpContent, deletion, failures,
                  directDeletes, prevCve, stripped, abandoned>>
  BY DEF FinalizeRemoval, settings, cp, counters
<1>6. ~Promotion' /\ ~Removal' /\ ~Running({"publish"})' /\ ~Running({"publish"})
  BY <1>1 DEF Running, Promotion, Removal
<1>7. TypeOK'
  <2>1. clone' \in [Envs -> [Repos -> 0..(MaxVersion + 1)]]
    <3>1. \A e \in Envs, r \in Repos : clone[e][r] \in 0..(MaxVersion + 1)
      BY DEF IInv, TypeOK
    <3> QED BY <1>4, <3>1
  <2>2. archive' \in [Versions -> [Repos -> {"none", "empty", "filled", "gone"}]]
    <3>1. [r \in Repos |-> "none"] \in [Repos -> {"none", "empty", "filled", "gone"}]
      OBVIOUS
    <3> QED BY <1>4, <3>1 DEF IInv, TypeOK
  <2>3. /\ cve' \in [Envs -> Versions \cup {NoVersion}]
        /\ host' \in [Hosts -> Envs \cup {Elsewhere, Lost}]
    BY <1>3 DEF IInv, TypeOK
  <2>4. openHistory' \subseteq Histories /\ versions' \subseteq Versions
        /\ \A v \in versions' : v < nextVersion
    BY <1>1, <1>2 DEF IInv, TypeOK
  <2> QED BY <1>1, <1>5, <2>1, <2>2, <2>3, <2>4 DEF IInv, TypeOK
<1>8. VersionsInUseExist'
  BY <1>1, <1>3 DEF IInv, VersionsInUseExist, EnvsOf
<1>9. openHistory' \subseteq abandoned
  BY <1>1, <1>2 DEF IInv, HistoryOwned, Promotion, Removal, Running
<1>10. HistoryOwned' /\ TaskInBounds' /\ LeftEntirely' /\ PromotedSoFar'
  BY <1>1, <1>5, <1>6, <1>9 DEF HistoryOwned, TaskInBounds, LeftEntirely, PromotedSoFar
<1>11. EmptyWhilePublished'
  BY <1>4, <1>6 DEF IInv, EmptyWhilePublished
<1>12. DeletionApart'
  <2> SUFFICES ASSUME deletion # NoTask, NEW r \in deletion.purges
               PROVE  archive'[deletion.version][r] # "none"
    BY <1>5, <1>6 DEF IInv, DeletionApart
  <2>1. deletion.version \in Versions /\ deletion.version \notin task.removed
        /\ archive[deletion.version][r] # "none"
    BY <1>1 DEF IInv, DeletionApart, TypeOK, Deletions
  <2> QED BY <1>4, <2>1
<1>13. \A e \in Envs, r \in Repos :
         clone'[e][r] = IF <<e, r>> \in task.stale THEN NoVersion ELSE clone[e][r]
  BY <1>4
<1>14. UntouchedServe'
  <2> SUFFICES ASSUME NEW e \in Envs, cve'[e] # NoVersion PROVE Serving(e)'
    BY DEF UntouchedServe
  <2>1. e \notin task.targets /\ cve'[e] = cve[e]
    BY <1>3
  <2>2. Serving(e) /\ cve[e] \in Versions \ task.removed
    BY <1>1, <2>1 DEF IInv, UntouchedServe, EnvsOf, TypeOK
  <2>3. archive'[cve[e]] = archive[cve[e]]
    BY <1>4, <2>2
  <2>4. \A r \in Repos : clone'[e][r] # NoVersion =>
          clone'[e][r] = clone[e][r] /\ <<e, r>> \notin task.stale
    BY <1>13
  <2>5. Cloned(e)' \subseteq Cloned(e) /\ \A r \in Cloned(e)' : clone'[e][r] = cve[e]
    BY <2>2, <2>4 DEF Serving, Cloned
  <2>6. e \notin stripped => Cloned(e)' = Cloned(e)
    <3>1. e \notin stripped => \A r \in Repos : <<e, r>> \notin task.stale
      BY <1>1, <2>1 DEF IInv, TaskInBounds
    <3> QED BY <1>13, <3>1 DEF Cloned
  <2>7. {r \in Repos : archive'[cve'[e]][r] # "none"} = Archived(cve[e])
    BY <2>1, <2>3 DEF Archived
  <2>8. {r \in Repos : clone'[e][r] # NoVersion} = Cloned(e)'
    BY DEF Cloned
  <2> QED BY <1>5, <2>1, <2>2, <2>5, <2>6, <2>7, <2>8 DEF Serving, Archived
<1>15. AbsentEmpty'
  <2> SUFFICES ASSUME NEW e \in Envs, cve'[e] = NoVersion, NEW r \in Repos
               PROVE  clone'[e][r] = NoVersion
    BY DEF AbsentEmpty
  <2>1. CASE <<e, r>> \in task.stale
    BY <1>13, <2>1
  <2>2. CASE <<e, r>> \notin task.stale
    <3>1. clone'[e][r] = clone[e][r]
      BY <1>13, <2>2
    <3>2. cve[e] = NoVersion \/ e \in task.targets
      BY <1>3
    <3>3. clone[e][r] = NoVersion
      BY <1>1, <2>2, <3>2 DEF IInv, LeftEntirely, AbsentEmpty
    <3> QED BY <3>1, <3>3
  <2> QED BY <2>1, <2>2
<1>16. OnlyOldOrNewContent'
  <2> SUFFICES ASSUME NEW e \in Envs, NEW r \in Repos
               PROVE  clone'[e][r] \in {NoVersion, NothingServed, cve'[e], prevCve'[e]}
    BY DEF OnlyOldOrNewContent
  <2>1. CASE e \in task.targets
    BY <1>1, <1>13, <2>1 DEF IInv, LeftEntirely
  <2>2. CASE e \notin task.targets
    BY <1>3, <1>5, <1>13, <2>2 DEF IInv, OnlyOldOrNewContent
  <2> QED BY <2>1, <2>2
<1> QED BY <1>7, <1>8, <1>10, <1>11, <1>12, <1>14, <1>15, <1>16 DEF IInv

-----------------------------------------------------------------------------
(* Deletions outside the lock, hosts, and steps that change nothing. *)

(* The plan of a deletion outside the lock preserves it. *)
LEMMA DirectDeletePlanInvariant ==
  ASSUME IInv, NEW v \in Versions, DirectDeletePlan(v)
  PROVE  IInv'
<1> USE ViewAssumption
<1>1. /\ v \in versions /\ ~ArchiveLocked(v)
      /\ deletion' = [version |-> v, purges |-> Archived(v)]
      /\ directDeletes' = directDeletes + 1 /\ directDeletes < MaxDirectDeletes
  BY DEF DirectDeletePlan
<1>2. UNCHANGED <<alive, selected, nextVersion, versions, archive, clone, cve, cpEnv,
                  cpContent, host, openHistory, task, failures, prevCve, stripped, abandoned>>
  BY DEF DirectDeletePlan, settings, content, cp
<1>3. deletion' \in Deletions
  BY <1>1 DEF Deletions, Archived
<1>4. directDeletes' \in 0..MaxDirectDeletes
  BY <1>1 DEF IInv, TypeOK
<1>5. TypeOK'
  BY <1>2, <1>3, <1>4 DEF IInv, TypeOK
<1>6. VersionsInUseExist' /\ HistoryOwned' /\ EmptyWhilePublished'
  BY <1>2 DEF IInv, VersionsInUseExist, HistoryOwned, EmptyWhilePublished, Promotion,
     Removal, Running
<1>7. DeletionApart'
  <2>1. v < nextVersion
    BY <1>1 DEF IInv, TypeOK
  <2>2. \A r \in Archived(v) : archive[v][r] # "none"
    BY DEF Archived
  <2>3. Running({"publish"}) /\ task.version = v => task.fills = {}
    BY <1>1 DEF ArchiveLocked, Archived, Running, IInv, TaskInBounds, Promotion, TypeOK, Tasks
  <2>4. Removal /\ v \in task.removed => Archived(v) = {}
    BY <1>1 DEF ArchiveLocked, Removal, Running
  <2> QED BY <1>1, <1>2, <2>1, <2>2, <2>3, <2>4 DEF DeletionApart, Removal, Running
<1>8. TaskInBounds' /\ LeftEntirely' /\ PromotedSoFar'
  BY <1>2 DEF IInv, TaskInBounds, LeftEntirely, PromotedSoFar, Promotion, Removal, Running
<1>9. UntouchedServe' /\ AbsentEmpty' /\ OnlyOldOrNewContent'
  BY <1>2 DEF IInv, UntouchedServe, Serving, Cloned, Archived, AbsentEmpty, OnlyOldOrNewContent
<1> QED BY <1>5, <1>6, <1>7, <1>8, <1>9 DEF IInv

(* A purge of that deletion preserves it. *)
LEMMA DirectPurgeInvariant ==
  ASSUME IInv, NEW r \in Repos, DirectPurge(r)
  PROVE  IInv'
<1> USE ViewAssumption
<1> DEFINE v == deletion.version
<1>1. /\ deletion # NoTask /\ deletion \in Deletions /\ v \in Versions
      /\ r \in deletion.purges /\ archive[v][r] # "none"
      /\ archive' = [archive EXCEPT ![v][r] = "gone"]
      /\ deletion' = [deletion EXCEPT !.purges = @ \ {r}]
  BY DEF DirectPurge, IInv, TypeOK, DeletionApart, Deletions
<1>2. UNCHANGED <<alive, selected, nextVersion, versions, clone, cve, cpEnv,
                  cpContent, host, openHistory, task, failures, directDeletes, prevCve, stripped, abandoned>>
  BY DEF DirectPurge, settings, cp, counters
<1>3. /\ deletion' \in Deletions /\ deletion'.version = v
      /\ deletion'.purges = deletion.purges \ {r}
  BY <1>1 DEF Deletions
<1>4. /\ archive' \in [Versions -> [Repos -> {"none", "empty", "filled", "gone"}]]
      /\ archive'[v][r] = "gone"
      /\ \A w \in Versions, q \in Repos : w # v \/ q # r => archive'[w][q] = archive[w][q]
  BY <1>1 DEF IInv, TypeOK
<1>5. \A w \in Versions, q \in Repos : archive'[w][q] = "none" <=> archive[w][q] = "none"
  BY <1>1, <1>4
<1>6. TypeOK'
  BY <1>2, <1>3, <1>4 DEF IInv, TypeOK
<1>7. VersionsInUseExist' /\ HistoryOwned'
  BY <1>2 DEF IInv, VersionsInUseExist, HistoryOwned, Promotion, Removal, Running
<1>8. EmptyWhilePublished'
  BY <1>2, <1>4 DEF IInv, EmptyWhilePublished, Running
<1>9. DeletionApart'
  BY <1>1, <1>2, <1>3, <1>5 DEF IInv, DeletionApart, Running, Removal, Deletions
<1>10. \A p \in task.fills : Promotion => archive'[task.version][p] # "none"
  <2>1. Promotion => task.version \in Versions /\ task.fills \subseteq Repos
    BY DEF IInv, TypeOK, Tasks, TaskInBounds, Promotion, Running
  <2> QED BY <1>5, <2>1 DEF IInv, TaskInBounds
<1>11. TaskInBounds' /\ LeftEntirely'
  BY <1>2, <1>10 DEF IInv, TaskInBounds, LeftEntirely, Promotion, Removal, Running
<1>12. PromotedSoFar'
  <2>1. Promotion => task.version \in Versions
    BY DEF IInv, TaskInBounds
  <2> QED BY <1>2, <1>5, <2>1 DEF IInv, PromotedSoFar, Promotion, Running
<1>13. UntouchedServe'
  <2> SUFFICES ASSUME NEW e \in Envs, cve[e] # NoVersion, Serving(e)
               PROVE  Serving(e)'
    BY <1>2 DEF IInv, UntouchedServe
  <2>1. Archived(cve[e])' = Archived(cve[e])
    BY <1>2, <1>5 DEF Archived, IInv, TypeOK
  <2> QED BY <1>2, <2>1 DEF Serving, Cloned
<1>14. AbsentEmpty' /\ OnlyOldOrNewContent'
  BY <1>2 DEF IInv, AbsentEmpty, OnlyOldOrNewContent
<1> QED BY <1>6, <1>7, <1>8, <1>9, <1>11, <1>12, <1>13, <1>14 DEF IInv

(* The end of that deletion preserves it. *)
LEMMA DirectFinalizeInvariant ==
  ASSUME IInv, DirectFinalize
  PROVE  IInv'
<1> USE ViewAssumption
<1> DEFINE v == deletion.version
<1>1. /\ deletion # NoTask /\ v \in Versions /\ EnvsOf(v) = {}
      /\ versions' = versions \ {v} /\ deletion' = NoTask
      /\ archive' = [archive EXCEPT ![v] = [r \in Repos |-> "none"]]
      /\ openHistory' \subseteq openHistory
  BY DEF DirectFinalize, Destroyable, IInv, TypeOK, Deletions
<1>2. UNCHANGED <<alive, selected, nextVersion, clone, cve, cpEnv,
                  cpContent, host, task, failures, directDeletes, prevCve, stripped, abandoned>>
  BY DEF DirectFinalize, settings, cp, counters
<1>3. /\ archive' \in [Versions -> [Repos -> {"none", "empty", "filled", "gone"}]]
      /\ \A r \in Repos : archive'[v][r] = "none"
      /\ \A w \in Versions \ {v} : archive'[w] = archive[w]
  <2>1. [r \in Repos |-> "none"] \in [Repos -> {"none", "empty", "filled", "gone"}]
    OBVIOUS
  <2> QED BY <1>1, <2>1 DEF IInv, TypeOK
<1>4. TypeOK'
  BY <1>1, <1>2, <1>3 DEF IInv, TypeOK
<1>5. \A e \in Envs : cve[e] # v
  BY <1>1 DEF EnvsOf
<1>6. VersionsInUseExist'
  BY <1>1, <1>2, <1>5 DEF IInv, VersionsInUseExist
<1>7. HistoryOwned'
  BY <1>1, <1>2 DEF IInv, HistoryOwned, Promotion, Removal, Running
<1>8. EmptyWhilePublished'
  BY <1>1, <1>2, <1>3 DEF IInv, EmptyWhilePublished, Running
<1>9. DeletionApart'
  BY <1>1 DEF DeletionApart
<1>10. Promotion /\ task.version = v => task.targets = {} /\ task.fills = {}
  <2>1. Promotion => task \in Tasks /\ task # NoTask
    BY DEF IInv, TypeOK, Promotion, Running
  <2>2. Promotion /\ task.version = v => task.targets = {}
    BY <1>5, <2>1 DEF IInv, TaskInBounds, Tasks
  <2>3. Promotion /\ task.version = v => task.fills = {}
    BY <1>1, <2>1 DEF IInv, TaskInBounds, DeletionApart, Promotion, Running, Tasks
  <2> QED BY <2>2, <2>3
<1>11. TaskInBounds'
  <2>1. Promotion => \A r \in task.fills : archive'[task.version][r] # "none"
    BY <1>3, <1>10 DEF IInv, TaskInBounds
  <2> QED BY <1>2, <2>1 DEF IInv, TaskInBounds, Promotion, Removal, Running
<1>12. PromotedSoFar'
  <2>1. CASE ~Promotion \/ task.targets = {}
    BY <1>2, <2>1 DEF PromotedSoFar, Promotion, Running
  <2>2. CASE Promotion /\ task.targets # {}
    <3>1. archive'[task.version] = archive[task.version]
      BY <1>3, <1>10, <2>2 DEF IInv, TaskInBounds
    <3> QED BY <1>2, <2>2, <3>1 DEF IInv, PromotedSoFar, Promotion, Running
  <2> QED BY <2>1, <2>2
<1>13. LeftEntirely'
  BY <1>2 DEF IInv, LeftEntirely, Removal, Running
<1>14. UntouchedServe'
  <2> SUFFICES ASSUME NEW e \in Envs, cve[e] # NoVersion, Serving(e)
               PROVE  Serving(e)'
    BY <1>2 DEF IInv, UntouchedServe
  <2>1. archive'[cve[e]] = archive[cve[e]]
    BY <1>3, <1>5 DEF IInv, TypeOK
  <2> QED BY <1>2, <2>1 DEF Serving, Cloned, Archived
<1>15. AbsentEmpty' /\ OnlyOldOrNewContent'
  BY <1>2 DEF IInv, AbsentEmpty, OnlyOldOrNewContent
<1> QED BY <1>4, <1>6, <1>7, <1>8, <1>9, <1>11, <1>12, <1>13, <1>14, <1>15 DEF IInv

(* Nothing but TypeOK speaks of hosts. *)
LEMMA HostsInvariant ==
  ASSUME IInv,
         host' \in [Hosts -> Envs \cup {Elsewhere, Lost}],
         UNCHANGED <<alive, selected, nextVersion, versions, archive, clone, cve, cpEnv,
                     cpContent, openHistory, task, deletion, failures, directDeletes,
                     prevCve, stripped, abandoned>>
  PROVE  IInv'
<1>1. TypeOK'
  BY DEF IInv, TypeOK
<1>2. VersionsInUseExist' /\ HistoryOwned' /\ EmptyWhilePublished' /\ DeletionApart'
  BY DEF IInv, VersionsInUseExist, HistoryOwned, EmptyWhilePublished, DeletionApart,
         Promotion, Removal, Running
<1>3. TaskInBounds' /\ LeftEntirely' /\ PromotedSoFar'
  BY DEF IInv, TaskInBounds, LeftEntirely, PromotedSoFar, Promotion, Removal, Running
<1>4. UntouchedServe' /\ AbsentEmpty' /\ OnlyOldOrNewContent'
  BY DEF IInv, UntouchedServe, Serving, Cloned, Archived, AbsentEmpty, OnlyOldOrNewContent
<1> QED BY <1>1, <1>2, <1>3, <1>4 DEF IInv

(* Every step preserves the invariant. *)
LEMMA NextInvariant == IInv /\ [Next]_vars => IInv'
<1> SUFFICES ASSUME IInv, [Next]_vars PROVE IInv'
  OBVIOUS
<1>1. CASE \E S \in SUBSET Repos : SelectRepos(S)
  BY <1>1, SelectReposInvariant
<1>2. CASE \E skip, force \in BOOLEAN, targets \in SUBSET (Envs \ {Library}) :
             PublishPlan(skip, targets, force)
  BY <1>2, PublishPlanInvariant
<1>3. CASE \E v \in Versions, targets \in SUBSET Envs, force \in BOOLEAN :
             PromotePlan(v, targets, force)
  BY <1>3, PromotePlanInvariant
<1>4. CASE \E envs \in SUBSET Envs, doomed \in SUBSET Versions,
              refuge \in Envs \cup {Elsewhere}, whole \in BOOLEAN :
             RemovePlan(envs, doomed, refuge, whole)
  BY <1>4, RemovePlanInvariant
<1>5. CASE RunStep
  BY <1>5, FillArchiveInvariant, CloneToEnvironmentInvariant, DropCloneInvariant,
     DropCandlepinInvariant, PurgeArchiveInvariant DEF RunStep
<1>6. CASE \/ FinalizePromotion \/ FinalizeRemoval
           \/ \E told \in SUBSET Envs : FinalizeFails(told)
           \/ \E told \in SUBSET Envs, h \in openHistory : OwnFinalizeSkipped(h, told)
  BY <1>6, FinalizePromotionInvariant, FinalizeRemovalInvariant, FinalizeFailsInvariant
<1>7. CASE DirectFinalize \/ (\E v \in Versions : DirectDeletePlan(v))
           \/ \E r \in Repos : DirectPurge(r)
  BY <1>7, DirectFinalizeInvariant, DirectDeletePlanInvariant, DirectPurgeInvariant
<1>8. CASE \E h \in Hosts, e \in Envs : AssignHost(h, e)
  <2> PICK h \in Hosts, e \in Envs : AssignHost(h, e)
    BY <1>8
  <2>1. host' \in [Hosts -> Envs \cup {Elsewhere, Lost}]
    BY DEF AssignHost, IInv, TypeOK
  <2> QED BY <2>1, HostsInvariant DEF AssignHost, settings, content, cp, counters
<1>9. CASE \E h \in Hosts : LeaveView(h)
  <2> PICK h \in Hosts : LeaveView(h)
    BY <1>9
  <2>1. host' \in [Hosts -> Envs \cup {Elsewhere, Lost}]
    BY DEF LeaveView, IInv, TypeOK
  <2> QED BY <2>1, HostsInvariant DEF LeaveView, settings, content, cp, counters
<1>10. CASE UNCHANGED vars
  <2>1. host' \in [Hosts -> Envs \cup {Elsewhere, Lost}]
    BY <1>10 DEF vars, IInv, TypeOK
  <2> QED BY <1>10, <2>1, HostsInvariant DEF vars, settings, content, cp, counters
<1> QED BY <1>1, <1>2, <1>3, <1>4, <1>5, <1>6, <1>7, <1>8, <1>9, <1>10 DEF Next

-----------------------------------------------------------------------------
(* The inductive invariant holds throughout every behavior.                 *)
THEOREM InductiveInvariant == Spec => []IInv
<1>1. Init => IInv
  BY InitInvariant
<1>2. IInv /\ [Next]_vars => IInv'
  BY NextInvariant
<1> QED BY <1>1, <1>2, PTL DEF Spec

(* Tasks, rows, archives and counters stay well formed, and next_version    *)
(* stays above every version.                                               *)
THEOREM TypeCorrect == Spec => []TypeOK
<1>1. IInv => TypeOK
  BY DEF IInv
<1> QED BY <1>1, InductiveInvariant, PTL

(* Pulp, Candlepin and the database agree whenever no task holds the lock,  *)
(* whatever was published, promoted, removed, deleted or failed before.     *)
THEOREM EnvironmentsInAgreement == Spec => []EnvironmentsServeTheirVersion
<1>1. IInv => EnvironmentsServeTheirVersion
  BY DEF IInv, UntouchedServe, Serving, Serves, EnvironmentsServeTheirVersion
<1> QED BY <1>1, InductiveInvariant, PTL

(* A host never gets content of a version other than the one its            *)
(* environment had and the one it is promoted to.                           *)
THEOREM NoForeignContent == Spec => []OnlyOldOrNewContent
<1>1. IInv => OnlyOldOrNewContent
  BY DEF IInv
<1> QED BY <1>1, InductiveInvariant, PTL

(* Deletions with and without the lock leave every version in use.          *)
THEOREM NoDanglingEnvironment == Spec => []VersionsInUseExist
<1>1. IInv => VersionsInUseExist
  BY DEF IInv
<1> QED BY <1>1, InductiveInvariant, PTL

(* Every history row is closed by the end of the task it reports on, unless *)
(* its closing failed and was skipped.                                      *)
THEOREM NoHistoryLeftOpen == Spec => []HistoriesClosed
<1>1. IInv => HistoriesClosed
  BY DEF IInv, HistoryOwned, HistoriesClosed, Promotion, Removal, Running
<1> QED BY <1>1, InductiveInvariant, PTL

-----------------------------------------------------------------------------
(* An archive is purged by a deletion outside the lock, or by a removal     *)
(* whose environments Candlepin has already forgotten.                      *)
PurgedLast ==
  /\ \A v \in Versions, r \in Repos : archive[v][r] = "gone" =>
       \/ deletion # NoTask /\ deletion.version = v
       \/ Removal /\ v \in task.removed /\ task.cpDrops = {}
  /\ Removal => \A e \in task.targets : e \in task.cpDrops \/ e \notin cpEnv

(* Every step preserves PurgedLast. *)
LEMMA PurgedLastStep ==
  ASSUME IInv, PurgedLast, [Next]_vars
  PROVE  PurgedLast'
<1> USE ViewAssumption
<1>0. task' \in Tasks \cup {NoTask}
  BY NextInvariant DEF IInv, TypeOK
<1>1. CASE \E S \in SUBSET Repos : SelectRepos(S)
  BY <1>1 DEF SelectRepos, content, cp, counters, PurgedLast, Removal, Running
<1>2. CASE \E skip, force \in BOOLEAN, targets \in SUBSET (Envs \ {Library}) :
             PublishPlan(skip, targets, force)
  <2> PICK skip \in BOOLEAN, force \in BOOLEAN, targets \in SUBSET (Envs \ {Library}) :
             PublishPlan(skip, targets, force)
    BY <1>2
  <2>1. task = NoTask /\ task'.action = "publish"
    BY DEF PublishPlan
  <2>2. /\ nextVersion \in Versions
        /\ archive' = [archive EXCEPT ![nextVersion] =
                         [r \in Repos |-> IF r \in selected THEN "empty" ELSE "none"]]
        /\ UNCHANGED <<directDeletes, deletion>>
    BY DEF PublishPlan, counters, IInv, TypeOK
  <2>3. \A v \in Versions, r \in Repos : archive'[v][r] = "gone" => archive[v][r] = "gone"
    BY <2>2 DEF IInv, TypeOK
  <2> QED BY <2>1, <2>2, <2>3 DEF PurgedLast, Removal, Running
<1>3. CASE \E v \in Versions, targets \in SUBSET Envs, force \in BOOLEAN :
             PromotePlan(v, targets, force)
  BY <1>3 DEF PromotePlan, counters, PurgedLast, Removal, Running
<1>4. CASE \E envs \in SUBSET Envs, doomed \in SUBSET Versions,
              refuge \in Envs \cup {Elsewhere}, whole \in BOOLEAN :
             RemovePlan(envs, doomed, refuge, whole)
  BY <1>4 DEF RemovePlan, content, counters, PurgedLast, Removal, Running
<1>5. CASE RunStep
  <2>1. CASE \E r \in Repos : FillArchive(r)
    <3> PICK r \in Repos : FillArchive(r)
      BY <2>1
    <3>1. task # NoTask /\ task \in Tasks /\ Promotion /\ task.version \in Versions
      BY DEF FillArchive, IInv, TypeOK, TaskInBounds, Promotion, Removal, Running, Tasks
    <3>2. task'.action = task.action /\ ~Removal /\ ~Removal'
      BY <3>1 DEF FillArchive, Promotion, Removal, Running, Tasks
    <3>3. \A v \in Versions, q \in Repos : archive'[v][q] = "gone" => archive[v][q] = "gone"
      BY <3>1 DEF FillArchive, IInv, TypeOK
    <3> QED BY <3>2, <3>3 DEF FillArchive, unplanned, counters, PurgedLast
  <2>2. CASE \E e \in Envs, r \in Repos : CloneToEnvironment(e, r) \/ DropClone(e, r)
    <3> PICK e \in Envs, r \in Repos : CloneToEnvironment(e, r) \/ DropClone(e, r)
      BY <2>2
    <3>1. task # NoTask /\ task \in Tasks
      BY DEF CloneToEnvironment, DropClone, IInv, TypeOK
    <3>2. /\ task'.action = task.action /\ task'.removed = task.removed
          /\ task'.targets = task.targets /\ task'.cpDrops = task.cpDrops
      BY <3>1 DEF CloneToEnvironment, DropClone, Tasks
    <3>3. UNCHANGED <<archive, cpEnv, deletion, directDeletes>> /\ task' # NoTask
      BY <3>1, NoTaskAssumption, <1>0
         DEF CloneToEnvironment, DropClone, cp, unplanned, counters, Tasks
    <3> QED BY <3>1, <3>2, <3>3 DEF PurgedLast, Removal, Running
  <2>3. CASE \E e \in Envs : DropCandlepin(e)
    <3> PICK e \in Envs : DropCandlepin(e)
      BY <2>3
    <3>1. task # NoTask /\ task \in Tasks
      BY DEF DropCandlepin, IInv, TypeOK
    <3>2. /\ task'.action = task.action /\ task'.removed = task.removed
          /\ task'.targets = task.targets /\ task'.cpDrops = task.cpDrops \ {e}
          /\ cpEnv' = cpEnv \ {e} /\ task.cpDrops # {}
          /\ UNCHANGED <<archive, deletion, directDeletes>>
      BY <3>1 DEF DropCandlepin, content, unplanned, counters, Tasks
    <3>3. task' # NoTask
      BY <3>1, NoTaskAssumption DEF DropCandlepin, Tasks
    <3> QED BY <3>1, <3>2, <3>3 DEF PurgedLast, Removal, Running
  <2>4. CASE \E v \in Versions, r \in Repos : PurgeArchive(v, r)
    <3> PICK v \in Versions, r \in Repos : PurgeArchive(v, r)
      BY <2>4
    <3>1. task # NoTask /\ task \in Tasks /\ Removal /\ v \in task.removed
      BY DEF PurgeArchive, IInv, TypeOK, TaskInBounds, Promotion, Removal, Running, Tasks
    <3>2. /\ task'.action = task.action /\ task'.removed = task.removed
          /\ task'.targets = task.targets /\ task'.cpDrops = task.cpDrops
          /\ task.cpDrops = {} /\ UNCHANGED <<cpEnv, deletion, directDeletes>>
      BY <3>1 DEF PurgeArchive, cp, unplanned, counters, Tasks
    <3>3. task' # NoTask
      BY <3>1, NoTaskAssumption DEF PurgeArchive, Tasks
    <3>4. \A w \in Versions, q \in Repos : w # v => archive'[w][q] = archive[w][q]
      BY DEF PurgeArchive, IInv, TypeOK
    <3> QED BY <3>1, <3>2, <3>3, <3>4 DEF PurgedLast, Removal, Running
  <2> QED BY <1>5, <2>1, <2>2, <2>3, <2>4 DEF RunStep
<1>6. CASE FinalizePromotion
  BY <1>6 DEF FinalizePromotion, Promoting, counters, PurgedLast, Removal, Running
<1>7. CASE \/ \E told \in SUBSET Envs : FinalizeFails(told)
           \/ \E told \in SUBSET Envs, h \in openHistory : OwnFinalizeSkipped(h, told)
  BY <1>7 DEF FinalizeFails, OwnFinalizeSkipped, content, PurgedLast, Removal, Running
<1>8. CASE FinalizeRemoval
  <2>1. archive' = [v \in Versions |-> IF v \in task.removed THEN [r \in Repos |-> "none"]
                                        ELSE archive[v]]
    BY <1>8 DEF FinalizeRemoval
  <2>2. \A v \in Versions, r \in Repos : archive'[v][r] = "gone" =>
          archive[v][r] = "gone" /\ v \notin task.removed
    <3> SUFFICES ASSUME NEW v \in Versions, NEW r \in Repos, archive'[v][r] = "gone"
                 PROVE  archive[v][r] = "gone" /\ v \notin task.removed
      OBVIOUS
    <3>1. CASE v \in task.removed
      BY <2>1, <3>1
    <3>2. CASE v \notin task.removed
      BY <2>1, <3>2
    <3> QED BY <3>1, <3>2
  <2>3. task' = NoTask /\ deletion' = deletion
    BY <1>8 DEF FinalizeRemoval
  <2> QED BY <2>2, <2>3 DEF PurgedLast, Removal, Running
<1>9. CASE DirectFinalize \/ (\E v \in Versions : DirectDeletePlan(v))
           \/ \E r \in Repos : DirectPurge(r)
  <2>1. task' = task /\ cpEnv' = cpEnv
    BY <1>9 DEF DirectFinalize, DirectDeletePlan, DirectPurge, cp
  <2>2. CASE DirectFinalize
    <3>1. deletion # NoTask /\ deletion.version \in Versions
      BY <2>2 DEF DirectFinalize, IInv, TypeOK, Deletions
    <3>2. \A v \in Versions, r \in Repos : archive'[v][r] = "gone" =>
            archive[v][r] = "gone" /\ v # deletion.version
      BY <2>2, <3>1 DEF DirectFinalize, IInv, TypeOK
    <3> QED BY <2>1, <3>2 DEF PurgedLast, Removal, Running
  <2>3. CASE \E v \in Versions : DirectDeletePlan(v)
    BY <2>1, <2>3 DEF DirectDeletePlan, content, PurgedLast, Removal, Running
  <2>4. CASE \E r \in Repos : DirectPurge(r)
    <3> PICK r \in Repos : DirectPurge(r)
      BY <2>4
    <3>1. /\ deletion \in Deletions /\ deletion # NoTask
          /\ archive' = [archive EXCEPT ![deletion.version][r] = "gone"]
          /\ deletion' = [deletion EXCEPT !.purges = @ \ {r}]
      BY DEF DirectPurge, IInv, TypeOK
    <3>2. deletion'.version = deletion.version /\ deletion' \in Deletions
      BY <3>1 DEF Deletions
    <3>3. deletion' # NoTask
      BY <3>2, NoTaskAssumption
    <3>4. \A v \in Versions, q \in Repos : archive'[v][q] = "gone" =>
            archive[v][q] = "gone" \/ v = deletion.version
      BY <3>1 DEF IInv, TypeOK, Deletions
    <3> QED BY <2>1, <3>2, <3>3, <3>4 DEF PurgedLast, Removal, Running
  <2> QED BY <1>9, <2>2, <2>3, <2>4
<1>10. CASE (\E h \in Hosts, e \in Envs : AssignHost(h, e)) \/ \E h \in Hosts : LeaveView(h)
  BY <1>10 DEF AssignHost, LeaveView, content, cp, counters, PurgedLast, Removal, Running
<1>11. CASE UNCHANGED vars
  BY <1>11 DEF vars, content, cp, counters, PurgedLast, Removal, Running
<1> QED BY <1>1, <1>2, <1>3, <1>4, <1>5, <1>6, <1>7, <1>8, <1>9, <1>10, <1>11 DEF Next

(* An archive that an environment is served from is purged by a deletion    *)
(* outside the lock or not at all, and that deletion is still there.        *)
THEOREM PurgedInUseOnlyByDeletion == Spec => []PurgedInUseIsBeingDeleted
<1>1. Init => PurgedLast
  BY DEF Init, PurgedLast, Removal, Running
<1>2. IInv /\ PurgedLast /\ [Next]_vars => PurgedLast'
  BY PurgedLastStep
<1>3. IInv /\ PurgedLast => PurgedInUseIsBeingDeleted
  <2> SUFFICES ASSUME IInv, PurgedLast, NEW v \in Versions, NEW e \in cpEnv, cve[e] = v,
                      NEW r \in Repos, archive[v][r] = "gone",
                      ~(deletion # NoTask /\ deletion.version = v)
               PROVE  FALSE
    BY DEF PurgedInUseIsBeingDeleted, InUse, Purged
  <2>1. e \in Envs
    BY DEF IInv, TypeOK
  <2>2. Removal /\ v \in task.removed /\ task.cpDrops = {}
    BY DEF PurgedLast
  <2>3. e \in task.targets
    BY <2>1, <2>2 DEF IInv, TaskInBounds
  <2> QED BY <2>2, <2>3 DEF PurgedLast
<1> QED BY <1>1, <1>2, <1>3, InductiveInvariant, PTL DEF Spec
=============================================================================
