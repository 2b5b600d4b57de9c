--------------------------- MODULE AsyncTaskProofs ---------------------------
(***************************************************************************)
(* Proofs about AsyncTask: an action that succeeds ends with all that Pulp  *)
(* did for it, and work is asked for again only after a failure, for any    *)
(* parts, retries, requests, subtasks, scheduled polls and faults.          *)
(***************************************************************************)
EXTENDS AsyncTask, TLAPS

(* What has not been requested does not exist. *)
Unborn == \A i \in Ids : Request(i) > starts =>
            pulp[i] = "none" /\ made[i] = 0 /\ open[i] = 0 /\ i \notin spoiled

GroupsMade == \A i \in Ids : open[i] > 0 \/ i \in spoiled => made[i] > 0

(* What an output says of ended tasks, of their groups and of groups that   *)
(* failed is so, and it tracks the tasks or the groups of its request.      *)
KnownBy(w, st, pu, ma, sp) ==
  \A i \in Ids :
    /\ w.tasks[i] \in Final => pu[i] = w.tasks[i] /\ (ma[i] > 0 => i \in w.hrefs)
    /\ w.groups[i] = "bad" => i \in sp
    /\ w.groups[i] # "none" \/ i \in w.hrefs => Request(i) <= st
    /\ w.tasks[i] # "none" => Request(i) = w.start
    /\ Request(i) = w.start /\ w.tasks[i] = "none" => pu[i] = "none"
    /\ Request(i) = w.start /\ pu[i] = "none" /\ ma[i] > 0 => w.groups[i] # "none"

Known(w) == w.start <= starts /\ KnownBy(w, starts, pulp, made, spoiled)

(* Which request a run reads, and in which stages it is. *)
Shape ==
  /\ stage \in Reading => /\ starts > 0
                          /\ work.start = IF mode = "start" THEN starts ELSE out.start
  /\ stage \in {"suspended", "cancel"} => starts > 0
  /\ stage \in {"check", "recheck"} => mode \in {"poll", "resume"} /\ blind
  /\ stage = "invoke" => mode = "start"

(* What a run reads is tracked. *)
ReadsTracked ==
  /\ stage \in {"tasks", "check"} => toRead \subseteq Tasks(work)
  /\ stage \in {"groups", "found", "recheck"} => toRead \subseteq Groups(work)

(* A group that was read after its task had ended is complete, and so is    *)
(* the set of groups once the found ones were added.                        *)
Complete(i) == work.groups[i] = "done" /\ work.tasks[i] \in Final \cup {"none"} =>
                 open[i] = 0 /\ i \notin spoiled

ReadsInOrder ==
  \A i \in Ids : Request(i) = work.start =>
    /\ stage = "tasks" /\ mode = "start" => work.groups[i] \in {"none", "unread"}
    /\ stage \in {"groups", "found"} /\ i \notin toRead => Complete(i)
    /\ stage = "found" /\ work.groups[i] = "none" => i \notin work.hrefs

(* Why another request may follow the requests up to n. *)
Excusable(n) == n \in excused \/ \E k \in 1..n : Broken(k)

Requests ==
  /\ stage = "invoke" /\ starts > 0 => Excusable(starts)
  /\ out.start # starts /\ ~(stage \in Reading /\ mode = "start") => starts = 0 \/ Excusable(starts)

IInv ==
  /\ TypeOK /\ Unborn /\ GroupsMade
  /\ Known(out) /\ Known(work)
  /\ Shape /\ ReadsTracked /\ ReadsInOrder /\ Requests
  /\ EndsWithTasks /\ StartedAgainOnlyIfBad

(* What Pulp does to what has been requested. *)
Forward ==
  \A i \in Ids : Request(i) <= starts =>
    /\ pulp[i] \in Final => pulp'[i] = pulp[i]
    /\ pulp[i] = "none" <=> pulp'[i] = "none"
    /\ made'[i] > 0 => made[i] > 0 \/ pulp[i] = "running"
    /\ i \in spoiled => i \in spoiled'
    /\ pulp[i] # "running" /\ open[i] = 0 =>
         pulp'[i] # "running" /\ open'[i] = 0 /\ (i \in spoiled' => i \in spoiled)

(* The types of the variables, without what the output tracks. *)
Typed ==
  /\ pulp \in [Ids -> {"none", "running"} \cup Final]
  /\ made \in [Ids -> Nat] /\ open \in [Ids -> Nat]
  /\ spoiled \subseteq Ids
  /\ starts \in 0..MaxStarts
  /\ stage \in {"begin", "suspended"} \cup Running \cup Ended
  /\ mode \in {"start", "poll", "resume", "cancel"}
  /\ out \in Outputs /\ work \in Outputs
  /\ toRead \subseteq Ids
  /\ pings \in Nat
  /\ faults \in 0..MaxFaults
  /\ blind \in BOOLEAN
  /\ excused \subseteq 1..MaxStarts

LEMMA TypeIsTyped == TypeOK => Typed
BY DEF TypeOK, Typed

LEMMA TypedIsType == Typed /\ Known(out) => TypeOK
BY DEF TypeOK, Typed, Known, KnownBy

LEMMA RequestRange == \A i \in Ids : Request(i) \in 1..MaxStarts
BY DEF Ids, Request

TaskStates == {"none", "unread", "running"} \cup Final
GroupStates == {"none", "unread", "open", "done", "bad"}

-----------------------------------------------------------------------------
(* The outputs the actions make of an output w. *)

LEMMA Fields ==
  ASSUME NEW w \in Outputs
  PROVE  /\ w.start \in 0..MaxStarts /\ w.tasks \in [Ids -> TaskStates]
         /\ w.hrefs \subseteq Ids /\ w.groups \in [Ids -> GroupStates] /\ w.failed \in Nat
BY DEF Outputs, TaskStates, GroupStates

LEMMA EmptyOutput == /\ Empty \in Outputs /\ Empty.start = 0 /\ Empty.hrefs = {}
                     /\ \A i \in Ids : Empty.tasks[i] = "none" /\ Empty.groups[i] = "none"
BY AsyncAssumption DEF Empty, Outputs

LEMMA WithFailed ==
  ASSUME NEW w \in Outputs, NEW n \in Nat
  PROVE  LET r == [w EXCEPT !.failed = n]
         IN r \in Outputs /\ r.start = w.start /\ r.tasks = w.tasks /\ r.hrefs = w.hrefs /\ r.groups = w.groups
BY DEF Outputs

LEMMA WithTask ==
  ASSUME NEW w \in Outputs, NEW i \in Ids, NEW v \in TaskStates
  PROVE  LET r == [w EXCEPT !.tasks[i] = v]
         IN /\ r \in Outputs /\ r.start = w.start /\ r.hrefs = w.hrefs /\ r.groups = w.groups
            /\ r.failed = w.failed
            /\ \A j \in Ids : r.tasks[j] = IF j = i THEN v ELSE w.tasks[j]
<1> DEFINE t == [w.tasks EXCEPT ![i] = v]
           r == [w EXCEPT !.tasks = t]
<1>1. t \in [Ids -> TaskStates] /\ \A j \in Ids : t[j] = IF j = i THEN v ELSE w.tasks[j]
  BY Fields
<1> HIDE DEF t
<1>2. r \in Outputs /\ r.start = w.start /\ r.hrefs = w.hrefs /\ r.groups = w.groups /\ r.tasks = t
      /\ r.failed = w.failed
  BY <1>1 DEF Outputs, TaskStates
<1> QED
  BY <1>1, <1>2 DEF t

(* The output w after task i was read. *)
TaskRead(w, i, v, h) == [w EXCEPT !.tasks[i] = v, !.hrefs = h]

LEMMA WithTaskRead ==
  ASSUME NEW w \in Outputs, NEW i \in Ids, NEW v \in TaskStates, NEW h \in SUBSET Ids
  PROVE  LET r == TaskRead(w, i, v, h)
         IN /\ r \in Outputs /\ r.start = w.start /\ r.groups = w.groups /\ r.hrefs = h
            /\ \A j \in Ids : r.tasks[j] = IF j = i THEN v ELSE w.tasks[j]
<1> DEFINE t == [w.tasks EXCEPT ![i] = v]
           r == [w EXCEPT !.tasks = t, !.hrefs = h]
<1>1. t \in [Ids -> TaskStates] /\ \A j \in Ids : t[j] = IF j = i THEN v ELSE w.tasks[j]
  BY Fields
<1> HIDE DEF t
<1>2. r \in Outputs /\ r.start = w.start /\ r.hrefs = h /\ r.groups = w.groups /\ r.tasks = t
  BY <1>1 DEF Outputs, TaskStates
<1> QED
  BY <1>1, <1>2 DEF t, TaskRead

LEMMA WithGroup ==
  ASSUME NEW w \in Outputs, NEW i \in Ids, NEW v \in GroupStates
  PROVE  LET r == [w EXCEPT !.groups[i] = v]
         IN /\ r \in Outputs /\ r.start = w.start /\ r.hrefs = w.hrefs /\ r.tasks = w.tasks
            /\ r.failed = w.failed
            /\ \A j \in Ids : r.groups[j] = IF j = i THEN v ELSE w.groups[j]
<1> DEFINE g == [w.groups EXCEPT ![i] = v]
           r == [w EXCEPT !.groups = g]
<1>1. g \in [Ids -> GroupStates] /\ \A j \in Ids : g[j] = IF j = i THEN v ELSE w.groups[j]
  BY Fields
<1> HIDE DEF g
<1>2. r \in Outputs /\ r.start = w.start /\ r.hrefs = w.hrefs /\ r.groups = g /\ r.tasks = w.tasks
      /\ r.failed = w.failed
  BY <1>1 DEF Outputs, GroupStates
<1> QED
  BY <1>1, <1>2 DEF g

LEMMA WithFound ==
  ASSUME NEW w \in Outputs
  PROVE  LET r == [w EXCEPT !.groups = [i \in Ids |-> IF i \in Found(w) THEN "unread" ELSE @[i]]]
         IN /\ r \in Outputs /\ r.start = w.start /\ r.hrefs = w.hrefs /\ r.tasks = w.tasks
            /\ \A j \in Ids : r.groups[j] = IF j \in Found(w) THEN "unread" ELSE w.groups[j]
<1> DEFINE g == [i \in Ids |-> IF i \in Found(w) THEN "unread" ELSE w.groups[i]]
           r == [w EXCEPT !.groups = g]
<1>1. g \in [Ids -> GroupStates] /\ \A j \in Ids : g[j] = IF j \in Found(w) THEN "unread" ELSE w.groups[j]
  BY Fields DEF GroupStates
<1> HIDE DEF g
<1>2. r \in Outputs /\ r.start = w.start /\ r.hrefs = w.hrefs /\ r.groups = g /\ r.tasks = w.tasks
  BY <1>1 DEF Outputs, GroupStates
<1> QED
  BY <1>1, <1>2 DEF g

LEMMA AnsweredOutput ==
  ASSUME work \in Outputs, starts \in Nat, starts < MaxStarts, NEW ids, NEW asGroup \in BOOLEAN
  PROVE  LET r == Answered(ids, asGroup)
         IN /\ r \in Outputs /\ r.start = starts + 1 /\ r.hrefs = {}
            /\ \A i \in Ids : r.tasks[i] = IF i \in ids /\ ~asGroup THEN "unread" ELSE "none"
            /\ \A i \in Ids : r.groups[i] = IF i \in ids /\ asGroup THEN "unread" ELSE work.groups[i]
<1> DEFINE t == [i \in Ids |-> IF i \in ids /\ ~asGroup THEN "unread" ELSE "none"]
           g == [i \in Ids |-> IF i \in ids /\ asGroup THEN "unread" ELSE work.groups[i]]
           r == [work EXCEPT !.start = starts + 1, !.tasks = t, !.hrefs = {}, !.groups = g]
<1>1. t \in [Ids -> TaskStates] /\ \A j \in Ids : t[j] = IF j \in ids /\ ~asGroup THEN "unread" ELSE "none"
  BY DEF TaskStates
<1>2. g \in [Ids -> GroupStates] /\ \A j \in Ids : g[j] = IF j \in ids /\ asGroup THEN "unread" ELSE work.groups[j]
  BY Fields DEF GroupStates
<1>3. Answered(ids, asGroup) = r
  BY DEF Answered
<1> HIDE DEF t, g
<1>4. starts + 1 \in 0..MaxStarts
  BY AsyncAssumption
<1>5. r \in Outputs /\ r.start = starts + 1 /\ r.hrefs = {} /\ r.groups = g /\ r.tasks = t
  BY <1>1, <1>2, <1>4 DEF Outputs, TaskStates, GroupStates
<1> HIDE DEF r
<1> QED
  BY <1>1, <1>2, <1>3, <1>5

-----------------------------------------------------------------------------
(* Pulp. *)

Old == starts' \in Nat /\ starts <= starts' /\ Forward

LEMMA NewIdsAre == \A i \in Ids : i \in NewIds <=> Request(i) = starts + 1
BY DEF NewIds

LEMMA AcceptKeeps ==
  ASSUME Typed, Unborn, GroupsMade, NEW asGroup \in BOOLEAN, Accept(NewIds, asGroup)
  PROVE  /\ Unborn' /\ GroupsMade' /\ Old
         /\ starts' = starts + 1 /\ starts < MaxStarts /\ spoiled' = spoiled
         /\ pulp' \in [Ids -> {"none", "running"} \cup Final]
         /\ made' \in [Ids -> Nat] /\ open' \in [Ids -> Nat]
         /\ \A i \in Ids : Request(i) <= starts => pulp'[i] = pulp[i] /\ made'[i] = made[i]
         /\ \A i \in Ids : Request(i) = starts + 1 => pulp'[i] = IF asGroup THEN "none" ELSE "running"
<1>0. starts \in 0..MaxStarts /\ starts < MaxStarts /\ starts' = starts + 1 /\ spoiled' = spoiled
      /\ MaxStarts \in Nat
  BY AsyncAssumption DEF Typed, Accept
<1>1. \A i \in Ids : Request(i) \in 1..MaxStarts
  BY RequestRange
<1>2. \A i \in Ids : i \in NewIds <=> Request(i) = starts + 1
  BY NewIdsAre
<1>3. CASE asGroup
  <2>1. /\ pulp' = pulp
        /\ made' = [i \in Ids |-> IF i \in NewIds THEN 1 ELSE made[i]]
        /\ open' = [i \in Ids |-> IF i \in NewIds THEN 1 ELSE open[i]]
    BY <1>3 DEF Accept
  <2>2. \A i \in Ids : /\ made'[i] = IF Request(i) = starts + 1 THEN 1 ELSE made[i]
                       /\ open'[i] = IF Request(i) = starts + 1 THEN 1 ELSE open[i]
    BY <1>2, <2>1
  <2>3. made' \in [Ids -> Nat] /\ open' \in [Ids -> Nat]
    BY <2>1 DEF Typed
  <2>4. Unborn' /\ GroupsMade'
    BY <1>0, <1>1, <2>1, <2>2 DEF Unborn, GroupsMade
  <2>5. Old
    BY <1>0, <1>1, <2>1, <2>2 DEF Old, Forward, Typed
  <2> QED
    BY <1>0, <1>1, <1>3, <2>1, <2>2, <2>3, <2>4, <2>5 DEF Typed, Unborn
<1>4. CASE ~asGroup
  <2>1. /\ pulp' = [i \in Ids |-> IF i \in NewIds THEN "running" ELSE pulp[i]]
        /\ made' = made /\ open' = open
    BY <1>4 DEF Accept, Requested
  <2>2. \A i \in Ids : pulp'[i] = IF Request(i) = starts + 1 THEN "running" ELSE pulp[i]
    BY <1>2, <2>1
  <2>3. pulp' \in [Ids -> {"none", "running"} \cup Final]
    BY <2>1 DEF Typed
  <2>4. Unborn' /\ GroupsMade'
    BY <1>0, <1>1, <2>1, <2>2 DEF Unborn, GroupsMade
  <2>5. Old
    BY <1>0, <1>1, <2>1, <2>2 DEF Old, Forward, Typed
  <2> QED
    BY <1>0, <1>1, <1>4, <2>1, <2>2, <2>3, <2>4, <2>5 DEF Typed
<1> QED
  BY <1>3, <1>4

LEMMA PulpStepKeeps ==
  ASSUME Typed, Unborn, GroupsMade, NEW i \in Ids, PulpStep(i)
  PROVE  Typed' /\ Unborn' /\ GroupsMade' /\ Old
<1>0. starts \in 0..MaxStarts /\ MaxStarts \in Nat /\ starts' = starts
  BY AsyncAssumption DEF Typed, PulpStep, Dispatch, TaskEnds, SubtaskEnds
<1>1. \A j \in Ids : Request(j) \in 1..MaxStarts
  BY RequestRange
<1>2. CASE Dispatch(i)
  <2>1. \A j \in Ids : /\ made'[j] = IF j = i THEN made[i] + 1 ELSE made[j]
                       /\ open'[j] = IF j = i THEN open[i] + 1 ELSE open[j]
    BY <1>2 DEF Dispatch, Typed
  <2>2. pulp' = pulp /\ spoiled' = spoiled /\ (pulp[i] = "running" \/ open[i] > 0)
    BY <1>2 DEF Dispatch
  <2>3. made[i] \in Nat /\ open[i] \in Nat
    BY DEF Typed
  <2>4. Typed'
    BY <1>2, <2>3 DEF Dispatch, Typed, runVars
  <2>5. Unborn' /\ GroupsMade'
    BY <1>0, <2>1, <2>2, <2>3 DEF Unborn, GroupsMade
  <2>6. Old
    BY <1>0, <2>1, <2>2, <2>3 DEF Old, Forward, GroupsMade
  <2> QED
    BY <2>4, <2>5, <2>6
<1>3. CASE TaskEnds(i)
  <2>1. PICK v \in Final : pulp' = [pulp EXCEPT ![i] = v]
    BY <1>3 DEF TaskEnds, Final
  <2>2. /\ pulp[i] = "running" /\ made' = made /\ open' = open /\ spoiled' = spoiled
        /\ \A j \in Ids : pulp'[j] = IF j = i THEN v ELSE pulp[j]
    BY <1>3, <2>1 DEF TaskEnds, Typed
  <2>3. faults' \in 0..MaxFaults
    BY <1>3, AsyncAssumption DEF TaskEnds, Fault, Typed
  <2>4. Typed'
    BY <1>3, <2>1, <2>3 DEF TaskEnds, Typed, runVars
  <2>5. Unborn' /\ GroupsMade'
    BY <1>0, <2>2 DEF Unborn, GroupsMade
  <2>6. Old
    BY <1>0, <2>2 DEF Old, Forward, Final
  <2> QED
    BY <2>4, <2>5, <2>6
<1>4. CASE SubtaskEnds(i)
  <2>1. /\ open[i] \in Nat /\ open[i] > 0 /\ made' = made /\ pulp' = pulp
        /\ \A j \in Ids : open'[j] = IF j = i THEN open[i] - 1 ELSE open[j]
        /\ spoiled' = spoiled \/ spoiled' = spoiled \cup {i}
    BY <1>4 DEF SubtaskEnds, Typed
  <2>2. faults' \in 0..MaxFaults
    BY <1>4, AsyncAssumption DEF SubtaskEnds, Fault, Typed
  <2>3. open' \in [Ids -> Nat]
    BY <1>4, <2>1 DEF SubtaskEnds, Typed
  <2>4. Typed'
    BY <1>4, <2>1, <2>2, <2>3 DEF SubtaskEnds, Typed, runVars
  <2>5. Unborn' /\ GroupsMade'
    BY <1>0, <2>1 DEF Unborn, GroupsMade
  <2>6. Old
    BY <1>0, <2>1 DEF Old, Forward, Typed
  <2> QED
    BY <2>4, <2>5, <2>6
<1> QED
  BY <1>2, <1>3, <1>4 DEF PulpStep

LEMMA QuietKeeps ==
  ASSUME Typed, Unborn, GroupsMade, UNCHANGED <<pulpVars, starts>>
  PROVE  Unborn' /\ GroupsMade' /\ Old
<1>1. pulp' = pulp /\ made' = made /\ open' = open /\ spoiled' = spoiled /\ starts' = starts
  BY DEF pulpVars
<1>2. starts \in Nat
  BY DEF Typed
<1> QED
  BY <1>1, <1>2 DEF Unborn, GroupsMade, Old, Forward

LEMMA CancelTasksKeeps ==
  ASSUME Typed, Unborn, GroupsMade, CancelTasks
  PROVE  Typed' /\ Unborn' /\ GroupsMade' /\ Old
<1>0. starts \in 0..MaxStarts /\ MaxStarts \in Nat /\ starts' = starts
  BY AsyncAssumption DEF Typed, CancelTasks
<1>1. PICK S \in SUBSET {i \in Tasks(out) : pulp[i] = "running"} :
        pulp' = [i \in Ids |-> IF i \in S THEN "failed" ELSE pulp[i]]
  BY DEF CancelTasks
<1>2. /\ made' = made /\ open' = open /\ spoiled' = spoiled
      /\ \A i \in Ids : pulp'[i] = pulp[i] \/ (pulp[i] = "running" /\ pulp'[i] = "failed")
  BY <1>1 DEF CancelTasks
<1>3. Typed'
  BY <1>1 DEF CancelTasks, Typed, Running, Final
<1>4. Unborn' /\ GroupsMade'
  BY <1>0, <1>2 DEF Unborn, GroupsMade
<1>5. Old
  BY <1>0, <1>2 DEF Old, Forward, Final
<1> QED
  BY <1>3, <1>4, <1>5

LEMMA CancelGroupsKeeps ==
  ASSUME Typed, Unborn, GroupsMade, CancelGroups
  PROVE  Typed' /\ Unborn' /\ GroupsMade' /\ Old
<1>0. starts \in 0..MaxStarts /\ MaxStarts \in Nat /\ starts' = starts
  BY AsyncAssumption DEF Typed, CancelGroups
<1>1. PICK S \in SUBSET {i \in Groups(out) : open[i] > 0} :
        spoiled' = spoiled \cup S /\ open' = [i \in Ids |-> IF i \in S THEN 0 ELSE open[i]]
  BY DEF CancelGroups
<1>2. /\ made' = made /\ pulp' = pulp
      /\ \A i \in Ids : \/ open'[i] = open[i] /\ (i \in spoiled' <=> i \in spoiled)
                        \/ open[i] > 0 /\ open'[i] = 0 /\ i \in spoiled'
  BY <1>1 DEF CancelGroups
<1>3. Tasks(out) \subseteq Ids /\ S \subseteq Ids
  BY <1>1 DEF Tasks, Groups
<1>4. Typed'
  BY <1>1, <1>3 DEF CancelGroups, PollExternalTask, Typed, Running, Reading
<1>5. Unborn' /\ GroupsMade'
  BY <1>0, <1>2 DEF Unborn, GroupsMade, Typed
<1>6. Old
  BY <1>0, <1>2 DEF Old, Forward, Typed
<1> QED
  BY <1>4, <1>5, <1>6

-----------------------------------------------------------------------------
(* What stays so while Pulp moves on. *)

LEMMA KnownKept ==
  ASSUME Typed, Old, NEW w \in Outputs, Known(w)
  PROVE  w.start <= starts' /\ KnownBy(w, starts', pulp', made', spoiled')
<1>1. starts \in Nat /\ starts' \in Nat /\ starts <= starts' /\ w.start \in Nat /\ w.start <= starts
  BY Fields DEF Typed, Old, Known
<1>2. \A i \in Ids : Request(i) \in Nat
  BY RequestRange
<1>3. \A i \in Ids : Request(i) <= starts => Request(i) <= starts'
  BY <1>1, <1>2
<1> SUFFICES ASSUME NEW i \in Ids
    PROVE  /\ w.tasks[i] \in Final => pulp'[i] = w.tasks[i] /\ (made'[i] > 0 => i \in w.hrefs)
           /\ w.groups[i] = "bad" => i \in spoiled'
           /\ w.groups[i] # "none" \/ i \in w.hrefs => Request(i) <= starts'
           /\ w.tasks[i] # "none" => Request(i) = w.start
           /\ Request(i) = w.start /\ w.tasks[i] = "none" => pulp'[i] = "none"
           /\ Request(i) = w.start /\ pulp'[i] = "none" /\ made'[i] > 0 => w.groups[i] # "none"
  BY <1>1 DEF KnownBy
<1>4. /\ w.tasks[i] \in Final => pulp[i] = w.tasks[i] /\ (made[i] > 0 => i \in w.hrefs)
      /\ w.groups[i] = "bad" => i \in spoiled
      /\ w.groups[i] # "none" \/ i \in w.hrefs => Request(i) <= starts
      /\ w.tasks[i] # "none" => Request(i) = w.start
      /\ Request(i) = w.start /\ w.tasks[i] = "none" => pulp[i] = "none"
      /\ Request(i) = w.start /\ pulp[i] = "none" /\ made[i] > 0 => w.groups[i] # "none"
  BY DEF Known, KnownBy
<1>5. Request(i) <= starts =>
        /\ pulp[i] \in Final => pulp'[i] = pulp[i]
        /\ pulp[i] = "none" <=> pulp'[i] = "none"
        /\ made'[i] > 0 => made[i] > 0 \/ pulp[i] = "running"
        /\ i \in spoiled => i \in spoiled'
  BY DEF Old, Forward
<1>6. Request(i) = w.start => Request(i) <= starts
  BY <1>1
<1>7. w.tasks[i] \in Final => w.tasks[i] # "none" /\ w.tasks[i] # "running"
  BY DEF Final
<1> QED
  BY <1>3, <1>4, <1>5, <1>6, <1>7

LEMMA ExcusableKept ==
  ASSUME Typed, Old, excused \subseteq excused', NEW n \in Nat, n <= starts, Excusable(n)
  PROVE  Excusable(n)'
<1>1. CASE n \in excused
  BY <1>1 DEF Excusable
<1>2. CASE \E k \in 1..n : Broken(k)
  <2>1. PICK k \in 1..n : Broken(k)
    BY <1>2
  <2>2. PICK i \in Ids : Request(i) = k /\ (pulp[i] = "failed" \/ i \in spoiled)
    BY <2>1 DEF Broken
  <2>3. Request(i) <= starts
    BY <2>1, <2>2 DEF Typed
  <2>4. pulp'[i] = "failed" \/ i \in spoiled'
    BY <2>2, <2>3 DEF Old, Forward, Final
  <2>5. Broken(k)'
    BY <2>2, <2>4 DEF Broken
  <2> QED
    BY <2>1, <2>5 DEF Excusable
<1> QED
  BY <1>1, <1>2 DEF Excusable

LEMMA StartedKept ==
  ASSUME Typed, Old, StartedAgainOnlyIfBad, excused \subseteq excused',
         \/ starts' = starts
         \/ starts' = starts + 1 /\ (starts = 0 \/ Excusable(starts))
  PROVE  StartedAgainOnlyIfBad'
<1> SUFFICES ASSUME NEW n \in 1..MaxStarts, n < starts'
             PROVE  Excusable(n)'
  BY DEF StartedAgainOnlyIfBad, Excusable
<1>1. n \in Nat /\ n # 0 /\ n <= starts
  BY DEF Typed
<1>2. CASE n < starts
  <2>1. Excusable(n)
    BY <1>2 DEF StartedAgainOnlyIfBad, Excusable
  <2> QED
    BY <1>1, <2>1, ExcusableKept
<1>3. CASE n = starts
  <2>1. Excusable(n)
    BY <1>1, <1>3 DEF Typed
  <2> QED
    BY <1>1, <2>1, ExcusableKept
<1> QED
  BY <1>1, <1>2, <1>3 DEF Typed

LEMMA EndsKept ==
  ASSUME Typed, Old, Known(out), EndsWithTasks,
         stage' = "success" => stage = "success" /\ out' = out /\ blind' = blind
  PROVE  EndsWithTasks'
<1> SUFFICES ASSUME stage' = "success", NEW i \in Ids, Request(i) = out'.start
             PROVE  /\ pulp'[i] # "running"
                    /\ ~blind' => pulp'[i] # "failed" /\ open'[i] = 0 /\ i \notin spoiled'
  BY DEF EndsWithTasks
<1>1. out' = out /\ blind' = blind /\ Request(i) <= starts
  BY DEF Known
<1>2. pulp[i] # "running" /\ (~blind => pulp[i] # "failed" /\ open[i] = 0 /\ i \notin spoiled)
  BY <1>1 DEF EndsWithTasks
<1>3. pulp[i] \in {"none", "running"} \cup Final
  BY DEF Typed
<1>4. pulp'[i] = pulp[i]
  BY <1>1, <1>2, <1>3 DEF Old, Forward
<1> QED
  BY <1>1, <1>2, <1>4 DEF Old, Forward

(* A group that is complete stays so: nothing dispatches into it any more.  *)
LEMMA CompleteKept ==
  ASSUME Typed, Old, Known(work), NEW i \in Ids, Request(i) = work.start, Complete(i),
         work'.groups[i] = work.groups[i], work'.tasks[i] = work.tasks[i]
  PROVE  Complete(i)'
<1> SUFFICES ASSUME work.groups[i] = "done", work.tasks[i] \in Final \cup {"none"}
             PROVE  open'[i] = 0 /\ i \notin spoiled'
  BY DEF Complete
<1>1. open[i] = 0 /\ i \notin spoiled /\ Request(i) <= starts
  BY DEF Complete, Known
<1>2. pulp[i] # "running"
  BY DEF Known, KnownBy, Final
<1> QED
  BY <1>1, <1>2 DEF Old, Forward

LEMMA EmptyKnown ==
  ASSUME Typed, Old
  PROVE  Empty.start <= starts' /\ KnownBy(Empty, starts', pulp', made', spoiled')
<1>1. \A i \in Ids : Request(i) # Empty.start
  BY RequestRange, EmptyOutput
<1>2. Empty.start <= starts'
  BY EmptyOutput DEF Old
<1> QED
  BY <1>1, <1>2, EmptyOutput DEF KnownBy, Final

(* The end of a run with the output w. *)
LEMMA EndRunKeeps ==
  ASSUME Typed, Old, NEW to \in {"begin", "suspended"} \cup Ended, NEW w, EndRun(to, w),
         w.start <= starts' /\ KnownBy(w, starts', pulp', made', spoiled'),
         to = "suspended" => starts' > 0
  PROVE  Known(out)' /\ Known(work)' /\ Shape' /\ ReadsTracked' /\ ReadsInOrder'
<1>1. stage' = to /\ out' = w /\ work' = Empty /\ toRead' = {}
  BY DEF EndRun
<1>2. Known(out)' /\ Known(work)'
  BY <1>1, EmptyKnown DEF Known
<1>3. to \notin Running
  BY DEF Running, Reading, Ended
<1>4. Shape' /\ ReadsTracked' /\ ReadsInOrder'
  BY <1>1, <1>3 DEF Running, Reading, Shape, ReadsTracked, ReadsInOrder
<1> QED
  BY <1>2, <1>4

LEMMA InitiateKeeps ==
  ASSUME Typed, Old, NEW w, Initiate(w), Known(out),
         w.start <= starts' /\ KnownBy(w, starts', pulp', made', spoiled')
  PROVE  Known(out)' /\ Known(work)' /\ Shape' /\ ReadsTracked' /\ ReadsInOrder'
<1>1. stage' = "invoke" /\ mode' = "start" /\ work' = w /\ toRead' = {} /\ out' = out
  BY DEF Initiate
<1>2. out \in Outputs
  BY DEF Typed
<1>3. Known(out)' /\ Known(work)'
  BY <1>1, <1>2, KnownKept DEF Known
<1>4. Shape' /\ ReadsTracked' /\ ReadsInOrder'
  BY <1>1 DEF Reading, Shape, ReadsTracked, ReadsInOrder
<1> QED
  BY <1>3, <1>4

LEMMA PollKeeps ==
  ASSUME Typed, Old, NEW why \in {"poll", "resume", "cancel"}, PollExternalTask(why), Known(out),
         out' = out, starts > 0
  PROVE  Known(out)' /\ Known(work)' /\ Shape' /\ ReadsTracked' /\ ReadsInOrder'
<1>1. stage' = "tasks" /\ mode' = why /\ work' = out /\ toRead' = Tasks(out) /\ out' = out
  BY DEF PollExternalTask
<1>2. out \in Outputs
  BY DEF Typed
<1>3. Known(out)' /\ Known(work)'
  BY <1>1, <1>2, KnownKept DEF Known
<1>4. starts' > 0
  BY DEF Typed, Old
<1>5. Shape' /\ ReadsTracked' /\ ReadsInOrder'
  BY <1>1, <1>4 DEF Reading, Shape, ReadsTracked, ReadsInOrder, Tasks
<1> QED
  BY <1>3, <1>5

LEMMA RequestsKept ==
  ASSUME Typed, Old, Requests, excused \subseteq excused', starts' = starts,
         stage' = "invoke" /\ starts > 0 => stage = "invoke" \/ Excusable(starts) \/ starts \in excused',
         out'.start = out.start \/ out'.start = starts,
         stage \in Reading /\ mode = "start" =>
           (stage' \in Reading /\ mode' = "start") \/ starts \in excused' \/ out'.start = starts
  PROVE  Requests'
<1>1. starts \in Nat
  BY DEF Typed
<1>2. Excusable(starts) => Excusable(starts)'
  BY <1>1, ExcusableKept
<1>3. starts \in excused' => Excusable(starts)'
  BY DEF Excusable
<1>4. stage' = "invoke" /\ starts > 0 => Excusable(starts)'
  BY <1>2, <1>3 DEF Requests
<1>5. out'.start # starts /\ ~(stage' \in Reading /\ mode' = "start") => starts = 0 \/ Excusable(starts)'
  BY <1>2, <1>3 DEF Requests
<1> QED
  BY <1>4, <1>5 DEF Requests, Excusable

LEMMA Assembled ==
  ASSUME Typed', Unborn', GroupsMade', Known(out)' /\ Known(work)' /\ Shape' /\ ReadsTracked' /\ ReadsInOrder',
         Requests', EndsWithTasks', StartedAgainOnlyIfBad'
  PROVE  IInv'
<1>1. TypeOK'
  BY DEF TypeOK, Typed, Known, KnownBy
<1> QED
  BY <1>1 DEF IInv

LEMMA InvTyped == IInv => Typed
BY TypeIsTyped DEF IInv

(* The stages in which a run reads. *)
LEMMA StageSets ==
  /\ Reading \subseteq Running /\ "invoke" \in Running /\ "cancel" \in Running
  /\ "invoke" \notin Reading /\ "cancel" \notin Reading /\ "suspended" \notin Running /\ "begin" \notin Running
  /\ \A s \in Ended : s \notin Running /\ s # "suspended" /\ s # "begin"
  /\ {"tasks", "groups", "found", "check", "recheck"} = Reading
  /\ {"success", "error", "skipped"} = Ended
BY DEF Reading, Running, Ended

-----------------------------------------------------------------------------
(* Pulp's steps, and those that leave the run where it is. *)

LEMMA StayKeeps ==
  ASSUME IInv, Old, UNCHANGED <<starts, runVars, out, blind>>
  PROVE  Known(out)' /\ Known(work)' /\ Shape' /\ ReadsTracked' /\ ReadsInOrder'
<1> USE InvTyped
<1>1. /\ stage' = stage /\ mode' = mode /\ work' = work /\ toRead' = toRead /\ out' = out
      /\ blind' = blind /\ starts' = starts
  BY DEF runVars
<1>2. out \in Outputs /\ work \in Outputs /\ Known(out) /\ Known(work)
  BY DEF Typed, IInv
<1>3. Known(out)' /\ Known(work)'
  BY <1>1, <1>2, KnownKept DEF Known
<1>4. Shape' /\ ReadsTracked'
  BY <1>1 DEF IInv, Shape, ReadsTracked, Tasks, Groups
<1>5. ReadsInOrder'
  <2> SUFFICES ASSUME NEW i \in Ids, Request(i) = work.start
      PROVE  /\ stage = "tasks" /\ mode = "start" => work.groups[i] \in {"none", "unread"}
             /\ stage \in {"groups", "found"} /\ i \notin toRead => Complete(i)'
             /\ stage = "found" /\ work.groups[i] = "none" => i \notin work.hrefs
    BY <1>1 DEF ReadsInOrder
  <2>1. /\ stage = "tasks" /\ mode = "start" => work.groups[i] \in {"none", "unread"}
        /\ stage \in {"groups", "found"} /\ i \notin toRead => Complete(i)
        /\ stage = "found" /\ work.groups[i] = "none" => i \notin work.hrefs
    BY DEF IInv, ReadsInOrder
  <2>2. Complete(i) => Complete(i)'
    BY <1>1, <1>2, CompleteKept
  <2> QED
    BY <2>1, <2>2
<1> QED
  BY <1>3, <1>4, <1>5

LEMMA PulpStepInv == ASSUME IInv, NEW i \in Ids, PulpStep(i) PROVE IInv'
<1> USE InvTyped
<1>1. UNCHANGED <<starts, runVars, out, blind>> /\ excused' = excused
  BY DEF PulpStep, Dispatch, TaskEnds, SubtaskEnds
<1>2. Typed' /\ Unborn' /\ GroupsMade' /\ Old
  BY PulpStepKeeps DEF IInv
<1>3. Known(out)' /\ Known(work)' /\ Shape' /\ ReadsTracked' /\ ReadsInOrder'
  BY <1>1, <1>2, StayKeeps
<1>4. stage' = stage /\ mode' = mode /\ out' = out /\ starts' = starts /\ blind' = blind
  BY <1>1 DEF runVars
<1>5. Requests'
  BY <1>1, <1>2, <1>4, RequestsKept DEF IInv
<1>6. EndsWithTasks'
  BY <1>2, <1>4, EndsKept DEF IInv
<1>7. StartedAgainOnlyIfBad'
  BY <1>1, <1>2, <1>4, StartedKept DEF IInv
<1> QED
  BY <1>2, <1>3, <1>5, <1>6, <1>7, Assembled

LEMMA LatePollInv == ASSUME IInv, LatePoll PROVE IInv'
<1> USE InvTyped
<1>1. UNCHANGED <<starts, runVars, out, blind>> /\ excused' = excused /\ UNCHANGED <<pulpVars, starts>>
  BY DEF LatePoll
<1>2. Unborn' /\ GroupsMade' /\ Old
  BY <1>1, QuietKeeps DEF IInv
<1>3. Known(out)' /\ Known(work)' /\ Shape' /\ ReadsTracked' /\ ReadsInOrder'
  BY <1>1, <1>2, StayKeeps
<1>4. stage' = stage /\ mode' = mode /\ out' = out /\ starts' = starts /\ blind' = blind
  BY <1>1 DEF runVars
<1>5. Requests'
  BY <1>1, <1>2, <1>4, RequestsKept DEF IInv
<1>6. EndsWithTasks'
  BY <1>2, <1>4, EndsKept DEF IInv
<1>7. StartedAgainOnlyIfBad'
  BY <1>1, <1>2, <1>4, StartedKept DEF IInv
<1>8. Typed'
  BY DEF LatePoll, Typed, runVars, pulpVars
<1> QED
  BY <1>2, <1>3, <1>5, <1>6, <1>7, <1>8, Assembled

LEMMA CancelTasksInv == ASSUME IInv, CancelTasks PROVE IInv'
<1> USE InvTyped
<1>1. /\ stage = "suspended" /\ stage' = "cancel" /\ mode' = mode /\ work' = work /\ out' = out
      /\ starts' = starts /\ blind' = blind /\ excused' = excused
  BY DEF CancelTasks
<1>2. Typed' /\ Unborn' /\ GroupsMade' /\ Old
  BY CancelTasksKeeps DEF IInv
<1>3. out \in Outputs /\ work \in Outputs /\ Known(out) /\ Known(work) /\ starts > 0
  BY <1>1 DEF Typed, IInv, Shape
<1>4. Known(out)' /\ Known(work)'
  BY <1>1, <1>2, <1>3, KnownKept DEF Known
<1>5. Shape' /\ ReadsTracked' /\ ReadsInOrder'
  BY <1>1, <1>3 DEF Reading, Shape, ReadsTracked, ReadsInOrder
<1>6. Requests'
  BY <1>1, <1>2, StageSets, RequestsKept DEF IInv
<1>7. EndsWithTasks'
  BY <1>1, <1>2, EndsKept DEF IInv
<1>8. StartedAgainOnlyIfBad'
  BY <1>1, <1>2, StartedKept DEF IInv
<1> QED
  BY <1>2, <1>4, <1>5, <1>6, <1>7, <1>8, Assembled

LEMMA CancelGroupsInv == ASSUME IInv, CancelGroups PROVE IInv'
<1> USE InvTyped
<1>1. /\ stage = "cancel" /\ stage' = "tasks" /\ out' = out /\ PollExternalTask("cancel")
      /\ starts' = starts /\ excused' = excused
  BY DEF CancelGroups, PollExternalTask
<1>2. Typed' /\ Unborn' /\ GroupsMade' /\ Old
  BY CancelGroupsKeeps DEF IInv
<1>3. Known(out) /\ starts > 0
  BY <1>1 DEF IInv, Shape
<1>4. Known(out)' /\ Known(work)' /\ Shape' /\ ReadsTracked' /\ ReadsInOrder'
  BY <1>1, <1>2, <1>3, PollKeeps
<1>5. Requests'
  BY <1>1, <1>2, StageSets, RequestsKept DEF IInv
<1>6. EndsWithTasks'
  BY <1>1, <1>2, EndsKept DEF IInv
<1>7. StartedAgainOnlyIfBad'
  BY <1>1, <1>2, StartedKept DEF IInv
<1> QED
  BY <1>2, <1>4, <1>5, <1>6, <1>7, Assembled

LEMMA UnchangedInv == ASSUME IInv, UNCHANGED vars PROVE IInv'
<1> USE InvTyped
<1>1. UNCHANGED <<starts, runVars, out, blind>> /\ excused' = excused /\ UNCHANGED <<pulpVars, starts>>
  BY DEF vars
<1>2. Unborn' /\ GroupsMade' /\ Old
  BY <1>1, QuietKeeps DEF IInv
<1>3. Known(out)' /\ Known(work)' /\ Shape' /\ ReadsTracked' /\ ReadsInOrder'
  BY <1>1, <1>2, StayKeeps
<1>4. stage' = stage /\ mode' = mode /\ out' = out /\ starts' = starts /\ blind' = blind
  BY <1>1 DEF runVars
<1>5. Requests'
  BY <1>1, <1>2, <1>4, RequestsKept DEF IInv
<1>6. EndsWithTasks'
  BY <1>2, <1>4, EndsKept DEF IInv
<1>7. StartedAgainOnlyIfBad'
  BY <1>1, <1>2, <1>4, StartedKept DEF IInv
<1>8. Typed'
  BY DEF vars, Typed, runVars, pulpVars
<1> QED
  BY <1>2, <1>3, <1>5, <1>6, <1>7, <1>8, Assembled

-----------------------------------------------------------------------------
(* Steps between the runs. *)

LEMMA BeginInv == ASSUME IInv, Begin PROVE IInv'
<1> USE InvTyped
<1>1. /\ stage = "begin" /\ UNCHANGED <<pulpVars, starts>> /\ starts' = starts /\ excused' = excused /\ faults' = faults
      /\ out' = out /\ pings' = pings
  BY DEF Begin, Initiate
<1>2. Unborn' /\ GroupsMade' /\ Old
  BY <1>1, QuietKeeps DEF IInv
<1>3. /\ Known(out) /\ out \in Outputs /\ starts \in Nat /\ out.start \in Nat /\ out.start <= starts
      /\ Tasks(out) \subseteq Ids
  BY Fields DEF Typed, IInv, Known, Tasks
<1>4. CASE out.start = 0
  <2>1. Initiate(out)
    BY <1>4 DEF Begin
  <2>2. stage' = "invoke" /\ work' = out /\ toRead' = {} /\ mode' = "start" /\ blind' = FALSE
    BY <2>1 DEF Initiate
  <2>3. Typed'
    BY <1>1, <1>3, <2>2, StageSets DEF Typed, pulpVars
  <2>4. Known(out)' /\ Known(work)' /\ Shape' /\ ReadsTracked' /\ ReadsInOrder'
    BY <1>2, <1>3, <2>1, KnownKept, InitiateKeeps
  <2>5. starts > 0 => Excusable(starts)
    BY <1>1, <1>3, <1>4, StageSets DEF IInv, Requests
  <2>6. Requests'
    BY <1>1, <1>2, <2>5, StageSets, RequestsKept DEF IInv
  <2>7. EndsWithTasks'
    BY <1>1, <1>2, <2>2, EndsKept DEF IInv
  <2>8. StartedAgainOnlyIfBad'
    BY <1>1, <1>2, StartedKept DEF IInv
  <2> QED
    BY <1>2, <2>3, <2>4, <2>6, <2>7, <2>8, Assembled
<1>5. CASE out.start # 0
  <2>1. PollExternalTask("resume")
    BY <1>5 DEF Begin
  <2>2. stage' = "tasks" /\ work' = out /\ toRead' = Tasks(out) /\ mode' = "resume" /\ blind' = FALSE
    BY <2>1 DEF PollExternalTask
  <2>3. Typed'
    BY <1>1, <1>3, <2>2, StageSets DEF Typed, pulpVars
  <2>4. Known(out)' /\ Known(work)' /\ Shape' /\ ReadsTracked' /\ ReadsInOrder'
    BY <1>1, <1>2, <1>3, <1>5, <2>1, PollKeeps
  <2>6. Requests'
    BY <1>1, <1>2, <2>2, StageSets, RequestsKept DEF IInv
  <2>7. EndsWithTasks'
    BY <1>1, <1>2, <2>2, EndsKept DEF IInv
  <2>8. StartedAgainOnlyIfBad'
    BY <1>1, <1>2, StartedKept DEF IInv
  <2> QED
    BY <1>2, <2>3, <2>4, <2>6, <2>7, <2>8, Assembled
<1> QED
  BY <1>4, <1>5

LEMMA PollInv == ASSUME IInv, Poll PROVE IInv'
<1> USE InvTyped
<1>1. /\ stage = "suspended" /\ UNCHANGED <<pulpVars, starts>> /\ starts' = starts /\ excused' = excused
      /\ faults' = faults /\ out' = out /\ pings > 0 /\ pings' = pings - 1 /\ PollExternalTask("poll")
  BY DEF Poll
<1>2. Unborn' /\ GroupsMade' /\ Old
  BY <1>1, QuietKeeps DEF IInv
<1>3. Known(out) /\ out \in Outputs /\ starts > 0 /\ Tasks(out) \subseteq Ids
  BY <1>1 DEF Typed, IInv, Shape, Tasks
<1>4. stage' = "tasks" /\ work' = out /\ toRead' = Tasks(out) /\ mode' = "poll" /\ blind' = FALSE
  BY <1>1 DEF PollExternalTask
<1>10. pings' \in Nat
  BY <1>1 DEF Typed
<1>5. Typed'
  BY <1>1, <1>3, <1>4, <1>10, StageSets DEF Typed, pulpVars
<1>6. Known(out)' /\ Known(work)' /\ Shape' /\ ReadsTracked' /\ ReadsInOrder'
  BY <1>1, <1>2, <1>3, PollKeeps
<1>7. Requests'
  BY <1>1, <1>2, <1>4, StageSets, RequestsKept DEF IInv
<1>8. EndsWithTasks'
  BY <1>1, <1>2, <1>4, EndsKept DEF IInv
<1>9. StartedAgainOnlyIfBad'
  BY <1>1, <1>2, StartedKept DEF IInv
<1> QED
  BY <1>2, <1>5, <1>6, <1>7, <1>8, <1>9, Assembled

(* An operator resumes or skips an action that failed. *)
LEMMA OperatorInv == ASSUME IInv, Resume \/ Skip PROVE IInv'
<1> USE InvTyped
<1>1. /\ stage = "error" /\ stage' \in {"begin", "skipped"} /\ UNCHANGED <<pulpVars, starts>>
      /\ starts' = starts /\ excused' = excused /\ out' = out /\ work' = work /\ mode' = mode
      /\ UNCHANGED <<toRead, pings, faults, blind>>
  BY DEF Resume, Skip
<1>2. Unborn' /\ GroupsMade' /\ Old
  BY <1>1, QuietKeeps DEF IInv
<1>3. Known(out) /\ out \in Outputs /\ Known(work) /\ work \in Outputs
  BY DEF Typed, IInv
<1>4. Known(out)' /\ Known(work)'
  BY <1>1, <1>2, <1>3, KnownKept DEF Known
<1>5. Typed'
  BY <1>1, StageSets DEF Typed, pulpVars
<1>6. Shape' /\ ReadsTracked' /\ ReadsInOrder'
  BY <1>1 DEF Reading, Shape, ReadsTracked, ReadsInOrder
<1>7. Requests'
  BY <1>1, <1>2, StageSets, RequestsKept DEF IInv
<1>8. EndsWithTasks'
  BY <1>1, <1>2, EndsKept DEF IInv
<1>9. StartedAgainOnlyIfBad'
  BY <1>1, <1>2, StartedKept DEF IInv
<1> QED
  BY <1>2, <1>4, <1>5, <1>6, <1>7, <1>8, <1>9, Assembled

-----------------------------------------------------------------------------
(* The request. *)

LEMMA InvokeInv == ASSUME IInv, Invoke PROVE IInv'
<1> USE InvTyped
<1>1. PICK asGroup \in BOOLEAN : Accept(NewIds, asGroup) /\ work' = Answered(NewIds, asGroup)
  BY DEF Invoke
<1>2. /\ Unborn' /\ GroupsMade' /\ Old
      /\ starts' = starts + 1 /\ starts < MaxStarts /\ spoiled' = spoiled
      /\ pulp' \in [Ids -> {"none", "running"} \cup Final]
      /\ made' \in [Ids -> Nat] /\ open' \in [Ids -> Nat]
      /\ \A i \in Ids : Request(i) <= starts => pulp'[i] = pulp[i] /\ made'[i] = made[i]
      /\ \A i \in Ids : Request(i) = starts + 1 => pulp'[i] = IF asGroup THEN "none" ELSE "running"
  BY <1>1, AcceptKeeps DEF IInv
<1>3. /\ stage = "invoke" /\ mode = "start" /\ stage' = "tasks" /\ mode' = "start" /\ toRead' = Tasks(work')
      /\ out' = out /\ pings' = pings /\ faults' = faults /\ blind' = blind /\ excused' = excused
  BY DEF Invoke, IInv, Shape
<1>4. starts \in Nat /\ starts + 1 \in 0..MaxStarts /\ work \in Outputs /\ out \in Outputs
  BY <1>2, AsyncAssumption DEF Typed
<1>5. /\ work' \in Outputs /\ work'.start = starts + 1 /\ work'.hrefs = {}
      /\ \A i \in Ids : work'.tasks[i] = IF i \in NewIds /\ ~asGroup THEN "unread" ELSE "none"
      /\ \A i \in Ids : work'.groups[i] = IF i \in NewIds /\ asGroup THEN "unread" ELSE work.groups[i]
  BY <1>1, <1>2, <1>4, AnsweredOutput
<1>6. \A i \in Ids : (i \in NewIds <=> Request(i) = starts + 1) /\ Request(i) \in Nat
  BY NewIdsAre, RequestRange
<1>7. Typed'
  BY <1>2, <1>3, <1>4, <1>5, StageSets DEF Typed, Tasks
<1>8. Known(out)'
  BY <1>2, <1>3, <1>4, KnownKept DEF IInv, Known
<1>9. Known(work)'
  <2> SUFFICES ASSUME NEW i \in Ids
      PROVE  /\ work'.tasks[i] \notin Final
             /\ work'.groups[i] = "bad" => i \in spoiled'
             /\ work'.groups[i] # "none" \/ i \in work'.hrefs => Request(i) <= starts'
             /\ work'.tasks[i] # "none" => Request(i) = work'.start
             /\ Request(i) = work'.start /\ work'.tasks[i] = "none" => pulp'[i] = "none"
             /\ Request(i) = work'.start /\ pulp'[i] = "none" => work'.groups[i] # "none"
    BY <1>2, <1>4, <1>5 DEF Known, KnownBy
  <2>1. /\ work.groups[i] = "bad" => i \in spoiled
        /\ work.groups[i] # "none" => Request(i) <= starts
    BY DEF IInv, Known, KnownBy
  <2> QED
    BY <1>2, <1>4, <1>5, <1>6, <2>1 DEF Final
<1>10. Shape' /\ ReadsTracked'
  BY <1>2, <1>3, <1>4, <1>5 DEF Reading, Shape, ReadsTracked, Tasks
<1>11. ReadsInOrder'
  <2> SUFFICES ASSUME NEW i \in Ids, Request(i) = starts + 1
      PROVE  work'.groups[i] \in {"none", "unread"}
    BY <1>3, <1>5 DEF ReadsInOrder
  <2>1. work.groups[i] # "none" => Request(i) <= starts
    BY DEF IInv, Known, KnownBy
  <2> QED
    BY <1>4, <1>5, <1>6, <2>1
<1>12. Requests'
  BY <1>3, StageSets DEF Requests
<1>13. EndsWithTasks'
  BY <1>3 DEF EndsWithTasks
<1>14. starts = 0 \/ Excusable(starts)
  BY <1>3, <1>4 DEF IInv, Requests
<1>15. StartedAgainOnlyIfBad'
  BY <1>2, <1>3, <1>14, StartedKept DEF IInv
<1> QED
  BY <1>2, <1>7, <1>8, <1>9, <1>10, <1>11, <1>12, <1>13, <1>15, Assembled

LEMMA InvokeFailsInv == ASSUME IInv, InvokeFails PROVE IInv'
<1> USE InvTyped
<1>1. /\ stage = "invoke" /\ mode = "start" /\ faults' \in 0..MaxFaults /\ Fail(work)
  BY AsyncAssumption DEF InvokeFails, Fault, IInv, Shape, Typed
<1>2. /\ stage' = "error" /\ out' = work /\ work' = Empty /\ toRead' = {} /\ mode' = "start"
      /\ blind' = FALSE /\ pings' = pings /\ EndRun("error", work)
  BY <1>1 DEF Fail, EndRun
<1>3. starts \in Nat /\ work \in Outputs /\ Empty \in Outputs /\ work.start <= starts /\ Known(work)
  BY EmptyOutput DEF Typed, IInv, Known
<1>4. starts = 0 \/ Excusable(starts)
  BY <1>1, <1>3 DEF IInv, Requests
<1>5. EndsWithTasks'
  BY <1>2 DEF EndsWithTasks
<1>6. CASE UNCHANGED <<pulpVars, starts, excused>>
  <2>1. Unborn' /\ GroupsMade' /\ Old
    BY <1>6, QuietKeeps DEF IInv
  <2>2. Known(out)' /\ Known(work)' /\ Shape' /\ ReadsTracked' /\ ReadsInOrder'
    BY <1>2, <1>3, <2>1, KnownKept, EndRunKeeps, StageSets
  <2>3. Typed'
    BY <1>1, <1>2, <1>3, <1>6, StageSets DEF Typed, pulpVars
  <2>4. starts > 0 => Excusable(starts)'
    BY <1>3, <1>4, <1>6, <2>1, ExcusableKept
  <2>5. Requests'
    BY <1>2, <1>3, <1>6, <2>4 DEF Requests, Excusable
  <2>6. StartedAgainOnlyIfBad'
    BY <1>6, <2>1, StartedKept DEF IInv
  <2> QED
    BY <1>5, <2>1, <2>2, <2>3, <2>5, <2>6, Assembled
<1>7. CASE /\ \E asGroup \in BOOLEAN : Accept(NewIds, asGroup)
           /\ excused' = excused \cup {starts + 1}
  <2>1. PICK asGroup \in BOOLEAN : Accept(NewIds, asGroup)
    BY <1>7
  <2>2. /\ Unborn' /\ GroupsMade' /\ Old
        /\ starts' = starts + 1 /\ starts < MaxStarts /\ spoiled' = spoiled
        /\ pulp' \in [Ids -> {"none", "running"} \cup Final]
        /\ made' \in [Ids -> Nat] /\ open' \in [Ids -> Nat]
    BY <2>1, AcceptKeeps DEF IInv
  <2>3. Known(out)' /\ Known(work)' /\ Shape' /\ ReadsTracked' /\ ReadsInOrder'
    BY <1>2, <1>3, <2>2, KnownKept, EndRunKeeps, StageSets
  <2>4. starts' \in 0..MaxStarts /\ starts + 1 \in 1..MaxStarts
    BY <1>3, <2>2, AsyncAssumption
  <2>5. excused' \subseteq 1..MaxStarts
    BY <1>7, <2>4 DEF Typed
  <2>6. Typed'
    BY <1>1, <1>2, <1>3, <2>2, <2>4, <2>5, StageSets DEF Typed
  <2>7. Requests'
    BY <1>2, <1>7, <2>2 DEF Requests, Excusable
  <2>8. StartedAgainOnlyIfBad'
    BY <1>4, <1>7, <2>2, StartedKept DEF IInv
  <2> QED
    BY <1>5, <2>2, <2>3, <2>6, <2>7, <2>8, Assembled
<1> QED
  BY <1>6, <1>7 DEF InvokeFails

-----------------------------------------------------------------------------
(* Reading. *)

(* The steps of a run that stays among the stages of reading. *)
LEMMA ReadingAssembled ==
  ASSUME IInv, stage \in Reading, stage' \in Reading, UNCHANGED <<pulpVars, starts, mode, out, excused>>,
         Typed', Known(work)', Shape', ReadsTracked', ReadsInOrder'
  PROVE  IInv'
<1> USE InvTyped
<1>1. UNCHANGED <<pulpVars, starts>> /\ starts' = starts /\ mode' = mode /\ out' = out /\ excused' = excused
  OBVIOUS
<1>2. Unborn' /\ GroupsMade' /\ Old
  BY <1>1, QuietKeeps DEF IInv
<1>3. out \in Outputs /\ Known(out)
  BY DEF Typed, IInv
<1>4. Known(out)'
  BY <1>1, <1>2, <1>3, KnownKept DEF Known
<1>5. Requests'
  BY <1>1, <1>2, StageSets, RequestsKept DEF IInv
<1>6. EndsWithTasks'
  BY StageSets DEF EndsWithTasks
<1>7. StartedAgainOnlyIfBad'
  BY <1>1, <1>2, StartedKept DEF IInv
<1> QED
  BY <1>2, <1>4, <1>5, <1>6, <1>7, Assembled

LEMMA ReadTaskInv == ASSUME IInv, NEW i \in Ids, ReadTask(i) PROVE IInv'
<1> USE InvTyped
<1>1. /\ stage \in {"tasks", "check"} /\ i \in toRead /\ toRead' = toRead \ {i}
      /\ stage' = stage /\ UNCHANGED <<pulpVars, starts, mode, out, excused>>
      /\ UNCHANGED <<pings, faults, blind>>
  BY DEF ReadTask
<1> DEFINE h == IF made[i] > 0 THEN work.hrefs \cup {i} ELSE work.hrefs
<1>2. work \in Outputs /\ pulp[i] \in TaskStates /\ h \in SUBSET Ids
  BY Fields DEF Typed, TaskStates
<1>11. work' = [work EXCEPT !.tasks[i] = pulp[i], !.hrefs = h]
  BY DEF ReadTask
<1> HIDE DEF h
<1> DEFINE r == TaskRead(work, i, pulp[i], h)
<1>12. /\ r \in Outputs /\ r.start = work.start /\ r.groups = work.groups /\ r.hrefs = h
       /\ \A j \in Ids : r.tasks[j] = IF j = i THEN pulp[i] ELSE work.tasks[j]
  BY <1>2, WithTaskRead
<1>13. work' = r
  BY <1>11 DEF TaskRead
<1> HIDE DEF r
<1>3. /\ work' \in Outputs /\ work'.start = work.start /\ work'.groups = work.groups
      /\ work'.hrefs = IF made[i] > 0 THEN work.hrefs \cup {i} ELSE work.hrefs
      /\ \A j \in Ids : work'.tasks[j] = IF j = i THEN pulp[i] ELSE work.tasks[j]
  BY <1>12, <1>13 DEF h
<1>4. Typed'
  BY <1>1, <1>3 DEF Typed, pulpVars
<1>5. i \in Tasks(work) /\ Request(i) = work.start /\ Request(i) <= starts
  BY <1>1 DEF IInv, ReadsTracked, Tasks, Known, KnownBy
<1>6. pulp' = pulp /\ made' = made /\ spoiled' = spoiled /\ starts' = starts
  BY <1>1 DEF pulpVars
<1>7. Known(work)'
  <2> SUFFICES ASSUME NEW j \in Ids
      PROVE  /\ work'.tasks[j] \in Final => pulp[j] = work'.tasks[j] /\ (made[j] > 0 => j \in work'.hrefs)
             /\ work'.groups[j] = "bad" => j \in spoiled
             /\ work'.groups[j] # "none" \/ j \in work'.hrefs => Request(j) <= starts
             /\ work'.tasks[j] # "none" => Request(j) = work'.start
             /\ Request(j) = work'.start /\ work'.tasks[j] = "none" => pulp[j] = "none"
             /\ Request(j) = work'.start /\ pulp[j] = "none" /\ made[j] > 0 => work'.groups[j] # "none"
    BY <1>3, <1>6 DEF IInv, Known, KnownBy
  <2>1. /\ work.tasks[j] \in Final => pulp[j] = work.tasks[j] /\ (made[j] > 0 => j \in work.hrefs)
        /\ work.groups[j] = "bad" => j \in spoiled
        /\ work.groups[j] # "none" \/ j \in work.hrefs => Request(j) <= starts
        /\ work.tasks[j] # "none" => Request(j) = work.start
        /\ Request(j) = work.start /\ work.tasks[j] = "none" => pulp[j] = "none"
        /\ Request(j) = work.start /\ pulp[j] = "none" /\ made[j] > 0 => work.groups[j] # "none"
    BY DEF IInv, Known, KnownBy
  <2> QED
    BY <1>3, <1>5, <2>1
<1>8. Shape'
  BY <1>1, <1>3 DEF IInv, Shape
<1>9. ReadsTracked'
  <2> SUFFICES ASSUME NEW j \in toRead, j # i PROVE work'.tasks[j] # "none"
    BY <1>1 DEF ReadsTracked, Tasks, Typed
  <2>1. j \in Ids /\ work.tasks[j] # "none"
    BY <1>1 DEF IInv, ReadsTracked, Tasks
  <2> QED
    BY <1>3, <2>1
<1>10. ReadsInOrder'
  BY <1>1, <1>3 DEF IInv, ReadsInOrder
<1> QED
  BY <1>1, <1>4, <1>7, <1>8, <1>9, <1>10, ReadingAssembled, StageSets

LEMMA ReadGroupInv == ASSUME IInv, NEW i \in Ids, ReadGroup(i) PROVE IInv'
<1> USE InvTyped
<1>1. /\ stage \in {"groups", "found", "recheck"} /\ i \in toRead /\ toRead' = toRead \ {i}
      /\ stage' = stage /\ mode' = mode /\ UNCHANGED <<pulpVars, starts, mode, out, excused>>
      /\ UNCHANGED <<pings, faults, blind>>
      /\ work' = [work EXCEPT !.groups[i] = GroupState(i)]
  BY DEF ReadGroup
<1>2. /\ work \in Outputs /\ GroupState(i) \in {"open", "bad", "done"} /\ GroupState(i) \in GroupStates
      /\ GroupState(i) = "bad" => i \in spoiled
      /\ GroupState(i) = "done" => open[i] = 0 /\ i \notin spoiled
  BY DEF Typed, GroupStates, GroupState
<1>3. /\ work' \in Outputs /\ work'.start = work.start /\ work'.tasks = work.tasks /\ work'.hrefs = work.hrefs
      /\ \A j \in Ids : work'.groups[j] = IF j = i THEN GroupState(i) ELSE work.groups[j]
  BY <1>1, <1>2, WithGroup
<1> HIDE DEF GroupState
<1>4. Typed'
  BY <1>1, <1>3 DEF Typed, pulpVars
<1>5. i \in Groups(work) /\ Request(i) <= starts
  BY <1>1 DEF IInv, ReadsTracked, Groups, Known, KnownBy
<1>6. pulp' = pulp /\ made' = made /\ spoiled' = spoiled /\ starts' = starts /\ open' = open
  BY <1>1 DEF pulpVars
<1>7. Known(work)'
  <2> SUFFICES ASSUME NEW j \in Ids
      PROVE  /\ work'.tasks[j] \in Final => pulp[j] = work'.tasks[j] /\ (made[j] > 0 => j \in work'.hrefs)
             /\ work'.groups[j] = "bad" => j \in spoiled
             /\ work'.groups[j] # "none" \/ j \in work'.hrefs => Request(j) <= starts
             /\ work'.tasks[j] # "none" => Request(j) = work'.start
             /\ Request(j) = work'.start /\ work'.tasks[j] = "none" => pulp[j] = "none"
             /\ Request(j) = work'.start /\ pulp[j] = "none" /\ made[j] > 0 => work'.groups[j] # "none"
    BY <1>3, <1>6 DEF IInv, Known, KnownBy
  <2>1. /\ work.tasks[j] \in Final => pulp[j] = work.tasks[j] /\ (made[j] > 0 => j \in work.hrefs)
        /\ work.groups[j] = "bad" => j \in spoiled
        /\ work.groups[j] # "none" \/ j \in work.hrefs => Request(j) <= starts
        /\ work.tasks[j] # "none" => Request(j) = work.start
        /\ Request(j) = work.start /\ work.tasks[j] = "none" => pulp[j] = "none"
        /\ Request(j) = work.start /\ pulp[j] = "none" /\ made[j] > 0 => work.groups[j] # "none"
    BY DEF IInv, Known, KnownBy
  <2> QED
    BY <1>2, <1>3, <1>5, <2>1
<1>8. Shape'
  BY <1>1, <1>3 DEF IInv, Shape
<1>9. ReadsTracked'
  <2> SUFFICES ASSUME NEW j \in toRead, j # i PROVE work'.groups[j] # "none"
    BY <1>1 DEF ReadsTracked, Groups, Typed
  <2>1. j \in Ids /\ work.groups[j] # "none"
    BY <1>1 DEF IInv, ReadsTracked, Groups
  <2> QED
    BY <1>3, <2>1
<1>10. ReadsInOrder'
  <2> SUFFICES ASSUME NEW j \in Ids, Request(j) = work.start
      PROVE  /\ stage \in {"groups", "found"} /\ j \notin toRead' => Complete(j)'
             /\ stage = "found" /\ work'.groups[j] = "none" => j \notin work.hrefs
    BY <1>1, <1>3 DEF ReadsInOrder
  <2>1. /\ stage \in {"groups", "found"} /\ j \notin toRead => Complete(j)
        /\ stage = "found" /\ work.groups[j] = "none" => j \notin work.hrefs
    BY DEF IInv, ReadsInOrder
  <2> QED
    BY <1>1, <1>2, <1>3, <1>6, <2>1 DEF Complete
<1> QED
  BY <1>1, <1>4, <1>7, <1>8, <1>9, <1>10, ReadingAssembled, StageSets

LEMMA TasksReadInv == ASSUME IInv, TasksRead PROVE IInv'
<1> USE InvTyped
<1>1. /\ stage = "tasks" /\ toRead = {} /\ stage' = "groups"
      /\ toRead' = IF mode = "start" THEN UnreadGroups(work) ELSE Groups(work)
      /\ UNCHANGED <<pulpVars, starts, mode, out, excused>>
      /\ UNCHANGED <<pings, faults, blind>> /\ work' = work /\ mode' = mode
  BY DEF TasksRead
<1>2. UnreadGroups(work) \subseteq Groups(work) /\ Groups(work) \subseteq Ids
  BY DEF UnreadGroups, Groups
<1>3. Typed'
  BY <1>1, <1>2, StageSets DEF Typed, pulpVars
<1>4. Known(work)'
  BY <1>1 DEF IInv, Known, KnownBy, pulpVars
<1>5. Shape'
  BY <1>1, StageSets DEF IInv, Shape
<1>6. ReadsTracked'
  BY <1>1, <1>2 DEF ReadsTracked
<1>7. ReadsInOrder'
  <2> SUFFICES ASSUME NEW i \in Ids, Request(i) = work.start, i \notin toRead'
      PROVE  work.groups[i] # "done"
    BY <1>1 DEF ReadsInOrder, Complete
  <2>1. mode = "start" => work.groups[i] \in {"none", "unread"}
    BY <1>1 DEF IInv, ReadsInOrder
  <2> QED
    BY <1>1, <2>1 DEF Groups
<1> QED
  BY <1>1, <1>3, <1>4, <1>5, <1>6, <1>7, ReadingAssembled, StageSets

LEMMA GroupsReadInv == ASSUME IInv, GroupsRead PROVE IInv'
<1> USE InvTyped
<1>1. /\ stage = "groups" /\ toRead = {} /\ stage' = "found" /\ toRead' = Found(work)
      /\ UNCHANGED <<pulpVars, starts, mode, out, excused>>
      /\ UNCHANGED <<pings, faults, blind>> /\ mode' = mode
      /\ work' = [work EXCEPT !.groups = [i \in Ids |-> IF i \in Found(work) THEN "unread" ELSE @[i]]]
  BY DEF GroupsRead
<1>2. work \in Outputs
  BY DEF Typed
<1>3. /\ work' \in Outputs /\ work'.start = work.start /\ work'.hrefs = work.hrefs /\ work'.tasks = work.tasks
      /\ \A j \in Ids : work'.groups[j] = IF j \in Found(work) THEN "unread" ELSE work.groups[j]
  BY <1>1, <1>2, WithFound
<1>4. /\ Found(work) \subseteq Ids /\ Found(work) \subseteq work.hrefs
      /\ \A j \in Ids : j \in work.hrefs /\ work.groups[j] = "none" => j \in Found(work)
  BY <1>2, Fields DEF Found, Groups
<1>5. Typed'
  BY <1>1, <1>3, <1>4, StageSets DEF Typed, pulpVars
<1>6. pulp' = pulp /\ made' = made /\ spoiled' = spoiled /\ starts' = starts /\ open' = open
  BY <1>1 DEF pulpVars
<1>7. Known(work)'
  <2> SUFFICES ASSUME NEW j \in Ids
      PROVE  /\ work'.tasks[j] \in Final => pulp[j] = work'.tasks[j] /\ (made[j] > 0 => j \in work'.hrefs)
             /\ work'.groups[j] = "bad" => j \in spoiled
             /\ work'.groups[j] # "none" \/ j \in work'.hrefs => Request(j) <= starts
             /\ work'.tasks[j] # "none" => Request(j) = work'.start
             /\ Request(j) = work'.start /\ work'.tasks[j] = "none" => pulp[j] = "none"
             /\ Request(j) = work'.start /\ pulp[j] = "none" /\ made[j] > 0 => work'.groups[j] # "none"
    BY <1>3, <1>6 DEF IInv, Known, KnownBy
  <2>1. /\ work.tasks[j] \in Final => pulp[j] = work.tasks[j] /\ (made[j] > 0 => j \in work.hrefs)
        /\ work.groups[j] = "bad" => j \in spoiled
        /\ work.groups[j] # "none" \/ j \in work.hrefs => Request(j) <= starts
        /\ work.tasks[j] # "none" => Request(j) = work.start
        /\ Request(j) = work.start /\ work.tasks[j] = "none" => pulp[j] = "none"
        /\ Request(j) = work.start /\ pulp[j] = "none" /\ made[j] > 0 => work.groups[j] # "none"
    BY DEF IInv, Known, KnownBy
  <2> QED
    BY <1>3, <1>4, <2>1
<1>8. Shape'
  BY <1>1, <1>3, StageSets DEF IInv, Shape
<1>9. ReadsTracked'
  BY <1>1, <1>3, <1>4 DEF ReadsTracked, Groups
<1>10. ReadsInOrder'
  <2> SUFFICES ASSUME NEW j \in Ids, Request(j) = work.start
      PROVE  /\ j \notin Found(work) => Complete(j)'
             /\ work'.groups[j] = "none" => j \notin work.hrefs
    BY <1>1, <1>3 DEF ReadsInOrder
  <2>1. Complete(j)
    BY <1>1 DEF IInv, ReadsInOrder
  <2> QED
    BY <1>3, <1>4, <1>6, <2>1 DEF Complete
<1> QED
  BY <1>1, <1>5, <1>7, <1>8, <1>9, <1>10, ReadingAssembled, StageSets

LEMMA TasksDoneInv == ASSUME IInv, TasksDone PROVE IInv'
<1> USE InvTyped
<1>1. /\ stage = "check" /\ stage' = "recheck" /\ toRead' = UnreadGroups(work)
      /\ UNCHANGED <<pulpVars, starts, mode, out, excused>>
      /\ UNCHANGED <<pings, faults, blind>> /\ work' = work /\ mode' = mode /\ blind' = blind
  BY DEF TasksDone
<1>2. UnreadGroups(work) \subseteq Groups(work) /\ Groups(work) \subseteq Ids
  BY DEF UnreadGroups, Groups
<1>3. Typed'
  BY <1>1, <1>2, StageSets DEF Typed, pulpVars
<1>4. Known(work)'
  BY <1>1 DEF IInv, Known, KnownBy, pulpVars
<1>5. Shape'
  BY <1>1, StageSets DEF IInv, Shape
<1>6. ReadsTracked'
  BY <1>1, <1>2 DEF ReadsTracked
<1>7. ReadsInOrder'
  BY <1>1 DEF ReadsInOrder
<1> QED
  BY <1>1, <1>3, <1>4, <1>5, <1>6, <1>7, ReadingAssembled, StageSets

-----------------------------------------------------------------------------
(* Ends of runs. *)

LEMMA KnownSame ==
  ASSUME NEW v, NEW w, v.start = w.start, v.hrefs = w.hrefs,
         \A i \in Ids : v.tasks[i] = w.tasks[i] /\ v.groups[i] = w.groups[i],
         w.start <= starts' /\ KnownBy(w, starts', pulp', made', spoiled')
  PROVE  v.start <= starts' /\ KnownBy(v, starts', pulp', made', spoiled')
BY DEF KnownBy

LEMMA EndAssembled ==
  ASSUME IInv, UNCHANGED <<pulpVars, starts>>, excused \subseteq excused',
         NEW to \in {"begin", "suspended"} \cup Ended, NEW w \in Outputs, EndRun(to, w),
         w.start <= starts' /\ KnownBy(w, starts', pulp', made', spoiled'),
         to = "suspended" => starts > 0,
         w.start = out.start \/ w.start = starts,
         stage \in Reading /\ mode = "start" => starts \in excused' \/ w.start = starts,
         pings' \in Nat, faults' \in 0..MaxFaults, blind' \in BOOLEAN, excused' \subseteq 1..MaxStarts,
         EndsWithTasks'
  PROVE  IInv'
<1> USE InvTyped
<1>1. stage' = to /\ out' = w /\ work' = Empty /\ toRead' = {} /\ mode' = "start" /\ starts' = starts
  BY DEF EndRun
<1>2. Unborn' /\ GroupsMade' /\ Old
  BY QuietKeeps DEF IInv
<1>3. Known(out)' /\ Known(work)' /\ Shape' /\ ReadsTracked' /\ ReadsInOrder'
  BY <1>1, <1>2, EndRunKeeps
<1>4. Typed'
  BY <1>1, EmptyOutput DEF Typed, pulpVars
<1>5. to # "invoke"
  BY StageSets
<1>6. Requests'
  BY <1>1, <1>2, <1>5, StageSets, RequestsKept DEF IInv
<1>7. StartedAgainOnlyIfBad'
  BY <1>1, <1>2, StartedKept DEF IInv
<1> QED
  BY <1>2, <1>3, <1>4, <1>6, <1>7, Assembled

(* What is known of the output of a run. *)
LEMMA WorkKnown ==
  ASSUME IInv, UNCHANGED <<pulpVars, starts>>
  PROVE  /\ work \in Outputs /\ out \in Outputs
         /\ work.start <= starts' /\ KnownBy(work, starts', pulp', made', spoiled')
         /\ out.start <= starts' /\ KnownBy(out, starts', pulp', made', spoiled')
         /\ stage \in Reading => /\ starts > 0 /\ starts \in 1..MaxStarts
                                 /\ work.start = out.start \/ work.start = starts
                                 /\ mode = "start" => work.start = starts
<1> USE InvTyped
<1>1. Old
  BY QuietKeeps DEF IInv
<1>2. work \in Outputs /\ out \in Outputs /\ Known(work) /\ Known(out)
  BY DEF IInv, Typed
<1>3. stage \in Reading => /\ starts > 0 /\ work.start = IF mode = "start" THEN starts ELSE out.start
  BY DEF IInv, Shape
<1>4. starts > 0 => starts \in 1..MaxStarts
  BY AsyncAssumption DEF Typed
<1> QED
  BY <1>1, <1>2, <1>3, <1>4, KnownKept

LEMMA CheckedOutput ==
  ASSUME work \in Outputs
  PROVE  LET r == Checked(work)
         IN r \in Outputs /\ r.start = work.start /\ r.tasks = work.tasks /\ r.hrefs = work.hrefs /\ r.groups = work.groups
BY WithFailed DEF Checked

(* Done at the end of a run without an error: all that Pulp did has ended.  *)
LEMMA DoneEnds ==
  ASSUME IInv, stage = "found", toRead = {}, ~Erroneous(work), Done(work), NEW i \in Ids, Request(i) = work.start
  PROVE  pulp[i] # "running" /\ pulp[i] # "failed" /\ open[i] = 0 /\ i \notin spoiled
<1> USE InvTyped
<1>1. Complete(i) /\ (work.groups[i] = "none" => i \notin work.hrefs)
  BY DEF IInv, ReadsInOrder
<1>2. /\ work.tasks[i] \in Final => pulp[i] = work.tasks[i] /\ (made[i] > 0 => i \in work.hrefs)
      /\ work.tasks[i] = "none" => pulp[i] = "none" /\ (made[i] > 0 => work.groups[i] # "none")
  BY DEF IInv, Known, KnownBy
<1>3. work.tasks[i] \in Final \cup {"none"} /\ work.tasks[i] # "failed"
  BY DEF Done, Tasks, Erroneous
<1>4. work.groups[i] # "none" => work.groups[i] = "done"
  BY DEF Done, Groups, Erroneous
<1>5. pulp[i] # "running" /\ pulp[i] # "failed"
  BY <1>2, <1>3 DEF Final
<1>6. CASE made[i] > 0
  <2>1. work.groups[i] = "done"
    BY <1>1, <1>2, <1>3, <1>4, <1>6
  <2> QED
    BY <1>1, <1>3, <1>5, <2>1 DEF Complete
<1>7. CASE ~(made[i] > 0)
  <2>1. ~(open[i] > 0) /\ i \notin spoiled
    BY <1>7 DEF IInv, GroupsMade
  <2>2. open[i] \in Nat
    BY DEF Typed
  <2>3. open[i] = 0
    BY <2>1, <2>2
  <2> QED
    BY <1>5, <2>1, <2>3
<1> QED
  BY <1>6, <1>7

LEMMA ConcludeInv == ASSUME IInv, Conclude PROVE IInv'
<1> USE InvTyped
<1>1. /\ stage = "found" /\ toRead = {} /\ ~Erroneous(work) /\ UNCHANGED <<pulpVars, starts>>
      /\ faults' = faults /\ excused' = excused /\ faults \in 0..MaxFaults /\ excused \subseteq 1..MaxStarts
      /\ stage \in Reading /\ pings \in Nat /\ blind \in BOOLEAN
  BY StageSets DEF Conclude, Typed
<1>2. /\ work \in Outputs /\ starts > 0
      /\ work.start <= starts' /\ KnownBy(work, starts', pulp', made', spoiled')
      /\ work.start = out.start \/ work.start = starts
      /\ mode = "start" => work.start = starts
  BY <1>1, WorkKnown
<1> DEFINE w == Checked(work)
<1>3. w \in Outputs /\ w.start = work.start /\ w.tasks = work.tasks /\ w.hrefs = work.hrefs /\ w.groups = work.groups
  BY <1>2, CheckedOutput
<1> HIDE DEF w
<1>4. w.start <= starts' /\ KnownBy(w, starts', pulp', made', spoiled')
  BY <1>2, <1>3, KnownSame
<1>5. CASE Done(work) /\ Succeed(w)
  <2>1. EndRun("success", w) /\ pings' = pings /\ blind' = blind /\ stage' = "success" /\ out' = w
    BY <1>5 DEF Succeed, EndRun
  <2>2. EndsWithTasks'
    <3> SUFFICES ASSUME NEW i \in Ids, Request(i) = work.start
        PROVE  pulp'[i] # "running" /\ pulp'[i] # "failed" /\ open'[i] = 0 /\ i \notin spoiled'
      BY <1>3, <2>1 DEF EndsWithTasks
    <3>1. pulp[i] # "running" /\ pulp[i] # "failed" /\ open[i] = 0 /\ i \notin spoiled
      BY <1>1, <1>5, DoneEnds
    <3> QED
      BY <1>1, <3>1 DEF pulpVars
  <2> QED
    BY <1>1, <1>2, <1>3, <1>4, <2>1, <2>2, EndAssembled, StageSets
<1>6. CASE SuspendAndPing(w)
  <2>1. EndRun("suspended", w) /\ blind' = FALSE /\ stage' = "suspended"
    BY <1>6 DEF SuspendAndPing, EndRun
  <2>2. pings' \in Nat
    BY <1>1, <1>6 DEF SuspendAndPing
  <2>3. EndsWithTasks'
    BY <2>1 DEF EndsWithTasks
  <2> QED
    BY <1>1, <1>2, <1>3, <1>4, <2>1, <2>2, <2>3, EndAssembled
<1>7. CASE EndRun("suspended", work) /\ pings' = AfterCancel /\ UNCHANGED blind
  <2>1. pings' = pings /\ stage' = "suspended" /\ blind' = blind
    BY <1>7 DEF AfterCancel, EndRun
  <2>2. EndsWithTasks'
    BY <2>1 DEF EndsWithTasks
  <2> QED
    BY <1>1, <1>2, <1>7, <2>1, <2>2, EndAssembled
<1> QED
  BY <1>5, <1>6, <1>7 DEF Conclude, w

LEMMA NotDoneInv == ASSUME IInv, NotDone PROVE IInv'
<1> USE InvTyped
<1>1. /\ stage \in Reading /\ UNCHANGED <<pulpVars, starts>> /\ faults' = faults /\ excused' = excused
      /\ faults \in 0..MaxFaults /\ excused \subseteq 1..MaxStarts
      /\ EndRun("suspended", work) /\ blind' = FALSE /\ stage' = "suspended"
  BY StageSets DEF NotDone, SuspendAndPing, EndRun, Typed
<1>2. pings' \in Nat
  BY DEF NotDone, SuspendAndPing, Typed
<1>3. /\ work \in Outputs /\ starts > 0
      /\ work.start <= starts' /\ KnownBy(work, starts', pulp', made', spoiled')
      /\ work.start = out.start \/ work.start = starts
      /\ mode = "start" => work.start = starts
  BY <1>1, WorkKnown
<1>4. EndsWithTasks'
  BY <1>1 DEF EndsWithTasks
<1> QED
  BY <1>1, <1>2, <1>3, <1>4, EndAssembled

LEMMA AllDoneInv == ASSUME IInv, AllDone PROVE IInv'
<1> USE InvTyped
<1>1. /\ stage \in Reading /\ UNCHANGED <<pulpVars, starts>> /\ faults' = faults /\ excused' = excused
      /\ faults \in 0..MaxFaults /\ excused \subseteq 1..MaxStarts /\ pings \in Nat /\ blind \in BOOLEAN
      /\ EndRun("success", work) /\ blind' = blind /\ pings' = pings /\ stage' = "success" /\ out' = work
      /\ Done(work)
  BY StageSets DEF AllDone, Succeed, EndRun, Typed
<1>2. blind
  BY DEF AllDone, IInv, Shape
<1>3. /\ work \in Outputs /\ starts > 0
      /\ work.start <= starts' /\ KnownBy(work, starts', pulp', made', spoiled')
      /\ work.start = out.start \/ work.start = starts
      /\ mode = "start" => work.start = starts
  BY <1>1, WorkKnown
<1>4. EndsWithTasks'
  <2> SUFFICES ASSUME NEW i \in Ids, Request(i) = work.start
               PROVE  pulp'[i] # "running"
    BY <1>1, <1>2 DEF EndsWithTasks
  <2>1. work.tasks[i] \in Final \cup {"none"}
    BY <1>1 DEF Done, Tasks
  <2>2. work.tasks[i] \in Final \cup {"none"} => pulp'[i] = work.tasks[i]
    BY <1>3 DEF KnownBy
  <2> QED
    BY <2>1, <2>2 DEF Final
<1> QED
  BY <1>1, <1>3, <1>4, EndAssembled, StageSets

LEMMA CancelFailsInv == ASSUME IInv, CancelFails PROVE IInv'
<1> USE InvTyped
<1>1. /\ stage = "cancel" /\ UNCHANGED <<pulpVars, starts>> /\ excused' = excused
      /\ excused \subseteq 1..MaxStarts /\ pings \in Nat
      /\ EndRun("error", out) /\ blind' = FALSE /\ pings' = pings /\ stage' = "error"
  BY DEF CancelFails, Fail, EndRun, Typed
<1>2. faults' \in 0..MaxFaults
  BY AsyncAssumption DEF CancelFails, Fault, Typed
<1>3. out \in Outputs /\ out.start <= starts' /\ KnownBy(out, starts', pulp', made', spoiled')
  BY <1>1, WorkKnown
<1>4. EndsWithTasks'
  BY <1>1 DEF EndsWithTasks
<1> QED
  BY <1>1, <1>2, <1>3, <1>4, EndAssembled, StageSets

LEMMA CrashInv == ASSUME IInv, Crash PROVE IInv'
<1> USE InvTyped
<1> DEFINE to == IF stage = "suspended" THEN "begin" ELSE "error"
<1>1. /\ UNCHANGED <<pulpVars, starts>> /\ EndRun(to, out) /\ blind' = FALSE /\ pings' = 0 /\ stage' = to
      /\ excused' = IF stage \in Reading /\ mode = "start" THEN excused \cup {starts} ELSE excused
      /\ excused \subseteq 1..MaxStarts
  BY DEF Crash, EndRun, Typed
<1>2. faults' \in 0..MaxFaults
  BY AsyncAssumption DEF Crash, Fault, Typed
<1>3. /\ out \in Outputs /\ out.start <= starts' /\ KnownBy(out, starts', pulp', made', spoiled')
      /\ stage \in Reading => starts \in 1..MaxStarts
  BY <1>1, WorkKnown
<1>4. to \in {"begin", "error"}
  OBVIOUS
<1> HIDE DEF to
<1>5. EndsWithTasks'
  BY <1>1, <1>4 DEF EndsWithTasks
<1>6. excused' \subseteq 1..MaxStarts /\ excused \subseteq excused'
  BY <1>1, <1>3
<1>7. stage \in Reading /\ mode = "start" => starts \in excused'
  BY <1>1
<1>8. pings' \in Nat
  BY <1>1
<1> QED
  BY <1>1, <1>2, <1>3, <1>4, <1>5, <1>6, <1>7, <1>8, EndAssembled, StageSets

-----------------------------------------------------------------------------
(* Errors. *)

(* A resumed run that asks for the work again. *)
LEMMA InitiateAssembled ==
  ASSUME IInv, UNCHANGED <<pulpVars, starts>>, excused \subseteq excused',
         NEW w \in Outputs, Initiate(w),
         w.start <= starts' /\ KnownBy(w, starts', pulp', made', spoiled'),
         mode = "resume", starts \in excused' \/ Excusable(starts),
         faults' \in 0..MaxFaults, excused' \subseteq 1..MaxStarts
  PROVE  IInv'
<1> USE InvTyped
<1>1. /\ stage' = "invoke" /\ work' = w /\ toRead' = {} /\ mode' = "start" /\ starts' = starts /\ blind' = FALSE
      /\ out' = out /\ pings' = pings
  BY DEF Initiate
<1>2. Unborn' /\ GroupsMade' /\ Old
  BY QuietKeeps DEF IInv
<1>3. Known(out)' /\ Known(work)' /\ Shape' /\ ReadsTracked' /\ ReadsInOrder'
  BY <1>1, <1>2, InitiateKeeps DEF IInv
<1>4. Typed'
  BY <1>1, StageSets DEF Typed, pulpVars
<1>5. Requests'
  BY <1>1, <1>2, RequestsKept DEF IInv
<1>6. EndsWithTasks'
  BY <1>1 DEF EndsWithTasks
<1>7. StartedAgainOnlyIfBad'
  BY <1>1, <1>2, StartedKept DEF IInv
<1> QED
  BY <1>2, <1>3, <1>4, <1>5, <1>6, <1>7, Assembled

LEMMA ErrorFoundInv == ASSUME IInv, ErrorFound PROVE IInv'
<1> USE InvTyped
<1>1. /\ stage = "found" /\ Erroneous(work) /\ UNCHANGED <<pulpVars, starts>>
      /\ faults' = faults /\ excused' = excused /\ faults \in 0..MaxFaults /\ excused \subseteq 1..MaxStarts
      /\ stage \in Reading /\ pings \in Nat
  BY StageSets DEF ErrorFound, Typed
<1>2. /\ work \in Outputs /\ starts \in 1..MaxStarts
      /\ work.start <= starts' /\ KnownBy(work, starts', pulp', made', spoiled')
      /\ work.start = out.start \/ work.start = starts
      /\ mode = "start" => work.start = starts
  BY <1>1, WorkKnown
<1> DEFINE w == IF mode \in {"poll", "resume"} THEN [work EXCEPT !.failed = @ + 1] ELSE work
<1>3. w \in Outputs /\ w.start = work.start /\ w.tasks = work.tasks /\ w.hrefs = work.hrefs /\ w.groups = work.groups
  <2>1. work.failed + 1 \in Nat
    BY <1>2, Fields
  <2> QED
    BY <1>2, <2>1, WithFailed
<1>4. IF mode = "resume" THEN Initiate(w) ELSE Fail(w)
  BY DEF ErrorFound
<1> HIDE DEF w
<1>5. w.start <= starts' /\ KnownBy(w, starts', pulp', made', spoiled')
  BY <1>2, <1>3, KnownSame
<1>6. Excusable(starts)
  <2>1. PICK i \in Ids : work.tasks[i] = "failed" \/ work.groups[i] = "bad"
    BY <1>1 DEF Erroneous
  <2>2. /\ work.tasks[i] = "failed" => pulp[i] = "failed" /\ Request(i) = work.start
        /\ work.groups[i] = "bad" => i \in spoiled /\ Request(i) <= starts
        /\ work.start <= starts
    BY DEF IInv, Known, KnownBy, Final
  <2>3. Request(i) \in 1..starts
    BY <1>2, <2>1, <2>2, RequestRange
  <2>4. Broken(Request(i))
    BY <2>1, <2>2 DEF Broken
  <2> QED
    BY <2>3, <2>4 DEF Excusable
<1>7. CASE mode = "resume"
  BY <1>1, <1>3, <1>4, <1>5, <1>6, <1>7, InitiateAssembled
<1>8. CASE mode # "resume"
  <2>1. EndRun("error", w) /\ blind' = FALSE /\ pings' = pings /\ stage' = "error"
    BY <1>4, <1>8 DEF Fail, EndRun
  <2>2. EndsWithTasks'
    BY <2>1 DEF EndsWithTasks
  <2> QED
    BY <1>1, <1>2, <1>3, <1>5, <2>1, <2>2, EndAssembled, StageSets
<1> QED
  BY <1>7, <1>8

LEMMA UnreadableOutput ==
  ASSUME IInv, UNCHANGED <<pulpVars, starts>>, stage \in Reading, NEW i \in Ids, i \in toRead
  PROVE  LET r == Unreadable(i)
         IN /\ r \in Outputs /\ r.start = work.start /\ r.hrefs = work.hrefs /\ r.failed = work.failed
            /\ r.start <= starts' /\ KnownBy(r, starts', pulp', made', spoiled')
<1> USE InvTyped
<1>1. /\ work \in Outputs /\ work.start <= starts' /\ KnownBy(work, starts', pulp', made', spoiled')
  BY WorkKnown
<1>2. CASE stage \in {"tasks", "check"}
  <2> DEFINE r == [work EXCEPT !.tasks[i] = "unread"]
  <2>1. /\ r \in Outputs /\ r.start = work.start /\ r.hrefs = work.hrefs /\ r.groups = work.groups
        /\ r.failed = work.failed
        /\ \A j \in Ids : r.tasks[j] = IF j = i THEN "unread" ELSE work.tasks[j]
    BY <1>1, WithTask DEF TaskStates
  <2>2. Unreadable(i) = r
    BY <1>2 DEF Unreadable
  <2> HIDE DEF r
  <2>3. work.tasks[i] # "none"
    BY <1>2 DEF IInv, ReadsTracked, Tasks
  <2>4. KnownBy(r, starts', pulp', made', spoiled')
    BY <1>1, <2>1, <2>3 DEF KnownBy, Final
  <2> QED
    BY <1>1, <2>1, <2>2, <2>4
<1>3. CASE stage \in {"groups", "found", "recheck"}
  <2> DEFINE r == [work EXCEPT !.groups[i] = "unread"]
  <2>1. /\ r \in Outputs /\ r.start = work.start /\ r.hrefs = work.hrefs /\ r.tasks = work.tasks
        /\ r.failed = work.failed
        /\ \A j \in Ids : r.groups[j] = IF j = i THEN "unread" ELSE work.groups[j]
    BY <1>1, WithGroup DEF GroupStates
  <2>2. Unreadable(i) = r
    BY <1>3 DEF Unreadable
  <2> HIDE DEF r
  <2>3. work.groups[i] # "none"
    BY <1>3 DEF IInv, ReadsTracked, Groups
  <2>4. KnownBy(r, starts', pulp', made', spoiled')
    BY <1>1, <2>1, <2>3 DEF KnownBy
  <2> QED
    BY <1>1, <2>1, <2>2, <2>4
<1> QED
  BY <1>2, <1>3 DEF Reading

LEMMA ReadFailsInv == ASSUME IInv, NEW i \in Ids, ReadFails(i) PROVE IInv'
<1> USE InvTyped
<1> DEFINE w == Unreadable(i)
<1>1. /\ stage \in Reading /\ i \in toRead /\ UNCHANGED <<pulpVars, starts>> /\ excused' = excused
      /\ excused \subseteq 1..MaxStarts /\ pings \in Nat
      /\ EndRun("error", w) /\ blind' = FALSE /\ pings' = pings /\ stage' = "error"
  BY StageSets DEF ReadFails, Fail, EndRun, Typed
<1>2. faults' \in 0..MaxFaults
  BY AsyncAssumption DEF ReadFails, Fault, Typed
<1>3. /\ w \in Outputs /\ w.start = work.start
      /\ w.start <= starts' /\ KnownBy(w, starts', pulp', made', spoiled')
  BY <1>1, UnreadableOutput
<1>4. /\ work.start = out.start \/ work.start = starts
      /\ mode = "start" => work.start = starts
  BY <1>1, WorkKnown
<1> HIDE DEF w
<1>5. EndsWithTasks'
  BY <1>1 DEF EndsWithTasks
<1> QED
  BY <1>1, <1>2, <1>3, <1>4, <1>5, EndAssembled, StageSets

LEMMA PollFailsInv == ASSUME IInv, NEW i \in Ids, PollFails(i) PROVE IInv'
<1> USE InvTyped
<1> DEFINE unread == Unreadable(i)
           w == [Unreadable(i) EXCEPT !.failed = @ + 1]
<1>1. /\ stage \in Reading /\ i \in toRead /\ UNCHANGED <<pulpVars, starts>> /\ mode \in {"poll", "resume"}
      /\ excused \subseteq 1..MaxStarts /\ pings \in Nat
      /\ stage \in {"tasks", "groups", "found"}
  BY StageSets DEF PollFails, Typed
<1>2. faults' \in 0..MaxFaults
  BY AsyncAssumption DEF PollFails, Fault, Typed
<1>3. /\ unread \in Outputs /\ unread.start = work.start
      /\ unread.start <= starts' /\ KnownBy(unread, starts', pulp', made', spoiled')
  BY <1>1, UnreadableOutput
<1>4. /\ w \in Outputs /\ w.start = unread.start /\ w.tasks = unread.tasks /\ w.hrefs = unread.hrefs
      /\ w.groups = unread.groups
  <2>1. unread.failed + 1 \in Nat
    BY <1>3, Fields
  <2> QED
    BY <1>3, <2>1, WithFailed
<1>5. /\ work \in Outputs /\ starts \in 1..MaxStarts /\ starts > 0
      /\ work.start = out.start \/ work.start = starts
  BY <1>1, WorkKnown
<1>6. /\ \/ /\ RetriesLeft
            /\ stage' = "check" /\ work' = w /\ toRead' = UnreadTasks(w)
            /\ blind' = TRUE
            /\ UNCHANGED <<mode, out, pings>>
         \/ /\ ~RetriesLeft
            /\ IF mode = "resume" THEN Initiate(w) ELSE Fail(w)
      /\ excused' = IF work.failed + 1 >= MaxRetries THEN excused \cup {starts} ELSE excused
  BY DEF PollFails
<1> HIDE DEF w, unread
<1>7. w.start = work.start /\ w.start <= starts' /\ KnownBy(w, starts', pulp', made', spoiled')
  BY <1>3, <1>4, KnownSame
<1>8. RetriesLeft <=> ~(work.failed + 1 >= MaxRetries)
  BY <1>5, Fields, AsyncAssumption DEF RetriesLeft
<1>9. CASE RetriesLeft
  <2>1. /\ stage' = "check" /\ work' = w /\ toRead' = UnreadTasks(w) /\ blind' = TRUE
        /\ UNCHANGED <<pulpVars, starts, mode, out, excused>> /\ UNCHANGED pings
    BY <1>1, <1>6, <1>8, <1>9
  <2>2. UnreadTasks(w) \subseteq Tasks(w) /\ Tasks(w) \subseteq Ids
    BY DEF UnreadTasks, Tasks
  <2>3. Typed'
    BY <1>2, <1>4, <2>1, <2>2, StageSets DEF Typed, pulpVars
  <2>4. Known(work)'
    BY <1>7, <2>1 DEF Known
  <2>5. Shape'
    BY <1>1, <1>7, <2>1, StageSets DEF IInv, Shape
  <2>6. ReadsTracked' /\ ReadsInOrder'
    BY <2>1, <2>2 DEF ReadsTracked, ReadsInOrder
  <2> QED
    BY <1>1, <2>1, <2>3, <2>4, <2>5, <2>6, ReadingAssembled, StageSets
<1>10. CASE ~RetriesLeft
  <2>1. /\ excused' = excused \cup {starts} /\ excused' \subseteq 1..MaxStarts
        /\ IF mode = "resume" THEN Initiate(w) ELSE Fail(w)
    BY <1>1, <1>5, <1>6, <1>8, <1>10
  <2>2. CASE mode = "resume"
    BY <1>1, <1>2, <1>4, <1>7, <2>1, <2>2, InitiateAssembled
  <2>3. CASE mode # "resume"
    <3>1. EndRun("error", w) /\ blind' = FALSE /\ pings' = pings /\ stage' = "error"
      BY <2>1, <2>3 DEF Fail, EndRun
    <3>2. EndsWithTasks'
      BY <3>1 DEF EndsWithTasks
    <3> QED
      BY <1>1, <1>2, <1>4, <1>5, <1>7, <2>1, <3>1, <3>2, EndAssembled, StageSets
  <2> QED
    BY <2>2, <2>3
<1> QED
  BY <1>9, <1>10

-----------------------------------------------------------------------------
(* The theorems. *)

LEMMA InitInv == Init => IInv
<1> SUFFICES ASSUME Init PROVE IInv
  OBVIOUS
<1>1. /\ stage = "begin" /\ starts = 0 /\ out = Empty /\ work = Empty /\ toRead = {} /\ spoiled = {}
      /\ \A i \in Ids : pulp[i] = "none" /\ made[i] = 0 /\ open[i] = 0
  BY DEF Init
<1>2. Typed
  <2>1. /\ pulp \in [Ids -> {"none", "running"} \cup Final]
        /\ made \in [Ids -> Nat] /\ open \in [Ids -> Nat]
    BY DEF Init
  <2>2. starts \in 0..MaxStarts /\ faults \in 0..MaxFaults /\ pings \in Nat
    BY AsyncAssumption DEF Init
  <2> QED
    BY <2>1, <2>2, EmptyOutput DEF Init, Typed
<1>3. Known(Empty)
  <2>1. \A i \in Ids : Request(i) # Empty.start
    BY RequestRange, EmptyOutput
  <2> QED
    BY <1>1, <2>1, EmptyOutput DEF Known, KnownBy, Final
<1>4. TypeOK
  BY <1>1, <1>2, <1>3, TypedIsType
<1>5. Unborn /\ GroupsMade
  BY <1>1 DEF Unborn, GroupsMade
<1>6. Shape /\ ReadsTracked /\ ReadsInOrder /\ EndsWithTasks
  BY <1>1 DEF Shape, ReadsTracked, ReadsInOrder, Reading, EndsWithTasks
<1>7. Requests /\ StartedAgainOnlyIfBad
  BY <1>1, EmptyOutput DEF Requests, StartedAgainOnlyIfBad
<1> QED
  BY <1>1, <1>3, <1>4, <1>5, <1>6, <1>7 DEF IInv

LEMMA StepInv == IInv /\ [Next]_vars => IInv'
<1> SUFFICES ASSUME IInv, [Next]_vars PROVE IInv'
  OBVIOUS
<1>1. ASSUME NEW i \in Ids, PulpStep(i) \/ ReadFails(i) \/ PollFails(i) PROVE IInv'
  BY <1>1, PulpStepInv, ReadFailsInv, PollFailsInv
<1>2. CASE ActionStep
  <2>1. ASSUME NEW i \in Ids, ReadTask(i) \/ ReadGroup(i) PROVE IInv'
    BY <2>1, ReadTaskInv, ReadGroupInv
  <2>2. CASE Begin \/ Invoke \/ Poll
    BY <2>2, BeginInv, InvokeInv, PollInv
  <2>3. CASE TasksRead \/ GroupsRead \/ Conclude \/ ErrorFound
    BY <2>3, TasksReadInv, GroupsReadInv, ConcludeInv, ErrorFoundInv
  <2>4. CASE NotDone \/ TasksDone \/ AllDone \/ CancelGroups
    BY <2>4, NotDoneInv, TasksDoneInv, AllDoneInv, CancelGroupsInv
  <2> QED
    BY <1>2, <2>1, <2>2, <2>3, <2>4 DEF ActionStep
<1>3. CASE InvokeFails \/ CancelTasks \/ CancelFails \/ LatePoll
  BY <1>3, InvokeFailsInv, CancelTasksInv, CancelFailsInv, LatePollInv
<1>4. CASE Crash \/ Resume \/ Skip
  BY <1>4, CrashInv, OperatorInv
<1>5. CASE UNCHANGED vars
  BY <1>5, UnchangedInv
<1> QED
  BY <1>1, <1>2, <1>3, <1>4, <1>5 DEF Next

LEMMA Invariance == Spec => []IInv
<1>1. Init => IInv
  BY InitInv
<1>2. IInv /\ [Next]_vars => IInv'
  BY StepInv
<1> QED
  BY <1>1, <1>2, PTL DEF Spec

(* What an action keeps of Pulp's answers is well formed at every stage of  *)
(* a run, and the tasks it tracks are those of its last answered request.   *)
THEOREM TypeCorrect == Spec => []TypeOK
<1>1. IInv => TypeOK
  BY DEF IInv
<1> QED
  BY <1>1, Invariance, PTL

(* An action that succeeds has no running task of its last request, and     *)
(* without a failed poll no failed one and no group with an open or failed  *)
(* subtask, whatever was dispatched while it read (poll_external_task).     *)
THEOREM EndsWithPulp == Spec => []EndsWithTasks
<1>1. IInv => EndsWithTasks
  BY DEF IInv
<1> QED
  BY <1>1, Invariance, PTL

(* Pulp is asked for the work again only after a failure in an earlier      *)
(* request, a lost answer or too many failed polls, through all crashes     *)
(* and resumes (rescue_external_task, external_task).                       *)
THEOREM NoSecondStart == Spec => []StartedAgainOnlyIfBad
<1>1. IInv => StartedAgainOnlyIfBad
  BY DEF IInv
<1> QED
  BY <1>1, Invariance, PTL
=============================================================================
