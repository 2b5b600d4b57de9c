-------------------------- MODULE TaskPollingProofs --------------------------
(***************************************************************************)
(* Proofs about TaskPolling, for any tasks, pages and numbers of searches;  *)
(* then that the content page of a proxy (CapsulePage) is one of the        *)
(* clients that TaskPolling allows for, so that what is proved of the loop  *)
(* with any clients holds of the loop with this page, and of the page's     *)
(* types.                                                                  *)
(***************************************************************************)
EXTENDS CapsulePage, TLAPS, FiniteSetTheorems

IInv == TypeOK /\ OneLoop /\ OwnTaskOnly

(* At most one request is under way, and taking it out leaves none. *)
LEMMA LastRemoved ==
  ASSUME IInv, NEW i \in 1..Len(requests)
  PROVE  /\ RemoveAt(requests, i) = << >>
         /\ Len(requests) = 1 /\ i = 1 /\ timers = 0 /\ ~handling /\ running
         /\ requests = <<requests[1]>>
<1>1. /\ requests \in Seq(Requests) /\ timers \in Nat /\ handling \in BOOLEAN /\ running \in BOOLEAN
      /\ Activities = IF running THEN 1 ELSE 0
  BY DEF IInv, TypeOK, OneLoop, Requests
<1>2. Len(requests) = 1 /\ i = 1 /\ timers = 0 /\ ~handling /\ running
  BY <1>1 DEF Activities
<1>3. RemoveAt(requests, i) = SubSeq(requests, 1, 0) \o SubSeq(requests, 2, 1)
  BY <1>2 DEF RemoveAt
<1>4. SubSeq(requests, 1, 0) = << >> /\ SubSeq(requests, 2, 1) = << >>
  BY <1>1, <1>2
<1>5. requests = <<requests[1]>>
  BY <1>1, <1>2
<1> QED
  BY <1>2, <1>3, <1>4, <1>5

LEMMA InitHolds == ASSUME PollingAssumption PROVE PollInit => IInv
<1> SUFFICES ASSUME PollInit PROVE IInv
  OBVIOUS
<1>1. DOMAIN searches = {}
  BY DEF PollInit
<1>2. TypeOK
  <2>1. searches \in [Registered -> Tasks] /\ Registered \subseteq 1..generated
    BY <1>1 DEF PollInit, Registered
  <2>2. generated \in 0..MaxSearches /\ timers \in Nat
    BY PollingAssumption DEF PollInit, PollingAssumption
  <2>5. running \in BOOLEAN /\ handling \in BOOLEAN
    BY DEF PollInit
  <2>3. requests \in Seq(Requests)
    BY DEF PollInit
  <2>4. task \in [Tasks -> Status] /\ told \in [SearchIds -> Status \cup {Nothing}]
    BY DEF PollInit, Status
  <2> QED
    BY <2>1, <2>2, <2>3, <2>4, <2>5 DEF TypeOK, PollInit
<1>3. OneLoop
  BY <1>1 DEF OneLoop, Activities, Registered, PollInit
<1>4. OwnTaskOnly
  BY DEF OwnTaskOnly, PollInit
<1> QED
  BY <1>2, <1>3, <1>4 DEF IInv

-----------------------------------------------------------------------------
(* Registering and unregistering. *)

(* What is asked for ids up to generated stays so when more are generated. *)
LEMMA MoreSearches ==
  ASSUME generated \in Nat, generated' \in Nat, generated <= generated',
         requests \in Seq(Requests)
  PROVE  requests \in Seq(Requests')
<1>1. \A S : OfSearches(S) \subseteq UNION {[I -> S] : I \in SUBSET (1..generated')}
  <2> SUFFICES ASSUME NEW S, NEW I \in SUBSET (1..generated), NEW f \in [I -> S]
               PROVE  f \in UNION {[J -> S] : J \in SUBSET (1..generated')}
    BY DEF OfSearches
  <2>1. I \in SUBSET (1..generated')
    OBVIOUS
  <2> QED
    BY <2>1
<1>2. \A S : OfSearches(S) \subseteq OfSearches(S)'
  BY <1>1 DEF OfSearches
<1>3. \A r \in Requests : r \in Requests'
  BY <1>2 DEF Requests
<1>4. \A i \in 1..Len(requests) : requests[i] \in Requests'
  BY <1>3
<1> QED
  BY <1>4

LEMMA SameRequests == ASSUME generated' = generated PROVE Requests' = Requests
BY DEF Requests, OfSearches

(* registerSearch: old searches stay, new ones are above all ids given out, *)
(* and what is asked now is what is registered.                             *)
LEMMA RegisterStep ==
  ASSUME PollingAssumption, IInv, NEW n \in 1..MaxSearches, NEW ts \in [1..n -> Tasks], Register(ts)
  PROVE  /\ generated' \in 0..MaxSearches /\ generated <= generated'
         /\ Registered' \subseteq 1..generated' /\ Registered' # {}
         /\ searches' \in [Registered' -> Tasks]
         /\ \A id \in Registered' : id <= generated => id \in Registered /\ searches'[id] = searches[id]
         /\ running' = TRUE
         /\ IF running THEN requests' = requests
                       ELSE \E new \in Requests' :
                              /\ requests' = Append(requests, new)
                              /\ \A id \in Registered' \cap DOMAIN new.asked : new.asked[id] = searches'[id]
<1>0. /\ generated \in 0..MaxSearches /\ MaxSearches \in Nat /\ Len(ts) = n
      /\ Registered \subseteq 1..generated /\ searches \in [Registered -> Tasks] /\ running \in BOOLEAN
  BY DEF IInv, TypeOK, PollingAssumption
<1> DEFINE ids == (generated + 1)..(generated + n)
           with(new) == [i \in Registered \cup new |->
                           IF i \in new THEN ts[i - NextId + 1] ELSE searches[i]]
<1>1. /\ ids \subseteq SearchIds
      /\ searches' = with(ids)
      /\ generated' = generated + n
      /\ IF ~running THEN running' = TRUE /\ requests' = Append(requests, Ask(with({generated + 1})))
                     ELSE UNCHANGED <<running, requests>>
  <2>1. NextId = generated + 1 /\ NextId + Len(ts) - 1 = generated + n
    BY <1>0 DEF NextId
  <2> QED
    BY <2>1 DEF Register, MustStart
<1>2. generated' \in 0..MaxSearches /\ generated <= generated'
  <2>1. generated + n \in SearchIds
    BY <1>0, <1>1
  <2> QED
    BY <1>0, <1>1, <2>1 DEF SearchIds
<1>3. Registered' = Registered \cup ids
  BY <1>1 DEF Registered
<1>4. Registered' \subseteq 1..generated' /\ Registered' # {}
  <2>1. generated + 1 \in Registered'
    BY <1>0, <1>3
  <2> QED
    BY <1>0, <1>1, <1>3, <2>1
<1>5. \A i \in ids : ts[i - NextId + 1] \in Tasks
  BY <1>0 DEF NextId
<1>6. searches' \in [Registered' -> Tasks]
  BY <1>0, <1>1, <1>3, <1>5
<1>7. \A id \in Registered' : id <= generated => id \in Registered /\ searches'[id] = searches[id]
  BY <1>0, <1>1, <1>3
<1>8. ASSUME ~running
      PROVE  \E new \in Requests' :
                /\ requests' = Append(requests, new)
                /\ \A id \in Registered' \cap DOMAIN new.asked : new.asked[id] = searches'[id]
  <2> DEFINE f == with({generated + 1})
  <2>1. DOMAIN f = Registered \cup {generated + 1} /\ generated + 1 \in ids
    BY <1>0
  <2>2. f \in [DOMAIN f -> Tasks]
    BY <1>0, <1>5, <2>1
  <2>3. DOMAIN f \in SUBSET (1..generated')
    BY <1>0, <1>1, <2>1
  <2>4. f \in OfSearches(Tasks)'
    BY <2>2, <2>3 DEF OfSearches
  <2>5. Ask(f) \in Requests' /\ Ask(f).asked = f
    BY <2>4 DEF Ask, Requests
  <2>6. \A id \in Registered' \cap DOMAIN f : f[id] = searches'[id]
    BY <1>0, <1>1, <1>3, <2>1
  <2>7. requests' = Append(requests, Ask(f))
    BY <1>1, <1>8
  <2> QED
    BY <2>5, <2>6, <2>7
<1>9. running' = TRUE /\ (running => requests' = requests)
  BY <1>0, <1>1
<1> QED
  BY <1>0, <1>2, <1>4, <1>6, <1>7, <1>8, <1>9

(* unregisterSearch: the searches that stay are as they were. *)
LEMMA UnregisterStep ==
  ASSUME IInv, NEW ids \in SUBSET Registered, Unregister(ids)
  PROVE  /\ Registered' \subseteq Registered
         /\ searches' \in [Registered' -> Tasks]
         /\ \A id \in Registered' : searches'[id] = searches[id]
BY DEF IInv, TypeOK, Unregister, Without, Registered

LEMMA RegisterKeeps ==
  ASSUME PollingAssumption, IInv, NEW n \in 1..MaxSearches, NEW ts \in [1..n -> Tasks], Register(ts),
         UNCHANGED <<task, timers, handling>>, results' \subseteq results,
         told' \in [SearchIds -> Status \cup {Nothing}]
  PROVE  IInv'
<1>0. /\ generated \in 0..MaxSearches /\ requests \in Seq(Requests) /\ timers \in Nat
      /\ running \in BOOLEAN /\ handling \in BOOLEAN /\ task \in [Tasks -> Status]
      /\ results \subseteq [id : 1..generated, task : Tasks, status : Status]
      /\ Activities = IF running THEN 1 ELSE 0
  BY DEF IInv, TypeOK, OneLoop, Requests
<1>1. /\ generated' \in 0..MaxSearches /\ generated <= generated'
      /\ Registered' \subseteq 1..generated' /\ Registered' # {}
      /\ searches' \in [Registered' -> Tasks]
      /\ \A id \in Registered' : id <= generated => id \in Registered /\ searches'[id] = searches[id]
      /\ running' = TRUE
      /\ IF running THEN requests' = requests
                    ELSE \E new \in Requests' :
                           /\ requests' = Append(requests, new)
                           /\ \A id \in Registered' \cap DOMAIN new.asked : new.asked[id] = searches'[id]
  BY RegisterStep
<1>2. requests \in Seq(Requests')
  BY <1>0, <1>1, MoreSearches, PollingAssumption DEF PollingAssumption
<1>3. requests' \in Seq(Requests')
  <2>1. CASE running
    BY <2>1, <1>1, <1>2
  <2>2. CASE ~running
    <3>1. PICK new \in Requests' : requests' = Append(requests, new)
      BY <2>2, <1>1
    <3> DEFINE R == Requests'
    <3>2. requests \in Seq(R) /\ new \in R
      BY <1>2
    <3> HIDE DEF R
    <3>3. Append(requests, new) \in Seq(R)
      BY <3>2
    <3> QED
      BY <3>1, <3>3 DEF R
  <2> QED
    BY <1>0, <2>1, <2>2
<1>4. TypeOK'
  <2>1. results' \subseteq [id : 1..generated', task : Tasks, status : Status]
    <3> SUFFICES ASSUME NEW r \in results' PROVE r \in [id : 1..generated', task : Tasks, status : Status]
      OBVIOUS
    <3>1. r \in [id : 1..generated, task : Tasks, status : Status]
      BY <1>0
    <3>2. r.id \in 1..generated'
      BY <3>1, <1>0, <1>1
    <3> QED
      BY <3>1, <3>2
  <2>2. running' \in BOOLEAN /\ handling' \in BOOLEAN /\ task' \in [Tasks -> Status] /\ timers' \in Nat
    BY <1>0, <1>1
  <2> QED
    BY <1>1, <1>3, <2>1, <2>2 DEF TypeOK, Requests
<1>5. OneLoop'
  <2>1. CASE running
    BY <2>1, <1>0, <1>1 DEF OneLoop, Activities
  <2>2. CASE ~running
    <3>1. Len(requests') = Len(requests) + 1
      BY <2>2, <1>1, <1>2
    <3>2. Activities = 0 /\ Len(requests) \in Nat
      BY <2>2, <1>0
    <3>3. timers' = 0 /\ ~handling' /\ Len(requests') = 1
      BY <3>1, <3>2, <1>0 DEF Activities
    <3> QED
      BY <3>3, <1>1 DEF OneLoop, Activities
  <2> QED
    BY <1>0, <2>1, <2>2
<1>6. OwnTaskOnly'
  <2>1. ASSUME NEW i \in 1..Len(requests), NEW id \in Registered' \cap DOMAIN requests[i].asked
        PROVE  requests[i].asked[id] = searches'[id]
    <3>1. requests[i] \in Requests
      BY <1>0
    <3>2. requests[i].asked \in OfSearches(Tasks)
      BY <3>1 DEF Requests
    <3>3. DOMAIN requests[i].asked \subseteq 1..generated
      BY <3>2 DEF OfSearches
    <3>4. id \in Registered /\ searches'[id] = searches[id]
      BY <3>3, <1>0, <1>1
    <3> QED
      BY <3>4 DEF IInv, OwnTaskOnly
  <2>2. ASSUME NEW i \in 1..Len(requests'), NEW id \in Registered' \cap DOMAIN requests'[i].asked
        PROVE  requests'[i].asked[id] = searches'[id]
    <3>1. CASE running
      BY <3>1, <2>1, <2>2, <1>1
    <3>2. CASE ~running
      <4>1. PICK new \in Requests' :
              /\ requests' = Append(requests, new)
              /\ \A j \in Registered' \cap DOMAIN new.asked : new.asked[j] = searches'[j]
        BY <3>2, <1>1
      <4>2. (i \in 1..Len(requests) /\ requests'[i] = requests[i]) \/ requests'[i] = new
        BY <4>1, <1>0
      <4> QED
        BY <4>1, <4>2, <2>1, <2>2
    <3> QED
      BY <1>0, <3>1, <3>2
  <2>3. ASSUME NEW r \in results', r.id \in Registered'
        PROVE  r.task = searches'[r.id]
    <3>1. r \in results /\ r.id \in 1..generated
      BY <2>3, <1>0
    <3>2. r.id \in Registered /\ searches'[r.id] = searches[r.id]
      BY <3>1, <2>3, <1>0, <1>1
    <3> QED
      BY <3>1, <3>2 DEF IInv, OwnTaskOnly
  <2> QED
    BY <2>2, <2>3 DEF OwnTaskOnly
<1> QED
  BY <1>4, <1>5, <1>6 DEF IInv

LEMMA UnregisterKeeps ==
  ASSUME IInv, NEW ids \in SUBSET Registered, Unregister(ids),
         UNCHANGED <<task, timers, handling>>, results' \subseteq results,
         told' \in [SearchIds -> Status \cup {Nothing}]
  PROVE  IInv'
<1>0. /\ generated \in 0..MaxSearches /\ requests \in Seq(Requests) /\ timers \in Nat
      /\ running \in BOOLEAN /\ handling \in BOOLEAN /\ task \in [Tasks -> Status]
      /\ results \subseteq [id : 1..generated, task : Tasks, status : Status]
      /\ Registered \subseteq 1..generated
  BY DEF IInv, TypeOK
<1>1. /\ Registered' \subseteq Registered
      /\ searches' \in [Registered' -> Tasks]
      /\ \A id \in Registered' : searches'[id] = searches[id]
  BY UnregisterStep
<1>2. generated' = generated /\ running' = running /\ requests' = requests
  BY DEF Unregister
<1>3. TypeOK'
  BY <1>0, <1>1, <1>2, SameRequests DEF TypeOK
<1>4. OneLoop'
  BY <1>1, <1>2 DEF IInv, OneLoop, Activities
<1>5. OwnTaskOnly'
  BY <1>1, <1>2 DEF IInv, OwnTaskOnly
<1> QED
  BY <1>3, <1>4, <1>5 DEF IInv

-----------------------------------------------------------------------------
(* The steps. *)

LEMMA StepHolds == ASSUME PollingAssumption, IInv, [Next]_pollVars PROVE IInv'
<1>0. /\ generated \in 0..MaxSearches /\ requests \in Seq(Requests) /\ timers \in Nat
      /\ running \in BOOLEAN /\ handling \in BOOLEAN /\ task \in [Tasks -> Status]
      /\ Registered \subseteq 1..generated /\ searches \in [Registered -> Tasks]
      /\ results \subseteq [id : 1..generated, task : Tasks, status : Status]
      /\ told \in [SearchIds -> Status \cup {Nothing}]
      /\ Activities = (IF running THEN 1 ELSE 0)
      /\ Registered # {} => running
  BY DEF IInv, TypeOK, OneLoop, Requests
<1> USE DEF loopVars, pollVars
<1>1. CASE UNCHANGED pollVars
  <2>1. TypeOK'
    BY <1>0, <1>1, SameRequests DEF TypeOK, Registered
  <2> QED
    BY <1>1, <2>1 DEF IInv, OneLoop, OwnTaskOnly, Activities, Registered
<1>2. ASSUME NEW t \in Tasks, Pause(t) \/ Resume(t) \/ Stop(t) PROVE IInv'
  <2>1. task' \in [Tasks -> Status] /\ UNCHANGED <<searches, generated, loopVars, results, told>>
    BY <1>0, <1>2 DEF Pause, Resume, Stop, Status
  <2>2. TypeOK'
    BY <1>0, <2>1, SameRequests DEF TypeOK, Registered
  <2> QED
    BY <2>1, <2>2 DEF IInv, OneLoop, OwnTaskOnly, Activities, Registered
<1>3. ASSUME NEW i \in 1..Len(requests), Read(i) PROVE IInv'
  <2> DEFINE answer == [id \in DOMAIN requests[i].asked |-> task[requests[i].asked[id]]]
  <2>1. requests[i] \in Requests /\ requests' = [requests EXCEPT ![i].read = answer]
    BY <1>0, <1>3 DEF Read
  <2>2. PICK I \in SUBSET (1..generated) : requests[i].asked \in [I -> Tasks]
    BY <2>1 DEF Requests, OfSearches
  <2>3. answer \in [I -> Status]
    BY <2>2, <1>0
  <2>4. answer \in OfSearches(Status)
    BY <2>3 DEF OfSearches
  <2>5. [requests[i] EXCEPT !.read = answer] \in Requests
    <3>1. DOMAIN answer = DOMAIN requests[i].asked
      OBVIOUS
    <3> QED
      BY <2>1, <2>4, <3>1 DEF Requests
  <2>6. requests' \in Seq(Requests) /\ Len(requests') = Len(requests)
    BY <2>1, <2>5, <1>0
  <2>7. \A j \in 1..Len(requests) : requests'[j].asked = requests[j].asked
    <3> TAKE j \in 1..Len(requests)
    <3>1. requests[j] \in Requests /\ requests[i] \in Requests
      BY <1>0
    <3> QED
      BY <2>1, <3>1, <1>0 DEF Requests
  <2>8. UNCHANGED <<task, searches, generated, running, timers, handling, results, told>>
    BY <1>3 DEF Read
  <2>9. TypeOK'
    BY <1>0, <2>6, <2>8, SameRequests DEF TypeOK, Registered
  <2>10. OneLoop'
    BY <2>6, <2>8 DEF IInv, OneLoop, Activities, Registered
  <2>11. OwnTaskOnly'
    BY <2>6, <2>7, <2>8 DEF IInv, OwnTaskOnly, Registered
  <2> QED
    BY <2>9, <2>10, <2>11 DEF IInv
<1>4. ASSUME Timeout PROVE IInv'
  <2>1. timers = 1 /\ requests = << >> /\ ~handling /\ running /\ timers' = 0
    BY <1>0, <1>4 DEF Timeout, Activities
  <2>2. UNCHANGED <<task, searches, generated, handling, results, told>>
    BY <1>4 DEF Timeout
  <2>3. CASE Registered = {}
    <3>1. running' = FALSE /\ requests' = requests
      BY <1>4, <2>3 DEF Timeout, UpdateProgress
    <3>2. TypeOK'
      BY <1>0, <2>1, <2>2, <3>1, SameRequests DEF TypeOK, Registered
    <3>3. OneLoop'
      BY <2>1, <2>2, <2>3, <3>1 DEF OneLoop, Activities, Registered
    <3>4. OwnTaskOnly'
      BY <2>2, <3>1 DEF IInv, OwnTaskOnly, Registered
    <3> QED
      BY <3>2, <3>3, <3>4 DEF IInv
  <2>4. CASE Registered # {}
    <3>0. running' = running /\ requests' = Append(requests, Ask(searches))
      BY <1>4, <2>4 DEF Timeout, UpdateProgress
    <3>1. running' = running /\ requests' = <<Ask(searches)>>
      BY <2>1, <3>0
    <3>2. Ask(searches) \in Requests
      <4>1. searches \in OfSearches(Tasks)
        BY <1>0 DEF OfSearches
      <4> QED
        BY <4>1 DEF Requests, Ask
    <3>3. requests' \in Seq(Requests) /\ Len(requests') = 1
      BY <3>1, <3>2
    <3>4. TypeOK'
      BY <1>0, <2>1, <2>2, <3>1, <3>3, SameRequests DEF TypeOK, Registered
    <3>5. OneLoop'
      BY <2>1, <2>2, <3>1, <3>3 DEF OneLoop, Activities
    <3>6. OwnTaskOnly'
      <4>1. \A i \in 1..Len(requests') : requests'[i].asked = searches
        BY <3>1 DEF Ask
      <4> QED
        BY <4>1, <2>2 DEF IInv, OwnTaskOnly, Registered
    <3> QED
      BY <3>4, <3>5, <3>6 DEF IInv
  <2> QED
    BY <2>3, <2>4
<1>5. ASSUME NEW i \in 1..Len(requests), Answer(i) PROVE IInv'
  <2>1. requests' = << >> /\ timers = 0 /\ ~handling /\ running /\ Len(requests) = 1
    BY <1>5, LastRemoved DEF Answer
  <2>2. /\ UNCHANGED <<task, searches, generated, running, timers, told>>
        /\ handling' = TRUE
        /\ results' = {[id |-> j, task |-> requests[i].asked[j], status |-> requests[i].read[j]] :
                         j \in DOMAIN requests[i].asked}
        /\ requests[i].read # Nothing
    BY <1>5 DEF Answer
  <2>3. requests[i] \in Requests
    BY <1>0
  <2>4. PICK I \in SUBSET (1..generated) : requests[i].asked \in [I -> Tasks]
    BY <2>3 DEF Requests, OfSearches
  <2>5. PICK J \in SUBSET (1..generated) : requests[i].read \in [J -> Status]
    BY <2>2, <2>3 DEF Requests, OfSearches
  <2>6. I = J
    BY <2>2, <2>3, <2>4, <2>5 DEF Requests
  <2>7. results' \subseteq [id : 1..generated, task : Tasks, status : Status]
    <3>1. \A j \in I : j \in 1..generated /\ requests[i].asked[j] \in Tasks /\ requests[i].read[j] \in Status
      BY <2>4, <2>5, <2>6
    <3>2. DOMAIN requests[i].asked = I
      BY <2>4
    <3>3. ASSUME NEW r \in results' PROVE r \in [id : 1..generated, task : Tasks, status : Status]
      <4>1. PICK j \in I : r = [id |-> j, task |-> requests[i].asked[j], status |-> requests[i].read[j]]
        BY <2>2, <3>2
      <4> QED
        BY <3>1, <4>1
    <3> QED
      BY <3>3
  <2>8. TypeOK'
    <3>1. requests' \in Seq(Requests')
      BY <2>1
    <3>2. /\ generated' = generated /\ searches' = searches /\ task' = task /\ told' = told
          /\ running' = TRUE /\ handling' = TRUE /\ timers' = 0
      BY <2>1, <2>2
    <3> QED
      BY <1>0, <2>7, <3>1, <3>2 DEF TypeOK, Registered
  <2>9. OneLoop'
    BY <2>1, <2>2 DEF OneLoop, Activities, Registered
  <2>10. OwnTaskOnly'
    <3>1. \A j \in Registered \cap DOMAIN requests[i].asked : requests[i].asked[j] = searches[j]
      BY DEF IInv, OwnTaskOnly
    <3>2. \A r \in results' : r.id \in Registered => r.task = searches[r.id]
      BY <2>2, <3>1
    <3>3. 1..Len(requests') = {}
      BY <2>1
    <3> QED
      BY <2>2, <3>2, <3>3 DEF OwnTaskOnly, Registered
  <2> QED
    BY <2>8, <2>9, <2>10 DEF IInv
<1>6. ASSUME NEW i \in 1..Len(requests), RequestFails(i) PROVE IInv'
  <2>1. requests' = << >> /\ timers' = 1 /\ ~handling /\ running
    BY <1>6, LastRemoved DEF RequestFails, AfterFailure
  <2>2. UNCHANGED <<task, searches, generated, running, handling, results, told>>
    BY <1>6 DEF RequestFails
  <2>3. TypeOK'
    BY <1>0, <2>1, <2>2, SameRequests DEF TypeOK, Registered
  <2>4. OneLoop'
    BY <2>1, <2>2 DEF OneLoop, Activities, Registered
  <2>5. OwnTaskOnly'
    BY <2>1, <2>2 DEF IInv, OwnTaskOnly, Registered
  <2> QED
    BY <2>3, <2>4, <2>5 DEF IInv
<1>7. ASSUME NEW r \in results, Skip(r) PROVE IInv'
  <2>1. results' \subseteq results /\ UNCHANGED <<task, searches, generated, loopVars, told>>
    BY <1>7 DEF Skip
  <2>2. TypeOK'
    BY <1>0, <2>1, SameRequests DEF TypeOK, Registered
  <2> QED
    BY <2>1, <2>2 DEF IInv, OneLoop, OwnTaskOnly, Activities, Registered
<1>8. ASSUME SchedulePoll PROVE IInv'
  <2>1. timers = 0 /\ Len(requests) = 0 /\ timers' = 1 /\ running /\ handling' = FALSE
    BY <1>0, <1>8 DEF SchedulePoll, Activities
  <2>2. UNCHANGED <<task, searches, generated, running, requests, results, told>>
    BY <1>8 DEF SchedulePoll
  <2>3. TypeOK'
    BY <1>0, <2>1, <2>2, SameRequests DEF TypeOK, Registered
  <2>4. OneLoop'
    BY <2>1, <2>2 DEF OneLoop, Activities, Registered
  <2>5. OwnTaskOnly'
    BY <2>2 DEF IInv, OwnTaskOnly, Registered
  <2> QED
    BY <2>3, <2>4, <2>5 DEF IInv
<1>9. CASE ClientRegisters
  BY <1>9, <1>0, RegisterKeeps DEF ClientRegisters
<1>10. CASE ClientUnregisters
  BY <1>10, <1>0, UnregisterKeeps DEF ClientUnregisters
<1>11. ASSUME NEW r \in results, Callback(r) PROVE IInv'
  <2>1. told' \in [SearchIds -> Status \cup {Nothing}]
    BY <1>0, <1>11 DEF Callback, Tell
  <2>2. results' \subseteq results /\ UNCHANGED <<task, timers, handling>>
    BY <1>11 DEF Callback, Tell
  <2> QED
    BY <1>11, <2>1, <2>2, RegisterKeeps, UnregisterKeeps DEF Callback
<1> QED
  BY <1>1, <1>2, <1>3, <1>4, <1>5, <1>6, <1>7, <1>8, <1>9, <1>10, <1>11
     DEF Next, ServerStep, LoopStep

-----------------------------------------------------------------------------
(* The theorems. *)

LEMMA Invariance == ASSUME PollingAssumption PROVE Spec => []IInv
<1>1. PollInit => IInv
  BY InitHolds
<1>2. IInv /\ [Next]_pollVars => IInv'
  BY StepHolds
<1> QED
  BY <1>1, <1>2, PTL DEF Spec

(* The state of the loop has its type whatever the clients do. *)
THEOREM TypeCorrect == Spec => []TypeOK
<1>1. IInv => TypeOK
  BY DEF IInv
<1> QED
  BY <1>1, PollingAssumption, Invariance, PTL

(* Whatever pages come, go and fail, one loop of requests and timeouts runs *)
(* while searches are registered, and never a second one.                   *)
THEOREM SingleLoop == Spec => []OneLoop
<1>1. IInv => OneLoop
  BY DEF IInv
<1> QED
  BY <1>1, PollingAssumption, Invariance, PTL

(* A callback is only ever called with the task its search was registered   *)
(* for.                                                                     *)
THEOREM OwnTasks == Spec => []OwnTaskOnly
<1>1. IInv => OwnTaskOnly
  BY DEF IInv
<1> QED
  BY <1>1, PollingAssumption, Invariance, PTL

-----------------------------------------------------------------------------
(* The content page of a proxy. *)

Answers == [active : SUBSET Tasks, last : {"none", "failed", "succeeded"}] \cup {Nothing}

Posts == [task : Tasks, planned : BOOLEAN]

(* What the server has read, and will do, is about tasks. *)
PageInv == /\ PageTypeOK
           /\ refreshes \in Seq(Answers)
           /\ posts \in Seq(Posts)

LEMMA Removed ==
  ASSUME NEW S, NEW s \in Seq(S), NEW i \in 1..Len(s)
  PROVE  RemoveAt(s, i) \in Seq(S)
<1>1. SubSeq(s, 1, i - 1) \in Seq(S) /\ SubSeq(s, i + 1, Len(s)) \in Seq(S)
  OBVIOUS
<1> QED
  BY <1>1 DEF RemoveAt

(* The tasks the server lists, each once. *)
LEMMA ListOfTasks ==
  ASSUME PageAssumption, NEW ts \in SUBSET Tasks
  PROVE  SetToSeq(ts) \in Seq(Tasks) /\ IsInjective(SetToSeq(ts))
<1>1. IsFiniteSet(ts)
  BY FS_Subset DEF PageAssumption
<1>2. Cardinality(ts) \in Nat /\ ExistsBijection(1..Cardinality(ts), ts)
  BY <1>1, FS_CardinalityType
<1>3. \E f \in [1..Cardinality(ts) -> ts] : IsInjective(f)
  BY <1>2 DEF ExistsBijection, Bijection, Injection, IsInjective
<1>4. SetToSeq(ts) \in [1..Cardinality(ts) -> ts] /\ IsInjective(SetToSeq(ts))
  BY <1>3 DEF SetToSeq
<1> QED
  BY <1>2, <1>4

LEMMA JoinedOnce ==
  ASSUME NEW ts \in Seq(Tasks), IsInjective(ts), NEW t \in Tasks
  PROVE  Joined(ts, t) \in Seq(Tasks) /\ IsInjective(Joined(ts, t)) /\ Joined(ts, t) # << >>
<1>1. CASE t \in Range(ts)
  BY <1>1 DEF Joined, Range
<1>2. CASE t \notin Range(ts)
  <2>1. /\ Len(Append(ts, t)) = Len(ts) + 1 /\ Append(ts, t)[Len(ts) + 1] = t
        /\ \A i \in 1..Len(ts) : Append(ts, t)[i] = ts[i] /\ ts[i] # t
    BY <1>2 DEF Range
  <2>2. IsInjective(Append(ts, t))
    BY <2>1 DEF IsInjective
  <2> QED
    BY <1>2, <2>1, <2>2 DEF Joined
<1> QED
  BY <1>1, <1>2

(* The aggregate that is shown exists. *)
LEMMA NewIsShown ==
  ASSUME NEW ts, NewAggregate(ts)
  PROVE  current' \in DOMAIN aggregates'
<1> DEFINE new == [taskSearches |-> [t \in Range(ts) |-> NextId + (CHOOSE i \in DOMAIN ts : ts[i] = t) - 1],
                   taskMap |-> << >>]
           all == [k \in DOMAIN aggregates \cup {NextId} |-> IF k = NextId THEN new ELSE aggregates[k]]
<1>1. NextId \in DOMAIN all
  OBVIOUS
<1>2. DOMAIN Alive(all, NextId, Registered) = {k \in DOMAIN all : k = NextId \/ SearchesOf(all[k]) \cap Registered # {}}
  BY DEF Alive, Restrict
<1>3. current' = NextId /\ aggregates' = Alive(all, NextId, Registered)
  BY DEF NewAggregate
<1> HIDE DEF all
<1> QED
  BY <1>1, <1>2, <1>3

-----------------------------------------------------------------------------
(* The page's own types. *)

LEMMA PageInitTyped == ASSUME PageAssumption, Init PROVE PageInv
<1>1. refreshes \in Seq(Answers)
  <2>1. Nothing \in Answers
    BY DEF Answers
  <2>2. <<Nothing>> \in Seq(Answers)
    BY <2>1
  <2> QED
    BY <2>2 DEF Init
<1>2. posts \in Seq(Posts)
  BY DEF Init
<1>3. PageTypeOK
  <2>1. open \in BOOLEAN /\ blind \in BOOLEAN /\ syncState \in States
    BY DEF Init
  <2>2. created \subseteq Tasks /\ reclaims \subseteq Tasks /\ faults \in 0..MaxFaults
    BY DEF Init, PageAssumption
  <2>3. listed = Nothing /\ current \in DOMAIN aggregates \cup {Nothing, Plain}
    BY DEF Init
  <2> QED
    BY <2>1, <2>2, <2>3 DEF PageTypeOK
<1> QED
  BY <1>1, <1>2, <1>3 DEF PageInv

LEMMA UpdateTyped ==
  ASSUME PageInv, NEW r \in results, UpdateTask(r)
  PROVE  PageInv'
<1> DEFINE k == Owner(r.id)
           taskMap == (r.task :> r.status) @@ aggregates[k].taskMap
           now == [aggregates EXCEPT ![k].taskMap = taskMap]
           settled == current \in DOMAIN now /\ GreatestResult(now[current].taskMap) # "pending"
           dropped == Over(r) \cup IF settled THEN SearchesOf(now[current]) ELSE {}
<1>1. /\ aggregates' = Alive(now, current, Registered \ dropped)
      /\ refreshes' = IF settled /\ Len(refreshes) < MaxRefreshes THEN Append(refreshes, Nothing) ELSE refreshes
      /\ UNCHANGED <<open, created, reclaims, syncState, listed, current, posts, faults, blind>>
  BY DEF UpdateTask
<1>2. DOMAIN now = DOMAIN aggregates
  OBVIOUS
<1>3. current \in DOMAIN aggregates => current \in DOMAIN aggregates'
  <2> HIDE DEF now, dropped
  <2> QED
    BY <1>1, <1>2 DEF Alive, Restrict
<1>4. refreshes' \in Seq(Answers)
  <2>1. refreshes \in Seq(Answers) /\ Nothing \in Answers
    BY DEF PageInv, Answers
  <2>2. Append(refreshes, Nothing) \in Seq(Answers)
    BY <2>1
  <2> HIDE DEF settled
  <2> QED
    BY <1>1, <2>1, <2>2
<1> QED
  BY <1>1, <1>3, <1>4 DEF PageInv, PageTypeOK

LEMMA StatusTyped ==
  ASSUME PageAssumption, PageInv, NEW i \in 1..Len(refreshes),
         ReadStatus(i) \/ RefreshSyncStatus(i) \/ RefreshFails(i)
  PROVE  PageInv'
<1>0. /\ refreshes \in Seq(Answers) /\ refreshes[i] \in Answers /\ posts \in Seq(Posts)
      /\ RemoveAt(refreshes, i) \in Seq(Answers)
  BY Removed DEF PageInv
<1>1. CASE ReadStatus(i)
  <2>1. PICK last \in {"none"} \cup {IF task[t] = "success" THEN "succeeded" ELSE "failed" : t \in Failed} :
          refreshes' = [refreshes EXCEPT ![i] = [active |-> Active, last |-> last]]
    BY <1>1 DEF ReadStatus
  <2>2. [active |-> Active, last |-> last] \in Answers
    BY DEF Active, Answers, PageInv, PageTypeOK
  <2>3. refreshes' \in Seq(Answers)
    BY <1>0, <2>1, <2>2
  <2> QED
    BY <1>0, <1>1, <2>3 DEF ReadStatus, PageInv, PageTypeOK
<1>2. CASE RefreshSyncStatus(i)
  <2> DEFINE status == refreshes[i]
             active == SetToSeq(status.active)
  <2>1. status.active \in SUBSET Tasks
    BY <1>0, <1>2 DEF RefreshSyncStatus, Answers
  <2>2. active \in Seq(Tasks) /\ IsInjective(active)
    BY <2>1, ListOfTasks
  <2>3. /\ refreshes' = RemoveAt(refreshes, i) /\ listed' = active /\ blind' = FALSE
        /\ syncState' = CASE active # << >> -> "SYNCING"
                          [] active = << >> /\ status.last = "failed" -> "FAILURE"
                          [] OTHER -> "DEFAULT"
        /\ IF active # << >>
             THEN NewAggregate(active)
             ELSE /\ current' = IF status.last # "none" THEN Plain ELSE current
                  /\ aggregates' = Alive(aggregates, current', Registered)
        /\ UNCHANGED <<open, created, reclaims, posts, faults>>
    BY <1>2 DEF RefreshSyncStatus
  <2> HIDE DEF active
  <2>4. syncState' \in States
    BY <2>3 DEF States
  <2>5. current' \in DOMAIN aggregates' \cup {Nothing, Plain}
    <3>1. CASE active # << >>
      BY <2>3, <3>1, NewIsShown
    <3>2. CASE active = << >>
      <4>1. current' \in DOMAIN aggregates \cup {Nothing, Plain}
        BY <2>3, <3>2 DEF PageInv, PageTypeOK
      <4>2. current' \in DOMAIN aggregates => current' \in DOMAIN aggregates'
        BY <2>3, <3>2 DEF Alive, Restrict
      <4> QED
        BY <4>1, <4>2
    <3> QED
      BY <3>1, <3>2
  <2> QED
    BY <1>0, <2>2, <2>3, <2>4, <2>5 DEF PageInv, PageTypeOK
<1>3. CASE RefreshFails(i)
  <2>1. << >> \in Seq(Tasks) /\ IsInjective(<< >>)
    BY DEF IsInjective
  <2>2. faults' \in 0..MaxFaults
    BY <1>3 DEF RefreshFails, Fault, PageInv, PageTypeOK, PageAssumption
  <2> QED
    BY <1>0, <1>3, <2>1, <2>2 DEF RefreshFails, PageInv, PageTypeOK
<1> QED
  BY <1>1, <1>2, <1>3

LEMMA PostsTyped ==
  ASSUME PageAssumption, PageInv, NEW i \in 1..Len(posts),
         Create(i) \/ Posted(i) \/ PostFails(i)
  PROVE  PageInv'
<1>0. /\ posts \in Seq(Posts) /\ posts[i] \in Posts /\ refreshes \in Seq(Answers)
      /\ RemoveAt(posts, i) \in Seq(Posts)
  BY Removed DEF PageInv
<1>1. CASE Create(i)
  <2>1. [posts[i] EXCEPT !.planned = TRUE] \in Posts /\ posts[i].task \in Tasks
    BY <1>0 DEF Posts
  <2>2. posts' \in Seq(Posts)
    BY <1>0, <1>1, <2>1 DEF Create
  <2> QED
    BY <1>0, <1>1, <2>1, <2>2 DEF Create, PageInv, PageTypeOK
<1>2. CASE Posted(i)
  <2>1. posts[i].task \in Tasks /\ posts' = RemoveAt(posts, i)
        /\ UNCHANGED <<open, created, reclaims, refreshes, faults, blind>>
    BY <1>0, <1>2 DEF Posted, Posts
  <2>2. CASE listed = Nothing
    BY <1>0, <1>2, <2>1, <2>2 DEF Posted, PageInv, PageTypeOK
  <2>3. CASE listed # Nothing
    <3>1. /\ listed' = Joined(listed, posts[i].task)
          /\ NewAggregate(Joined(listed, posts[i].task))
          /\ syncState' \in {"RECLAIMING_SPACE", "SYNCING"}
      BY <1>2, <2>3 DEF Posted
    <3>2. listed' \in Seq(Tasks) /\ IsInjective(listed')
      BY <2>1, <2>3, <3>1, JoinedOnce DEF PageInv, PageTypeOK
    <3>3. current' \in DOMAIN aggregates'
      BY <3>1, NewIsShown
    <3> QED
      BY <1>0, <2>1, <3>1, <3>2, <3>3 DEF PageInv, PageTypeOK, States
  <2> QED
    BY <2>2, <2>3
<1>3. CASE PostFails(i)
  <2>1. faults' \in 0..MaxFaults
    BY <1>3 DEF PostFails, Fault, PageInv, PageTypeOK, PageAssumption
  <2> QED
    BY <1>0, <1>3, <2>1 DEF PostFails, PageInv, PageTypeOK, States
<1> QED
  BY <1>1, <1>2, <1>3

LEMMA ButtonsTyped ==
  ASSUME PageInv, \/ \E t \in Tasks, kind \in {"SYNC_TRIGGERED", "RECLAIM_SPACE_TRIGGERED"} : Trigger(t, kind)
                  \/ CancelSync
                  \/ Leave
  PROVE  PageInv'
<1>1. ASSUME NEW t \in Tasks, NEW kind \in {"SYNC_TRIGGERED", "RECLAIM_SPACE_TRIGGERED"}, Trigger(t, kind)
      PROVE  PageInv'
  <2>1. [task |-> t, planned |-> FALSE] \in Posts
    BY DEF Posts
  <2>2. posts' \in Seq(Posts)
    BY <1>1, <2>1 DEF Trigger, PageInv
  <2>3. syncState' \in States /\ reclaims' \subseteq Tasks
    BY <1>1 DEF Trigger, States, PageInv, PageTypeOK
  <2> QED
    BY <1>1, <2>2, <2>3 DEF Trigger, PageInv, PageTypeOK
<1>2. CASE CancelSync
  BY <1>2 DEF CancelSync, PageInv, PageTypeOK, States
<1>3. CASE Leave
  BY <1>3 DEF Leave, PageInv, PageTypeOK
<1> QED
  BY <1>1, <1>2, <1>3

LEMMA PollTyped == ASSUME PageAssumption, PageInv, PollStep PROVE PageInv'
<1>1. faults' \in 0..MaxFaults
  BY DEF PollStep, Fault, PageInv, PageTypeOK, PageAssumption
<1>2. UNCHANGED <<open, created, reclaims, syncState, listed, aggregates, current, refreshes, posts, blind>>
  BY DEF PollStep
<1> QED
  BY <1>1, <1>2 DEF PageInv, PageTypeOK

LEMMA PageStepTyped == ASSUME PageAssumption, PageInv, [PageNext]_vars PROVE PageInv'
<1>1. CASE UNCHANGED vars
  BY <1>1 DEF vars, pageVars, PageInv, PageTypeOK
<1>2. CASE PollStep
  BY <1>2, PollTyped
<1>3. CASE PageStep
  BY <1>3, UpdateTyped, StatusTyped, PostsTyped, ButtonsTyped DEF PageStep
<1> QED
  BY <1>1, <1>2, <1>3 DEF PageNext

(* What the page shows and has asked for has its type.                      *)
THEOREM PageTypes == PageSpec => []PageTypeOK
<1>1. Init => PageInv
  BY PageAssumption, PageInitTyped
<1>2. PageInv /\ [PageNext]_vars => PageInv'
  BY PageAssumption, PageStepTyped
<1>3. PageInv => PageTypeOK
  BY DEF PageInv
<1> QED
  BY <1>1, <1>2, <1>3, PTL DEF PageSpec

-----------------------------------------------------------------------------
(* The page is a client of the loop. *)

(* Unregistering what is not registered is nothing. *)
LEMMA Unregisters ==
  ASSUME NEW ids, Unregister(ids)
  PROVE  \E js \in SUBSET Registered : Unregister(js)
<1>1. Without(ids) = Without(ids \cap Registered)
  <2>1. Registered \ ids = Registered \ (ids \cap Registered)
    OBVIOUS
  <2> QED
    BY <2>1 DEF Without
<1>2. Unregister(ids \cap Registered)
  BY <1>1 DEF Unregister
<1> QED
  BY <1>2

(* A list of tasks to search for is one a client may register. *)
LEMMA Registers ==
  ASSUME PollingAssumption, generated \in Nat, NEW ts \in Seq(Tasks), ts # << >>, Register(ts)
  PROVE  \E n \in 1..MaxSearches : \E us \in [1..n -> Tasks] : Register(us)
<1>1. Len(ts) \in Nat \ {0} /\ ts \in [1..Len(ts) -> Tasks]
  OBVIOUS
<1>2. NextId..(NextId + Len(ts) - 1) \subseteq SearchIds
  BY DEF Register
<1>3. generated + Len(ts) \in NextId..(NextId + Len(ts) - 1)
  BY <1>1 DEF NextId
<1>4. Len(ts) \in 1..MaxSearches
  BY <1>1, <1>2, <1>3 DEF SearchIds, PollingAssumption
<1> QED
  BY <1>1, <1>4

LEMMA CallbackIsClients ==
  ASSUME NEW r \in results, UpdateTask(r)
  PROVE  Next
<1>1. Tell(r) /\ \E ids : Unregister(ids)
  BY DEF UpdateTask
<1>2. Callback(r)
  BY <1>1, Unregisters DEF Callback
<1> QED
  BY <1>2 DEF Next

LEMMA StatusIsClients ==
  ASSUME PollingAssumption, PageAssumption, IInv, PageInv, NEW i \in 1..Len(refreshes), RefreshSyncStatus(i)
  PROVE  [Next]_pollVars
<1> DEFINE active == SetToSeq(refreshes[i].active)
<1>1. refreshes[i] \in Answers /\ refreshes[i] # Nothing
  BY DEF PageInv, RefreshSyncStatus
<1>2. active \in Seq(Tasks)
  BY <1>1, ListOfTasks DEF Answers
<1>3. /\ ~handling /\ UNCHANGED <<task, timers, handling, results, told>>
      /\ IF active # << >> THEN NewAggregate(active) ELSE UNCHANGED <<searches, generated, running, requests>>
  BY DEF RefreshSyncStatus
<1>4. generated \in Nat
  BY PollingAssumption DEF IInv, TypeOK, PollingAssumption
<1> HIDE DEF active
<1>5. CASE active # << >>
  <2>1. Register(active)
    BY <1>3, <1>5 DEF NewAggregate
  <2>2. ClientRegisters
    BY <1>2, <1>3, <1>4, <1>5, <2>1, Registers DEF ClientRegisters
  <2> QED
    BY <2>2 DEF Next
<1>6. CASE active = << >>
  BY <1>3, <1>6 DEF pollVars, loopVars
<1> QED
  BY <1>5, <1>6

LEMMA PostedIsClients ==
  ASSUME PollingAssumption, IInv, PageInv, NEW i \in 1..Len(posts), Posted(i)
  PROVE  [Next]_pollVars
<1>1. posts[i].task \in Tasks
  <2>1. posts \in Seq(Posts)
    BY DEF PageInv
  <2>2. posts[i] \in Posts
    BY <2>1
  <2> QED
    BY <2>2 DEF Posts
<1>2. ~handling /\ UNCHANGED <<task, timers, handling, results, told>>
  BY DEF Posted
<1>3. generated \in Nat
  BY PollingAssumption DEF IInv, TypeOK, PollingAssumption
<1>4. CASE listed = Nothing
  BY <1>2, <1>4 DEF Posted, pollVars, loopVars
<1>5. CASE listed # Nothing
  <2> DEFINE ts == Joined(listed, posts[i].task)
  <2>1. ts \in Seq(Tasks) /\ ts # << >>
    BY <1>1, <1>5, JoinedOnce DEF PageInv, PageTypeOK
  <2>2. Register(ts)
    BY <1>5 DEF Posted, NewAggregate
  <2> HIDE DEF ts
  <2>3. ClientRegisters
    BY <1>2, <1>3, <2>1, <2>2, Registers DEF ClientRegisters
  <2> QED
    BY <2>3 DEF Next
<1> QED
  BY <1>4, <1>5

LEMMA LeaveIsClients == ASSUME Leave PROVE Next
<1>1. ~handling /\ UNCHANGED <<task, timers, handling, results, told>> /\ \E ids : Unregister(ids)
  BY DEF Leave
<1>2. ClientUnregisters
  BY <1>1, Unregisters DEF ClientUnregisters
<1> QED
  BY <1>2 DEF Next

LEMMA PollIsLoops == ASSUME PageInv, PollStep PROVE Next
<1>1. created \subseteq Tasks
  BY DEF PageInv, PageTypeOK
<1>2. ServerStep \/ LoopStep
  BY <1>1 DEF PollStep, ServerStep
<1> QED
  BY <1>2 DEF Next

LEMMA PageStepPolls ==
  ASSUME PollingAssumption, PageAssumption, IInv, PageInv, [PageNext]_vars
  PROVE  [Next]_pollVars
<1>1. CASE UNCHANGED vars
  BY <1>1 DEF vars
<1>2. CASE PollStep
  BY <1>2, PollIsLoops
<1>3. ASSUME NEW r \in results, UpdateTask(r) PROVE Next
  BY <1>3, CallbackIsClients
<1>4. ASSUME NEW i \in 1..Len(refreshes), ReadStatus(i) \/ RefreshSyncStatus(i) \/ RefreshFails(i)
      PROVE  [Next]_pollVars
  <2>1. CASE ReadStatus(i) \/ RefreshFails(i)
    BY <2>1 DEF ReadStatus, RefreshFails
  <2> QED
    BY <1>4, <2>1, StatusIsClients
<1>5. ASSUME NEW i \in 1..Len(posts), Create(i) \/ Posted(i) \/ PostFails(i) PROVE [Next]_pollVars
  <2>1. CASE Create(i) \/ PostFails(i)
    BY <2>1 DEF Create, PostFails
  <2> QED
    BY <1>5, <2>1, PostedIsClients
<1>6. ASSUME NEW t \in Tasks, NEW kind, Trigger(t, kind) PROVE UNCHANGED pollVars
  BY <1>6 DEF Trigger
<1>7. CancelSync => UNCHANGED pollVars
  BY DEF CancelSync
<1>8. Leave => Next
  BY LeaveIsClients
<1> QED
  BY <1>1, <1>2, <1>3, <1>4, <1>5, <1>6, <1>7, <1>8 DEF PageNext, PageStep

(* The page implements the loop with any clients: whatever it registers,    *)
(* unregisters or leaves behind is what a client of TaskPolling may do.     *)
THEOREM PagePolls == PageSpec => Spec
<1>1. Init => PollInit /\ PageInv /\ IInv
  BY PageAssumption, PollingAssumption, PageInitTyped, InitHolds DEF Init
<1>2. PageInv /\ IInv /\ [PageNext]_vars => PageInv' /\ [Next]_pollVars
  BY PageAssumption, PollingAssumption, PageStepTyped, PageStepPolls
<1>3. IInv /\ [Next]_pollVars => IInv'
  BY PollingAssumption, StepHolds
<1> QED
  BY <1>1, <1>2, <1>3, PTL DEF PageSpec, Spec

(* However often the page replaces its aggregate, and also when answers     *)
(* come after it was left, one loop polls, and each callback gets the task  *)
(* it searches for.                                                         *)
THEOREM PageLoops == PageSpec => [](OneLoop /\ OwnTaskOnly)
BY PagePolls, SingleLoop, OwnTasks, PTL
=============================================================================
