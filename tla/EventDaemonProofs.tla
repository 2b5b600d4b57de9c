-------------------------- MODULE EventDaemonProofs --------------------------
(***************************************************************************)
(* Proofs about EventDaemon: for every number of processes, threads and     *)
(* faults, at most one process polls the events.                            *)
(***************************************************************************)
EXTENDS EventDaemon, TLAPS

(* A thread of p has started the monitor thread and not yet written the pid. *)
Writing(p) == \E t \in Threads : home[t] = p /\ pc[t] \in {"spawned", "truncated"}

(* p runs the monitor or the pollers, or is removing the pid file. *)
Active(p) == \/ monitor[p] # "none"
             \/ poller[p] = "running"
             \/ proc[p] = "removing"

(* No thread of the daemon runs in p. *)
Silent(p) == monitor[p] = "none" /\ poller[p] # "running"

LockHeld == \A t \in Threads :
  /\ pc[t] \in {"locked", "spawned", "truncated"} <=> lock = t
  /\ lock = t => Alive(home[t])

HookedAlive == \A p \in hooked : Alive(p)

ActiveAlive == \A p \in Procs : Active(p) => Alive(p)

ActiveRecorded == \A p \in Procs : Active(p) => pidFile \in {p, Empty} \/ Writing(p)

WriterAlone == \A p, q \in Procs : Writing(p) /\ Active(q) => p = q

OneActive == \A p, q \in Procs : Active(p) /\ Active(q) => p = q

RemoverRecorded ==
  \A p \in Procs : proc[p] = "removing" => pidFile = p /\ ~Writing(p) /\ Silent(p)

FileWhileWriting == \A t \in Threads :
  /\ pc[t] = "spawned" => pidFile # Empty /\ pidFile \notin hooked
  /\ pc[t] = "truncated" => pidFile = Empty

IInv ==
  /\ TypeOK
  /\ LockHeld
  /\ HookedAlive
  /\ ActiveAlive
  /\ ActiveRecorded
  /\ WriterAlone
  /\ OneActive
  /\ RemoverRecorded
  /\ FileWhileWriting

(* Bounds on the faults. *)
LEMMA NoFault == 0 \in 0..MaxFaults
<1>1. MaxFaults \in Nat  BY DaemonAssumption
<1> QED  BY <1>1

(* One fault more is within the bound. *)
LEMMA FaultCounted ==
  ASSUME faults \in 0..MaxFaults, faults < MaxFaults, faults' = faults + 1
  PROVE  faults' \in 0..MaxFaults
<1>1. MaxFaults \in Nat  BY DaemonAssumption
<1> QED  BY <1>1

(* The initial states are well typed. *)
LEMMA InitTyped == Init => TypeOK
<1> SUFFICES ASSUME Init PROVE TypeOK  OBVIOUS
<1>1. faults \in 0..MaxFaults  BY NoFault DEF Init
<1> QED  BY <1>1, DaemonAssumption DEF Init, TypeOK

(* Every step keeps the types. *)
LEMMA TypeStep == ASSUME TypeOK, Next PROVE TypeOK'
<1> USE DaemonAssumption
<1>1. ASSUME NEW t \in Threads, Request(t) PROVE TypeOK'
  BY <1>1 DEF TypeOK, Request, Step
<1>2. ASSUME NEW t \in Threads, GetLock(t) PROVE TypeOK'
  BY <1>2 DEF TypeOK, GetLock, Step
<1>3. ASSUME NEW t \in Threads, FindStarted(t) PROVE TypeOK'
  BY <1>3 DEF TypeOK, FindStarted, Step
<1>4. ASSUME NEW t \in Threads, WriteFails(t) PROVE TypeOK'
  <2>1. faults' \in 0..MaxFaults
    <3>1. faults \in 0..MaxFaults  BY DEF TypeOK
    <3>2. faults < MaxFaults /\ faults' = faults + 1  BY <1>4 DEF WriteFails, Hit
    <3> QED  BY <3>1, <3>2, FaultCounted
  <2> QED  BY <1>4, <2>1 DEF TypeOK, WriteFails, Step
<1>5. ASSUME NEW p \in Procs, CacheExpires(p) PROVE TypeOK'
  BY <1>5 DEF TypeOK, CacheExpires
<1>6. ASSUME NEW p \in Procs, CheckServices(p) PROVE TypeOK'
  BY <1>6 DEF TypeOK, CheckServices
<1>7. ASSUME NEW p \in Procs, Boot(p) PROVE TypeOK'
  BY <1>7 DEF TypeOK, Boot
<1>8. ASSUME NEW p \in Procs, Die(p) PROVE TypeOK'
  <2>1. faults' \in 0..MaxFaults
    <3>1. CASE proc[p] = "exiting"  BY <1>8, <3>1 DEF TypeOK, Die
    <3>2. CASE proc[p] # "exiting"
      <4>1. faults \in 0..MaxFaults  BY DEF TypeOK
      <4>2. faults < MaxFaults /\ faults' = faults + 1  BY <1>8, <3>2 DEF Die
      <4> QED  BY <4>1, <4>2, FaultCounted
    <3> QED  BY <3>1, <3>2
  <2> QED  BY <1>8, <2>1 DEF TypeOK, Die
<1>9. ASSUME NEW p \in Procs, PollerDies(p) PROVE TypeOK'
  <2>1. faults' \in 0..MaxFaults
    <3>1. faults \in 0..MaxFaults  BY DEF TypeOK
    <3>2. faults < MaxFaults /\ faults' = faults + 1  BY <1>9 DEF PollerDies
    <3> QED  BY <3>1, <3>2, FaultCounted
  <2> QED  BY <1>9, <2>1 DEF TypeOK, PollerDies
<1>10. ASSUME NEW p \in Procs, MonitorDies(p) PROVE TypeOK'
  <2>1. faults' \in 0..MaxFaults
    <3>1. faults \in 0..MaxFaults  BY DEF TypeOK
    <3>2. faults < MaxFaults /\ faults' = faults + 1  BY <1>10 DEF MonitorDies, Hit
    <3> QED  BY <3>1, <3>2, FaultCounted
  <2> QED  BY <1>10, <2>1 DEF TypeOK, MonitorDies
<1>11. ASSUME NEW p \in Procs, PidReused(p) PROVE TypeOK'
  <2>1. faults' \in 0..MaxFaults
    <3>1. faults \in 0..MaxFaults  BY DEF TypeOK
    <3>2. faults < MaxFaults /\ faults' = faults + 1  BY <1>11 DEF PidReused, Hit
    <3> QED  BY <3>1, <3>2, FaultCounted
  <2> QED  BY <1>11, <2>1 DEF TypeOK, PidReused
<1>12. ASSUME NEW p \in Procs, ForeignEnds(p) PROVE TypeOK'
  BY <1>12 DEF TypeOK, ForeignEnds
<1>13. ASSUME NEW t \in Threads, TruncatePidFile(t) PROVE TypeOK'
  BY <1>13 DEF TypeOK, TruncatePidFile, Step
<1>14. ASSUME NEW t \in Threads, WritePidFile(t) PROVE TypeOK'
  BY <1>14 DEF TypeOK, WritePidFile, Step, Pid
<1>15. ASSUME NEW p \in Procs, Stop(p) PROVE TypeOK'
  <2>1. faults' \in 0..MaxFaults
    <3>1. faults \in 0..MaxFaults  BY DEF TypeOK
    <3>2. faults < MaxFaults /\ faults' = faults + 1  BY <1>15 DEF Stop
    <3> QED  BY <3>1, <3>2, FaultCounted
  <2> QED  BY <1>15, <2>1 DEF TypeOK, Stop
<1>16. ASSUME NEW p \in Procs, RemovePidFile(p) PROVE TypeOK'
  BY <1>16 DEF TypeOK, RemovePidFile
<1>17. ASSUME NEW t \in Threads, OpenFails(t) PROVE TypeOK'
  <2>1. faults' \in 0..MaxFaults
    <3>1. faults \in 0..MaxFaults  BY DEF TypeOK
    <3>2. faults < MaxFaults /\ faults' = faults + 1  BY <1>17 DEF OpenFails, Hit
    <3> QED  BY <3>1, <3>2, FaultCounted
  <2> QED  BY <1>17, <2>1 DEF TypeOK, OpenFails, Step
<1>18. ASSUME NEW t \in Threads, StartMonitorThread(t) PROVE TypeOK'
  BY <1>18 DEF TypeOK, StartMonitorThread, Step
<1> QED
  BY <1>1, <1>2, <1>3, <1>4, <1>5, <1>6, <1>7, <1>8, <1>9, <1>10, <1>11, <1>12,
     <1>13, <1>14, <1>15, <1>16, <1>17, <1>18
  DEF Next, StartStep

(* A thread that takes, keeps or gives back the lock with its own step. *)
LEMMA ThreadStep ==
  ASSUME TypeOK, LockHeld, NEW t \in Threads, NEW to, Alive(home[t]),
         \A q : Alive(q)' = Alive(q),
         pc' = [pc EXCEPT ![t] = to],
         to \in {"locked", "spawned", "truncated"} => lock \in {Nobody, t} /\ lock' = t,
         to \notin {"locked", "spawned", "truncated"} => lock' = IF lock = t THEN Nobody ELSE lock
  PROVE  LockHeld'
<1>1. pc \in [Threads -> {"idle", "waiting", "locked", "spawned", "truncated"}]  BY DEF TypeOK
<1> SUFFICES ASSUME NEW u \in Threads
             PROVE  /\ pc'[u] \in {"locked", "spawned", "truncated"} <=> lock' = u
                    /\ lock' = u => Alive(home[u])'
  BY DEF LockHeld
<1>2. CASE u = t
  BY <1>1, <1>2, DaemonAssumption DEF LockHeld
<1>3. CASE u # t
  BY <1>1, <1>3, DaemonAssumption DEF LockHeld
<1> QED  BY <1>2, <1>3

(* A step that makes no process active, starts no thread writing and leaves *)
(* the pid file alone keeps the invariant.                                  *)
LEMMA QuietStep ==
  ASSUME IInv, TypeOK', LockHeld', HookedAlive', ActiveAlive',
         hooked' \subseteq hooked,
         pidFile' = pidFile,
         \A q \in Procs : Active(q)' => Active(q),
         \A q \in Procs : Writing(q)' => Writing(q),
         \A q \in Procs : Active(q)' /\ Writing(q) => Writing(q)' \/ pidFile = Empty,
         \A q \in Procs : proc'[q] = "removing" => proc[q] = "removing",
         \A q \in Procs : Silent(q) => Silent(q)',
         \A t \in Threads : pc'[t] \in {"spawned", "truncated"} => pc'[t] = pc[t]
  PROVE  IInv'
<1>1. ActiveRecorded'  BY DEF IInv, ActiveRecorded
<1>2. WriterAlone'  BY DEF IInv, WriterAlone
<1>3. OneActive'  BY DEF IInv, OneActive
<1>4. RemoverRecorded'  BY DEF IInv, RemoverRecorded
<1>5. FileWhileWriting'
  <2> SUFFICES ASSUME NEW t \in Threads
               PROVE  /\ pc'[t] = "spawned" => pidFile' # Empty /\ pidFile' \notin hooked'
                      /\ pc'[t] = "truncated" => pidFile' = Empty
    BY DEF FileWhileWriting
  <2> QED  BY DEF IInv, FileWhileWriting
<1> QED  BY <1>1, <1>2, <1>3, <1>4, <1>5 DEF IInv

(* runnable? preserves the invariant. *)
LEMMA RequestStep == ASSUME IInv, NEW t \in Threads, Request(t) PROVE IInv'
<1> USE DaemonAssumption
<1>1. TypeOK'
  BY TypeStep DEF IInv, Next, StartStep
<1>2. LockHeld'
  <2> DEFINE to == IF cached[home[t]] = "yes" \/ ~Started THEN "waiting" ELSE "idle"
  <2>1. /\ proc' = proc /\ lock' = lock /\ pc[t] = "idle"
        /\ pc' = [pc EXCEPT ![t] = to] /\ Alive(home[t])
    BY DEF Request, Step
  <2>2. \A q : Alive(q)' = Alive(q)  BY <2>1 DEF Alive
  <2>3. lock # t  BY <2>1 DEF IInv, LockHeld
  <2>4. to \in {"waiting", "idle"}  OBVIOUS
  <2> HIDE DEF to
  <2> QED  BY <2>1, <2>2, <2>3, <2>4, ThreadStep DEF IInv
<1>3. HookedAlive' /\ hooked' \subseteq hooked
  BY DEF IInv, TypeOK, HookedAlive, Alive, Request, Step
<1>4. \A q \in Procs : Active(q)' => Active(q)
  BY DEF IInv, TypeOK, Active, Request, Step
<1>5. ActiveAlive'
  BY <1>4 DEF IInv, TypeOK, ActiveAlive, Alive, Active, Request, Step
<1>6. \A q \in Procs : Writing(q)' => Writing(q)
  BY DEF IInv, TypeOK, Writing, Request, Step
<1>7. \A q \in Procs : Active(q)' /\ Writing(q) => Writing(q)' \/ pidFile = Empty
  BY DEF IInv, TypeOK, Writing, Request, Step
<1>8. pidFile' = pidFile
  BY DEF Request
<1>9. \A q \in Procs : proc'[q] = "removing" => proc[q] = "removing"
  BY DEF IInv, TypeOK, Request, Step
<1>10. \A u \in Threads : pc'[u] \in {"spawned", "truncated"} => pc'[u] = pc[u]
  BY DEF IInv, TypeOK, Request, Step
<1>11. \A q \in Procs : Silent(q) => Silent(q)'
  BY DEF IInv, TypeOK, Silent, Request, Step
<1> QED  BY <1>1, <1>2, <1>3, <1>4, <1>5, <1>6, <1>7, <1>8, <1>9, <1>10, <1>11, QuietStep

(* Taking the file lock preserves it. *)
LEMMA GetLockStep == ASSUME IInv, NEW t \in Threads, GetLock(t) PROVE IInv'
<1> USE DaemonAssumption
<1>1. TypeOK'
  BY TypeStep DEF IInv, Next, StartStep
<1>2. LockHeld'
  <2>1. /\ proc' = proc /\ pc[t] = "waiting"
        /\ pc' = [pc EXCEPT ![t] = "locked"] /\ Alive(home[t])
    BY DEF GetLock, Step
  <2>2. \A q : Alive(q)' = Alive(q)  BY <2>1 DEF Alive
  <2>3. lock = Nobody  BY <2>1 DEF IInv, LockHeld, GetLock
  <2>4. lock' = t  BY <2>3 DEF GetLock
  <2> QED  BY <2>1, <2>2, <2>3, <2>4, ThreadStep DEF IInv
<1>3. HookedAlive' /\ hooked' \subseteq hooked
  BY DEF IInv, TypeOK, HookedAlive, Alive, GetLock, Step
<1>4. \A q \in Procs : Active(q)' => Active(q)
  BY DEF IInv, TypeOK, Active, GetLock, Step
<1>5. ActiveAlive'
  BY <1>4 DEF IInv, TypeOK, ActiveAlive, Alive, Active, GetLock, Step
<1>6. \A q \in Procs : Writing(q)' => Writing(q)
  BY DEF IInv, TypeOK, Writing, GetLock, Step
<1>7. \A q \in Procs : Active(q)' /\ Writing(q) => Writing(q)' \/ pidFile = Empty
  BY DEF IInv, TypeOK, Writing, GetLock, Step
<1>8. pidFile' = pidFile
  BY DEF GetLock
<1>9. \A q \in Procs : proc'[q] = "removing" => proc[q] = "removing"
  BY DEF IInv, TypeOK, GetLock, Step
<1>10. \A u \in Threads : pc'[u] \in {"spawned", "truncated"} => pc'[u] = pc[u]
  BY DEF IInv, TypeOK, GetLock, Step
<1>11. \A q \in Procs : Silent(q) => Silent(q)'
  BY DEF IInv, TypeOK, Silent, GetLock, Step
<1> QED  BY <1>1, <1>2, <1>3, <1>4, <1>5, <1>6, <1>7, <1>8, <1>9, <1>10, <1>11, QuietStep

(* Finding the daemon started, and leaving, preserves it. *)
LEMMA FindStartedStep == ASSUME IInv, NEW t \in Threads, FindStarted(t) PROVE IInv'
<1> USE DaemonAssumption
<1>1. TypeOK'
  BY TypeStep DEF IInv, Next, StartStep
<1>2. LockHeld'
  <2>1. /\ proc' = proc /\ pc[t] = "locked"
        /\ pc' = [pc EXCEPT ![t] = "idle"] /\ Alive(home[t])
    BY DEF FindStarted, Step
  <2>2. \A q : Alive(q)' = Alive(q)  BY <2>1 DEF Alive
  <2>3. lock = t  BY <2>1 DEF IInv, LockHeld
  <2>4. lock' = Nobody  BY <2>3 DEF FindStarted
  <2> QED  BY <2>1, <2>2, <2>3, <2>4, ThreadStep DEF IInv
<1>3. HookedAlive' /\ hooked' \subseteq hooked
  BY DEF IInv, TypeOK, HookedAlive, Alive, FindStarted, Step
<1>4. \A q \in Procs : Active(q)' => Active(q)
  BY DEF IInv, TypeOK, Active, FindStarted, Step
<1>5. ActiveAlive'
  BY <1>4 DEF IInv, TypeOK, ActiveAlive, Alive, Active, FindStarted, Step
<1>6. \A q \in Procs : Writing(q)' => Writing(q)
  BY DEF IInv, TypeOK, Writing, FindStarted, Step
<1>7. \A q \in Procs : Active(q)' /\ Writing(q) => Writing(q)' \/ pidFile = Empty
  BY DEF IInv, TypeOK, Writing, FindStarted, Step
<1>8. pidFile' = pidFile
  BY DEF FindStarted
<1>9. \A q \in Procs : proc'[q] = "removing" => proc[q] = "removing"
  BY DEF IInv, TypeOK, FindStarted, Step
<1>10. \A u \in Threads : pc'[u] \in {"spawned", "truncated"} => pc'[u] = pc[u]
  BY DEF IInv, TypeOK, FindStarted, Step
<1>11. \A q \in Procs : Silent(q) => Silent(q)'
  BY DEF IInv, TypeOK, Silent, FindStarted, Step
<1> QED  BY <1>1, <1>2, <1>3, <1>4, <1>5, <1>6, <1>7, <1>8, <1>9, <1>10, <1>11, QuietStep

(* A failing write of the pid file preserves it. *)
LEMMA WriteFailsStep == ASSUME IInv, NEW t \in Threads, WriteFails(t) PROVE IInv'
<1> USE DaemonAssumption
<1>1. TypeOK'
  BY TypeStep DEF IInv, Next, StartStep
<1>2. LockHeld'
  <2>1. /\ proc' = proc /\ pc[t] = "truncated"
        /\ pc' = [pc EXCEPT ![t] = "idle"] /\ Alive(home[t])
    BY DEF WriteFails, Step
  <2>2. \A q : Alive(q)' = Alive(q)  BY <2>1 DEF Alive
  <2>3. lock = t  BY <2>1 DEF IInv, LockHeld
  <2>4. lock' = Nobody  BY <2>3 DEF WriteFails
  <2> QED  BY <2>1, <2>2, <2>3, <2>4, ThreadStep DEF IInv
<1>3. HookedAlive' /\ hooked' \subseteq hooked
  BY DEF IInv, TypeOK, HookedAlive, Alive, WriteFails, Step, Hit
<1>4. \A q \in Procs : Active(q)' => Active(q)
  BY DEF IInv, TypeOK, Active, WriteFails, Step, Hit
<1>5. ActiveAlive'
  BY <1>4 DEF IInv, TypeOK, ActiveAlive, Alive, Active, WriteFails, Step, Hit
<1>6. \A q \in Procs : Writing(q)' => Writing(q)
  BY DEF IInv, TypeOK, Writing, WriteFails, Step, Hit
<1>7. \A q \in Procs : Active(q)' /\ Writing(q) => Writing(q)' \/ pidFile = Empty
  BY DEF IInv, TypeOK, Writing, FileWhileWriting, WriteFails, Step, Hit
<1>8. pidFile' = pidFile
  BY DEF WriteFails
<1>9. \A q \in Procs : proc'[q] = "removing" => proc[q] = "removing"
  BY DEF IInv, TypeOK, WriteFails, Step, Hit
<1>10. \A u \in Threads : pc'[u] \in {"spawned", "truncated"} => pc'[u] = pc[u]
  BY DEF IInv, TypeOK, WriteFails, Step, Hit
<1>11. \A q \in Procs : Silent(q) => Silent(q)'
  BY DEF IInv, TypeOK, Silent, WriteFails, Step, Hit
<1> QED  BY <1>1, <1>2, <1>3, <1>4, <1>5, <1>6, <1>7, <1>8, <1>9, <1>10, <1>11, QuietStep

(* The expiry of the cached answer preserves it. *)
LEMMA CacheExpiresStep == ASSUME IInv, NEW p \in Procs, CacheExpires(p) PROVE IInv'
<1> USE DaemonAssumption
<1>1. TypeOK'
  BY TypeStep DEF IInv, Next, StartStep
<1>2. LockHeld'
  BY DEF IInv, TypeOK, LockHeld, Alive, CacheExpires
<1>3. HookedAlive' /\ hooked' \subseteq hooked
  BY DEF IInv, TypeOK, HookedAlive, Alive, CacheExpires
<1>4. \A q \in Procs : Active(q)' => Active(q)
  BY DEF IInv, TypeOK, Active, CacheExpires
<1>5. ActiveAlive'
  BY <1>4 DEF IInv, TypeOK, ActiveAlive, Alive, Active, CacheExpires
<1>6. \A q \in Procs : Writing(q)' => Writing(q)
  BY DEF IInv, TypeOK, Writing, CacheExpires
<1>7. \A q \in Procs : Active(q)' /\ Writing(q) => Writing(q)' \/ pidFile = Empty
  BY DEF IInv, TypeOK, Writing, CacheExpires
<1>8. pidFile' = pidFile
  BY DEF CacheExpires
<1>9. \A q \in Procs : proc'[q] = "removing" => proc[q] = "removing"
  BY DEF IInv, TypeOK, CacheExpires
<1>10. \A u \in Threads : pc'[u] \in {"spawned", "truncated"} => pc'[u] = pc[u]
  BY DEF IInv, TypeOK, CacheExpires
<1>11. \A q \in Procs : Silent(q) => Silent(q)'
  BY DEF IInv, TypeOK, Silent, CacheExpires
<1> QED  BY <1>1, <1>2, <1>3, <1>4, <1>5, <1>6, <1>7, <1>8, <1>9, <1>10, <1>11, QuietStep

(* A round of the monitor preserves it. *)
LEMMA CheckServicesStep == ASSUME IInv, NEW p \in Procs, CheckServices(p) PROVE IInv'
<1> USE DaemonAssumption
<1>1. TypeOK'
  BY TypeStep DEF IInv, Next, StartStep
<1>2. LockHeld'
  BY DEF IInv, TypeOK, LockHeld, Alive, CheckServices
<1>3. HookedAlive' /\ hooked' \subseteq hooked
  BY DEF IInv, TypeOK, HookedAlive, Alive, CheckServices
<1>4. \A q \in Procs : Active(q)' => Active(q)
  BY DEF IInv, TypeOK, Active, CheckServices
<1>5. ActiveAlive'
  BY <1>4 DEF IInv, TypeOK, ActiveAlive, Alive, Active, CheckServices
<1>6. \A q \in Procs : Writing(q)' => Writing(q)
  BY DEF IInv, TypeOK, Writing, CheckServices
<1>7. \A q \in Procs : Active(q)' /\ Writing(q) => Writing(q)' \/ pidFile = Empty
  BY DEF IInv, TypeOK, Writing, CheckServices
<1>8. pidFile' = pidFile
  BY DEF CheckServices
<1>9. \A q \in Procs : proc'[q] = "removing" => proc[q] = "removing"
  BY DEF IInv, TypeOK, CheckServices
<1>10. \A u \in Threads : pc'[u] \in {"spawned", "truncated"} => pc'[u] = pc[u]
  BY DEF IInv, TypeOK, CheckServices
<1>11. \A q \in Procs : Silent(q) => Silent(q)'
  BY DEF IInv, TypeOK, Silent, CheckServices
<1> QED  BY <1>1, <1>2, <1>3, <1>4, <1>5, <1>6, <1>7, <1>8, <1>9, <1>10, <1>11, QuietStep

(* The boot of a worker preserves it. *)
LEMMA BootStep == ASSUME IInv, NEW p \in Procs, Boot(p) PROVE IInv'
<1> USE DaemonAssumption
<1>1. TypeOK'
  BY TypeStep DEF IInv, Next, StartStep
<1>2. LockHeld'
  BY DEF IInv, TypeOK, LockHeld, Alive, Boot
<1>3. HookedAlive' /\ hooked' \subseteq hooked
  BY DEF IInv, TypeOK, HookedAlive, Alive, Boot
<1>4. \A q \in Procs : Active(q)' => Active(q)
  BY DEF IInv, TypeOK, Active, Boot
<1>5. ActiveAlive'
  BY <1>4 DEF IInv, TypeOK, ActiveAlive, Alive, Active, Boot
<1>6. \A q \in Procs : Writing(q)' => Writing(q)
  BY DEF IInv, TypeOK, Writing, Boot
<1>7. \A q \in Procs : Active(q)' /\ Writing(q) => Writing(q)' \/ pidFile = Empty
  BY DEF IInv, TypeOK, Writing, Boot
<1>8. pidFile' = pidFile
  BY DEF Boot
<1>9. \A q \in Procs : proc'[q] = "removing" => proc[q] = "removing"
  BY DEF IInv, TypeOK, Boot
<1>10. \A u \in Threads : pc'[u] \in {"spawned", "truncated"} => pc'[u] = pc[u]
  BY DEF IInv, TypeOK, Boot
<1>11. \A q \in Procs : Silent(q) => Silent(q)'
  BY DEF IInv, TypeOK, Silent, Boot
<1> QED  BY <1>1, <1>2, <1>3, <1>4, <1>5, <1>6, <1>7, <1>8, <1>9, <1>10, <1>11, QuietStep

(* The death of a worker preserves it. *)
LEMMA DieStep == ASSUME IInv, NEW p \in Procs, Die(p) PROVE IInv'
<1> USE DaemonAssumption
<1>1. TypeOK'
  BY TypeStep DEF IInv, Next, StartStep
<1>2. LockHeld'
  <2> SUFFICES ASSUME NEW u \in Threads
               PROVE  /\ pc'[u] \in {"locked", "spawned", "truncated"} <=> lock' = u
                      /\ lock' = u => Alive(home[u])'
    BY DEF LockHeld
  <2>1. pc' = [t \in Threads |-> IF home[t] = p THEN "idle" ELSE pc[t]]  BY DEF Die
  <2>2. pc[u] \in {"locked", "spawned", "truncated"} <=> lock = u  BY DEF IInv, LockHeld
  <2>3. lock' = IF lock # Nobody /\ home[lock] = p THEN Nobody ELSE lock  BY DEF Die
  <2>4. lock = u => Alive(home[u])  BY DEF IInv, LockHeld
  <2>5. CASE home[u] = p  BY <2>1, <2>2, <2>3, <2>5
  <2>6. CASE home[u] # p
    <3>1. home[u] \in Procs /\ proc \in [Procs -> {"down", "up", "removing", "exiting", "foreign"}]
      BY DEF IInv, TypeOK
    <3>2. proc'[home[u]] = proc[home[u]]  BY <2>6, <3>1 DEF Die
    <3>3. Alive(home[u])' = Alive(home[u])  BY <3>2 DEF Alive
    <3> QED  BY <2>1, <2>2, <2>3, <2>4, <2>6, <3>3
  <2> QED  BY <2>5, <2>6
<1>3. HookedAlive' /\ hooked' \subseteq hooked
  BY DEF IInv, TypeOK, HookedAlive, Alive, Die
<1>4. \A q \in Procs : Active(q)' => Active(q)
  BY DEF IInv, TypeOK, Active, Die
<1>5. ActiveAlive'
  BY <1>4 DEF IInv, TypeOK, ActiveAlive, Alive, Active, Die
<1>6. \A q \in Procs : Writing(q)' => Writing(q)
  BY DEF IInv, TypeOK, Writing, Die
<1>7. \A q \in Procs : Active(q)' /\ Writing(q) => Writing(q)' \/ pidFile = Empty
  BY DEF IInv, TypeOK, Writing, Active, Die
<1>8. pidFile' = pidFile
  BY DEF Die
<1>9. \A q \in Procs : proc'[q] = "removing" => proc[q] = "removing"
  BY DEF IInv, TypeOK, Die
<1>10. \A u \in Threads : pc'[u] \in {"spawned", "truncated"} => pc'[u] = pc[u]
  BY DEF IInv, TypeOK, Die
<1>11. \A q \in Procs : Silent(q) => Silent(q)'
  BY DEF IInv, TypeOK, Silent, Die
<1> QED  BY <1>1, <1>2, <1>3, <1>4, <1>5, <1>6, <1>7, <1>8, <1>9, <1>10, <1>11, QuietStep

(* The death of a poller preserves it. *)
LEMMA PollerDiesStep == ASSUME IInv, NEW p \in Procs, PollerDies(p) PROVE IInv'
<1> USE DaemonAssumption
<1>1. TypeOK'
  BY TypeStep DEF IInv, Next, StartStep
<1>2. LockHeld'
  BY DEF IInv, TypeOK, LockHeld, Alive, PollerDies
<1>3. HookedAlive' /\ hooked' \subseteq hooked
  BY DEF IInv, TypeOK, HookedAlive, Alive, PollerDies
<1>4. \A q \in Procs : Active(q)' => Active(q)
  BY DEF IInv, TypeOK, Active, PollerDies
<1>5. ActiveAlive'
  BY <1>4 DEF IInv, TypeOK, ActiveAlive, Alive, Active, PollerDies
<1>6. \A q \in Procs : Writing(q)' => Writing(q)
  BY DEF IInv, TypeOK, Writing, PollerDies
<1>7. \A q \in Procs : Active(q)' /\ Writing(q) => Writing(q)' \/ pidFile = Empty
  BY DEF IInv, TypeOK, Writing, PollerDies
<1>8. pidFile' = pidFile
  BY DEF PollerDies
<1>9. \A q \in Procs : proc'[q] = "removing" => proc[q] = "removing"
  BY DEF IInv, TypeOK, PollerDies
<1>10. \A u \in Threads : pc'[u] \in {"spawned", "truncated"} => pc'[u] = pc[u]
  BY DEF IInv, TypeOK, PollerDies
<1>11. \A q \in Procs : Silent(q) => Silent(q)'
  BY DEF IInv, TypeOK, Silent, PollerDies
<1> QED  BY <1>1, <1>2, <1>3, <1>4, <1>5, <1>6, <1>7, <1>8, <1>9, <1>10, <1>11, QuietStep

(* The death of a monitor preserves it. *)
LEMMA MonitorDiesStep == ASSUME IInv, NEW p \in Procs, MonitorDies(p) PROVE IInv'
<1> USE DaemonAssumption
<1>1. TypeOK'
  BY TypeStep DEF IInv, Next, StartStep
<1>2. LockHeld'
  BY DEF IInv, TypeOK, LockHeld, Alive, MonitorDies, Hit
<1>3. HookedAlive' /\ hooked' \subseteq hooked
  BY DEF IInv, TypeOK, HookedAlive, Alive, MonitorDies, Hit
<1>4. \A q \in Procs : Active(q)' => Active(q)
  BY DEF IInv, TypeOK, Active, MonitorDies, Hit
<1>5. ActiveAlive'
  BY <1>4 DEF IInv, TypeOK, ActiveAlive, Alive, Active, MonitorDies, Hit
<1>6. \A q \in Procs : Writing(q)' => Writing(q)
  BY DEF IInv, TypeOK, Writing, MonitorDies, Hit
<1>7. \A q \in Procs : Active(q)' /\ Writing(q) => Writing(q)' \/ pidFile = Empty
  BY DEF IInv, TypeOK, Writing, MonitorDies, Hit
<1>8. pidFile' = pidFile
  BY DEF MonitorDies
<1>9. \A q \in Procs : proc'[q] = "removing" => proc[q] = "removing"
  BY DEF IInv, TypeOK, MonitorDies, Hit
<1>10. \A u \in Threads : pc'[u] \in {"spawned", "truncated"} => pc'[u] = pc[u]
  BY DEF IInv, TypeOK, MonitorDies, Hit
<1>11. \A q \in Procs : Silent(q) => Silent(q)'
  BY DEF IInv, TypeOK, Silent, MonitorDies, Hit
<1> QED  BY <1>1, <1>2, <1>3, <1>4, <1>5, <1>6, <1>7, <1>8, <1>9, <1>10, <1>11, QuietStep

(* A foreign process that gets the pid of a dead worker preserves it. *)
LEMMA PidReusedStep == ASSUME IInv, NEW p \in Procs, PidReused(p) PROVE IInv'
<1> USE DaemonAssumption
<1>1. TypeOK'
  BY TypeStep DEF IInv, Next, StartStep
<1>2. LockHeld'
  BY DEF IInv, TypeOK, LockHeld, Alive, PidReused, Hit
<1>3. HookedAlive' /\ hooked' \subseteq hooked
  BY DEF IInv, TypeOK, HookedAlive, Alive, PidReused, Hit
<1>4. \A q \in Procs : Active(q)' => Active(q)
  BY DEF IInv, TypeOK, Active, PidReused, Hit
<1>5. ActiveAlive'
  BY <1>4 DEF IInv, TypeOK, ActiveAlive, Alive, Active, PidReused, Hit
<1>6. \A q \in Procs : Writing(q)' => Writing(q)
  BY DEF IInv, TypeOK, Writing, PidReused, Hit
<1>7. \A q \in Procs : Active(q)' /\ Writing(q) => Writing(q)' \/ pidFile = Empty
  BY DEF IInv, TypeOK, Writing, PidReused, Hit
<1>8. pidFile' = pidFile
  BY DEF PidReused
<1>9. \A q \in Procs : proc'[q] = "removing" => proc[q] = "removing"
  BY DEF IInv, TypeOK, PidReused, Hit
<1>10. \A u \in Threads : pc'[u] \in {"spawned", "truncated"} => pc'[u] = pc[u]
  BY DEF IInv, TypeOK, PidReused, Hit
<1>11. \A q \in Procs : Silent(q) => Silent(q)'
  BY DEF IInv, TypeOK, Silent, PidReused, Hit
<1> QED  BY <1>1, <1>2, <1>3, <1>4, <1>5, <1>6, <1>7, <1>8, <1>9, <1>10, <1>11, QuietStep

(* The end of a foreign process preserves it. *)
LEMMA ForeignEndsStep == ASSUME IInv, NEW p \in Procs, ForeignEnds(p) PROVE IInv'
<1> USE DaemonAssumption
<1>1. TypeOK'
  BY TypeStep DEF IInv, Next, StartStep
<1>2. LockHeld'
  BY DEF IInv, TypeOK, LockHeld, Alive, ForeignEnds
<1>3. HookedAlive' /\ hooked' \subseteq hooked
  BY DEF IInv, TypeOK, HookedAlive, Alive, ForeignEnds
<1>4. \A q \in Procs : Active(q)' => Active(q)
  BY DEF IInv, TypeOK, Active, ForeignEnds
<1>5. ActiveAlive'
  BY <1>4 DEF IInv, TypeOK, ActiveAlive, Alive, Active, ForeignEnds
<1>6. \A q \in Procs : Writing(q)' => Writing(q)
  BY DEF IInv, TypeOK, Writing, ForeignEnds
<1>7. \A q \in Procs : Active(q)' /\ Writing(q) => Writing(q)' \/ pidFile = Empty
  BY DEF IInv, TypeOK, Writing, ForeignEnds
<1>8. pidFile' = pidFile
  BY DEF ForeignEnds
<1>9. \A q \in Procs : proc'[q] = "removing" => proc[q] = "removing"
  BY DEF IInv, TypeOK, ForeignEnds
<1>10. \A u \in Threads : pc'[u] \in {"spawned", "truncated"} => pc'[u] = pc[u]
  BY DEF IInv, TypeOK, ForeignEnds
<1>11. \A q \in Procs : Silent(q) => Silent(q)'
  BY DEF IInv, TypeOK, Silent, ForeignEnds
<1> QED  BY <1>1, <1>2, <1>3, <1>4, <1>5, <1>6, <1>7, <1>8, <1>9, <1>10, <1>11, QuietStep

(* The start of the monitor thread preserves it: nobody else is active. *)
LEMMA StartMonitorThreadStep == ASSUME IInv, NEW t \in Threads, StartMonitorThread(t) PROVE IInv'
<1> USE DaemonAssumption
<1> DEFINE p == home[t]
<1>1. TypeOK'
  BY TypeStep DEF IInv, Next, StartStep
<1>2. LockHeld'
  <2>1. /\ proc' = proc /\ pc[t] = "locked"
        /\ pc' = [pc EXCEPT ![t] = "spawned"] /\ Alive(home[t])
    BY DEF StartMonitorThread, Step
  <2>2. \A q : Alive(q)' = Alive(q)  BY <2>1 DEF Alive
  <2>3. lock = t  BY <2>1 DEF IInv, LockHeld
  <2>4. lock' = t  BY <2>3 DEF StartMonitorThread
  <2> QED  BY <2>1, <2>2, <2>3, <2>4, ThreadStep DEF IInv
<1>3. pidFile # Empty /\ (pidFile \in Procs => proc[pidFile] = "down")
  BY DEF StartMonitorThread, MayStart, Started
<1>4. lock = t /\ pc[t] = "locked" /\ Alive(p) /\ p \in Procs
  BY DEF IInv, TypeOK, LockHeld, StartMonitorThread, Step
<1>5. \A q \in Procs : ~Writing(q)
  BY <1>4 DEF IInv, LockHeld, Writing
<1>6. \A q \in Procs : Active(q) => pidFile = q
  BY <1>3, <1>5 DEF IInv, ActiveRecorded
<1>7. \A q \in Procs : ~Active(q)
  <2> SUFFICES ASSUME NEW q \in Procs, Active(q) PROVE FALSE  OBVIOUS
  <2>1. Alive(q)  BY DEF IInv, ActiveAlive
  <2> QED  BY <1>3, <1>6, <2>1 DEF Alive
<1>8. \A q \in Procs : Active(q)' => q = p
  <2>1. \A q \in Procs : proc[q] # "removing" /\ monitor[q] = "none" /\ poller[q] # "running"
    BY <1>7 DEF Active
  <2>2. /\ proc' = proc /\ poller' = poller
        /\ monitor' = [monitor EXCEPT ![p] = "running"]
        /\ monitor \in [Procs -> {"none", "running", "dead"}]
    BY DEF StartMonitorThread, IInv, TypeOK
  <2> QED  BY <2>1, <2>2 DEF Active
<1>9. /\ proc' = proc /\ hooked' = hooked /\ pidFile' = pidFile
      /\ pc' = [pc EXCEPT ![t] = "spawned"]
      /\ pc \in [Threads -> {"idle", "waiting", "locked", "spawned", "truncated"}]
  BY DEF StartMonitorThread, Step, IInv, TypeOK
<1>10. \A q : Alive(q)' = Alive(q)  BY <1>9 DEF Alive
<1>11. Writing(p)'  BY <1>9 DEF Writing
<1>12. \A q \in Procs : Writing(q)' => q = p
  BY <1>5, <1>9 DEF Writing
<1>13. HookedAlive'  BY <1>9, <1>10 DEF IInv, HookedAlive
<1>14. ActiveAlive'  BY <1>4, <1>8, <1>10 DEF ActiveAlive
<1>15. ActiveRecorded'  BY <1>8, <1>11 DEF ActiveRecorded
<1>16. WriterAlone' /\ OneActive'  BY <1>8, <1>12 DEF WriterAlone, OneActive
<1>17. RemoverRecorded'  BY <1>7, <1>9 DEF RemoverRecorded, Active
<1>18. FileWhileWriting'
  <2>1. pidFile \notin hooked
    BY <1>3 DEF IInv, TypeOK, HookedAlive, Alive
  <2>2. \A u \in Threads : pc[u] \notin {"spawned", "truncated"}
    BY <1>4 DEF IInv, LockHeld
  <2> QED  BY <1>3, <1>9, <2>1, <2>2 DEF FileWhileWriting
<1> QED  BY <1>1, <1>2, <1>13, <1>14, <1>15, <1>16, <1>17, <1>18 DEF IInv

(* The first half of File.write preserves it. *)
LEMMA TruncatePidFileStep == ASSUME IInv, NEW t \in Threads, TruncatePidFile(t) PROVE IInv'
<1> USE DaemonAssumption
<1>1. TypeOK'
  BY TypeStep DEF IInv, Next, StartStep
<1>2. LockHeld'
  <2>1. /\ proc' = proc /\ pc[t] = "spawned"
        /\ pc' = [pc EXCEPT ![t] = "truncated"] /\ Alive(home[t])
    BY DEF TruncatePidFile, Step
  <2>2. \A q : Alive(q)' = Alive(q)  BY <2>1 DEF Alive
  <2>3. lock = t  BY <2>1 DEF IInv, LockHeld
  <2>4. lock' = t  BY <2>3 DEF TruncatePidFile
  <2> QED  BY <2>1, <2>2, <2>3, <2>4, ThreadStep DEF IInv
<1>3. /\ proc' = proc /\ hooked' = hooked /\ monitor' = monitor /\ poller' = poller
      /\ pidFile' = Empty
      /\ pc[t] = "spawned" /\ pc' = [pc EXCEPT ![t] = "truncated"]
      /\ pc \in [Threads -> {"idle", "waiting", "locked", "spawned", "truncated"}]
      /\ home[t] \in Procs
  BY DEF TruncatePidFile, Step, IInv, TypeOK
<1>4. \A q : Alive(q)' = Alive(q) /\ Active(q)' = Active(q)  BY <1>3 DEF Alive, Active
<1>5. \A q \in Procs : Writing(q)' <=> Writing(q)
  <2> SUFFICES ASSUME NEW q \in Procs PROVE Writing(q)' <=> Writing(q)  OBVIOUS
  <2>1. \A u \in Threads : pc'[u] \in {"spawned", "truncated"} <=> pc[u] \in {"spawned", "truncated"}
    BY <1>3
  <2> QED  BY <2>1 DEF Writing
<1>6. \A q \in Procs : proc[q] # "removing"
  <2> SUFFICES ASSUME NEW q \in Procs, proc[q] = "removing" PROVE FALSE  OBVIOUS
  <2>1. Active(q) /\ ~Writing(q)  BY DEF Active, IInv, RemoverRecorded
  <2>2. Writing(home[t])  BY <1>3 DEF Writing
  <2> QED  BY <1>3, <2>1, <2>2 DEF IInv, WriterAlone
<1>7. HookedAlive' /\ ActiveAlive'  BY <1>3, <1>4 DEF IInv, HookedAlive, ActiveAlive
<1>8. ActiveRecorded'  BY <1>3 DEF ActiveRecorded
<1>9. WriterAlone' /\ OneActive'  BY <1>4, <1>5 DEF IInv, WriterAlone, OneActive
<1>10. RemoverRecorded'  BY <1>3, <1>6 DEF RemoverRecorded
<1>11. FileWhileWriting'
  <2>1. lock = t  BY <1>3 DEF IInv, LockHeld
  <2>2. \A u \in Threads : u # t => pc[u] # "spawned"
    BY <2>1 DEF IInv, LockHeld
  <2> QED  BY <1>3, <2>2 DEF FileWhileWriting
<1> QED  BY <1>1, <1>2, <1>7, <1>8, <1>9, <1>10, <1>11 DEF IInv

(* The second half of File.write preserves it. *)
LEMMA WritePidFileStep == ASSUME IInv, NEW t \in Threads, WritePidFile(t) PROVE IInv'
<1> USE DaemonAssumption
<1>1. TypeOK'
  BY TypeStep DEF IInv, Next, StartStep
<1>2. LockHeld'
  <2>1. /\ proc' = proc /\ pc[t] = "truncated"
        /\ pc' = [pc EXCEPT ![t] = "idle"] /\ Alive(home[t])
    BY DEF WritePidFile, Step
  <2>2. \A q : Alive(q)' = Alive(q)  BY <2>1 DEF Alive
  <2>3. lock = t  BY <2>1 DEF IInv, LockHeld
  <2>4. lock' = Nobody  BY <2>3 DEF WritePidFile
  <2> QED  BY <2>1, <2>2, <2>3, <2>4, ThreadStep DEF IInv
<1>3. /\ proc' = proc /\ monitor' = monitor /\ poller' = poller
      /\ pidFile' = home[t] /\ hooked' = hooked \cup {home[t]} /\ Alive(home[t])
      /\ pc[t] = "truncated" /\ pc' = [pc EXCEPT ![t] = "idle"]
      /\ pc \in [Threads -> {"idle", "waiting", "locked", "spawned", "truncated"}]
      /\ home[t] \in Procs
  BY DEF WritePidFile, Step, Pid, IInv, TypeOK
<1>4. \A q : Alive(q)' = Alive(q) /\ Active(q)' = Active(q)  BY <1>3 DEF Alive, Active
<1>5. Writing(home[t])  BY <1>3 DEF Writing
<1>6. \A u \in Threads : pc'[u] \notin {"spawned", "truncated"}
  BY <1>3 DEF IInv, LockHeld
<1>7. \A q \in Procs : ~Writing(q)'  BY <1>6 DEF Writing
<1>8. \A q \in Procs : Active(q) => q = home[t]
  BY <1>3, <1>5 DEF IInv, WriterAlone
<1>9. HookedAlive' /\ ActiveAlive'  BY <1>3, <1>4 DEF IInv, HookedAlive, ActiveAlive
<1>10. ActiveRecorded'  BY <1>3, <1>4, <1>8 DEF ActiveRecorded
<1>11. WriterAlone' /\ OneActive'  BY <1>4, <1>7, <1>8 DEF WriterAlone, OneActive
<1>12. RemoverRecorded'
  <2>1. \A q \in Procs : proc[q] # "removing"
    BY <1>5, <1>8 DEF IInv, RemoverRecorded, Active
  <2> QED  BY <1>3, <2>1 DEF RemoverRecorded
<1>13. FileWhileWriting'  BY <1>6 DEF FileWhileWriting
<1> QED  BY <1>1, <1>2, <1>9, <1>10, <1>11, <1>12, <1>13 DEF IInv

(* The steps of an exiting process. *)

(* The exit hook, up to the pid file, preserves it. *)
LEMMA StopStep == ASSUME IInv, NEW p \in Procs, Stop(p) PROVE IInv'
<1> USE DaemonAssumption
<1>1. TypeOK'
  BY TypeStep DEF IInv, Next, StartStep
<1>2. /\ proc[p] = "up" /\ p \in hooked /\ pidFile = p
      /\ proc' = [proc EXCEPT ![p] = "removing"]
      /\ proc \in [Procs -> {"down", "up", "removing", "exiting", "foreign"}]
      /\ \A q \in Procs : q # p => monitor'[q] = monitor[q] /\ poller'[q] = poller[q]
      /\ Silent(p)'
      /\ pc' = pc /\ lock' = lock /\ pidFile' = pidFile /\ hooked' = hooked
  <2>1. /\ proc \in [Procs -> {"down", "up", "removing", "exiting", "foreign"}]
        /\ monitor \in [Procs -> {"none", "running", "dead"}]
        /\ poller \in [Procs -> {"none", "running", "killed"}]
    BY DEF IInv, TypeOK
  <2>2. /\ proc[p] = "up" /\ p \in hooked /\ pidFile = p
        /\ proc' = [proc EXCEPT ![p] = "removing"]
        /\ monitor' = [monitor EXCEPT ![p] = "none"]
        /\ poller' = [poller EXCEPT ![p] = IF poller[p] = "running" THEN "killed" ELSE poller[p]]
        /\ pc' = pc /\ lock' = lock /\ pidFile' = pidFile /\ hooked' = hooked
    BY DEF Stop, IsDaemon
  <2>3. \A q \in Procs : q # p => monitor'[q] = monitor[q] /\ poller'[q] = poller[q]
    BY <2>1, <2>2
  <2>4. Silent(p)'  BY <2>1, <2>2 DEF Silent
  <2> QED  BY <2>1, <2>2, <2>3, <2>4
<1>3. \A q \in Procs : Alive(q)' <=> Alive(q)  BY <1>2 DEF Alive
<1>4. \A q \in Procs : q # p => Active(q)' = Active(q)  BY <1>2 DEF Active
<1>5. \A q : Writing(q)' = Writing(q)  BY <1>2 DEF Writing
<1>6. \A q \in Procs : ~Writing(q)
  <2>1. \A u \in Threads : pc[u] \notin {"spawned", "truncated"}
    BY <1>2 DEF IInv, FileWhileWriting
  <2> QED  BY <2>1 DEF Writing
<1>7. \A q \in Procs : Active(q) => q = p
  BY <1>2, <1>6 DEF IInv, ActiveRecorded
<1>8. \A q \in Procs : Active(q)' => q = p  BY <1>4, <1>7
<1>9. LockHeld'
  <2>1. \A u \in Threads : home[u] \in Procs  OBVIOUS
  <2> QED  BY <1>2, <1>3, <2>1 DEF IInv, LockHeld
<1>10. HookedAlive'  BY <1>2, <1>3 DEF IInv, TypeOK, HookedAlive
<1>11. ActiveAlive'  BY <1>2, <1>8 DEF ActiveAlive, Alive
<1>12. ActiveRecorded'  BY <1>2, <1>8 DEF ActiveRecorded
<1>13. WriterAlone' /\ OneActive'  BY <1>5, <1>6, <1>8 DEF WriterAlone, OneActive
<1>14. RemoverRecorded'
  <2>1. \A q \in Procs : proc'[q] = "removing" => q = p  BY <1>8 DEF Active
  <2> QED  BY <1>2, <1>5, <1>6, <2>1 DEF RemoverRecorded
<1>15. FileWhileWriting'  BY <1>2 DEF IInv, FileWhileWriting
<1> QED  BY <1>1, <1>9, <1>10, <1>11, <1>12, <1>13, <1>14, <1>15 DEF IInv

(* The removal of the pid file preserves it. *)
LEMMA RemovePidFileStep == ASSUME IInv, NEW p \in Procs, RemovePidFile(p) PROVE IInv'
<1> USE DaemonAssumption
<1>1. TypeOK'
  BY TypeStep DEF IInv, Next, StartStep
<1>2. /\ proc[p] = "removing" /\ pidFile = p /\ ~Writing(p) /\ Silent(p)
      /\ proc' = [proc EXCEPT ![p] = "exiting"]
      /\ proc \in [Procs -> {"down", "up", "removing", "exiting", "foreign"}]
      /\ pidFile' = Absent
      /\ pc' = pc /\ lock' = lock /\ hooked' = hooked /\ monitor' = monitor /\ poller' = poller
  <2>1. proc \in [Procs -> {"down", "up", "removing", "exiting", "foreign"}]  BY DEF IInv, TypeOK
  <2>2. /\ proc[p] = "removing" /\ pidFile' = Absent
        /\ proc' = [proc EXCEPT ![p] = "exiting"]
        /\ pc' = pc /\ lock' = lock /\ hooked' = hooked /\ monitor' = monitor /\ poller' = poller
    BY DEF RemovePidFile
  <2>3. pidFile = p /\ ~Writing(p) /\ Silent(p)  BY <2>2 DEF IInv, RemoverRecorded
  <2> QED  BY <2>1, <2>2, <2>3
<1>3. \A q \in Procs : Alive(q)' <=> Alive(q)  BY <1>2 DEF Alive
<1>4. \A q \in Procs : Active(q)' => Active(q)  BY <1>2 DEF Active
<1>5. \A q : Writing(q)' = Writing(q)  BY <1>2 DEF Writing
<1>6. Active(p)  BY <1>2 DEF Active
<1>7. \A q \in Procs : ~Writing(q)  BY <1>2, <1>6 DEF IInv, WriterAlone
<1>8. \A q \in Procs : ~Active(q)'
  <2> SUFFICES ASSUME NEW q \in Procs, Active(q)' PROVE FALSE  OBVIOUS
  <2>1. q = p  BY <1>4, <1>6 DEF IInv, OneActive
  <2> QED  BY <1>2, <2>1 DEF Active, Silent
<1>9. LockHeld'
  <2>1. \A u \in Threads : home[u] \in Procs  OBVIOUS
  <2> QED  BY <1>2, <1>3, <2>1 DEF IInv, LockHeld
<1>10. HookedAlive'  BY <1>2, <1>3 DEF IInv, TypeOK, HookedAlive
<1>11. ActiveAlive' /\ ActiveRecorded' /\ WriterAlone' /\ OneActive'
  BY <1>8 DEF ActiveAlive, ActiveRecorded, WriterAlone, OneActive
<1>12. RemoverRecorded'  BY <1>8 DEF RemoverRecorded, Active
<1>13. FileWhileWriting'
  <2>1. \A u \in Threads : pc[u] \notin {"spawned", "truncated"}
    <3>1. \A u \in Threads : home[u] \in Procs  OBVIOUS
    <3> QED  BY <1>7, <3>1 DEF Writing
  <2> QED  BY <1>2, <2>1 DEF FileWhileWriting
<1> QED  BY <1>1, <1>9, <1>10, <1>11, <1>12, <1>13 DEF IInv

(* IInv holds in every reachable state, for all processes, threads and      *)
(* faults but a pid file that cannot be opened: the pid file and the lock   *)
(* together name the one active process.                                    *)
THEOREM InductiveInvariant == "no file" \notin Faults => (Spec => []IInv)
<1> SUFFICES ASSUME "no file" \notin Faults PROVE Spec => []IInv
  OBVIOUS
<1>1. Init => IInv
  <2> SUFFICES ASSUME Init PROVE IInv  OBVIOUS
  <2> USE DaemonAssumption
  <2>1. TypeOK  BY InitTyped
  <2>2. \A q \in Procs : ~Active(q)  BY DEF Init, Active
  <2>3. ActiveAlive /\ ActiveRecorded /\ WriterAlone /\ OneActive
    BY <2>2 DEF ActiveAlive, ActiveRecorded, WriterAlone, OneActive
  <2>4. LockHeld /\ HookedAlive /\ RemoverRecorded /\ FileWhileWriting
    BY DEF Init, LockHeld, HookedAlive, RemoverRecorded, FileWhileWriting
  <2> QED  BY <2>1, <2>3, <2>4 DEF IInv
<1>2. IInv /\ [Next]_vars => IInv'
  <2> SUFFICES ASSUME IInv, [Next]_vars PROVE IInv'  OBVIOUS
  <2>1. CASE UNCHANGED vars
    <3>1. TypeOK' /\ LockHeld' /\ HookedAlive' /\ FileWhileWriting'
      <4>1. TypeOK'  BY <2>1 DEF vars, IInv, TypeOK
      <4>2. LockHeld' /\ HookedAlive'  BY <2>1 DEF vars, IInv, LockHeld, HookedAlive, Alive
      <4>3. FileWhileWriting'  BY <2>1 DEF vars, IInv, FileWhileWriting
      <4> QED  BY <4>1, <4>2, <4>3
    <3>2. ActiveAlive' /\ ActiveRecorded' /\ WriterAlone' /\ OneActive' /\ RemoverRecorded'
      <4>1. \A q : /\ Active(q)' = Active(q) /\ Alive(q)' = Alive(q)
                   /\ Writing(q)' = Writing(q) /\ Silent(q)' = Silent(q)
        BY <2>1 DEF vars, Active, Alive, Writing, Silent
      <4>2. pidFile' = pidFile /\ proc' = proc  BY <2>1 DEF vars
      <4> QED  BY <4>1, <4>2
               DEF IInv, ActiveAlive, ActiveRecorded, WriterAlone, OneActive, RemoverRecorded
    <3> QED  BY <3>1, <3>2 DEF IInv
  <2>2. ASSUME NEW t \in Threads, Request(t) \/ StartStep(t) \/ OpenFails(t) \/ WriteFails(t)
        PROVE  IInv'
    BY <2>2, RequestStep, GetLockStep, FindStartedStep, StartMonitorThreadStep,
       TruncatePidFileStep, WritePidFileStep, WriteFailsStep DEF StartStep, OpenFails, Hit
  <2>3. ASSUME NEW p \in Procs,
               \/ CacheExpires(p) \/ CheckServices(p) \/ Boot(p) \/ Stop(p)
               \/ RemovePidFile(p) \/ Die(p) \/ PollerDies(p) \/ MonitorDies(p)
               \/ PidReused(p) \/ ForeignEnds(p)
        PROVE  IInv'
    BY <2>3, CacheExpiresStep, CheckServicesStep, BootStep, StopStep, RemovePidFileStep,
       DieStep, PollerDiesStep, MonitorDiesStep, PidReusedStep, ForeignEndsStep
  <2> QED  BY <2>1, <2>2, <2>3 DEF Next
<1> QED  BY <1>1, <1>2, PTL DEF Spec

(* The type invariant of Runner's files, locks and threads, whatever fails. *)
THEOREM TypeCorrect == Spec => []TypeOK
<1>1. Init => TypeOK
  BY InitTyped
<1>2. TypeOK /\ [Next]_vars => TypeOK'
  <2>1. TypeOK /\ UNCHANGED vars => TypeOK'  BY DEF vars, TypeOK
  <2> QED  BY <2>1, TypeStep
<1> QED  BY <1>1, <1>2, PTL DEF Spec

(* At most one process polls the event queue, whatever exits, crashes, is   *)
(* torn or reused, if the pid file can be opened: a poller's process is     *)
(* active, and one process is active.                                       *)
THEOREM SinglePoller == "no file" \notin Faults => (Spec => []OnePoller)
<1>1. IInv => OnePoller  BY DEF IInv, OneActive, Active, OnePoller
<1> QED  BY <1>1, InductiveInvariant, PTL

(* With the lock free nobody is writing, so the file of an active process   *)
(* names it or was left empty.                                              *)
THEOREM PidFileCorrect == "no file" \notin Faults => (Spec => []PidFileNamesDaemon)
<1>1. IInv => PidFileNamesDaemon
  <2> SUFFICES ASSUME IInv, NEW p \in Procs, monitor[p] # "none", lock = Nobody
               PROVE  pidFile \in {p, Empty}
    BY DEF PidFileNamesDaemon
  <2>1. Active(p)  BY DEF Active
  <2>2. ~Writing(p)  BY DaemonAssumption DEF IInv, LockHeld, Writing
  <2> QED  BY <2>1, <2>2 DEF IInv, ActiveRecorded
<1> QED  BY <1>1, InductiveInvariant, PTL

-----------------------------------------------------------------------------
(* The election. *)

(* Whoever has a thread of the daemon is the one that does. *)
LEMMA OneDaemon ==
  ASSUME IInv, NEW p \in Daemons
  PROVE  Daemons = {p} /\ Pollers = IF poller[p] = "running" THEN {p} ELSE {}
<1>1. \A q \in Daemons : q = p  BY DEF IInv, OneActive, Active, Daemons
<1>2. Pollers \subseteq Daemons  BY DEF Daemons, Pollers
<1>3. p \in Pollers <=> poller[p] = "running"  BY DEF Daemons, Pollers
<1> QED  BY <1>1, <1>2, <1>3

(* The same of the next state. *)
LEMMA OneDaemonNext ==
  ASSUME IInv', NEW p \in Daemons'
  PROVE  Daemons' = {p} /\ Pollers' = IF poller'[p] = "running" THEN {p} ELSE {}
<1>1. \A q \in Daemons' : q = p  BY DEF IInv, OneActive, Active, Daemons
<1>2. Pollers' \subseteq Daemons'  BY DEF Daemons, Pollers
<1>3. p \in Pollers' <=> poller'[p] = "running"  BY DEF Daemons, Pollers
<1> QED  BY <1>1, <1>2, <1>3

(* A step that only changes the threads of p and leaves it none. *)
LEMMA ResignRefines ==
  ASSUME IInv, NEW p \in Procs, TypeOK,
         monitor' = [monitor EXCEPT ![p] = "none"],
         NEW left \in {"none", "killed"},
         poller' = [poller EXCEPT ![p] = left]
  PROVE  Election!Resign \/ UNCHANGED Election!elVars
<1>1. Daemons' = Daemons \ {p}  BY DEF TypeOK, Daemons
<1>2. Pollers' = Pollers \ {p}  BY DEF TypeOK, Pollers
<1>3. CASE p \in Daemons
  <2>1. Daemons' = {} /\ Pollers' = {}  BY <1>1, <1>2, <1>3, OneDaemon
  <2> QED  BY <1>3, <2>1 DEF Election!Resign
<1>4. CASE p \notin Daemons
  <2>1. p \notin Pollers  BY <1>4 DEF Daemons, Pollers
  <2> QED  BY <1>1, <1>2, <1>4, <2>1 DEF Election!elVars
<1> QED  BY <1>3, <1>4

(* Starting the monitor thread elects the process, unless it is the daemon. *)
LEMMA StartMonitorRefines ==
  ASSUME IInv', TypeOK, NEW t \in Threads, StartMonitorThread(t)
  PROVE  Election!Elect(home[t]) \/ UNCHANGED Election!elVars
<1>1. home[t] \in Procs  BY DaemonAssumption
<1>2. poller' = poller /\ monitor' = [monitor EXCEPT ![home[t]] = "running"]
  BY DEF StartMonitorThread
<1>3. Daemons \subseteq Daemons' /\ home[t] \in Daemons'
  BY <1>1, <1>2 DEF TypeOK, Daemons
<1>4. Daemons' = {home[t]}  BY <1>3, OneDaemonNext
<1>5. Pollers' = Pollers  BY <1>2 DEF Pollers
<1> QED  BY <1>3, <1>4, <1>5 DEF Election!Elect, Election!elVars

(* The monitor starts the poller of the daemon. *)
LEMMA CheckServicesRefines ==
  ASSUME IInv, IInv', NEW p \in Procs, CheckServices(p) PROVE Election!Poll
<1>1. /\ monitor[p] = "running" /\ poller[p] # "running" /\ monitor' = monitor
      /\ poller' = [poller EXCEPT ![p] = "running"]
  BY DEF CheckServices
<1>2. poller \in [Procs -> {"none", "running", "killed"}]  BY DEF IInv, TypeOK
<1>3. p \in Daemons /\ p \in Daemons' /\ poller'[p] = "running"
  BY <1>1, <1>2 DEF Daemons
<1>4. Daemons = {p} /\ Pollers = {}  BY <1>1, <1>3, OneDaemon
<1>5. Daemons' = {p} /\ Pollers' = {p}  BY <1>3, OneDaemonNext
<1> QED  BY <1>4, <1>5 DEF Election!Poll

(* A poller dies: its monitor remains, or nothing does. *)
LEMMA PollerDiesRefines ==
  ASSUME IInv, NEW p \in Procs, PollerDies(p)
  PROVE  Election!Pause \/ Election!Resign
<1>1. /\ poller[p] = "running" /\ monitor' = monitor
      /\ poller' = [poller EXCEPT ![p] = "none"]
  BY DEF PollerDies
<1>2. poller \in [Procs -> {"none", "running", "killed"}]  BY DEF IInv, TypeOK
<1>3. p \in Daemons  BY <1>1 DEF Daemons
<1>4. Daemons = {p} /\ Pollers = {p}  BY <1>1, <1>3, OneDaemon
<1>5. Pollers' = {}
  <2>1. Pollers' = Pollers \ {p}  BY <1>1, <1>2 DEF Pollers
  <2> QED  BY <1>4, <2>1
<1>6. Daemons' = IF monitor[p] = "none" THEN Daemons \ {p} ELSE Daemons
  BY <1>1, <1>2 DEF Daemons
<1> QED  BY <1>4, <1>5, <1>6 DEF Election!Pause, Election!Resign

(* Stopping and dying resign the role, if the process has it. *)
LEMMA EndRefines ==
  ASSUME IInv, NEW p \in Procs, Stop(p) \/ Die(p)
  PROVE  Election!Resign \/ UNCHANGED Election!elVars
<1>1. TypeOK /\ poller[p] \in {"none", "running", "killed"}  BY DEF IInv, TypeOK
<1>2. CASE Stop(p)
  <2> DEFINE left == IF poller[p] = "running" THEN "killed" ELSE poller[p]
  <2>1. /\ monitor' = [monitor EXCEPT ![p] = "none"]
        /\ poller' = [poller EXCEPT ![p] = left]
    BY <1>2 DEF Stop
  <2>2. left \in {"none", "killed"}  BY <1>1
  <2> HIDE DEF left
  <2> QED  BY <1>1, <2>1, <2>2, ResignRefines
<1>3. CASE Die(p)
  <2>1. /\ monitor' = [monitor EXCEPT ![p] = "none"]
        /\ poller' = [poller EXCEPT ![p] = "none"]
    BY <1>3 DEF Die
  <2> QED  BY <1>1, <2>1, ResignRefines
<1> QED  BY <1>2, <1>3

(* A step that leaves the pollers alone, and of the monitors only lets one  *)
(* die, is none of the election.                                            *)
LEMMA OtherRefines ==
  ASSUME TypeOK, poller' = poller,
         monitor' = monitor \/ \E p \in Procs : MonitorDies(p)
  PROVE  UNCHANGED Election!elVars
<1>1. Daemons' = Daemons  BY DEF TypeOK, Daemons, MonitorDies
<1>2. Pollers' = Pollers  BY DEF Pollers
<1> QED  BY <1>1, <1>2 DEF Election!elVars

(* Whatever exits, crashes, tears or is reused, the workers elect one       *)
(* daemon at a time, and only it polls, if the pid file can be opened.      *)
THEOREM DaemonElected == "no file" \notin Faults => (Spec => ImplementsElection)
<1> SUFFICES ASSUME "no file" \notin Faults PROVE Spec => ImplementsElection
  OBVIOUS
<1>1. Init => Election!ElInit
  <2> SUFFICES ASSUME Init PROVE Election!ElInit  OBVIOUS
  <2>1. Daemons = {} /\ Pollers = {}  BY DEF Init, Daemons, Pollers
  <2> QED  BY <2>1 DEF Election!ElInit
<1>2. IInv /\ IInv' /\ [Next]_vars => [Election!ElNext]_(Election!elVars)
  <2> SUFFICES ASSUME IInv, IInv', [Next]_vars
               PROVE  Election!ElNext \/ UNCHANGED Election!elVars
    OBVIOUS
  <2>1. TypeOK  BY DEF IInv
  <2>2. CASE UNCHANGED vars
    BY <2>1, <2>2, OtherRefines DEF vars
  <2>3. ASSUME NEW t \in Threads, StartMonitorThread(t)
        PROVE  Election!ElNext \/ UNCHANGED Election!elVars
    <3>1. home[t] \in Procs  BY DaemonAssumption
    <3> QED  BY <2>1, <2>3, <3>1, StartMonitorRefines DEF Election!ElNext
  <2>4. ASSUME NEW t \in Threads,
               \/ Request(t) \/ GetLock(t) \/ FindStarted(t) \/ TruncatePidFile(t)
               \/ WritePidFile(t) \/ OpenFails(t) \/ WriteFails(t)
        PROVE  UNCHANGED Election!elVars
    <3>1. poller' = poller /\ monitor' = monitor
      BY <2>4 DEF Request, GetLock, FindStarted, TruncatePidFile, WritePidFile, OpenFails, WriteFails
    <3> QED  BY <2>1, <3>1, OtherRefines
  <2>5. ASSUME NEW p \in Procs, CheckServices(p) PROVE Election!ElNext
    BY <2>5, CheckServicesRefines DEF Election!ElNext
  <2>6. ASSUME NEW p \in Procs, PollerDies(p) PROVE Election!ElNext
    BY <2>6, PollerDiesRefines DEF Election!ElNext
  <2>7. ASSUME NEW p \in Procs, Stop(p) \/ Die(p)
        PROVE  Election!ElNext \/ UNCHANGED Election!elVars
    BY <2>7, EndRefines DEF Election!ElNext
  <2>8. ASSUME NEW p \in Procs,
               \/ CacheExpires(p) \/ Boot(p) \/ RemovePidFile(p) \/ MonitorDies(p)
               \/ PidReused(p) \/ ForeignEnds(p)
        PROVE  UNCHANGED Election!elVars
    <3>1. poller' = poller /\ (monitor' = monitor \/ MonitorDies(p))
      BY <2>8 DEF CacheExpires, Boot, RemovePidFile, MonitorDies, PidReused, ForeignEnds
    <3> QED  BY <2>1, <3>1, OtherRefines
  <2> QED  BY <2>2, <2>3, <2>4, <2>5, <2>6, <2>7, <2>8 DEF Next, StartStep
<1> QED
  BY <1>1, <1>2, InductiveInvariant, PTL DEF Spec, ImplementsElection, Election!ElSpec
=============================================================================
