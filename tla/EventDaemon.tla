----------------------------- MODULE EventDaemon -----------------------------
(***************************************************************************)
(* The event daemon (app/lib/katello/event_daemon/runner.rb, monitor.rb).   *)
(* Every request to any worker process of the server calls Runner.start;    *)
(* the processes agree through a lock file and a pid file on the one that   *)
(* runs the monitor thread, which starts the event pollers and restarts     *)
(* those that die.  Processes may exit, crash and come back at any point,   *)
(* and several threads of a process serve requests at once.                 *)
(***************************************************************************)
EXTENDS Naturals

CONSTANTS
  Procs,       \* worker processes, by pid
  Threads,     \* request threads
  home,        \* home[t]: the process of thread t
  Nobody,
  Absent, Empty,  \* no pid file, a pid file without a pid
  Faults,      \* kinds of fault that may happen: see Hit
  MaxFaults    \* bound on the faults, crashes and exits of a behavior

ASSUME DaemonAssumption ==
  /\ home \in [Threads -> Procs]
  /\ Nobody \notin Threads
  /\ Absent \notin Procs /\ Empty \notin Procs /\ Absent # Empty
  /\ Faults \subseteq {"no file", "disk full", "torn write", "pid reused", "monitor dies"}
  /\ MaxFaults \in Nat

VARIABLES
  proc,      \* proc[p]: what the process with pid p is doing
  cached,    \* cached[p]: the memory store's katello_event_daemon_runnable
  pc,        \* pc[t]: where thread t is in Runner.start
  lock,      \* the thread that holds the flock
  pidFile,   \* what katello_event_daemon.pid holds
  hooked,    \* processes that registered at_exit { stop }
  monitor,   \* monitor[p]: the monitor thread
  poller,    \* poller[p]: the poller thread of its services
  faults

vars == <<proc, cached, pc, lock, pidFile, hooked, monitor, poller, faults>>

TypeOK ==
  /\ proc \in [Procs -> {"down", "up", "removing", "exiting", "foreign"}]
  /\ cached \in [Procs -> {"none", "yes", "no"}]
  /\ pc \in [Threads -> {"idle", "waiting", "locked", "spawned", "truncated"}]
  /\ lock \in Threads \cup {Nobody}
  /\ pidFile \in Procs \cup {Absent, Empty}
  /\ hooked \subseteq Procs
  /\ monitor \in [Procs -> {"none", "running", "dead"}]
  /\ poller \in [Procs -> {"none", "running", "killed"}]
  /\ faults \in 0..MaxFaults

Init ==
  /\ proc \in [Procs -> {"down", "up"}]
  /\ cached = [p \in Procs |-> "none"]
  /\ pc = [t \in Threads |-> "idle"]
  /\ lock = Nobody
  /\ pidFile \in {Absent} \cup {p \in Procs : proc[p] = "down"}
  /\ hooked = {}
  /\ monitor = [p \in Procs |-> "none"]
  /\ poller = [p \in Procs |-> "none"]
  /\ faults = 0

Alive(p) == proc[p] \in {"up", "removing", "exiting"}

(* Mutant: only a missing pid file means that nothing runs. *)
StartedUnlessAbsent == pidFile # Absent

(* Mutant: a file without a pid says that nothing runs. *)
StartedNamed == pidFile \in Procs /\ proc[pidFile] # "down"

(* started?: signal 0 reaches the pid of the file.  A file without a pid    *)
(* reads as pid 0, the process group of the caller.  A signal that another  *)
(* user's process refuses (EPERM) raises: the request starts nothing too.   *)
Started == \/ pidFile = Empty
           \/ pidFile \in Procs /\ proc[pidFile] # "down"

Step(t, from, to) == /\ Alive(home[t])
                     /\ pc[t] = from
                     /\ pc' = [pc EXCEPT ![t] = to]

-----------------------------------------------------------------------------
(* Runner.start, called by the middleware at every request. *)

(* runnable? answers from the cache, or fills it. *)
Request(t) ==
  LET p == home[t]
      runnable == cached[p] = "yes" \/ ~Started
  IN /\ proc[p] = "up"
     /\ cached[p] # "no"
     /\ Step(t, "idle", IF runnable THEN "waiting" ELSE "idle")
     /\ cached' = [cached EXCEPT ![p] = IF runnable THEN "yes" ELSE "no"]
     /\ UNCHANGED <<proc, lock, pidFile, hooked, monitor, poller, faults>>

CacheExpires(p) ==
  /\ cached[p] # "none"
  /\ cached' = [cached EXCEPT ![p] = "none"]
  /\ UNCHANGED <<proc, pc, lock, pidFile, hooked, monitor, poller, faults>>

GetLock(t) ==
  /\ lock = Nobody
  /\ Step(t, "waiting", "locked")
  /\ lock' = t
  /\ UNCHANGED <<proc, cached, pidFile, hooked, monitor, poller, faults>>

(* "ensure it wasn't started while we waited for the lock" *)
FindStarted(t) ==
  /\ Started
  /\ Step(t, "locked", "idle")
  /\ lock' = Nobody
  /\ UNCHANGED <<proc, cached, pidFile, hooked, monitor, poller, faults>>

(* Mutant: the state after the wait for the lock is not looked at. *)
MayStartUnchecked == lock # Nobody

MayStart == ~Started

StartMonitorThread(t) ==
  /\ MayStart
  /\ Step(t, "locked", "spawned")
  /\ monitor' = [monitor EXCEPT ![home[t]] = "running"]
  /\ UNCHANGED <<proc, cached, lock, pidFile, hooked, poller, faults>>

(* Mutant: the thread is recorded instead of its process. *)
ThreadPid(t) == t

(* Process.pid *)
Pid(t) == home[t]

(* write_pid_file opens the file, which truncates it, and writes. *)
TruncatePidFile(t) ==
  /\ Step(t, "spawned", "truncated")
  /\ pidFile' = Empty
  /\ UNCHANGED <<proc, cached, lock, hooked, monitor, poller, faults>>

WritePidFile(t) ==
  /\ Step(t, "truncated", "idle")
  /\ pidFile' = Pid(t)
  /\ hooked' = hooked \cup {home[t]}
  /\ lock' = Nobody
  /\ UNCHANGED <<proc, cached, monitor, poller, faults>>

-----------------------------------------------------------------------------
(* Monitor#check_services *)

CheckServices(p) ==
  /\ Alive(p)
  /\ monitor[p] = "running" /\ poller[p] # "running"
  /\ poller' = [poller EXCEPT ![p] = "running"]
  /\ UNCHANGED <<proc, cached, pc, lock, pidFile, hooked, monitor, faults>>

-----------------------------------------------------------------------------
(* The life of a process. *)

(* A new worker; its pid is the one in the file only if pids are reused. *)
Boot(p) ==
  /\ proc[p] = "down"
  /\ p = pidFile => "pid reused" \in Faults
  /\ proc' = [proc EXCEPT ![p] = "up"]
  /\ UNCHANGED <<cached, pc, lock, pidFile, hooked, monitor, poller, faults>>

(* `return unless pid == Process.pid` *)
IsDaemon(p) == pidFile = p

(* The exit hook: kill the monitor thread, clear the cache, close the       *)
(* services.  A killed poller thread still runs its ensure blocks.          *)
Stop(p) ==
  /\ proc[p] = "up" /\ p \in hooked /\ IsDaemon(p)
  /\ faults < MaxFaults
  /\ faults' = faults + 1
  /\ proc' = [proc EXCEPT ![p] = "removing"]
  /\ monitor' = [monitor EXCEPT ![p] = "none"]
  /\ poller' = [poller EXCEPT ![p] = IF @ = "running" THEN "killed" ELSE @]
  /\ cached' = [cached EXCEPT ![p] = "none"]
  /\ UNCHANGED <<pc, lock, pidFile, hooked>>

RemovePidFile(p) ==
  /\ proc[p] = "removing"
  /\ proc' = [proc EXCEPT ![p] = "exiting"]
  /\ pidFile' = Absent
  /\ UNCHANGED <<cached, pc, lock, hooked, monitor, poller, faults>>

(* A process ends: by a crash at any point, after its exit hook, or because *)
(* it had none.  The system releases its lock.                              *)
Die(p) ==
  /\ Alive(p)
  /\ proc[p] # "exiting" => faults < MaxFaults
  /\ (\E t \in Threads : home[t] = p /\ pc[t] = "truncated") => "torn write" \in Faults
  /\ faults' = IF proc[p] = "exiting" THEN faults ELSE faults + 1
  /\ proc' = [proc EXCEPT ![p] = "down"]
  /\ cached' = [cached EXCEPT ![p] = "none"]
  /\ pc' = [t \in Threads |-> IF home[t] = p THEN "idle" ELSE pc[t]]
  /\ lock' = IF lock # Nobody /\ home[lock] = p THEN Nobody ELSE lock
  /\ hooked' = hooked \ {p}
  /\ monitor' = [monitor EXCEPT ![p] = "none"]
  /\ poller' = [poller EXCEPT ![p] = "none"]
  /\ UNCHANGED pidFile

-----------------------------------------------------------------------------
(* Faults. *)

Hit(fault) == /\ fault \in Faults
              /\ faults < MaxFaults
              /\ faults' = faults + 1

(* The pid file cannot be opened: the monitor thread already runs, and no   *)
(* file says so.                                                            *)
OpenFails(t) ==
  /\ Hit("no file")
  /\ Step(t, "spawned", "idle")
  /\ lock' = Nobody
  /\ UNCHANGED <<proc, cached, pidFile, hooked, monitor, poller>>

(* The write of the pid raises; the ensure clause releases the lock, the    *)
(* monitor thread goes on and no exit hook is registered.                   *)
WriteFails(t) ==
  /\ Hit("disk full")
  /\ Step(t, "truncated", "idle")
  /\ lock' = Nobody
  /\ UNCHANGED <<proc, cached, pidFile, hooked, monitor, poller>>

(* poll_for_events meets a fatal error; faults bound it too. *)
PollerDies(p) ==
  /\ faults < MaxFaults
  /\ faults' = faults + 1
  /\ poller[p] = "running"
  /\ poller' = [poller EXCEPT ![p] = "none"]
  /\ UNCHANGED <<proc, cached, pc, lock, pidFile, hooked, monitor>>

(* write_statuses_to_cache raises outside any rescue. *)
MonitorDies(p) ==
  /\ Hit("monitor dies")
  /\ monitor[p] = "running"
  /\ monitor' = [monitor EXCEPT ![p] = "dead"]
  /\ UNCHANGED <<proc, cached, pc, lock, pidFile, hooked, poller>>

(* Another program gets the pid of a dead worker, and ends. *)
PidReused(p) ==
  /\ Hit("pid reused")
  /\ proc[p] = "down"
  /\ proc' = [proc EXCEPT ![p] = "foreign"]
  /\ UNCHANGED <<cached, pc, lock, pidFile, hooked, monitor, poller>>

ForeignEnds(p) ==
  /\ proc[p] = "foreign"
  /\ proc' = [proc EXCEPT ![p] = "down"]
  /\ UNCHANGED <<cached, pc, lock, pidFile, hooked, monitor, poller, faults>>

-----------------------------------------------------------------------------
StartStep(t) == \/ GetLock(t) \/ FindStarted(t) \/ StartMonitorThread(t)
                \/ TruncatePidFile(t) \/ WritePidFile(t)

Next ==
  \/ \E t \in Threads : Request(t) \/ StartStep(t) \/ OpenFails(t) \/ WriteFails(t)
  \/ \E p \in Procs : \/ CacheExpires(p) \/ CheckServices(p)
                      \/ Boot(p) \/ Stop(p) \/ RemovePidFile(p) \/ Die(p)
                      \/ PollerDies(p) \/ MonitorDies(p)
                      \/ PidReused(p) \/ ForeignEnds(p)

Spec == Init /\ [][Next]_vars

(* Requests keep coming, the cache expires, dead workers are replaced and   *)
(* an exiting one ends.                                                     *)
FairSpec ==
  /\ Spec
  /\ \A t \in Threads : WF_vars(Request(t)) /\ WF_vars(StartStep(t))
  /\ \A p \in Procs : /\ WF_vars(CacheExpires(p)) /\ WF_vars(CheckServices(p))
                      /\ WF_vars(Boot(p)) /\ WF_vars(RemovePidFile(p))
                      /\ WF_vars(proc[p] = "exiting" /\ Die(p))
                      /\ WF_vars(ForeignEnds(p))

-----------------------------------------------------------------------------
(* Properties. *)

(* At most one process polls the event queue, whatever crashes, fails to    *)
(* write or is reused: the event queue relies on a single reader.  It needs *)
(* a pid file that can be opened, since Runner.start starts the monitor     *)
(* thread first.  A poller thread killed but not ended is not counted.      *)
OnePoller == \A p, q \in Procs : poller[p] = "running" /\ poller[q] = "running" => p = q

(* The exit of a process removes the pid file of no other daemon: while no  *)
(* thread is in Runner.start, the file names the process that runs the      *)
(* monitor thread, or nobody after a failed write.                          *)
PidFileNamesDaemon ==
  \A p \in Procs : monitor[p] # "none" /\ lock = Nobody => pidFile \in {p, Empty}

(* Processes with a thread of the daemon, and those that poll. *)
Daemons == {p \in Procs : monitor[p] # "none" \/ poller[p] = "running"}
Pollers == {p \in Procs : poller[p] = "running"}

Election == INSTANCE DaemonElection WITH daemons <- Daemons, pollers <- Pollers

(* The start at every request, the monitor, the exit hook, crashes and      *)
(* failed writes together elect one daemon: a worker becomes the daemon only *)
(* when nobody is, not even by a monitor that has no poller yet or a poller  *)
(* that has outlived its monitor, and only the daemon polls.                *)
ImplementsElection == Election!ElSpec

(* Polling goes on: when the daemon exits or crashes, another process takes *)
(* over, because started? finds that the "process no longer exists or we    *)
(* had no PID" (runner.rb).                                                 *)
PollingResumes == []<>(\E p \in Procs : poller[p] = "running")
=============================================================================
