SPECIFICATION Spec
CONSTANTS
  p1 = p1
  p2 = p2
  t1 = t1
  t2 = t2
  t3 = t3
  Procs = {p1, p2}
  Threads = {t1, t2, t3}
  home <- MCHome
  Nobody = Nobody
  Absent = Absent
  Empty = Empty
  Faults = {"disk full", "torn write", "pid reused", "monitor dies"}
  MaxFaults = 3
INVARIANTS TypeOK OnePoller PidFileNamesDaemon
PROPERTY ImplementsElection
CHECK_DEADLOCK TRUE
