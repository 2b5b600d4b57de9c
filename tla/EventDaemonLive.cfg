SPECIFICATION FairSpec
CONSTANTS
  p1 = p1
  p2 = p2
  t1 = t1
  t2 = t2
  t3 = t3
  Procs = {p1, p2}
  Threads = {t1, t2, t3}
  home <- MCHome
  Nobody = Nobody
  Absent = Absent
  Empty = Empty
  Faults = {"no file"}
  MaxFaults = 2
PROPERTY PollingResumes
CHECK_DEADLOCK TRUE
