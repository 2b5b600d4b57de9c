SPECIFICATION Spec
CONSTANTS
  r1 = r1
  h1 = h1
  Repos = {r1}
  Synced = {r1}
  Hosts = {h1, h2}
  bound <- MCBound
  MaxUnit = 1
  BatchSize = 2
  Workers = {w1, w2}
  Tasks = {t1, t2}
  on <- MCOn
  SyncPlan = SyncPlan
  Kinds = {"sync", "quiet sync", "remove"}
  Gen = Gen
  NoKey = NoKey
  Faults = {"stop", "crash", "handler fails", "evaluation fails", "request dies", "regenerate fails"}
  MaxTasks = 2
  MaxPlanRuns = 1
  MaxUploads = 1
  MaxFaults = 1
  MaxEvents = 3
SYMMETRY MCSymmetry
INVARIANTS TypeOK QueueAttended SettledMeansCurrent
CHECK_DEADLOCK FALSE
