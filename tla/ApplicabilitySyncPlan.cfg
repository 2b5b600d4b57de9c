SPECIFICATION Spec
CONSTANTS
  r1 = r1
  h1 = h1
  Repos = {r1}
  Synced = {r1}
  Hosts = {h1, h2}
  bound <- MCBound
  MaxUnit = 1
  BatchSize = 2
  Workers = {w1}
  Tasks = {t1}
  on <- MCOn
  SyncPlan = SyncPlan
  Kinds = {"sync", "quiet sync"}
  Gen = Gen
  NoKey = NoKey
  Faults = {}
  MaxTasks = 2
  MaxPlanRuns = 1
  MaxUploads = 0
  MaxFaults = 0
  MaxEvents = 2
PROPERTY SkipsOnlyIfNotNeeded
CHECK_DEADLOCK FALSE
