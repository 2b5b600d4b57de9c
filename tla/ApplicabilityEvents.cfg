SPECIFICATION SystemFairSpec
CONSTANTS
  r1 = r1
  Repos = {r1}
  Synced = {}
  Hosts = {h1}
  bound <- MCBound
  MaxUnit = 1
  BatchSize = 1
  Workers = {w1}
  Tasks = {t1}
  on <- MCOn
  SyncPlan = SyncPlan
  Kinds = {"sync"}
  Faults = {"stop", "crash", "handler fails", "request dies", "regenerate fails"}
  MaxTasks = 2
  MaxPlanRuns = 0
  MaxUploads = 1
  MaxFaults = 1
  MaxEvents = 2
  Gen = Gen
  Keys = {Gen, publish}
  Retryable = {publish}
  RetryDelay = 1
  MaxRetryAge = 2
  MaxTime = 3
  MaxPushTime = 3
  MaxStops = 1
  NoEvent = NoEvent
INVARIANTS SystemTypeOK HostsAttended
PROPERTIES ImplementsApplicability HostsBecomeCurrent
CHECK_DEADLOCK FALSE
