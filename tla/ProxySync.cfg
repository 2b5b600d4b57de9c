SPECIFICATION FairSpec
CONSTANTS
  Proxies = {p1}
  Slots = {s1, s2}
  None = None
  MaxVersion = 1
  MaxFaults = 1
INVARIANTS TypeOK FinishedMeansCurrent CleanSyncServes
PROPERTY DueProxiesCatchUp
CHECK_DEADLOCK TRUE
