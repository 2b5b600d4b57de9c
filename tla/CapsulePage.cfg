SPECIFICATION FairPageSpec
CONSTANTS
  Tasks = {s1, s2}
  Underway = {s1}
  Nothing = Nothing
  Plain = Plain
  MaxSearches = 3
  MaxRefreshes = 2
  MaxFaults = 1
INVARIANTS PageTypeOK
PROPERTIES PageSettles PollingEnds
CHECK_DEADLOCK FALSE
