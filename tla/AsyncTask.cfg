SPECIFICATION FairSpec
CONSTANTS
  Parts = {p1}
  MaxRetries = 2
  MaxStarts = 2
  MaxSubtasks = 1
  MaxPings = 1
  MaxFaults = 3
INVARIANTS TypeOK EndsWithTasks StartedAgainOnlyIfBad
PROPERTY ActionEnds
CHECK_DEADLOCK FALSE
