SPECIFICATION FairSpec
CONSTANTS
  Tasks = {t1, t2}
  Nothing = Nothing
  MaxSearches = 2
INVARIANTS TypeOK OneLoop OwnTaskOnly
PROPERTY FinalStateReported
CHECK_DEADLOCK FALSE
