SPECIFICATION FairSpec
CONSTANTS
  Library = Library
  Dev = Dev
  Envs = {Library, Dev}
  Prior <- MCPrior
  NoEnv = NoEnv
  r1 = r1
  r2 = r2
  Repos = {r1}
  Hosts = {h1}
  Elsewhere = Elsewhere
  Lost = Lost
  NoTask = NoTask
  MaxVersion = 2
  MaxFailures = 1
  MaxDirectDeletes = 2
INVARIANTS
  VersionsInUseExist
  PurgedInUseIsBeingDeleted
 
CHECK_DEADLOCK FALSE
