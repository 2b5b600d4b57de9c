SPECIFICATION Spec
CONSTANTS
  Library = Library
  Dev = Dev
  Envs = {Library, Dev}
  Prior <- MCPrior
  NoEnv = NoEnv
  r1 = r1
  r2 = r2
  Repos = {r1, r2}
  Hosts = {}
  Elsewhere = Elsewhere
  Lost = Lost
  NoTask = NoTask
  MaxVersion = 2
  MaxFailures = 1
  MaxDirectDeletes = 1
SYMMETRY MCSymmetry
INVARIANTS
  TypeOK
  
  OnlyOldOrNewContent
  HistoriesClosed
CHECK_DEADLOCK FALSE
