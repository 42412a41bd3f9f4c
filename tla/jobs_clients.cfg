SPECIFICATION Spec
CONSTANTS
  g1 = g1
  g2 = g2
  Graphs <- MCGraphs
  Clients = {c1, c2}
  Managers = {m1}
  Args <- FourArgs
  MaxJobs = 2
  MaxPolls = 1
  MaxRounds = 2
  PageSize = 1
  CacheLimit = 2
  Faults = {"gone_away"}
  FlagValues = {"running", "stopped"}
SYMMETRY Symmetry
INVARIANTS
  CachedAnswerAgrees
PROPERTIES
  ImplementsService
CHECK_DEADLOCK FALSE
