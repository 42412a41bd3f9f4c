SPECIFICATION Spec
CONSTANTS
  g1 = g1
  g2 = g2
  Graphs <- MCGraphs
  Clients = {c1}
  Managers = {m1}
  Args <- TwoArgs
  MaxJobs = 2
  MaxPolls = 1
  MaxRounds = 1
  PageSize = 1
  CacheLimit = 1
  Faults = {}
  FlagValues = {"running"}
INVARIANT CachedAnswerIsExact
CHECK_DEADLOCK FALSE
