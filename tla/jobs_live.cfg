SPECIFICATION FairSpec
CONSTANTS
  g1 = g1
  g2 = g2
  Graphs <- MCGraphs
  Clients = {c1}
  Managers = {m1, m2}
  Args <- OneArg
  MaxJobs = 3
  MaxPolls = 2
  MaxRounds = 1
  PageSize = 2
  CacheLimit = 0
  Faults = {}
  FlagValues = {"running", "stopped"}
PROPERTIES
  RequestEnds
  JobsSettle
CHECK_DEADLOCK FALSE
