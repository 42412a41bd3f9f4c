SPECIFICATION Spec
CONSTANTS
  g1 = g1
  g2 = g2
  Graphs <- MCGraphs
  Clients = {c1}
  Managers = {m1, m2}
  Args <- TwoArgs
  MaxJobs = 2
  MaxPolls = 1
  MaxRounds = 1
  PageSize = 2
  CacheLimit = 1
  Faults = {"crash", "exception", "refused", "gone_away", "lost_reply"}
  FlagValues = {"running"}
SYMMETRY Symmetry
INVARIANTS
  TypeOK
  WorkingIsHeld
  NoSecondRun
  AnswerIsOwn
  AnswerStands
PROPERTIES
  NoFetchAfterRun
CHECK_DEADLOCK FALSE
