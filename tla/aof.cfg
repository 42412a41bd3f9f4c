SPECIFICATION Spec
CONSTANTS
  Clients = {c1}
  DBs = {0, 1}
  Confs <- Policies
  Faults = {"kill", "power", "short_write", "fork", "child", "rename", "save"}
  MaxWrites = 2
  MaxFaults = 2
INVARIANTS TypeOK
PROPERTIES LoadedIsPrefix RewriteIsExact AckedIsKept WholeTransactions BufferIsFlushed  ImplementsJournal
CHECK_DEADLOCK FALSE
