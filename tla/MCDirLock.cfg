INIT CleanInit
NEXT Next
CONSTANTS
  p1 = p1
  p2 = p2
  p3 = p3
  c1 = c1
  c2 = c2
  c3 = c3
  Call = {c1, c2, c3}
  Proc = {p1, p2, p3}
  ProcOf <- ReuseProcOf
  Pid <- ReusePid
  Host <- OneHost
  NoProc = NoProc
  LegacyProc = NoProc
  NoFile = NoFile
INVARIANTS TypeOK MutualExclusion
PROPERTIES RecordsAreOwned ImplementsExclusiveLock
CHECK_DEADLOCK FALSE
