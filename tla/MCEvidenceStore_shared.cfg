SPECIFICATION Spec
CONSTANTS
  s1 = s1
  s2 = s2
  old = old
  new = new
  fork = fork
  None = None
  Content = {old, new, fork}
  Shorter <- Growth
  Source = {s1, s2}
  Holds <- Shared
  AppendOnly = {}
  MaxOwner = 1
  MaxFails = 0
INVARIANTS RevisionsKeepBytes
