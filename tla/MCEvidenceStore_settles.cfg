SPECIFICATION FairSpec
CONSTANTS
  s1 = s1
  s2 = s2
  old = old
  new = new
  fork = fork
  None = None
  Content = {old, new, fork}
  Shorter <- Growth
  Source = {s1}
  Holds <- TwoStep
  AppendOnly = {}
  MaxOwner = 1
  MaxFails = 1
PROPERTIES EvidenceSettles
