SPECIFICATION Spec
CONSTANTS
  s1 = s1
  s2 = s2
  old = old
  new = new
  fork = fork
  None = None
  Content = {old, new, fork}
  Shorter <- Growth
  Source = {s1}
  Holds <- OneFile
  AppendOnly = {}
  MaxOwner = 2
  MaxFails = 1
INVARIANTS TypeOK ForgottenStaysForgotten AcknowledgedIsActive
PROPERTIES NewestEvidenceStays
CONSTRAINT OvertakenBeforeRescue
