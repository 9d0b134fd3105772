SPECIFICATION StoreSpec
CONSTANTS
  s1 = s1
  s2 = s2
  old = old
  new = new
  fork = fork
  None = None
  Content = {old, new, fork}
  Shorter <- Growth
  Source = {s1}
  Holds <- TwoStep
  AppendOnly = {s1}
  MaxOwner = 2
  MaxFails = 1
  g1 = g1
  g2 = g2
  src1 = src1
  src2 = src2
  key = key
  t1 = t1
  t2 = t2
  Session = {g1, g2}
  Indexed = {g1, g2}
  Secret = {g1}
  MaxEdits <- OneEdit
  Recalled = {src1, src2}
  MaxRevision <- OneEach
  Key = {key}
  Input = {t1, t2}
  RestsOn <- Rests
  Revisions = 2
  Spans <- TwoEach
  Length = 2
  MaxEpoch = 2
  x1 = x1
  h1 = h1
  o1 = o1
  o2 = o2
  p1 = p1
  p2 = p2
  Chat <- OneChat
  Ghost = {h1}
  Texts = 2
  Opener = {o1, o2}
  Checking = {p1}
  Trusting = {p2}
INVARIANTS ReadersTypeOK RevisionsKeepBytes HistoryGhostsRespectForget FastPathIsSound
  PagesCoverOnce VectorsFit
PROPERTIES EvidenceOnlyGrows AnswerIsOneSnapshot RetriedWriteIsOneWrite
CONSTRAINTS TwoTroubles OnePassWhileOpening
CHECK_DEADLOCK FALSE
