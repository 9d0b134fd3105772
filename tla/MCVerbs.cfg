SPECIFICATION Spec
CONSTANTS
  p1 = p1
  p2 = p2
  Sessions = 3
  MaxRecords = 3
  MinShared = 1
  Threshold = 3
  Forgettable = {1}
  Indexer = {p1, p2}
  Readers = 2
  Permits = 2
  MaxUsd = 6
  Price <- Prices
  Bill <- Bills
  Replies <- Proposed
  MaxWords = 2
  MinEvidence = 2
  Shelved = {1, 2}
  Ghostly = {2}
  MaxNow = 2
  MaxEdits = 2
  Limit = 2
  Cmds = {p1, p2}
INVARIANTS VerbsTypeOK NothingHidden AskIsHonest
PROPERTIES ChainsHealInOnePass CardsFollowSessions
CONSTRAINT FewTroubles
CHECK_DEADLOCK FALSE
