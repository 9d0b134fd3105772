SPECIFICATION Spec
CONSTANTS
  w1 = w1
  w2 = w2
  w3 = w3
  w4 = w4
  capture = capture
  embed = embed
  p1 = p1
  p2 = p2
  None = None
  Worker = {w1, w2, w3, w4}
  Steady = {w2, w4}
  Pid <- Pids
  Host <- TwoHosts
  Zone <- TwoZones
  KnownStart = {w1, w2}
  Job = {capture, embed}
  EmbedJob = {embed}
  Part = {p1, p2}
  Target <- Targets
  Poison = {}
  Batch = 1
  MaxFaults = 1
  FaultAt = {"drain", "next", "commit", "finish", "fail", "heartbeat", "close"}
CHECK_DEADLOCK FALSE
INVARIANTS TypeOK DoneIsComplete RunningHasOwner QueueIsExact
PROPERTIES LiveOwnerYieldsOnlyAcrossZones FencedEffects CancelledWorkStaysGone
