SPECIFICATION FairSpec
CONSTANTS
  w1 = w1
  w2 = w2
  w3 = w3
  w4 = w4
  capture = capture
  embed = embed
  p1 = p1
  p2 = p2
  None = None
  Worker = {w1, w2}
  Steady = {w2}
  Pid <- Pids
  Host <- OneHost
  Zone <- OneZone
  KnownStart = {w1, w2}
  Job = {capture, embed}
  EmbedJob = {embed}
  Part = {p1, p2}
  Target <- Targets
  Poison = {}
  Batch = 1
  MaxFaults = 1
  FaultAt = {"heartbeat"}
PROPERTIES QueuedWorkRuns
