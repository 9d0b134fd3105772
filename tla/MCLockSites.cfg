SPECIFICATION Spec
CONSTANTS
  p1 = p1
  p2 = p2
  p3 = p3
  c1 = c1
  c2 = c2
  NoProc = NoProc
  NoFile = NoFile
PROPERTIES WaitersAreServed LaneIsHonoured
CHECK_DEADLOCK FALSE
