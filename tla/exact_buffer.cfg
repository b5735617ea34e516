SPECIFICATION Spec
CONSTANTS
  Buffer = 2
  Segment = 2
  Cap = 3
  Lengths = {1, 2}
  Budget <- ServerOne
  MayExit = FALSE
INVARIANTS OnlyMalformedEnds
CHECK_DEADLOCK FALSE
