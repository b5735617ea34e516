SPECIFICATION Spec
CONSTANTS
  MaxSeq = 2
  MaxCalls = 0
  MaxEvents = 1
  MaxGone = 0
  MaxTrips = 0
  MaxRaised = 0
  MayExit = FALSE
  HandlersDefer = FALSE
CHECK_DEADLOCK FALSE
INVARIANTS NoSelfDisconnect

