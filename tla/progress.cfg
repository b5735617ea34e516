SPECIFICATION FairSpec
CONSTANTS
  MaxSeq = 2
  MaxCalls = 0
  MaxEvents = 1
  MaxGone = 0
  MaxTrips = 1
  MaxRaised = 1
  MayExit = TRUE
  HandlersDefer = FALSE
CHECK_DEADLOCK FALSE
PROPERTIES ObjectResolves OrphanDestroyed WaitEnds
