SPECIFICATION MCSpec
CONSTANTS
  a = a
  b = b
  Queues <- TwoQueues
  MaxTrips = 2
  MaxObjects = 1
  MaxEvents = 1
  MayExit = TRUE
INVARIANTS TypeOK HandledOnce NoLostWakeup RoundtripMatches
PROPERTIES RoundtripReturns
CHECK_DEADLOCK FALSE
