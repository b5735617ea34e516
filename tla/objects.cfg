SPECIFICATION Spec
CONSTANTS
  MaxSeq = 3
  MaxCalls = 2
  MaxEvents = 0
  MaxGone = 1
  MaxTrips = 2
  MaxRaised = 1
  MayExit = TRUE
  HandlersDefer = TRUE
CONSTRAINT Corner
CHECK_DEADLOCK FALSE
INVARIANTS TypeOK NoUnknownObject IdAgreement PendingAccounted DestructorOnce RoundtripIsBarrier
PROPERTIES ImplementsRegistry CallsInOrder
