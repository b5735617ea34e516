SPECIFICATION Spec
CONSTANTS
  Queues = {a, b}
  MaxTrips = 1
  MaxObjects = 0
  MaxEvents = 0
  MayExit = FALSE
INVARIANTS ErrorsAreReal
CHECK_DEADLOCK FALSE
