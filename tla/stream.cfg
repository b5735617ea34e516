SPECIFICATION FairSpec
CONSTANTS
  Buffer = 3
  Segment = 2
  Cap = 3
  Lengths = {1, 2, 4}
  Budget <- TwoEach
  MayExit = TRUE
CHECK_DEADLOCK FALSE
INVARIANTS DeliveredInOrder
PROPERTIES SendReturns AllArrives
