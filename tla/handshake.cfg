SPECIFICATION ClientFairSpec
CONSTANTS
  Names = {p, q}
  MaxVersion = 2
  ClientVersion = 1
  Offers = {{1}, {2}}
  Deadline = 1
  MaxImpls = 2
  MaxBinds = 2
  MayExit = TRUE
CHECK_DEADLOCK FALSE
INVARIANTS TypeOK Agreement BindAfterAck VersionSupported
PROPERTIES NoLateSuccess HandshakeEnds GivenUpIsForgotten
