SPECIFICATION MCSpec
CONSTANTS
  Conns = {c1, c2}
  Rude = {c2}
  MaxSends <- MCSends
  MaxTrouble = 1
  Servers = {us, other, third}
  us = us
CHECK_DEADLOCK FALSE
INVARIANTS RegisteredIsOpen ObjectsDestroyedOnce WorkWakesLoop HealthyStays CredsAfterHello KeepsItsPath
PROPERTIES OnlyLiveServersRefuse StreamsAreServed
