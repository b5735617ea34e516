SPECIFICATION Spec
CONSTANTS
  Protocols <- MCListing
  Spoiled = {}
  Layouts <- MCLayouts
  Forms = {"plain"}
  Values <- AtTheLimit
  Beside <- MCBeside
  ErrorText <- MCErrorText
  MaxArray = 3
  MaxVersions = 2
  MaxProtocols = 3
  MaxCalls = 2
  MaxTrips = 1
INVARIANTS EndsForAReason
CHECK_DEADLOCK FALSE
