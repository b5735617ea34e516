SPECIFICATION Spec
CONSTANTS
  Protocols <- MCFarewell
  Spoiled = {}
  Layouts <- MCLayouts
  Forms = {"folded", "unfolded"}
  Values <- MCValues
  Beside <- MCBeside
  ErrorText <- MCErrorText
  MaxArray = 3
  MaxVersions = 2
  MaxProtocols = 3
  MaxCalls = 2
  MaxTrips = 1
INVARIANTS ReadInEveryForm
CHECK_DEADLOCK FALSE
