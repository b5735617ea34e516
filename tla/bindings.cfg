SPECIFICATION Spec
CONSTANTS
  Protocols <- MCProtocols
  Spoiled <- MCSpoiled
  Layouts <- MCLayouts
  Forms = {"plain"}
  Values <- MCValues
  Beside <- MCBeside
  ErrorText <- MCErrorText
  MaxArray = 3
  MaxVersions = 2
  MaxProtocols = 3
  MaxCalls = 2
  MaxTrips = 1
INVARIANTS ParsedAsWritten BoundsSuffice MessagesReadAsWritten EndsForAReason TraceReadsAlike
CHECK_DEADLOCK FALSE
