SPECIFICATION FairSpec
CONSTANTS
  Retries = 2
  MaxCommands = 3
  MaxTimeouts = 1
  MaxCrashes = 1
INVARIANTS
  ResponseIsOwn
  ResultIsOwn
  DeviceMatchesBridge
PROPERTIES
  CommandEnds
CHECK_DEADLOCK FALSE
