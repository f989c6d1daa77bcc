SPECIFICATION FairSpec
CONSTANTS
  Batch = 2
  MaxRuns = 2
  MaxDialogs = 2
  MaxCommands = 2
  MaxFaults = 2
INVARIANTS
  WaitsForItsAnswer
  OneScriptAtATime
  StopEndsRecording
PROPERTIES
  StopEnds
CHECK_DEADLOCK FALSE
