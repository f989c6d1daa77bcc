SPECIFICATION FairSpec
CONSTANTS
  MaxCommands = 2
  Kinds = {"short", "sleep", "estop", "unknown"}
  SleepSeconds = 1
  MaxTimeouts = 1
  MaxLosses = 1
  Stops = {"agent"}
INVARIANTS AwaitedResultArrives OverlapNeedsGiveUp CommandsEndBeforeRelease
PROPERTIES RemoteCommandSpec StopEnds EveryCommandIsAnswered
CHECK_DEADLOCK FALSE
