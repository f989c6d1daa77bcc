SPECIFICATION FairSpec
CONSTANTS
  MaxGoals = 3
  MaxLaunches = 3
  MaxFaults = 2
  MaxRestarts = 1
INVARIANTS
  CommandsReachOwnSubnode
  OwnChildIsKnown
  RepliesInStep
PROPERTIES
  ConnectedIsServed
CHECK_DEADLOCK FALSE
