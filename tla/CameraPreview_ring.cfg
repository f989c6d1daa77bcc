SPECIFICATION FairSpec
CONSTANTS
  SlotCount = 2
  Parts = 2
  MaxFrames = 4
  MaxRestarts = 1
  MaxToggles = 1
PROPERTIES AcceptedIsWholeUnlessOverwritten ScanMissesNothing PreviewCatchesUp
CHECK_DEADLOCK FALSE
