SPECIFICATION Spec
CONSTANTS
  MaxFrames = 4
  MaxRecordings = 2
INVARIANTS
  ImagesInOrder
  StoppedIsComplete
CHECK_DEADLOCK FALSE
