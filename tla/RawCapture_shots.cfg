SPECIFICATION CaptureSpec
CONSTANTS
  MaxRgbFrames = 2
  MaxCaptures = 3
  MaxCommands = 5
  MaxReboots = 1
INVARIANTS OneShotPerName
CHECK_DEADLOCK FALSE
