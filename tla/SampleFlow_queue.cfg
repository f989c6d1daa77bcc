SPECIFICATION DataSpec
CONSTANTS
  Interval = 2
  Slack = 3
  QueueLimit = 3
  CurveLimit = 2
  SmallBatch = 2
  MaxTime = 8
  MaxSamples = 7
  MaxCameraFrames = 2
  MaxGlassesRestarts = 1
  MaxClicks = 3
INVARIANTS NewestIsKept CurveIsOrdered
CHECK_DEADLOCK FALSE
