SPECIFICATION FairWorkflow
CONSTANTS
  Commands = {"init_device", "start_device", "stop_device"}
  MaxRequests = 2
  MaxRefreshes = 1
  MaxFlowFaults = 2
INVARIANTS
  StartIsSentOnce
  
PROPERTIES
  OneClickEnds
CHECK_DEADLOCK FALSE
