SPECIFICATION FairSpec
CONSTANTS
  RequestIds <- MCRequestIds
  NoReq = NoReq
  UserOps <- OperationOps
  SuppressDisconnect = FALSE
  AutoStart = TRUE
  MaxUserCommands = 2
  MaxFaults = 2
  MaxPlugs = 2
INVARIANTS NoRecoveryBehindEstop HealthyIsInitialized
PROPERTIES LossEndsInEstop
CHECK_DEADLOCK FALSE
