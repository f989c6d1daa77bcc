SPECIFICATION FairSpec
CONSTANTS
  RequestIds <- MCRequestIds
  NoReq = NoReq
  UserOps <- Ops
  SuppressDisconnect = TRUE
  AutoStart = TRUE
  MaxUserCommands = 1
  MaxFaults = 2
  MaxPlugs = 2
INVARIANTS RecoveryIsSerial AwaitedReplyIsDue
PROPERTIES InitializingEnds LossIsReported PresenceIsRecovered
CHECK_DEADLOCK FALSE
