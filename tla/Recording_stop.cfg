SPECIFICATION FairSpec
CONSTANTS
  CsvBuffer = 2
  QueueLimit = 1
  MaxRecordings = 2
  MaxSamples = 3
  MaxDeletes = 1
  Helpers = {"mic"}
  Detached = TRUE
INVARIANTS
  SettledIsSaved
PROPERTIES
  ContractSpec
  FinalizingEnds
CHECK_DEADLOCK FALSE
