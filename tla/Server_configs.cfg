CONSTANTS
  NumRegions = 4
  Vals <- Bit
  WRITELOG_MAXLEN = 3
  MetaBytes <- LogVariables
  datamax = 31
  checkpoint_interval = 1
  NaiveMode = "DEFAULT"
  LTRC_NO_RECOVERY_ON_SVC_FI = FALSE
  LTRC_REHANDLE_REQUEST = FALSE
  Stores <- MemoryStores
  Copies <- MemoryCopies
  ResumeStores <- None
  StackByte = 32
  Sites <- FailStopSite
  Requests <- ServerOnly
SPECIFICATION ConfigsSpec
INVARIANT TypeOK
INVARIANT RollbackReachesCheckpoint
INVARIANT RecoveryKeepsPolicy
INVARIANT LogStaysInBounds
INVARIANT AbortedRequestHadNoEffect
INVARIANT NaiveRecoveryCarriesOn
