CONSTANTS
  NumRegions = 4
  Vals <- Bit
  WRITELOG_MAXLEN = 2
  MetaBytes <- LogVariables
  datamax = 31
  checkpoint_interval = 1
  NaiveMode = "DEFAULT"
  LTRC_NO_RECOVERY_ON_SVC_FI = FALSE
  LTRC_REHANDLE_REQUEST = FALSE
  Stores <- MemoryStores
  Copies <- None
  ResumeStores <- None
  StackByte = 32
  Sites <- SiteKinds
  Requests <- ServerOnly
SPECIFICATION SingleSpec
PROPERTY RequestsAreAtomic
PROPERTY RecoveryTerminates
