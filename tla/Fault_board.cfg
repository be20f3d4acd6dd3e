CONSTANTS
  Sites <- FaultSiteIds
  PolicyOf <- FaultPolicies
  Armed <- AllArmed
  g_num_window_shutters = 2
  g_num_kernelcall_shutters = 1
  LTCKPT_SHUTTER_BOARD_IPC_END = 2
  BEN_BOARD = 2
  LTRC_SUICIDE_PERIODICALLY = TRUE
  LTRC_SUICIDE_ONLY_ONCE = FALSE
  LTRC_SUICIDE_WHEN_RECOVERABLE = TRUE
  Requests <- OneRequest
  MaxPasses = 6
  MaxCommands = 1
  NaiveMode = "DEFAULT"
  LTRC_NO_RECOVERY_ON_SVC_FI = FALSE
  LTRC_REHANDLE_REQUEST = FALSE
SPECIFICATION Spec
INVARIANT CheckedSitesAreOnBoard
