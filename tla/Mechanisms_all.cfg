CONSTANTS
  Threads = {"main"}
  Main = "main"
  Regions = {0, 1}
  Values = {0, 1}
  Zero = 0
  LTCKPT_SCHEME = "SYNC"
  LTCKPT_BITMAP_ALWAYS_ON = TRUE
  LTCKPT_BITMAP_SYNCHRONIZE = FALSE
  EpochBits = 2
  checkpoint_interval = 2
  MaxCopy = 2
  MaxTols = 10
  NoSnapshot = NoSnapshot
  Pages = {0, 1, 2, 3, 4}
  Vmas <- ThreeVmas
  Contents = {0}
  CHUNK = 2
  SOFTDIRTY_MAX_PAGES = 3
  PAGE_STAT_SIZE = 3
  PAGE_NUM_HIST_SIZE = 3
  lazy_init = TRUE
  stats_enabled = TRUE
  interval = 1
  MaxLoops = 4
  Procs = {"p", "q"}
  First = "p"
  Pids = {1, 2, 3, 4}
  ProgramForks = TRUE
  atexit_twice = TRUE
SPECIFICATION PartSpec
INVARIANT TypeOK
 
INVARIANT CopiesTheWritten
INVARIANT CheckpointLivesAlong
PROPERTY KeepsCheckpoint
 
PROPERTY WalkEnds
CHECK_DEADLOCK FALSE
