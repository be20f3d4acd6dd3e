CONSTANTS
  Clients = {"c1", "c2", "c3"}
  Requests <- Plain
  no_svr_thread = TRUE
  num_requests_on_start = 2
  Crashes = FALSE
  Quits = FALSE
  BasicBlocks = {1, 2}
  bb_num_faults <- OneEach
  Confs <- FdpConfs
  Threaded = FALSE
  MaxFdps = 4
  MaxClock = 1
  Procs = {"p1", "p2"}
  First = {"p1", "p2"}
  num_bbs = 2
  MaxCount = 1
  MaxOptions = 2
  Values = {"good", "bad", "negative"}
  Commands = {"known", "unknown", "missing"}
  Servers = {"good", "bad", "negative", "missing"}
SPECIFICATION PartSpec
INVARIANT TypeOK
INVARIANT StartsConfigured
INVARIANT ReplyIsExecuted
INVARIANT ServesOn
INVARIANT FaultsAreDue
INVARIANT CountsAddUp
INVARIANT SentIsGiven
INVARIANT InjectionIsTrue
PROPERTY EveryoneEnds
CHECK_DEADLOCK FALSE
