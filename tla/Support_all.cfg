CONSTANTS
  Conns = {1, 2, 3}
  StartupRequests = 2
  Funcs = {"main", "_ipc_send", "_do_kernel_call"}
  Sends <- SomeSends
  BlockSizes = {2}
  MAXFUNCS = 2
  MaxBlocks = 3
SPECIFICATION PartSpec
INVARIANT TypeOK
INVARIANT ProfilesAgree
INVARIANT ClosedOnce
 
 
PROPERTY WaitersReturn
 
CHECK_DEADLOCK FALSE
