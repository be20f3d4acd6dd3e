------------------------------ MODULE MCServer ------------------------------
(* Small instances of OsirisServer: two regions of server state, one that   *)
(* holds the log's own variables and one on the stack.                      *)
EXTENDS OsirisServer

Bit == {0, 1}
LogVariables == 24 .. 27

\* For the runs about memory: few kinds of request, overlapping accesses.
MemoryStores == {<<12, 4>>, <<28, 4>>}
MemoryCopies == {<<10, 9>>}

\* For the runs about policies: one store, every kind of request.
OneStore == {<<12, 4>>}
UnalignedCopy == {<<12, 8>>}
None == {}

NaiveSites == {"idempotent", "fail_stop"}
FailStopSite == {"fail_stop"}

User == [user |-> 1, replyable |-> 1, fi_ctl |-> 0]
Server == [user |-> 0, replyable |-> 1, fi_ctl |-> 0]
Unknown == [user |-> -1, replyable |-> 1, fi_ctl |-> 0]
OneWay == [user |-> 0, replyable |-> 0, fi_ctl |-> 0]
FaultControl == [user |-> 0, replyable |-> 1, fi_ctl |-> 1]

ServerOnly == {Server}
AllRequests == {User, Server, Unknown, OneWay, FaultControl}
FaultRequests == {User, FaultControl}

-----------------------------------------------------------------------------
(* One server in each of five builds and workloads.  The constants of the   *)
(* configuration file are those of the first, about memory.                 *)

VARIABLE config

\* Every kind of request and of call site.
Policies == INSTANCE OsirisServer WITH
  WRITELOG_MAXLEN <- 2, LTRC_NO_RECOVERY_ON_SVC_FI <- TRUE, Stores <- OneStore,
  Copies <- None, ResumeStores <- OneStore, Sites <- SiteKinds, Requests <- AllRequests

\* A build that handles the crashed request again.
Rehandle == INSTANCE OsirisServer WITH
  WRITELOG_MAXLEN <- 2, LTRC_REHANDLE_REQUEST <- TRUE, Stores <- OneStore,
  Copies <- None, ResumeStores <- OneStore, Sites <- SiteKinds, Requests <- FaultRequests

\* A checkpoint on every second pass of the loop.
Interval == INSTANCE OsirisServer WITH
  checkpoint_interval <- 2, Stores <- OneStore, Copies <- None

\* A build for the naive baselines.
Naive == INSTANCE OsirisServer WITH
  WRITELOG_MAXLEN <- 2, NaiveMode <- "ALWAYS_REPLY", Stores <- OneStore, Copies <- None,
  ResumeStores <- OneStore, Sites <- NaiveSites, Requests <- AllRequests

ConfigsInit ==
  \/ config = "memory" /\ Init
  \/ config = "policies" /\ Policies!Init
  \/ config = "rehandle" /\ Rehandle!Init
  \/ config = "interval" /\ Interval!Init
  \/ config = "naive" /\ Naive!Init

ConfigsNext ==
  /\ \/ config = "memory" /\ Next
     \/ config = "policies" /\ Policies!Next
     \/ config = "rehandle" /\ Rehandle!Next
     \/ config = "interval" /\ Interval!Next
     \/ config = "naive" /\ Naive!Next
  /\ UNCHANGED config

\* The build of the configuration file alone, with the fairness of the server.
SingleInit == Init /\ config = "memory"
SingleNext == Next /\ UNCHANGED config
SingleSpec == SingleInit /\ [][SingleNext]_<<vars, config>> /\ WF_vars(Recovery)

ConfigsSpec == ConfigsInit /\ [][ConfigsNext]_<<vars, config>>
=============================================================================
