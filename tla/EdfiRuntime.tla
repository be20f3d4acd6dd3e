----------------------------- MODULE EdfiRuntime ----------------------------
(***************************************************************************)
(* The run-time of the fault injector: at each fault decision point (FDP)  *)
(* edfi_onfdp_default decides whether the faulty copy of a basic block is  *)
(* executed, from limits that control commands set and change while the    *)
(* program runs.                                                           *)
(***************************************************************************)
EXTENDS Naturals, Sequences

CONSTANTS
  BasicBlocks,             \* indices of basic blocks, from 1
  bb_num_faults,           \* faults in a basic block
  Confs,                   \* configurations commands may bring
  Threaded,                \* commands come from a thread (UNIX), or between
                           \* two requests of the server (MINIX)
  MaxFdps, MaxClock        \* bounds on decision points and on time

VARIABLES
  enabled, conf,           \* edfi_faultinjection_enabled and the configuration
  fault_fdp_count, fault_time, start_time, total_faults,
  bb_num_executions,
  cmd,                     \* what is left of the command that runs: steps
  pending,                 \* configuration it brings
  clock, fdps,             \* history: time and number of decision points
  faults                   \* history: faulty blocks since the last start, each
                           \* with its decision point, time and faults

ctxVars == <<fault_fdp_count, fault_time, start_time, total_faults, bb_num_executions>>
runtimeVars == <<enabled, conf, ctxVars, cmd, pending, clock, fdps, faults>>

NoConf == [randmax |-> 0, min_fdp_interval |-> 0, faulty_bb_index |-> 0,
           min_fault_time_interval |-> 0, max_time |-> 0, max_faults |-> 0]

RuntimeInit ==
  /\ enabled = FALSE /\ conf = NoConf
  /\ fault_fdp_count = 0 /\ fault_time = 0 /\ start_time = 0 /\ total_faults = 0
  /\ bb_num_executions = [b \in BasicBlocks |-> 0]
  /\ cmd = <<>> /\ pending = NoConf
  /\ clock = 1 /\ fdps = 0 /\ faults = <<>>

Tick ==
  /\ clock < MaxClock /\ clock' = clock + 1
  /\ UNCHANGED <<enabled, conf, ctxVars, cmd, pending, fdps, faults>>

-----------------------------------------------------------------------------
(* Commands.  edfi_start updates the configuration, enables injection and  *)
(* calls edfi_onstart; without a context it keeps the configuration.       *)

Steps(kind) == CASE kind = "start" -> <<"update", "enable", "onstart">>
                 [] kind = "stop" -> <<"disable">>
                 [] kind \in {"update", "stat"} -> <<"update">>

edfi_process_cmd ==
  /\ cmd = <<>>
  /\ \E kind \in {"start", "stop", "update", "stat"}, new \in Confs \cup {conf} :
       cmd' = Steps(kind) /\ pending' = new
  /\ UNCHANGED <<enabled, conf, ctxVars, clock, fdps, faults>>

edfi_update_context ==
  /\ cmd # <<>> /\ Head(cmd) = "update"
  /\ \/ cmd' = Tail(cmd) /\ conf' = pending
     \/ cmd' = <<>> /\ pending # conf /\ UNCHANGED conf        \* edfi_load_dflib failed
  /\ UNCHANGED <<enabled, ctxVars, pending, clock, fdps, faults>>

EnabledSet ==
  /\ cmd # <<>> /\ Head(cmd) = "enable"
  /\ cmd' = Tail(cmd) /\ enabled' = TRUE /\ faults' = <<>>
  /\ UNCHANGED <<conf, ctxVars, pending, clock, fdps>>

edfi_onstart_default ==
  /\ cmd # <<>> /\ Head(cmd) = "onstart"
  /\ cmd' = Tail(cmd)
  /\ fault_fdp_count' = conf.min_fdp_interval /\ start_time' = clock
  /\ UNCHANGED <<enabled, conf, fault_time, total_faults, bb_num_executions, pending, clock,
                 fdps, faults>>

edfi_stop ==
  /\ cmd # <<>> /\ Head(cmd) = "disable"
  /\ cmd' = Tail(cmd) /\ enabled' = FALSE
  /\ UNCHANGED <<conf, ctxVars, pending, clock, fdps, faults>>

-----------------------------------------------------------------------------
(* The decision, as the conjunction of its tests in their order.           *)

edfi_onfdp_min_fdp_interval ==
  ~ (conf.min_fdp_interval > 0 /\ fault_fdp_count < conf.min_fdp_interval)

edfi_onfdp_min_fault_time_interval ==
  ~ (/\ conf.min_fault_time_interval > 0 /\ fault_time # 0
     /\ fault_time + conf.min_fault_time_interval < clock)

\* edfi_rand() < fault_prob_randmax for one of its values.
edfi_onfdp_fault_prob(rand) == conf.randmax = 0 \/ rand < conf.randmax

edfi_onfdp_bb_index(b) == conf.faulty_bb_index = 0 \/ b = conf.faulty_bb_index

edfi_onfdp_max_time == ~ (conf.max_time > 0 /\ start_time + conf.max_time >= clock)

edfi_onfdp_max_faults == ~ (conf.max_faults > 0 /\ total_faults > conf.max_faults)

\* edfi_onfdp_count: no fault unless some limit was given.
SomeLimit == \E f \in DOMAIN conf : conf[f] # 0

UntilTime(b, rand) ==
  /\ edfi_onfdp_min_fdp_interval /\ edfi_onfdp_min_fault_time_interval
  /\ edfi_onfdp_fault_prob(rand) /\ edfi_onfdp_bb_index(b)

edfi_onfdp_default(b, rand) ==
  UntilTime(b, rand) /\ edfi_onfdp_max_time /\ edfi_onfdp_max_faults /\ SomeLimit

KeepFdpCount == UNCHANGED fault_fdp_count
edfi_onfdp_min_fdp_interval_update == fault_fdp_count' = 1

\* A decision point and, if it says so, edfi_onfault_default; the clock is
\* read once.
Fdp ==
  /\ fdps < MaxFdps /\ fdps' = fdps + 1
  /\ Threaded \/ cmd = <<>>
  /\ \E b \in BasicBlocks, rand \in 0 .. 1 :
     \/ /\ ~ enabled
        /\ UNCHANGED <<enabled, ctxVars, faults>>
     \/ /\ enabled /\ ~ edfi_onfdp_default(b, rand)
        /\ fault_fdp_count' = IF edfi_onfdp_min_fdp_interval THEN fault_fdp_count
                              ELSE fault_fdp_count + 1
        /\ enabled' = (enabled /\ (UntilTime(b, rand) => edfi_onfdp_max_time))
        /\ UNCHANGED <<fault_time, start_time, total_faults, bb_num_executions, faults>>
     \/ /\ enabled /\ edfi_onfdp_default(b, rand)
        /\ edfi_onfdp_min_fdp_interval_update
        /\ fault_time' = IF conf.min_fault_time_interval > 0 THEN clock ELSE fault_time
        /\ bb_num_executions' = [bb_num_executions EXCEPT ![b] = @ + 1]
        /\ total_faults' = total_faults + bb_num_faults[b]
        /\ faults' = Append(faults, [fdp |-> fdps, time |-> clock, block |-> b, conf |-> conf])
        /\ UNCHANGED <<enabled, start_time>>
  /\ UNCHANGED <<conf, cmd, pending, clock>>

RuntimeNext ==
  \/ Tick \/ edfi_process_cmd \/ edfi_update_context \/ EnabledSet
  \/ edfi_onstart_default \/ edfi_stop \/ Fdp

RuntimeSpec == RuntimeInit /\ [][RuntimeNext]_runtimeVars

-----------------------------------------------------------------------------
(* Properties.                                                             *)

\* Every variable keeps its type.
RuntimeTypeOK ==
  /\ enabled \in BOOLEAN /\ conf \in Confs \cup {NoConf}
  /\ {fault_fdp_count, fault_time, start_time, total_faults} \subseteq Nat
  /\ bb_num_executions \in [BasicBlocks -> Nat]
  /\ cmd \in Seq({"update", "enable", "onstart", "disable"})

\* Consecutive faulty blocks under one configuration.
Apart(dist(_, _), limit(_)) ==
  \A i \in 1 .. Len(faults) - 1 :
    LET f == faults[i]  g == faults[i + 1]
    IN f.conf = g.conf => dist(f, g) >= limit(g.conf)

\* The distance in decision points.
FdpsApart == Apart(LAMBDA f, g : g.fdp - f.fdp, LAMBDA k : k.min_fdp_interval)

\* A fault is injected only under some limit, only into the block the
\* configuration names.
FaultsAreConfigured ==
  \A i \in DOMAIN faults :
    /\ faults[i].conf # NoConf
    /\ faults[i].conf.faulty_bb_index \in {0, faults[i].block}

\* "The minimum number of FDPs between two faulty basic blocks" lies between
\* them, however the other limits and the commands of a server that handles
\* requests in between interfere with the counting, and a fault is injected
\* only under some limit and into the block that the configuration names
\* (edfi_onfdp_default).
FaultsAreDue == FdpsApart /\ FaultsAreConfigured
=============================================================================
