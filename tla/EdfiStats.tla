------------------------------ MODULE EdfiStats -----------------------------
(***************************************************************************)
(* The statistics file of the fault injector on UNIX: every process of an  *)
(* instrumented program adds, when it exits, how often it executed each    *)
(* basic block to one file.  Processes run, fork, exit and are killed in   *)
(* any order; flock serialises the additions.                              *)
(***************************************************************************)
EXTENDS Integers, Sequences, FiniteSets

CONSTANTS
  Procs, First,            \* processes, and those started as programs
  num_bbs,                 \* basic blocks are 1 .. num_bbs
  MaxCount                 \* bound on the executions of a block

ASSUME StatsConstants ==
  IsFiniteSet(Procs) /\ First \subseteq Procs /\ num_bbs \in Nat /\ MaxCount \in Nat

VARIABLES
  at,                      \* where a process is
  executions,
  handlers,                \* edfi_stats_per_bb_add's among its atexit handlers
  counts,                  \* what it read of the file, with its counts added
  lock,                    \* holders of the lock on the file
  file,                    \* counts in the file; <<>> when empty or missing
  shortWrite,              \* history: a write did not complete
  stored                   \* history: processes whose counts were written

statsVars == <<at, executions, handlers, counts, lock, file, shortWrite, stored>>
Bbs == 1 .. num_bbs
NoCounts == [b \in Bbs |-> 0]

\* edfi_ctl_init zeroes the counts and edfi_set_proc_fp registers the handler.
StatsInit ==
  /\ at = [p \in Procs |-> IF p \in First THEN "run" ELSE "none"]
  /\ executions = [p \in Procs |-> NoCounts]
  /\ handlers = [p \in Procs |-> IF p \in First THEN 1 ELSE 0]
  /\ counts = [p \in Procs |-> NoCounts]
  /\ lock = {} /\ file = <<>> /\ shortWrite = FALSE /\ stored = {}

Goto(p, from, to) == at[p] = from /\ at' = [at EXCEPT ![p] = to]

edfi_onfault_default(p, b) ==
  /\ at[p] = "run" /\ executions[p][b] < MaxCount
  /\ executions' = [executions EXCEPT ![p][b] = @ + 1]
  /\ UNCHANGED <<at, handlers, counts, lock, file, shortWrite, stored>>

\* The child keeps its parent's exit handlers, and edfi_fork_child runs
\* edfi_ctl_init again.
edfi_fork_child(p, q) ==
  /\ at[p] = "run" /\ Goto(q, "none", "run")
  /\ handlers' = [handlers EXCEPT ![q] = handlers[p] + 1]
  /\ executions' = [executions EXCEPT ![q] = NoCounts]
  /\ UNCHANGED <<counts, lock, file, shortWrite, stored>>

Exit(p) ==
  /\ Goto(p, "run", "exit")
  /\ UNCHANGED <<executions, handlers, counts, lock, file, shortWrite, stored>>

\* A handler returns; the next one runs, or the process ends.
HandlerDone(p) ==
  /\ handlers' = [handlers EXCEPT ![p] = @ - 1]
  /\ at' = [at EXCEPT ![p] = IF handlers[p] = 1 THEN "gone" ELSE "exit"]

NoLockTaken(p) ==
  /\ at[p] = "exit"
  /\ \/ HandlerDone(p)
     \/ Goto(p, "exit", "read") /\ UNCHANGED handlers
  /\ UNCHANGED <<lock, executions, counts, file, shortWrite, stored>>

LeavesLock(p) ==
  /\ at[p] = "close" /\ HandlerDone(p)
  /\ UNCHANGED <<lock, executions, counts, file, shortWrite, stored>>

edfi_stats_available(p) == \E b \in Bbs : executions[p][b] > 0

\* open or flock fails.
OpenFails(p) ==
  /\ at[p] = "exit" /\ edfi_stats_available(p) /\ HandlerDone(p)
  /\ UNCHANGED <<executions, counts, lock, file, shortWrite, stored>>

\* open and flock: blocks while another process has the lock.
edfi_stats_per_bb_add(p) ==
  /\ at[p] = "exit"
  /\ \/ ~ edfi_stats_available(p) /\ HandlerDone(p) /\ UNCHANGED lock
     \/ /\ edfi_stats_available(p) /\ lock = {}
        /\ lock' = {p} /\ Goto(p, "exit", "read") /\ UNCHANGED handlers
  /\ UNCHANGED <<executions, counts, file, shortWrite, stored>>

\* Reads the file, or builds a new one when it is empty; a file of another
\* size is refused.
ReadStats(p) ==
  /\ at[p] = "read"
  /\ \/ /\ Len(file) \in {0, num_bbs}
        /\ counts' = [counts EXCEPT ![p] = [b \in Bbs |-> executions[p][b] +
                                          IF file = <<>> THEN 0 ELSE file[b]]]
        /\ Goto(p, "read", "write")
     \/ Len(file) \notin {0, num_bbs} /\ Goto(p, "read", "close") /\ UNCHANGED counts
  /\ UNCHANGED <<executions, handlers, lock, file, shortWrite, stored>>

\* Overwrites the file from its start; n counts make it.
WriteStats(p) ==
  /\ Goto(p, "write", "close")
  /\ \E n \in 0 .. num_bbs :
       /\ file' = [b \in 1 .. (IF n > Len(file) THEN n ELSE Len(file)) |-> IF b <= n THEN counts[p][b] ELSE file[b]]
       /\ shortWrite' = (shortWrite \/ n < num_bbs)
       /\ stored' = IF n = num_bbs THEN stored \cup {p} ELSE stored
  /\ UNCHANGED <<executions, handlers, counts, lock>>

CloseStats(p) ==
  /\ at[p] = "close" /\ HandlerDone(p) /\ lock' = lock \ {p}
  /\ UNCHANGED <<executions, counts, file, shortWrite, stored>>

\* A signal ends a process between two steps; the kernel drops its lock.
Kill(p) ==
  /\ at[p] \notin {"none", "gone"}
  /\ at' = [at EXCEPT ![p] = "gone"] /\ lock' = lock \ {p}
  /\ UNCHANGED <<executions, handlers, counts, file, shortWrite, stored>>

StatsNext ==
  \E p \in Procs :
    \/ \E b \in Bbs : edfi_onfault_default(p, b)
    \/ \E q \in Procs : edfi_fork_child(p, q)
    \/ Exit(p) \/ OpenFails(p) \/ edfi_stats_per_bb_add(p) \/ ReadStats(p) \/ WriteStats(p)
    \/ CloseStats(p) \/ Kill(p)

StatsSpec == StatsInit /\ [][StatsNext]_statsVars

-----------------------------------------------------------------------------
(* Properties.                                                             *)

\* Every variable keeps its type.
StatsTypeOK ==
  /\ at \in [Procs -> {"none", "run", "exit", "read", "write", "close", "gone"}]
  /\ executions \in [Procs -> [Bbs -> 0 .. MaxCount]]
  /\ handlers \in [Procs -> Nat] /\ counts \in [Procs -> [Bbs -> Nat]]
  /\ lock \subseteq Procs /\ file \in Seq(Nat) /\ stored \subseteq Procs

\* How often the processes that wrote their counts executed a block.
Executed(b) == Cardinality(UNION {{p} \X (1 .. executions[p][b]) : p \in stored})

\* "add execution counts to those in the file": the file has the counts of
\* the processes that wrote theirs, each once, whatever the order of their
\* exits and whoever is killed on the way, unless a write was short.
CountsAddUp == ~ shortWrite /\ file # <<>> => \A b \in Bbs : file[b] = Executed(b)
=============================================================================
