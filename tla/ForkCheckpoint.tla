--------------------------- MODULE ForkCheckpoint ---------------------------
(***************************************************************************)
(* The fork mechanism: the checkpoint is a paused child with a copy of the *)
(* memory, replaced at every top of the loop and killed by the wrappers of *)
(* exit.  The program forks as well, and its children run the same hooks   *)
(* on their copies of the mechanism's variables.                           *)
(***************************************************************************)
EXTENDS Naturals, FiniteSets

CONSTANTS
  Procs,                   \* processes of the program, the first one included
  First,
  Pids,                    \* process identifiers of checkpoints, 1 .. n
  ProgramForks,            \* whether the program forks
  atexit_twice             \* whether a wrapped _exit follows the atexit handler

VARIABLES
  run,                     \* state of a process: "absent", "run", "exit", "gone", "panic"
  pid, exited, hook,         \* its variables and its place in a hook
  alive, zombie,           \* checkpoint children
  parent,                  \* process that made a checkpoint child
  copied                   \* history: checkpoints a fork has made known to another

forkVars == <<run, pid, exited, hook, alive, zombie, parent, copied>>

ForkInit ==
  /\ run = [p \in Procs |-> IF p = First THEN "run" ELSE "absent"]
  /\ pid = [p \in Procs |-> 0] /\ exited = [p \in Procs |-> FALSE]
  /\ hook = [p \in Procs |-> "program"]
  /\ alive = {} /\ zombie = {} /\ parent = [c \in {} |-> First]
  /\ copied = {}

Used == DOMAIN parent
Running(p, l) == run[p] \in {"run", "exit"} /\ hook[p] = l

-----------------------------------------------------------------------------
(* Processes and signals.                                                  *)

\* kill succeeds for a child that was not waited for yet.
Kill(c) == alive' = alive \ {c} /\ zombie' = zombie \cup (alive \cap {c})

\* waitpid reaps the caller's own child and fails for another one's.
Wait(p) == zombie' = zombie \ {c \in zombie : c = pid[p] /\ parent[c] = p}

ProgramFork(p) ==
  /\ ProgramForks /\ run[p] = "run" /\ hook[p] = "program"
  /\ \E q \in Procs :
       /\ run[q] = "absent" /\ run' = [run EXCEPT ![q] = "run"]
       /\ pid' = [pid EXCEPT ![q] = pid[p]]
       /\ exited' = [exited EXCEPT ![q] = exited[p]]
  /\ copied' = copied \cup {pid[p]}
  /\ UNCHANGED <<hook, alive, zombie, parent>>

-----------------------------------------------------------------------------
(* The top-of-the-loop hook.                                               *)

TolKill(p) ==
  /\ run[p] = "run" /\ hook[p] = "program"
  /\ \/ /\ pid[p] = 0 /\ hook' = [hook EXCEPT ![p] = "fork"]
        /\ UNCHANGED <<run, alive, zombie>>
     \/ /\ pid[p] \in alive \cup zombie
        /\ Kill(pid[p]) /\ hook' = [hook EXCEPT ![p] = "wait"] /\ UNCHANGED run
     \/ /\ pid[p] # 0 /\ pid[p] \notin alive \cup zombie
        /\ run' = [run EXCEPT ![p] = "panic"] /\ UNCHANGED <<hook, alive, zombie>>
  /\ UNCHANGED <<pid, exited, parent, copied>>

TolWait(p) ==
  /\ Running(p, "wait") /\ Wait(p)
  /\ hook' = [hook EXCEPT ![p] = "fork"]
  /\ UNCHANGED <<run, pid, exited, alive, parent, copied>>

ltckpt_fork(p, c) == pid' = [pid EXCEPT ![p] = c]

ChildDoesNotPause(p) ==
  /\ Running(p, "fork")
  /\ \E c \in Pids \ Used :
       /\ ltckpt_fork(p, c)
       /\ zombie' = zombie \cup {c}
       /\ parent' = [d \in Used \cup {c} |-> IF d = c THEN p ELSE parent[d]]
  /\ hook' = [hook EXCEPT ![p] = "program"]
  /\ UNCHANGED <<run, exited, alive, copied>>

TolFork(p) ==
  /\ Running(p, "fork")
  /\ \E c \in Pids \ Used :
       /\ ltckpt_fork(p, c)
       /\ alive' = alive \cup {c}
       /\ parent' = [d \in Used \cup {c} |-> IF d = c THEN p ELSE parent[d]]
  /\ hook' = [hook EXCEPT ![p] = "program"]
  /\ UNCHANGED <<run, exited, zombie, copied>>

-----------------------------------------------------------------------------
(* The end of a process.                                                   *)

\* exit, _exit and _Exit call ltckpt_before_exit first; exit then runs the
\* atexit handler, which calls it again.
Exit(p) ==
  /\ run[p] = "run" /\ hook[p] = "program"
  /\ run' = [run EXCEPT ![p] = "exit"]
  /\ hook' = [hook EXCEPT ![p] = "before_exit"]
  /\ UNCHANGED <<pid, exited, alive, zombie, parent, copied>>

BeforeExit(p) ==
  /\ Running(p, "before_exit")
  /\ IF exited[p] \/ pid[p] = 0
     THEN /\ exited' = [exited EXCEPT ![p] = TRUE]
          /\ hook' = [hook EXCEPT ![p] = "leave"] /\ UNCHANGED <<alive, zombie>>
     ELSE /\ Kill(pid[p])
          /\ hook' = [hook EXCEPT ![p] = "before_exit_wait"] /\ UNCHANGED exited
  /\ UNCHANGED <<run, pid, parent, copied>>

BeforeExitWait(p) ==
  /\ Running(p, "before_exit_wait") /\ Wait(p)
  /\ exited' = [exited EXCEPT ![p] = TRUE]
  /\ hook' = [hook EXCEPT ![p] = "leave"]
  /\ UNCHANGED <<run, pid, alive, parent, copied>>

Leave(p) ==
  /\ Running(p, "leave")
  /\ \/ /\ atexit_twice /\ hook' = [hook EXCEPT ![p] = "before_exit"] /\ UNCHANGED run
     \/ /\ run' = [run EXCEPT ![p] = "gone"] /\ UNCHANGED hook
  /\ UNCHANGED <<pid, exited, alive, zombie, parent, copied>>

Step(p) ==
  \/ ProgramFork(p) \/ TolKill(p) \/ TolWait(p) \/ TolFork(p)
  \/ Exit(p) \/ BeforeExit(p) \/ BeforeExitWait(p) \/ Leave(p)

ForkNext == \E p \in Procs : Step(p)

ForkSpec == ForkInit /\ [][ForkNext]_forkVars

-----------------------------------------------------------------------------
(* Properties.                                                             *)

\* Every variable keeps its type.
ForkTypeOK ==
  /\ run \in [Procs -> {"absent", "run", "exit", "gone", "panic"}]
  /\ pid \in [Procs -> Used \cup {0}] /\ exited \in [Procs -> BOOLEAN]
  /\ alive \cup zombie \subseteq Used /\ alive \cap zombie = {}

\* Nothing of a process that has left through the exit wrappers remains: its
\* checkpoint is not running, whoever killed it.
ExitLeavesNothing == \A c \in alive : run[parent[c]] # "gone"

\* A process that runs and has passed the top of its loop has its checkpoint,
\* unless a fork of the program has told another process of it.
HasCheckpoint ==
  \A p \in Procs : run[p] = "run" /\ hook[p] = "program" /\ pid[p] # 0
                    => pid[p] \in alive \cup copied

\* A checkpoint lives as long as the process it belongs to.
CheckpointLivesAlong == HasCheckpoint /\ ExitLeavesNothing
=============================================================================
