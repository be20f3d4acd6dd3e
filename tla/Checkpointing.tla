--------------------------- MODULE Checkpointing ---------------------------
(***************************************************************************)
(* What a checkpointing mechanism promises, whatever it keeps its copies   *)
(* in: the program may change its memory, and the state that a restart     *)
(* would restore stays the memory of the last checkpoint.                  *)
(***************************************************************************)
CONSTANTS Regions, Values,
          NoSnapshot        \* nothing can be restored

VARIABLES mem,              \* the program's memory
          snapshot          \* the state a restart restores

Memory == [Regions -> Values]

Init == mem \in Memory /\ snapshot = NoSnapshot

Write == mem' \in Memory /\ UNCHANGED snapshot

Take == snapshot' = mem /\ UNCHANGED mem

\* A checkpoint that is taken while the memory is being written, or one that
\* is given up, restores nothing.
Lose == snapshot' = NoSnapshot /\ UNCHANGED mem

Next == Write \/ Take \/ Lose

Spec == Init /\ [][Next]_<<mem, snapshot>>
=============================================================================
