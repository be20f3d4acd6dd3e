--------------------------- MODULE PageCheckpoint ---------------------------
(***************************************************************************)
(* The mprotect mechanism: the pages of the program's writable areas are   *)
(* made read-only by a checkpoint, and the handler of the page fault of    *)
(* the first write copies the page.  System calls that write to memory     *)
(* would fail instead of faulting, so that their wrappers write to the     *)
(* buffer first.                                                           *)
(***************************************************************************)
EXTENDS Naturals, Sequences, SequencesExt, FiniteSetsExt

CONSTANTS
  Pages,                   \* 0 .. n - 1
  Kind,                    \* "data", "heap", "mmap", "stack", "tls", "own" of a page
  Values,
  MPROTECT_MAX_PAGES,
  skip_mmap, lazy_init, checkpoint_interval,
  MaxTols,                 \* bound on calls of the top-of-the-loop hook
  MaxEntries,              \* bound on copies; below the room for them
  NoSnapshot

VARIABLES
  mem, writable,           \* writable: the set of unprotected pages
  pages,                   \* copies since the checkpoint, oldest first
  initialized, num_tols,
  pc,                      \* "run" or "abort", an assertion failed
  efault,                  \* kind of the last system call if it failed with EFAULT
  valid                    \* history: a checkpoint was taken

vars == <<mem, writable, pages, initialized, num_tols, pc, efault, valid>>

\* The areas that are saved: not the stack, thread-local data or the state of
\* the mechanism, and with skip_mmap only program data and heap.
ltcpt_is_checkpointed_vma(p) ==
  Kind[p] \in {"data", "heap"} \/ (Kind[p] = "mmap" /\ ~ skip_mmap)

Checkpointed == {p \in Pages : ltcpt_is_checkpointed_vma(p)}

\* All areas are protected when the mechanism is initialised: at start-up, or
\* at the first checkpoint.
Eager == ~ lazy_init /\ checkpoint_interval # 0

Init ==
  /\ mem \in [Pages -> Values]
  /\ initialized = Eager
  /\ writable = IF Eager THEN Pages \ Checkpointed ELSE Pages
  /\ pages = <<>> /\ num_tols = 0
  /\ pc = "run" /\ efault = "none" /\ valid = FALSE

-----------------------------------------------------------------------------
(* Page faults.                                                            *)

Entry(p) == [addr |-> p, mem |-> mem[p]]

\* ltckpt_page_list_add for a set of pages written in ascending order: their
\* entries, if all assertions hold.
Faulting(ps) == ps \ writable
NewEntries(ps) ==
  [i \in 1 .. Cardinality(ps) |-> Entry(SetToSortSeq(ps, LAMBDA p, q : p < q)[i])]

HasRoom(ps) == Len(pages) + Cardinality(ps) <= MPROTECT_MAX_PAGES

ltckpt_sighandler(ps) ==
  /\ pages' = pages \o NewEntries(Faulting(ps))
  /\ writable' = writable \cup ps

AssertFails(ps) ==
  /\ ~ HasRoom(Faulting(ps)) /\ pc' = "abort"
  /\ UNCHANGED <<mem, writable, pages, initialized, num_tols, efault, valid>>

Store ==
  /\ pc = "run"
  /\ \E p \in Pages :
     \/ AssertFails({p})
     \/ /\ HasRoom(Faulting({p})) /\ Len(pages) < MaxEntries
        /\ ltckpt_sighandler({p})
        /\ \E v \in Values : mem' = [mem EXCEPT ![p] = v]
        /\ UNCHANGED <<initialized, num_tols, pc, efault, valid>>

-----------------------------------------------------------------------------
(* Wrapped system calls, which write to the pages first .. last.           *)

Buffers == {b \in [first : Pages, last : Pages] : b.first <= b.last}

\* LTCKPT_CHECK_BUFF writes to a byte of every page; LTCKPT_CHECK_WRITE only
\* to the first byte.
LTCKPT_CHECK_BUFF(b) == b.first .. b.last
LTCKPT_CHECK_WRITE(b) == {b.first}

\* read, recv, recvfrom and recvmsg check a whole buffer, the others (poll,
\* epoll_wait, select, accept, stat) the address of a structure or an array.
SysCall(checks(_), kind) ==
  /\ pc = "run"
  /\ \E b \in Buffers :
     \/ AssertFails(checks(b))
     \/ /\ HasRoom(Faulting(checks(b))) /\ Len(pages) < MaxEntries
        /\ ltckpt_sighandler(checks(b))
        /\ LET ok == b.first .. b.last \subseteq writable' IN
           /\ efault' = IF ok THEN "none" ELSE kind
           /\ IF ~ ok THEN UNCHANGED mem
              ELSE \E v \in Values :
                     mem' = [p \in Pages |-> IF p \in b.first .. b.last THEN v ELSE mem[p]]
        /\ UNCHANGED <<initialized, num_tols, pc, valid>>

BufferCall == SysCall(LTCKPT_CHECK_BUFF, "buffer")
StructCall == SysCall(LTCKPT_CHECK_WRITE, "struct")

-----------------------------------------------------------------------------
(* Checkpoints and reports.                                                *)

\* The listed pages are protected again and the list is emptied.
ltckpt_checkpoint == pages' = <<>> /\ writable' = writable \ {e.addr : e \in ToSet(pages)}

TopOfTheLoop ==
  /\ pc = "run"
  /\ num_tols < MaxTols /\ num_tols' = num_tols + 1
  /\ IF checkpoint_interval = 0 \/ num_tols % checkpoint_interval > 0
     THEN UNCHANGED <<writable, pages, initialized, valid>>
     ELSE /\ IF initialized THEN ltckpt_checkpoint
             ELSE writable' = writable \ Checkpointed /\ UNCHANGED pages
          /\ initialized' = TRUE /\ valid' = TRUE
  /\ UNCHANGED <<mem, pc, efault>>

\* ltckpt_ctx_print: everything is made writable for the output and then
\* protected again, the pages that are already saved too.
CtxPrint ==
  /\ pc = "run" /\ initialized
  /\ writable' = writable \ Checkpointed
  /\ UNCHANGED <<mem, pages, initialized, num_tols, pc, efault, valid>>

Aborted == pc = "abort" /\ UNCHANGED vars

Next == Store \/ BufferCall \/ StructCall \/ TopOfTheLoop \/ CtxPrint \/ Aborted

Spec == Init /\ [][Next]_vars

-----------------------------------------------------------------------------
(* Properties.                                                             *)

\* Every variable keeps its type.
TypeOK ==
  /\ mem \in [Pages -> Values] /\ writable \subseteq Pages
  /\ \A i \in 1 .. Len(pages) :
       ltcpt_is_checkpointed_vma(pages[i].addr) /\ pages[i].mem \in Values
  /\ initialized \in BOOLEAN /\ num_tols \in 0 .. MaxTols
  /\ pc \in {"run", "abort"} /\ efault \in {"none", "buffer", "struct"} /\ valid \in BOOLEAN

\* The oldest copy of a page, or the page itself when there is none.
Restored(p) ==
  LET copies == {i \in 1 .. Len(pages) : pages[i].addr = p}
  IN IF copies = {} THEN mem[p] ELSE pages[Min(copies)].mem

Saved == [p \in Checkpointed |-> mem[p]]

Snapshot == IF valid THEN [p \in Checkpointed |-> Restored(p)] ELSE NoSnapshot

Promise == INSTANCE Checkpointing WITH
  Regions <- Checkpointed, mem <- Saved, snapshot <- Snapshot

\* The oldest copies are the memory of the last checkpoint in every step, also
\* when a report has protected pages again that were saved before.
KeepsCheckpoint == [Promise!Next]_<<Saved, Snapshot>>

\* The calls that check a whole buffer never fail so, wherever in a page the
\* buffer starts and ends and whatever was protected in between.
BuffersAreWritable == efault # "buffer"

\* Every checkpoint_interval-th top of the loop takes a new checkpoint: what
\* would be restored from then on is the memory at that point.
CheckpointIsNew ==
  num_tols' # num_tols /\ checkpoint_interval # 0 /\ num_tols % checkpoint_interval = 0
  => \A p \in Checkpointed : Restored(p)' = mem[p]
=============================================================================
