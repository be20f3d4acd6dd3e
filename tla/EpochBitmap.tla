---------------------------- MODULE EpochBitmap ----------------------------
(***************************************************************************)
(* The bitmap mechanism with its default kind of bitmap: a byte per region *)
(* that holds the epoch in which the region was last saved to the shadow   *)
(* space.  A hook in front of every store saves the region unless its mark *)
(* is the current epoch; a checkpoint is a new epoch (sync scheme) or an   *)
(* empty bitmap (diff scheme).  Threads run the hook concurrently.         *)
(***************************************************************************)
EXTENDS Naturals, FiniteSets

CONSTANTS
  Threads, Main,               \* Main runs the loop with the checkpoints
  Regions,                     \* of LTCKPT_BITMAP_CLICK bytes, 0 .. n - 1
  Values, Zero,                \* what a region holds; Zero: fresh pages
  LTCKPT_SCHEME,               \* "SYNC" or "DIFF"
  LTCKPT_BITMAP_ALWAYS_ON, LTCKPT_BITMAP_SYNCHRONIZE,
  EpochBits,                   \* width of ltckpt_epoch, 8 in the code
  checkpoint_interval,
  MaxCopy,                     \* regions a memory copy spans, 0: no copies
  MaxTols,                     \* bound on calls of the top-of-the-loop hook
  NoSnapshot

VARIABLES
  mem, shadow, bitmap, ltckpt_epoch,
  ltckpt_bitmap_enabled, first_time, num_tols,
  at,                          \* per thread: where it is in a hook
  op,                          \* per thread: the write being prepared
  reg,                         \* per thread: the region the hook is at
  old, saved_bytes,            \* per thread: locals of _ltckpt_save_sized_region
  valid                        \* history: the last checkpoint was taken while
                               \* no thread was about to write, and was kept

tolVars == <<bitmap, ltckpt_epoch, ltckpt_bitmap_enabled, first_time, num_tols>>
vars == <<mem, shadow, tolVars, at, op, reg, old, saved_bytes, valid>>

Epochs == 0 .. 2 ^ EpochBits - 1
FreshBitmap == [r \in Regions |-> 0]

\* A store (aligned, within one region) or a copy over up to MaxCopy regions.
Ops == {[kind |-> "store", first |-> r, last |-> r, val |-> v] :
          r \in Regions, v \in Values}
       \cup {o \in [kind : {"memcpy"}, first : Regions, last : Regions, val : Values] :
               o.first <= o.last /\ o.last < o.first + MaxCopy}

AnyOp == CHOOSE o \in Ops : TRUE

\* ltckpt_bitmap_late_init_hook
Init ==
  /\ mem \in [Regions -> Values] /\ shadow = [r \in Regions |-> Zero]
  /\ bitmap = FreshBitmap /\ ltckpt_epoch = 1
  /\ ltckpt_bitmap_enabled = LTCKPT_BITMAP_ALWAYS_ON
  /\ first_time = TRUE /\ num_tols = 0
  /\ at = [t \in Threads |-> "run"] /\ op = [t \in Threads |-> AnyOp]
  /\ reg = [t \in Threads |-> AnyOp.first] /\ old = [t \in Threads |-> 0]
  /\ saved_bytes = [t \in Threads |-> Zero] /\ valid = FALSE

-----------------------------------------------------------------------------
(* The hooks in front of a store and of a memory copy.                     *)

Goto(t, l) == at' = [at EXCEPT ![t] = l]

\* ltckpt_set_bit is next, on the region of the first address.
StoreHook(t) ==
  /\ at[t] = "run"
  /\ \E o \in Ops : op' = [op EXCEPT ![t] = o] /\ reg' = [reg EXCEPT ![t] = o.first]
  /\ Goto(t, IF ltckpt_bitmap_enabled THEN "set_bit" ELSE "write")
  /\ UNCHANGED <<mem, shadow, tolVars, old, saved_bytes, valid>>

ltckpt_set_bit(t) ==
  /\ at[t] = "set_bit"
  /\ Goto(t, IF bitmap[reg[t]] # ltckpt_epoch THEN "old" ELSE "bit")
  /\ UNCHANGED <<mem, shadow, tolVars, op, reg, old, saved_bytes, valid>>

\* _ltckpt_save_sized_region reads the mark again.
ReadOld(t) ==
  /\ at[t] = "old"
  /\ old' = [old EXCEPT ![t] = bitmap[reg[t]]]
  /\ Goto(t, IF bitmap[reg[t]] # ltckpt_epoch THEN "copy" ELSE "bit")
  /\ UNCHANGED <<mem, shadow, tolVars, op, reg, saved_bytes, valid>>

CopyRegion(t) ==
  /\ at[t] = "copy"
  /\ IF LTCKPT_BITMAP_SYNCHRONIZE
     THEN /\ saved_bytes' = [saved_bytes EXCEPT ![t] = mem[reg[t]]]
          /\ Goto(t, "cas") /\ UNCHANGED shadow
     ELSE /\ shadow' = [shadow EXCEPT ![reg[t]] = mem[reg[t]]]
          /\ Goto(t, "mark") /\ UNCHANGED saved_bytes
  /\ UNCHANGED <<mem, tolVars, op, reg, old, valid>>

\* *p = ltckpt_epoch, or the compare-and-swap that only one thread wins.
MarkRegion(t) ==
  /\ at[t] \in {"mark", "cas"}
  /\ IF at[t] = "mark" \/ bitmap[reg[t]] = old[t]
     THEN /\ bitmap' = [bitmap EXCEPT ![reg[t]] = ltckpt_epoch]
          /\ Goto(t, IF at[t] = "cas" THEN "flush" ELSE "bit")
     ELSE UNCHANGED bitmap /\ Goto(t, "bit")
  /\ UNCHANGED <<mem, shadow, ltckpt_epoch, ltckpt_bitmap_enabled, first_time,
                 num_tols, op, reg, old, saved_bytes, valid>>

FlushSaved(t) ==
  /\ at[t] = "flush"
  /\ shadow' = [shadow EXCEPT ![reg[t]] = saved_bytes[t]]
  /\ Goto(t, "bit")
  /\ UNCHANGED <<mem, tolVars, op, reg, old, saved_bytes, valid>>

\* ltckpt_set_bit has returned 1.  In the diff scheme the store hook saves
\* the region only after a 0, the memcpy hook after a 1.
BitSet(t) ==
  /\ at[t] = "bit"
  /\ shadow' = IF LTCKPT_SCHEME = "DIFF" /\ op[t].kind = "memcpy"
               THEN [shadow EXCEPT ![reg[t]] = mem[reg[t]]] ELSE shadow
  /\ reg' = [reg EXCEPT ![t] = IF @ < op[t].last THEN @ + 1 ELSE @]
  /\ Goto(t, IF reg[t] < op[t].last THEN "set_bit" ELSE "write")
  /\ UNCHANGED <<mem, tolVars, op, old, saved_bytes, valid>>

\* The store or the copy itself.
Write(t) ==
  /\ at[t] = "write" /\ Goto(t, "run")
  /\ mem' = [r \in Regions |->
               IF r \in op[t].first .. op[t].last THEN op[t].val ELSE mem[r]]
  /\ UNCHANGED <<shadow, tolVars, op, reg, old, saved_bytes, valid>>

-----------------------------------------------------------------------------
(* Checkpoints.                                                            *)

Quiet == \A t \in Threads : at[t] = "run"

EpochWrapsToZero ==
  IF LTCKPT_SCHEME = "DIFF" THEN bitmap' = FreshBitmap /\ UNCHANGED ltckpt_epoch
  ELSE LET e == (ltckpt_epoch + 1) % 2 ^ EpochBits IN
       /\ ltckpt_epoch' = e
       /\ bitmap' = IF first_time \/ e = 0 THEN FreshBitmap ELSE bitmap

WrapKeepsMarks ==
  IF LTCKPT_SCHEME = "DIFF" THEN bitmap' = FreshBitmap /\ UNCHANGED ltckpt_epoch
  ELSE LET e == (ltckpt_epoch + 1) % 2 ^ EpochBits IN
       /\ ltckpt_epoch' = IF e = 0 THEN 1 ELSE e
       /\ bitmap' = IF first_time THEN FreshBitmap ELSE bitmap

\* An empty bitmap, or a new epoch with no old mark that looks like it.
NewEpoch ==
  IF LTCKPT_SCHEME = "DIFF" THEN bitmap' = FreshBitmap /\ UNCHANGED ltckpt_epoch
  ELSE LET e == (ltckpt_epoch + 1) % 2 ^ EpochBits IN
       /\ ltckpt_epoch' = IF e = 0 THEN 1 ELSE e
       /\ bitmap' = IF first_time \/ e = 0 THEN FreshBitmap ELSE bitmap

TopOfTheLoop ==
  /\ at[Main] = "run"
  /\ num_tols < MaxTols /\ num_tols' = num_tols + 1
  /\ IF checkpoint_interval = 0 \/ num_tols % checkpoint_interval > 0
     THEN UNCHANGED <<shadow, bitmap, ltckpt_epoch, ltckpt_bitmap_enabled,
                      first_time, valid>>
     ELSE /\ shadow' = IF first_time THEN [r \in Regions |-> Zero] ELSE shadow
          /\ NewEpoch
          /\ ltckpt_bitmap_enabled' = TRUE /\ first_time' = FALSE
          /\ valid' = Quiet
  /\ UNCHANGED <<mem, at, op, reg, old, saved_bytes>>

\* A fork drops the bitmap and the shadow space of the parent too, while
\* other threads may be in a hook.
Fork ==
  /\ ~ first_time /\ \E t \in Threads : at[t] = "run"
  /\ bitmap' = FreshBitmap /\ shadow' = [r \in Regions |-> Zero]
  /\ valid' = FALSE
  /\ UNCHANGED <<mem, ltckpt_epoch, ltckpt_bitmap_enabled, first_time, num_tols,
                 at, op, reg, old, saved_bytes>>

Next ==
  \/ \E t \in Threads :
       \/ StoreHook(t) \/ ltckpt_set_bit(t) \/ ReadOld(t) \/ CopyRegion(t)
       \/ MarkRegion(t) \/ FlushSaved(t) \/ BitSet(t) \/ Write(t)
  \/ TopOfTheLoop \/ Fork

Spec == Init /\ [][Next]_vars

-----------------------------------------------------------------------------
(* Properties.                                                             *)

Places == {"run", "set_bit", "old", "copy", "mark", "cas", "flush", "bit", "write"}

\* Every variable keeps its type; epoch 0, the mark of a fresh bitmap, is
\* never the current one.
TypeOK ==
  /\ mem \in [Regions -> Values] /\ shadow \in [Regions -> Values]
  /\ bitmap \in [Regions -> Epochs] /\ ltckpt_epoch \in Epochs \ {0}
  /\ ltckpt_bitmap_enabled \in BOOLEAN /\ first_time \in BOOLEAN
  /\ num_tols \in 0 .. MaxTols
  /\ at \in [Threads -> Places] /\ op \in [Threads -> Ops]
  /\ reg \in [Threads -> Regions] /\ old \in [Threads -> Epochs]
  /\ saved_bytes \in [Threads -> Values] /\ valid \in BOOLEAN

\* What a restart finds: a marked region in the shadow space, or on its way
\* there from the stack of the thread that won it; any other in memory.
Restored(r) ==
  IF bitmap[r] # ltckpt_epoch THEN mem[r]
  ELSE IF \E t \in Threads : at[t] = "flush" /\ reg[t] = r
       THEN saved_bytes[CHOOSE t \in Threads : at[t] = "flush" /\ reg[t] = r]
       ELSE shadow[r]

Snapshot == IF valid THEN [r \in Regions |-> Restored(r)] ELSE NoSnapshot

Promise == INSTANCE Checkpointing WITH snapshot <- Snapshot

KeepsPromise == [Promise!Next]_<<mem, Snapshot>>

\* The hooks keep the promise of a checkpointing mechanism: whatever the
\* threads write and however often the epoch wraps around, what a restart
\* finds is the memory of the last checkpoint (ltckpt_bitmap.c with
\* bitmap_plain_epoch.h).
KeepsCheckpoint == Promise!Spec

=============================================================================
