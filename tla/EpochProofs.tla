---------------------------- MODULE EpochProofs ----------------------------
(***************************************************************************)
(* TLAPS proofs about two mechanisms. EpochBitmap: for any number of       *)
(* threads and regions, any width of the epoch and any interval between    *)
(* checkpoints, it keeps the promise of Checkpointing. ForkCheckpoint:     *)
(* its checkpoints live as long as the processes they belong to.           *)
(***************************************************************************)
EXTENDS EpochBitmap, ForkCheckpoint, FiniteSetTheorems, TLAPS

\* The constants are what the code makes of them: regions are consecutive,
\* the epoch has at least one bit.
Configured ==
  /\ Regions \subseteq Nat /\ Regions # {}
  /\ \A r, s \in Regions : r .. s \subseteq Regions
  /\ Zero \in Values /\ Main \in Threads
  /\ LTCKPT_SCHEME \in {"SYNC", "DIFF"}
  /\ LTCKPT_BITMAP_ALWAYS_ON \in BOOLEAN
  /\ LTCKPT_BITMAP_SYNCHRONIZE \in BOOLEAN
  /\ 2 ^ EpochBits \in Nat /\ 2 ^ EpochBits > 1
  /\ MaxCopy \in Nat /\ MaxTols \in Nat

\* What the mechanism needs: the hooks are synchronised if there is more than
\* one thread, and the diff scheme is used without memory copies.
Synchronized == LTCKPT_BITMAP_SYNCHRONIZE \/ Threads = {Main}
CopiesAreSaved == LTCKPT_SCHEME = "DIFF" => MaxCopy = 0

Marked(r) == bitmap[r] = ltckpt_epoch

\* A hook works on the regions of its write, and no mark is from the future.
RangeInv ==
  /\ \A t \in Threads : at[t] # "run" =>
       op[t].first <= reg[t] /\ reg[t] <= op[t].last
  /\ \A r \in Regions : bitmap[r] <= ltckpt_epoch

\* The hook of a thread has marked what lies behind it, and holds the bytes
\* of the checkpoint for the region it is about to mark.
Ahead(t) ==
  /\ at[t] \notin {"run", "write"} =>
       \A r \in Regions : op[t].first <= r /\ r < reg[t] => Marked(r)
  /\ at[t] \in {"flush", "bit"} => Marked(reg[t])
  /\ at[t] = "write" =>
       \A r \in Regions : op[t].first <= r /\ r <= op[t].last => Marked(r)
  /\ at[t] \in {"copy", "cas"} =>
       old[t] # ltckpt_epoch /\ (bitmap[reg[t]] = old[t] \/ Marked(reg[t]))
  /\ at[t] \in {"cas", "flush"} => LTCKPT_BITMAP_SYNCHRONIZE
  /\ at[t] = "mark" => ~ LTCKPT_BITMAP_SYNCHRONIZE
  /\ at[t] = "cas" /\ ~ Marked(reg[t]) => saved_bytes[t] = mem[reg[t]]
  /\ at[t] \in {"old", "copy", "mark"} /\ ~ LTCKPT_BITMAP_SYNCHRONIZE => ~ Marked(reg[t])
  /\ at[t] = "mark" => shadow[reg[t]] = mem[reg[t]]

\* One thread at a time brings a region into the shadow space.
Alone ==
  \A t, u \in Threads :
    at[t] = "flush" /\ at[u] = "flush" /\ reg[t] = reg[u] => t = u

HookInv == valid => ltckpt_bitmap_enabled /\ Alone /\ \A t \in Threads : Ahead(t)

EpochInv == TypeOK /\ RangeInv /\ HookInv

-----------------------------------------------------------------------------
(* Types and ranges.                                                       *)

\* A store stays in its region, a copy covers consecutive ones.
LEMMA OpType ==
  ASSUME Configured, NEW o \in Ops
  PROVE  /\ o.first \in Regions /\ o.last \in Regions /\ o.val \in Values
         /\ o.first <= o.last
         /\ MaxCopy = 0 => o.kind = "store"
<1>1. CASE o \in {[kind |-> "store", first |-> r, last |-> r, val |-> v] :
                    r \in Regions, v \in Values}
  <2>1. PICK r \in Regions, v \in Values :
          o = [kind |-> "store", first |-> r, last |-> r, val |-> v]
    BY <1>1
  <2>2. r \in Nat
    BY Zenon DEF Configured
  <2> QED BY <2>1, <2>2
<1>2. CASE /\ o \in [kind : {"memcpy"}, first : Regions, last : Regions, val : Values]
           /\ o.first <= o.last /\ o.last < o.first + MaxCopy
  <2>1. o.first \in Regions /\ o.last \in Regions /\ o.val \in Values
    BY Zenon, <1>2
  <2>2. o.first \in Nat /\ o.last \in Nat
    BY Zenon, <2>1 DEF Configured
  <2>3. MaxCopy # 0
    BY <1>2, <2>2
  <2> QED BY Zenon, <1>2, <2>1, <2>3
<1> QED BY <1>1, <1>2 DEF Ops

\* The epochs start at 0, and 1 is one of them.
LEMMA EpochType ==
  ASSUME Configured
  PROVE  /\ Epochs \subseteq Nat /\ 0 \in Epochs /\ 1 \in Epochs
         /\ FreshBitmap \in [Regions -> Epochs]
BY DEF Configured, Epochs, FreshBitmap

\* A checkpoint starts an epoch that no mark belongs to.
LEMMA NewEpochFresh ==
  ASSUME Configured, TypeOK, RangeInv, NewEpoch
  PROVE  /\ bitmap' \in [Regions -> Epochs] /\ ltckpt_epoch' \in Epochs \ {0}
         /\ \A r \in Regions : bitmap'[r] < ltckpt_epoch'
<1>1. /\ bitmap \in [Regions -> Epochs] /\ ltckpt_epoch \in Epochs \ {0}
      /\ \A r \in Regions : bitmap[r] <= ltckpt_epoch
  BY Zenon DEF TypeOK, RangeInv
<1>2. CASE LTCKPT_SCHEME = "DIFF"
  <2>1. bitmap' = FreshBitmap /\ ltckpt_epoch' = ltckpt_epoch
    BY Zenon, <1>2 DEF NewEpoch
  <2> QED BY <1>1, <2>1, EpochType DEF FreshBitmap
<1>3. CASE LTCKPT_SCHEME # "DIFF"
  <2> DEFINE W == 2 ^ EpochBits
             e == (ltckpt_epoch + 1) % W
  <2>1. /\ ltckpt_epoch' = IF e = 0 THEN 1 ELSE e
        /\ bitmap' = IF first_time \/ e = 0 THEN FreshBitmap ELSE bitmap
    BY Zenon, <1>3 DEF NewEpoch
  <2>2. W \in Nat /\ W > 1 /\ Epochs = 0 .. W - 1
    BY Zenon DEF Configured, Epochs
  <2> HIDE DEF W
  <2>3. e \in 0 .. W - 1 /\ (e = 0 \/ e = ltckpt_epoch + 1)
    BY <1>1, <2>2
  <2> HIDE DEF e
  <2>4. CASE first_time \/ e = 0
    BY <2>1, <2>2, <2>3, <2>4, EpochType DEF FreshBitmap
  <2>5. CASE ~ (first_time \/ e = 0)
    BY <1>1, <2>1, <2>2, <2>3, <2>5
  <2> QED BY Zenon, <2>4, <2>5
<1> QED BY Zenon, <1>2, <1>3

\* Every step keeps the types, the range of a hook and the order of marks.
LEMMA NextRange ==
  ASSUME Configured, TypeOK, RangeInv, [Next]_vars
  PROVE  TypeOK' /\ RangeInv'
<1>0. /\ mem \in [Regions -> Values] /\ shadow \in [Regions -> Values]
      /\ bitmap \in [Regions -> Epochs] /\ ltckpt_epoch \in Epochs \ {0}
      /\ at \in [Threads -> Places] /\ op \in [Threads -> Ops]
      /\ reg \in [Threads -> Regions] /\ old \in [Threads -> Epochs]
      /\ saved_bytes \in [Threads -> Values]
  BY Zenon DEF TypeOK
<1>a. Regions \subseteq Nat /\ Zero \in Values /\ Epochs \subseteq Nat
  BY Zenon, EpochType DEF Configured
<1> USE DEF vars, tolVars, Goto
<1>1. ASSUME NEW t \in Threads, StoreHook(t) PROVE TypeOK' /\ RangeInv'
  <2>1. PICK o \in Ops : op' = [op EXCEPT ![t] = o] /\ reg' = [reg EXCEPT ![t] = o.first]
    BY Zenon, <1>1 DEF StoreHook
  <2>a. o.first \in Regions /\ o.first <= o.last
    BY Zenon, OpType
  <2>b. o.first \in Nat
    BY Zenon, <1>a, <2>a
  <2>2. o.first \in Regions /\ o.first <= o.last /\ o.first <= o.first
    BY <2>a, <2>b
  <2>3. TypeOK'
    BY Zenon, <1>0, <1>1, <2>1, <2>2 DEF StoreHook, TypeOK, Places
  <2>4. RangeInv'
    BY Zenon, <1>0, <1>1, <2>1, <2>2 DEF StoreHook, RangeInv
  <2> QED BY Zenon, <2>3, <2>4
<1>2. ASSUME NEW t \in Threads, ltckpt_set_bit(t) PROVE TypeOK' /\ RangeInv'
  BY Zenon, <1>0, <1>2 DEF ltckpt_set_bit, TypeOK, RangeInv, Places
<1>3. ASSUME NEW t \in Threads, ReadOld(t) PROVE TypeOK' /\ RangeInv'
  BY Zenon, <1>0, <1>3 DEF ReadOld, TypeOK, RangeInv, Places
<1>4. ASSUME NEW t \in Threads, CopyRegion(t) PROVE TypeOK' /\ RangeInv'
  BY <1>0, <1>4 DEF CopyRegion, TypeOK, RangeInv, Places
<1>5. ASSUME NEW t \in Threads, MarkRegion(t) PROVE TypeOK' /\ RangeInv'
  <2>1. bitmap' \in [Regions -> Epochs] /\ \A r \in Regions : bitmap'[r] <= ltckpt_epoch
    BY <1>0, <1>a, <1>5 DEF MarkRegion, RangeInv
  <2> QED BY Zenon, <1>0, <1>5, <2>1 DEF MarkRegion, TypeOK, RangeInv, Places
<1>6. ASSUME NEW t \in Threads, FlushSaved(t) PROVE TypeOK' /\ RangeInv'
  BY Zenon, <1>0, <1>6 DEF FlushSaved, TypeOK, RangeInv, Places
<1>7. ASSUME NEW t \in Threads, BitSet(t) PROVE TypeOK' /\ RangeInv'
  <2>1. /\ op[t].first \in Regions /\ op[t].last \in Regions /\ reg[t] \in Regions
        /\ op[t].first <= reg[t] /\ reg[t] <= op[t].last
    BY Zenon, <1>0, <1>7, OpType DEF BitSet, RangeInv
  <2>2. reg[t] < op[t].last =>
          reg[t] + 1 \in Regions /\ op[t].first <= reg[t] + 1 /\ reg[t] + 1 <= op[t].last
    <3> HAVE reg[t] < op[t].last
    <3>1. \A a, b, c \in Nat : (c <= a /\ a < b) =>
                                (a + 1 \in a .. b /\ c <= a + 1 /\ a + 1 <= b)
      OBVIOUS
    <3>2. op[t].first \in Nat /\ op[t].last \in Nat /\ reg[t] \in Nat
      BY Zenon, <1>a, <2>1
    <3>3. reg[t] .. op[t].last \subseteq Regions
      BY Zenon, <2>1 DEF Configured
    <3> QED BY Zenon, <2>1, <3>1, <3>2, <3>3
  <2>3. reg' \in [Threads -> Regions]
    BY Zenon, <1>0, <1>7, <2>1, <2>2 DEF BitSet
  <2>4. TypeOK'
    BY Zenon, <1>0, <1>7, <2>3 DEF BitSet, TypeOK, Places
  <2>5. RangeInv'
    BY Zenon, <1>0, <1>7, <2>1, <2>2 DEF BitSet, RangeInv
  <2> QED BY Zenon, <2>4, <2>5
<1>8. ASSUME NEW t \in Threads, Write(t) PROVE TypeOK' /\ RangeInv'
  <2>1. op[t].val \in Values
    BY Zenon, <1>0, OpType
  <2> QED BY Zenon, <1>0, <1>8, <2>1 DEF Write, TypeOK, RangeInv, Places
<1>9. CASE TopOfTheLoop
  <2>1. Quiet \in BOOLEAN
    BY Zenon DEF Quiet
  <2>2. num_tols' \in 0 .. MaxTols
    BY <1>9 DEF TopOfTheLoop, TypeOK, Configured
  <2>3. UNCHANGED <<mem, at, op, reg, old, saved_bytes>>
    BY Zenon, <1>9 DEF TopOfTheLoop
  <2>4. CASE UNCHANGED <<shadow, bitmap, ltckpt_epoch, ltckpt_bitmap_enabled,
                         first_time, valid>>
    BY Zenon, <2>2, <2>3, <2>4 DEF TypeOK, RangeInv
  <2>5. CASE /\ shadow' = IF first_time THEN [r \in Regions |-> Zero] ELSE shadow
             /\ NewEpoch
             /\ ltckpt_bitmap_enabled' = TRUE /\ first_time' = FALSE
             /\ valid' = Quiet
    <3>1. shadow' \in [Regions -> Values]
      BY Zenon, <1>0, <1>a, <2>5
    <3>3. /\ bitmap' \in [Regions -> Epochs] /\ ltckpt_epoch' \in Epochs \ {0}
          /\ \A r \in Regions : bitmap'[r] < ltckpt_epoch'
      BY Zenon, <2>5, NewEpochFresh
    <3>2. \A r \in Regions : bitmap'[r] <= ltckpt_epoch'
      <4> SUFFICES ASSUME NEW r \in Regions PROVE bitmap'[r] <= ltckpt_epoch'
        OBVIOUS
      <4>1. bitmap'[r] \in Nat /\ ltckpt_epoch' \in Nat
        BY Zenon, <1>a, <3>3
      <4> QED BY <3>3, <4>1
    <3> QED
      BY Zenon, <2>1, <2>2, <2>3, <2>5, <3>1, <3>2, <3>3 DEF TypeOK, RangeInv
  <2> QED BY Zenon, <1>9, <2>4, <2>5 DEF TopOfTheLoop
<1>10. CASE Fork
  <2>1. bitmap' \in [Regions -> Epochs] /\ \A r \in Regions : bitmap'[r] <= ltckpt_epoch
    BY <1>0, <1>a, <1>10, EpochType DEF Fork, FreshBitmap
  <2> QED BY Zenon, <1>0, <1>a, <1>10, <2>1 DEF Fork, TypeOK, RangeInv
<1>11. CASE UNCHANGED vars
  BY Zenon, <1>11 DEF TypeOK, RangeInv
<1> QED
  BY Zenon, <1>1, <1>2, <1>3, <1>4, <1>5, <1>6, <1>7, <1>8, <1>9, <1>10, <1>11 DEF Next

-----------------------------------------------------------------------------
(* The hooks mark what they have saved.                                    *)

\* A thread that writes has marked every region of its write, so that only
\* saved regions change.
LEMMA WriteIsMarked ==
  ASSUME Configured, NEW t \in Threads, Write(t), Ahead(t),
         op[t].first \in Nat, op[t].last \in Nat
  PROVE  \A r \in Regions : ~ Marked(r) => mem'[r] = mem[r]
<1>1. /\ at[t] = "write"
      /\ mem' = [r \in Regions |->
                   IF r \in op[t].first .. op[t].last THEN op[t].val ELSE mem[r]]
  BY Zenon DEF Write
<1>2. \A r \in Regions : op[t].first <= r /\ r <= op[t].last => Marked(r)
  BY Zenon, <1>1 DEF Ahead
<1> QED BY <1>1, <1>2

\* Every step keeps the hooks ahead of the writes they guard.
LEMMA NextHook ==
  ASSUME Configured, Synchronized, CopiesAreSaved, EpochInv, [Next]_vars
  PROVE  HookInv'
<1>0. /\ bitmap \in [Regions -> Epochs] /\ ltckpt_epoch \in Epochs
      /\ at \in [Threads -> Places] /\ op \in [Threads -> Ops]
      /\ reg \in [Threads -> Regions] /\ old \in [Threads -> Epochs]
      /\ saved_bytes \in [Threads -> Values]
      /\ mem \in [Regions -> Values] /\ shadow \in [Regions -> Values]
  BY Zenon DEF EpochInv, TypeOK
<1>a. ~ LTCKPT_BITMAP_SYNCHRONIZE => \A t, u \in Threads : t = u
  BY Zenon DEF Synchronized
<1>b. Regions \subseteq Nat
  BY Zenon DEF Configured
<1>c. \A t \in Threads : op[t].first \in Nat /\ op[t].last \in Nat
  BY Zenon, <1>0, <1>b, OpType
<1>d. LTCKPT_BITMAP_SYNCHRONIZE \in BOOLEAN
  BY Zenon DEF Configured
<1> SUFFICES ASSUME valid'
             PROVE  ltckpt_bitmap_enabled' /\ Alone' /\ \A u \in Threads : Ahead(u)'
  BY Zenon DEF HookInv
<1>e. valid => ltckpt_bitmap_enabled /\ Alone /\ \A u \in Threads : Ahead(u)
  BY Zenon DEF EpochInv, HookInv
<1> DEFINE Goal == ltckpt_bitmap_enabled' /\ Alone' /\ \A u \in Threads : Ahead(u)'
<1> USE DEF vars, tolVars, Goto
<1>1. ASSUME NEW t \in Threads, StoreHook(t) PROVE Goal
  <2>1. PICK o \in Ops : op' = [op EXCEPT ![t] = o] /\ reg' = [reg EXCEPT ![t] = o.first]
    BY Zenon, <1>1 DEF StoreHook
  <2>2. o.first \in Regions
    BY Zenon, OpType
  <2>3. /\ UNCHANGED <<mem, shadow, tolVars, old, saved_bytes, valid>>
        /\ at' = [at EXCEPT ![t] = "set_bit"] /\ at[t] = "run"
    BY Zenon, <1>1, <1>e DEF StoreHook
  <2>4. ltckpt_bitmap_enabled' /\ Alone'
    BY Zenon, <1>0, <1>e, <2>1, <2>3 DEF Alone
  <2>5. Ahead(t)'
    <3>1. \A r \in Regions : ~ (o.first <= r /\ r < o.first)
      <4>1. o.first \in Nat
        BY Zenon, <1>b, <2>2
      <4>2. \A r \in Nat : ~ (o.first <= r /\ r < o.first)
        BY <4>1
      <4> QED BY Zenon, <1>b, <4>2
    <3>2. at'[t] = "set_bit" /\ reg'[t] = o.first /\ op'[t] = o
      BY Zenon, <1>0, <2>1, <2>3
    <3> QED BY Zenon, <3>1, <3>2 DEF Ahead
  <2>6. ASSUME NEW u \in Threads, u # t PROVE Ahead(u)'
    BY Zenon, <1>0, <1>e, <2>1, <2>3, <2>6 DEF Ahead, Marked
  <2> QED BY Zenon, <2>4, <2>5, <2>6
<1>2. ASSUME NEW t \in Threads, ltckpt_set_bit(t) PROVE Goal
  <2>1. /\ UNCHANGED <<mem, shadow, tolVars, op, reg, old, saved_bytes, valid>>
        /\ at' = [at EXCEPT ![t] = IF ~ Marked(reg[t]) THEN "old" ELSE "bit"]
        /\ at[t] = "set_bit"
    BY Zenon, <1>2 DEF ltckpt_set_bit, Marked
  <2>2. ltckpt_bitmap_enabled' /\ Alone'
    BY Zenon, <1>0, <1>e, <2>1 DEF Alone
  <2>3. Ahead(t)'
    BY Zenon, <1>0, <1>e, <2>1 DEF Ahead, Marked
  <2>4. ASSUME NEW u \in Threads, u # t PROVE Ahead(u)'
    BY Zenon, <1>0, <1>e, <2>1, <2>4 DEF Ahead, Marked
  <2> QED BY Zenon, <2>2, <2>3, <2>4
<1>3. ASSUME NEW t \in Threads, ReadOld(t) PROVE Goal
  <2>1. /\ UNCHANGED <<mem, shadow, tolVars, op, reg, saved_bytes, valid>>
        /\ at' = [at EXCEPT ![t] = IF ~ Marked(reg[t]) THEN "copy" ELSE "bit"]
        /\ at[t] = "old" /\ old' = [old EXCEPT ![t] = bitmap[reg[t]]]
    BY Zenon, <1>3 DEF ReadOld, Marked
  <2>2. ltckpt_bitmap_enabled' /\ Alone'
    BY Zenon, <1>0, <1>e, <2>1 DEF Alone
  <2>3. Ahead(t)'
    BY Zenon, <1>0, <1>e, <2>1 DEF Ahead, Marked
  <2>4. ASSUME NEW u \in Threads, u # t PROVE Ahead(u)'
    BY Zenon, <1>0, <1>e, <2>1, <2>4 DEF Ahead, Marked
  <2> QED BY Zenon, <2>2, <2>3, <2>4
<1>4. ASSUME NEW t \in Threads, CopyRegion(t) PROVE Goal
  <2>1. /\ UNCHANGED <<mem, tolVars, op, reg, old, valid>> /\ at[t] = "copy"
    BY Zenon, <1>4 DEF CopyRegion
  <2>2. CASE LTCKPT_BITMAP_SYNCHRONIZE
    <3>1. /\ saved_bytes' = [saved_bytes EXCEPT ![t] = mem[reg[t]]]
          /\ at' = [at EXCEPT ![t] = "cas"] /\ shadow' = shadow
      BY Zenon, <1>4, <2>2 DEF CopyRegion
    <3>2. ltckpt_bitmap_enabled' /\ Alone'
      BY Zenon, <1>0, <1>e, <2>1, <3>1 DEF Alone
    <3>3. Ahead(t)'
      BY Zenon, <1>0, <1>e, <2>1, <2>2, <3>1 DEF Ahead, Marked
    <3>4. ASSUME NEW u \in Threads, u # t PROVE Ahead(u)'
      BY Zenon, <1>0, <1>e, <2>1, <3>1, <3>4 DEF Ahead, Marked
    <3> QED BY Zenon, <3>2, <3>3, <3>4
  <2>3. CASE ~ LTCKPT_BITMAP_SYNCHRONIZE
    <3>1. /\ shadow' = [shadow EXCEPT ![reg[t]] = mem[reg[t]]]
          /\ at' = [at EXCEPT ![t] = "mark"] /\ saved_bytes' = saved_bytes
      BY Zenon, <1>4, <2>3 DEF CopyRegion
    <3>2. ltckpt_bitmap_enabled' /\ Alone'
      BY Zenon, <1>0, <1>e, <2>1, <3>1 DEF Alone
    <3>3. Ahead(t)'
      BY Zenon, <1>0, <1>e, <2>1, <2>3, <3>1 DEF Ahead, Marked
    <3> QED BY Zenon, <1>a, <2>3, <3>2, <3>3
  <2> QED BY Zenon, <2>2, <2>3
<1>5. ASSUME NEW t \in Threads, MarkRegion(t) PROVE Goal
  <2>1. /\ UNCHANGED <<mem, shadow, ltckpt_epoch, ltckpt_bitmap_enabled, op, reg,
                       old, saved_bytes, valid>>
        /\ at[t] \in {"mark", "cas"}
    BY Zenon, <1>5 DEF MarkRegion
  <2>2. CASE at[t] = "mark" \/ bitmap[reg[t]] = old[t]
    <3>1. /\ bitmap' = [bitmap EXCEPT ![reg[t]] = ltckpt_epoch]
          /\ at' = [at EXCEPT ![t] = IF at[t] = "cas" THEN "flush" ELSE "bit"]
      BY Zenon, <1>5, <2>2 DEF MarkRegion
    <3>2. /\ \A r \in Regions : Marked(r) => Marked(r)'
          /\ Marked(reg[t])'
      BY Zenon, <1>0, <2>1, <3>1 DEF Marked
    <3>3. \A u \in Threads : u # t /\ at[u] = "flush" /\ at[t] = "cas" => reg[u] # reg[t]
      BY <1>e, <2>1, <2>2 DEF Ahead, Marked
    <3>4. Alone'
      BY Zenon, <1>0, <1>e, <2>1, <3>1, <3>3 DEF Alone
    <3>5. Ahead(t)'
      BY Zenon, <1>0, <1>e, <2>1, <3>1, <3>2 DEF Ahead
    <3>6. ASSUME NEW u \in Threads, u # t PROVE Ahead(u)'
      <4>1. LTCKPT_BITMAP_SYNCHRONIZE
        BY Zenon, <1>a, <1>d, <3>6
      <4>2. bitmap'[reg[u]] = bitmap[reg[u]] \/ Marked(reg[u])'
        BY Zenon, <1>0, <2>1, <3>1 DEF Marked
      <4> QED BY Zenon, <1>0, <1>e, <2>1, <3>1, <3>2, <3>6, <4>1, <4>2 DEF Ahead
    <3> QED BY Zenon, <1>e, <2>1, <3>4, <3>5, <3>6
  <2>3. CASE ~ (at[t] = "mark" \/ bitmap[reg[t]] = old[t])
    <3>1. bitmap' = bitmap /\ at' = [at EXCEPT ![t] = "bit"] /\ at[t] = "cas"
      BY Zenon, <1>5, <2>1, <2>3 DEF MarkRegion
    <3>2. Marked(reg[t])
      BY Zenon, <1>e, <2>1, <2>3, <3>1 DEF Ahead
    <3>3. Alone'
      BY Zenon, <1>0, <1>e, <2>1, <3>1 DEF Alone
    <3>4. Ahead(t)'
      BY Zenon, <1>0, <1>e, <2>1, <3>1, <3>2 DEF Ahead, Marked
    <3>5. ASSUME NEW u \in Threads, u # t PROVE Ahead(u)'
      BY Zenon, <1>0, <1>e, <2>1, <3>1, <3>5 DEF Ahead, Marked
    <3> QED BY Zenon, <1>e, <2>1, <3>3, <3>4, <3>5
  <2> QED BY Zenon, <2>2, <2>3
<1>6. ASSUME NEW t \in Threads, FlushSaved(t) PROVE Goal
  <2>1. /\ UNCHANGED <<mem, tolVars, op, reg, old, saved_bytes, valid>>
        /\ at' = [at EXCEPT ![t] = "bit"] /\ at[t] = "flush"
    BY Zenon, <1>6 DEF FlushSaved
  <2>2. ltckpt_bitmap_enabled' /\ Alone'
    BY Zenon, <1>0, <1>e, <2>1 DEF Alone
  <2>3. \A u \in Threads : at[u] # "mark"
    BY Zenon, <1>e, <2>1 DEF Ahead
  <2>4. Ahead(t)'
    BY Zenon, <1>0, <1>e, <2>1 DEF Ahead, Marked
  <2>5. ASSUME NEW u \in Threads, u # t PROVE Ahead(u)'
    BY Zenon, <1>0, <1>e, <2>1, <2>3, <2>5 DEF Ahead, Marked
  <2> QED BY Zenon, <2>2, <2>4, <2>5
<1>7. ASSUME NEW t \in Threads, BitSet(t) PROVE Goal
  <2>1. /\ UNCHANGED <<mem, tolVars, op, old, saved_bytes, valid>> /\ at[t] = "bit"
        /\ reg' = [reg EXCEPT ![t] = IF @ < op[t].last THEN @ + 1 ELSE @]
        /\ at' = [at EXCEPT ![t] = IF reg[t] < op[t].last THEN "set_bit" ELSE "write"]
    BY Zenon, <1>7 DEF BitSet
  <2>2. shadow' = shadow
    <3>1. LTCKPT_SCHEME = "DIFF" => op[t].kind # "memcpy"
      BY Zenon, <1>0, OpType DEF CopiesAreSaved
    <3> QED BY Zenon, <1>7, <3>1 DEF BitSet
  <2>3. ltckpt_bitmap_enabled' /\ Alone'
    BY Zenon, <1>0, <1>e, <2>1 DEF Alone
  <2>4. reg[t] \in Nat /\ op[t].last \in Nat
    BY Zenon, <1>0, <1>b, <1>c
  <2>5. \A r \in Regions : op[t].first <= r /\ r <= reg[t] => Marked(r)
    <3> SUFFICES ASSUME NEW r \in Regions, op[t].first <= r, r <= reg[t] PROVE Marked(r)
      OBVIOUS
    <3>1. r \in Nat
      BY Zenon, <1>b
    <3>2. r < reg[t] \/ r = reg[t]
      BY <2>4, <3>1
    <3> QED BY Zenon, <1>e, <2>1, <3>2 DEF Ahead
  <2>6. Ahead(t)'
    <3>1. CASE reg[t] < op[t].last
      <4>1. at'[t] = "set_bit" /\ reg'[t] = reg[t] + 1
        BY Zenon, <1>0, <2>1, <3>1
      <4>2. \A r \in Regions : op[t].first <= r /\ r < reg[t] + 1 => Marked(r)
        BY <1>b, <2>4, <2>5
      <4> QED BY Zenon, <2>1, <4>1, <4>2 DEF Ahead, Marked
    <3>2. CASE ~ (reg[t] < op[t].last)
      <4>1. at'[t] = "write" /\ reg'[t] = reg[t]
        BY Zenon, <1>0, <2>1, <3>2
      <4>2. \A r \in Regions : op[t].first <= r /\ r <= op[t].last => Marked(r)
        BY <1>b, <2>4, <2>5, <3>2
      <4> QED BY Zenon, <2>1, <4>1, <4>2 DEF Ahead, Marked
    <3> QED BY Zenon, <3>1, <3>2
  <2>7. ASSUME NEW u \in Threads, u # t PROVE Ahead(u)'
    BY Zenon, <1>0, <1>e, <2>1, <2>2, <2>7 DEF Ahead, Marked
  <2> QED BY Zenon, <2>3, <2>6, <2>7
<1>8. ASSUME NEW t \in Threads, Write(t) PROVE Goal
  <2>1. /\ UNCHANGED <<shadow, tolVars, op, reg, old, saved_bytes, valid>>
        /\ at' = [at EXCEPT ![t] = "run"] /\ at[t] = "write"
    BY Zenon, <1>8 DEF Write
  <2>2. \A r \in Regions : ~ Marked(r) => mem'[r] = mem[r]
    BY Zenon, <1>8, <1>b, <1>c, <1>e, <2>1, WriteIsMarked
  <2>3. ltckpt_bitmap_enabled' /\ Alone'
    BY Zenon, <1>0, <1>e, <2>1 DEF Alone
  <2>4. Ahead(t)'
    BY Zenon, <1>0, <2>1 DEF Ahead
  <2>5. ASSUME NEW u \in Threads, u # t PROVE Ahead(u)'
    <3>1. LTCKPT_BITMAP_SYNCHRONIZE
      BY Zenon, <1>a, <1>d, <2>5
    <3> QED BY Zenon, <1>0, <1>e, <2>1, <2>2, <2>5, <3>1 DEF Ahead, Marked
  <2> QED BY Zenon, <2>3, <2>4, <2>5
<1>9. CASE TopOfTheLoop
  <2>1. UNCHANGED <<mem, at, op, reg, old, saved_bytes>>
    BY Zenon, <1>9 DEF TopOfTheLoop
  <2>2. CASE UNCHANGED <<shadow, bitmap, ltckpt_epoch, ltckpt_bitmap_enabled,
                         first_time, valid>>
    BY Zenon, <1>e, <2>1, <2>2 DEF Alone, Ahead, Marked
  <2>3. CASE ltckpt_bitmap_enabled' = TRUE /\ valid' = Quiet
    <3>1. \A u \in Threads : at'[u] = "run"
      BY Zenon, <2>1, <2>3 DEF Quiet
    <3> QED BY Zenon, <2>3, <3>1 DEF Alone, Ahead
  <2> QED BY Zenon, <1>9, <2>2, <2>3 DEF TopOfTheLoop
<1>10. CASE Fork
  BY Zenon, <1>10 DEF Fork
<1>11. CASE UNCHANGED vars
  BY <1>e, <1>11, Zenon DEF Alone, Ahead, Marked
<1> QED
  BY <1>1, <1>2, <1>3, <1>4, <1>5, <1>6, <1>7, <1>8, <1>9, <1>10, <1>11, Zenon
    DEF Next

-----------------------------------------------------------------------------
(* What a restart finds.                                                   *)

\* Where a restart finds a region, now and after a step.
LEMMA RestoredIs ==
  ASSUME NEW r
  PROVE  /\ ~ Marked(r) => Restored(r) = mem[r]
         /\ Marked(r) /\ (\A t \in Threads : ~ (at[t] = "flush" /\ reg[t] = r))
              => Restored(r) = shadow[r]
         /\ \A t \in Threads : Alone /\ Marked(r) /\ at[t] = "flush" /\ reg[t] = r
              => Restored(r) = saved_bytes[t]
         /\ ~ Marked(r)' => Restored(r)' = mem'[r]
         /\ Marked(r)' /\ (\A t \in Threads : ~ (at'[t] = "flush" /\ reg'[t] = r))
              => Restored(r)' = shadow'[r]
         /\ \A t \in Threads : Alone' /\ Marked(r)' /\ at'[t] = "flush" /\ reg'[t] = r
              => Restored(r)' = saved_bytes'[t]
<1>1. ASSUME NEW t \in Threads, Alone, Marked(r), at[t] = "flush", reg[t] = r
      PROVE  Restored(r) = saved_bytes[t]
  <2>1. (CHOOSE u \in Threads : at[u] = "flush" /\ reg[u] = r) = t
    BY Zenon, <1>1 DEF Alone
  <2> QED BY Zenon, <1>1, <2>1 DEF Restored, Marked
<1>2. ASSUME NEW t \in Threads, Alone', Marked(r)', at'[t] = "flush", reg'[t] = r
      PROVE  Restored(r)' = saved_bytes'[t]
  <2>1. (CHOOSE u \in Threads : at'[u] = "flush" /\ reg'[u] = r) = t
    BY Zenon, <1>2 DEF Alone
  <2> QED BY Zenon, <1>2, <2>1 DEF Restored, Marked
<1> QED BY Zenon, <1>1, <1>2 DEF Restored, Marked

\* A step that leaves the mark, the saved bytes and the way to them alone
\* leaves what a restart finds alone.
LEMMA SameRestored ==
  ASSUME NEW r, Alone, Alone', Marked(r)' <=> Marked(r),
         ~ Marked(r) => mem'[r] = mem[r], shadow'[r] = shadow[r],
         \A u \in Threads :
           /\ (at'[u] = "flush" /\ reg'[u] = r) <=> (at[u] = "flush" /\ reg[u] = r)
           /\ at[u] = "flush" => saved_bytes'[u] = saved_bytes[u]
  PROVE  Restored(r)' = Restored(r)
<1>1. CASE ~ Marked(r)
  BY Zenon, <1>1, RestoredIs
<1>2. CASE Marked(r) /\ \A u \in Threads : ~ (at[u] = "flush" /\ reg[u] = r)
  BY <1>2, RestoredIs
<1>3. CASE Marked(r) /\ \E u \in Threads : at[u] = "flush" /\ reg[u] = r
  BY <1>3, RestoredIs
<1> QED BY Zenon, <1>1, <1>2, <1>3

\* No step of a hook or of the program changes what a restart finds.
LEMMA NextRestored ==
  ASSUME Configured, Synchronized, CopiesAreSaved, EpochInv, HookInv', valid,
         NEW t \in Threads,
         \/ StoreHook(t) \/ ltckpt_set_bit(t) \/ ReadOld(t) \/ CopyRegion(t)
         \/ MarkRegion(t) \/ FlushSaved(t) \/ BitSet(t) \/ Write(t),
         NEW r \in Regions
  PROVE  Restored(r)' = Restored(r)
<1>0. /\ bitmap \in [Regions -> Epochs] /\ at \in [Threads -> Places]
      /\ reg \in [Threads -> Regions] /\ saved_bytes \in [Threads -> Values]
      /\ mem \in [Regions -> Values] /\ shadow \in [Regions -> Values]
      /\ op \in [Threads -> Ops]
  BY Zenon DEF EpochInv, TypeOK
<1> USE DEF Goto, tolVars
<1>1. valid' = valid
  BY Zenon DEF StoreHook, ltckpt_set_bit, ReadOld, CopyRegion, MarkRegion,
     FlushSaved, BitSet, Write
<1>2. Alone /\ Alone' /\ Ahead(t) /\ \A u \in Threads : Ahead(u)
  BY Zenon, <1>1 DEF EpochInv, HookInv
<1>3. CASE StoreHook(t)
  <2>1. /\ \A u \in Threads : u # t => at'[u] = at[u] /\ reg'[u] = reg[u]
        /\ at[t] = "run" /\ at'[t] \in {"set_bit", "write"}
        /\ UNCHANGED <<mem, shadow, bitmap, ltckpt_epoch, saved_bytes>>
    BY Zenon, <1>0, <1>3 DEF StoreHook
  <2> QED BY Zenon, <1>2, <2>1, SameRestored DEF Marked
<1>4. CASE ltckpt_set_bit(t)
  <2>1. /\ \A u \in Threads : u # t => at'[u] = at[u]
        /\ at[t] = "set_bit" /\ at'[t] \in {"old", "bit"}
        /\ UNCHANGED <<mem, shadow, bitmap, ltckpt_epoch, saved_bytes, reg>>
    BY <1>0, <1>4, Zenon DEF ltckpt_set_bit
  <2> QED BY Zenon, <1>2, <2>1, SameRestored DEF Marked
<1>5. CASE ReadOld(t)
  <2>1. /\ \A u \in Threads : u # t => at'[u] = at[u]
        /\ at[t] = "old" /\ at'[t] \in {"copy", "bit"}
        /\ UNCHANGED <<mem, shadow, bitmap, ltckpt_epoch, saved_bytes, reg>>
    BY Zenon, <1>0, <1>5 DEF ReadOld
  <2> QED BY Zenon, <1>2, <2>1, SameRestored DEF Marked
<1>6. CASE CopyRegion(t)
  <2>1. /\ \A u \in Threads : u # t => at'[u] = at[u] /\ saved_bytes'[u] = saved_bytes[u]
        /\ at[t] = "copy" /\ at'[t] \in {"cas", "mark"}
        /\ UNCHANGED <<mem, bitmap, ltckpt_epoch, reg>>
    BY <1>0, <1>6, Zenon DEF CopyRegion
  <2>2. CASE ~ Marked(r)
    BY <1>2, <2>1, <2>2, RestoredIs, Zenon DEF Marked
  <2>3. CASE Marked(r)
    <3>1. shadow'[r] = shadow[r]
      BY <1>0, <1>2, <1>6, <2>1, <2>3, Zenon DEF CopyRegion, Ahead
    <3> QED BY Zenon, <1>2, <2>1, <3>1, SameRestored DEF Marked
  <2> QED BY Zenon, <2>2, <2>3
<1>7. CASE MarkRegion(t)
  <2>1. /\ \A u \in Threads : u # t => at'[u] = at[u]
        /\ at[t] \in {"cas", "mark"} /\ at'[t] \in {"flush", "bit"}
        /\ UNCHANGED <<mem, shadow, ltckpt_epoch, saved_bytes, reg>>
    BY <1>0, <1>7, Zenon DEF MarkRegion
  <2>2. CASE ~ (at[t] = "mark" \/ bitmap[reg[t]] = old[t])
    <3>1. bitmap' = bitmap /\ at'[t] = "bit"
      BY Zenon, <1>0, <1>7, <2>2 DEF MarkRegion
    <3> QED BY Zenon, <1>2, <2>1, <3>1, SameRestored DEF Marked
  <2>3. CASE at[t] = "mark" \/ bitmap[reg[t]] = old[t]
    <3>1. /\ bitmap' = [bitmap EXCEPT ![reg[t]] = ltckpt_epoch]
          /\ at'[t] = IF at[t] = "cas" THEN "flush" ELSE "bit"
      BY <1>0, <1>7, <2>3, Zenon DEF MarkRegion
    <3>2. CASE r # reg[t]
      <4>1. Marked(r)' <=> Marked(r)
        BY <1>0, <2>1, <3>1, <3>2, Zenon DEF Marked
      <4> QED BY Zenon, <1>2, <2>1, <3>2, <4>1, SameRestored
    <3>3. CASE r = reg[t]
      <4>1. Marked(r)'
        BY <1>0, <2>1, <3>1, <3>3, Zenon DEF Marked
      <4>2. ~ Marked(r)
        <5>1. at[t] = "mark" \/ (at[t] = "cas" /\ bitmap[reg[t]] = old[t])
          BY <2>1, <2>3, Zenon
        <5> QED BY <1>2, <3>3, <5>1, Zenon DEF Ahead, Marked
      <4>3. Restored(r) = mem[r]
        BY <4>2, RestoredIs, Zenon
      <4>4. CASE at[t] = "cas"
        <5>1. saved_bytes[t] = mem[r]
          BY <1>2, <3>3, <4>2, <4>4, Zenon DEF Ahead
        <5> QED
          BY <1>2, <2>1, <3>1, <3>3, <4>1, <4>3, <4>4, <5>1, RestoredIs, Zenon
      <4>5. CASE at[t] = "mark"
        <5>1. shadow[r] = mem[r]
          BY <1>2, <3>3, <4>5, Zenon DEF Ahead
        <5>2. \A u \in Threads : at'[u] # "flush"
          BY Zenon, <1>2, <2>1, <3>1, <4>5 DEF Ahead
        <5> QED BY Zenon, <2>1, <4>1, <4>3, <5>1, <5>2, RestoredIs
      <4> QED BY Zenon, <2>1, <4>4, <4>5
    <3> QED BY Zenon, <3>2, <3>3
  <2> QED BY Zenon, <2>2, <2>3
<1>8. CASE FlushSaved(t)
  <2>1. /\ \A u \in Threads : u # t => at'[u] = at[u]
        /\ at[t] = "flush" /\ at'[t] = "bit"
        /\ shadow' = [shadow EXCEPT ![reg[t]] = saved_bytes[t]]
        /\ UNCHANGED <<mem, bitmap, ltckpt_epoch, saved_bytes, reg>>
    BY <1>0, <1>8, Zenon DEF FlushSaved
  <2>2. CASE r # reg[t]
    <3>1. shadow'[r] = shadow[r]
      BY <1>0, <2>1, <2>2, Zenon
    <3> QED BY Zenon, <1>2, <2>1, <2>2, <3>1, SameRestored DEF Marked
  <2>3. CASE r = reg[t]
    <3>1. Marked(r) /\ Marked(r)'
      BY <1>2, <2>1, <2>3, Zenon DEF Ahead, Marked
    <3>2. Restored(r) = saved_bytes[t]
      BY <1>2, <2>1, <2>3, <3>1, RestoredIs, Zenon
    <3>3. \A u \in Threads : ~ (at'[u] = "flush" /\ reg'[u] = r)
      BY Zenon, <1>2, <2>1, <2>3 DEF Alone
    <3>4. shadow'[r] = saved_bytes[t]
      BY <1>0, <2>1, <2>3, Zenon
    <3> QED BY Zenon, <3>1, <3>2, <3>3, <3>4, RestoredIs
  <2> QED BY Zenon, <2>2, <2>3
<1>9. CASE BitSet(t)
  <2>1. /\ \A u \in Threads : u # t => at'[u] = at[u] /\ reg'[u] = reg[u]
        /\ at[t] = "bit" /\ at'[t] \in {"set_bit", "write"}
        /\ UNCHANGED <<mem, bitmap, ltckpt_epoch, saved_bytes>>
    BY Zenon, <1>0, <1>9 DEF BitSet
  <2>2. LTCKPT_SCHEME = "DIFF" => op[t].kind # "memcpy"
    BY <1>0, OpType, Zenon DEF CopiesAreSaved
  <2>3. shadow' = shadow
    BY <1>9, <2>2, Zenon DEF BitSet
  <2> QED BY Zenon, <1>2, <2>1, <2>3, SameRestored DEF Marked
<1>10. CASE Write(t)
  <2>1. /\ \A u \in Threads : u # t => at'[u] = at[u]
        /\ at[t] = "write" /\ at'[t] = "run"
        /\ UNCHANGED <<shadow, bitmap, ltckpt_epoch, saved_bytes, reg>>
    BY Zenon, <1>0, <1>10 DEF Write
  <2>2. op[t].first \in Nat /\ op[t].last \in Nat
    <3>1. op[t].first \in Regions /\ op[t].last \in Regions
      BY Zenon, <1>0, OpType
    <3> QED BY Zenon, <3>1 DEF Configured
  <2>3. ~ Marked(r) => mem'[r] = mem[r]
    BY Zenon, <1>2, <1>10, <2>2, WriteIsMarked
  <2> QED BY Zenon, <1>2, <2>1, <2>3, SameRestored DEF Marked
<1> QED BY Zenon, <1>3, <1>4, <1>5, <1>6, <1>7, <1>8, <1>9, <1>10

\* Every step of the mechanism is one that Checkpointing allows.
LEMMA NextKeeps ==
  ASSUME Configured, Synchronized, CopiesAreSaved, EpochInv, EpochInv', [Next]_vars
  PROVE  KeepsPromise
<1>0. /\ mem \in [Regions -> Values] /\ mem' \in [Regions -> Values]
      /\ valid \in BOOLEAN /\ valid' \in BOOLEAN /\ TypeOK /\ RangeInv
  BY Zenon DEF EpochInv, TypeOK
<1> USE DEF vars, tolVars
<1>1. ASSUME NEW t \in Threads,
             \/ StoreHook(t) \/ ltckpt_set_bit(t) \/ ReadOld(t) \/ CopyRegion(t)
             \/ MarkRegion(t) \/ FlushSaved(t) \/ BitSet(t) \/ Write(t)
      PROVE  KeepsPromise
  <2>1. valid' = valid
    BY Zenon, <1>1 DEF StoreHook, ltckpt_set_bit, ReadOld, CopyRegion, MarkRegion,
       FlushSaved, BitSet, Write
  <2>2. ASSUME valid PROVE Snapshot' = Snapshot
    <3>1. \A r \in Regions : Restored(r)' = Restored(r)
      BY Zenon, <1>1, <2>2, NextRestored DEF EpochInv
    <3> QED BY Zenon, <2>1, <2>2, <3>1 DEF Snapshot
  <2>3. ASSUME ~ valid PROVE Snapshot' = Snapshot
    BY Zenon, <2>1, <2>3 DEF Snapshot
  <2> QED
    BY Zenon, <1>0, <2>2, <2>3 DEF KeepsPromise, Promise!Next, Promise!Write,
             Promise!Memory
<1>2. CASE TopOfTheLoop
  <2>1. UNCHANGED <<mem, at, op, reg, old, saved_bytes>>
    BY Zenon, <1>2 DEF TopOfTheLoop
  <2>2. CASE UNCHANGED <<shadow, bitmap, ltckpt_epoch, ltckpt_bitmap_enabled,
                         first_time, valid>>
    <3>1. Snapshot' = Snapshot
      BY Zenon, <2>1, <2>2 DEF Snapshot, Restored
    <3> QED BY Zenon, <2>1, <3>1 DEF KeepsPromise
  <2>3. CASE NewEpoch
    <3>1. \A r \in Regions : ~ Marked(r)'
      <4> SUFFICES ASSUME NEW r \in Regions PROVE ~ Marked(r)'
        OBVIOUS
      <4>1. bitmap'[r] < ltckpt_epoch' /\ bitmap'[r] \in Epochs /\ ltckpt_epoch' \in Epochs
        BY Zenon, <1>0, <2>3, NewEpochFresh
      <4>2. bitmap'[r] \in Nat /\ ltckpt_epoch' \in Nat
        BY Zenon, <4>1, EpochType
      <4> QED BY <4>1, <4>2 DEF Marked
    <3>2. CASE valid'
      <4>1. Snapshot' = [r \in Regions |-> Restored(r)']
        BY Zenon, <3>2 DEF Snapshot
      <4>2. \A r \in Regions : Restored(r)' = mem[r]
        BY Zenon, <2>1, <3>1, RestoredIs
      <4>3. Snapshot' = mem
        BY Zenon, <1>0, <4>1, <4>2
      <4> QED BY Zenon, <2>1, <4>3 DEF KeepsPromise, Promise!Next, Promise!Take
    <3>3. CASE ~ valid'
      <4>1. Snapshot' = NoSnapshot
        BY Zenon, <3>3 DEF Snapshot
      <4> QED BY Zenon, <2>1, <4>1 DEF KeepsPromise, Promise!Next, Promise!Lose
    <3> QED BY Zenon, <3>2, <3>3
  <2> QED BY Zenon, <1>2, <2>2, <2>3 DEF TopOfTheLoop
<1>3. CASE Fork
  <2>1. Snapshot' = NoSnapshot /\ mem' = mem
    BY Zenon, <1>3 DEF Fork, Snapshot
  <2> QED BY Zenon, <2>1 DEF KeepsPromise, Promise!Next, Promise!Lose
<1>4. CASE UNCHANGED vars
  <2>1. Snapshot' = Snapshot /\ mem' = mem
    BY Zenon, <1>4 DEF Snapshot, Restored
  <2> QED BY Zenon, <2>1 DEF KeepsPromise
<1> QED BY <1>1, <1>2, <1>3, <1>4, Zenon DEF Next

-----------------------------------------------------------------------------
(* The theorem.                                                            *)

\* The late-init hook establishes the invariant, with nothing to restore.
LEMMA InitEpoch == ASSUME Configured, Init PROVE EpochInv /\ Promise!Init
<1>1. AnyOp \in Ops
  <2>1. PICK r \in Regions : TRUE
    BY Zenon DEF Configured
  <2>a. Zero \in Values
    BY Zenon DEF Configured
  <2>2. [kind |-> "store", first |-> r, last |-> r, val |-> Zero] \in Ops
    BY SMTT(20), <2>a DEF Ops
  <2> QED BY Zenon, <2>2 DEF AnyOp
<1>2. AnyOp.first \in Regions
  BY Zenon, <1>1, OpType
<1>3. MaxTols \in Nat /\ Zero \in Values /\ LTCKPT_BITMAP_ALWAYS_ON \in BOOLEAN
  BY Zenon DEF Configured
<1>4. ltckpt_epoch \in Epochs \ {0} /\ bitmap \in [Regions -> Epochs]
  BY EpochType DEF Init
<1>a. 0 \in Epochs
  BY Zenon, EpochType
<1>b. num_tols \in 0 .. MaxTols /\ ltckpt_bitmap_enabled \in BOOLEAN
  BY <1>3 DEF Init
<1>c. /\ mem \in [Regions -> Values] /\ shadow \in [Regions -> Values]
      /\ at \in [Threads -> Places] /\ op \in [Threads -> Ops]
      /\ reg \in [Threads -> Regions] /\ old \in [Threads -> Epochs]
      /\ saved_bytes \in [Threads -> Values]
  BY Zenon, <1>1, <1>2, <1>3, <1>a DEF Init, Places
<1>5. TypeOK
  BY Zenon, <1>4, <1>b, <1>c DEF Init, TypeOK
<1>6. RangeInv
  BY DEF Init, RangeInv, FreshBitmap
<1>7. HookInv
  BY Zenon DEF Init, HookInv
<1>8. Promise!Init
  BY Zenon DEF Init, Promise!Init, Promise!Memory, Snapshot
<1> QED BY Zenon, <1>5, <1>6, <1>7, <1>8 DEF EpochInv

\* Every step of the bitmap mechanism keeps its inductive invariant.
LEMMA NextEpoch ==
  ASSUME Configured, Synchronized, CopiesAreSaved, EpochInv, [Next]_vars
  PROVE  EpochInv'
BY Zenon, NextRange, NextHook DEF EpochInv

\* The bitmap mechanism implements Checkpointing, for any number of threads
\* and regions, any width of the epoch counter and any interval: whatever
\* the hooks interleave and however often the epoch wraps around, a restart
\* finds the memory of the last checkpoint.
THEOREM EpochKeepsCheckpoint ==
  ASSUME Configured, Synchronized, CopiesAreSaved
  PROVE  Spec => []TypeOK /\ KeepsCheckpoint
<1>1. Init => EpochInv /\ Promise!Init
  BY Zenon, InitEpoch
<1>2. EpochInv /\ [Next]_vars => EpochInv'
  BY Zenon, NextEpoch
<1>3. EpochInv /\ EpochInv' /\ [Next]_vars => [Promise!Next]_<<mem, Snapshot>>
  BY Zenon, NextKeeps DEF KeepsPromise
<1>4. EpochInv => TypeOK
  BY Zenon DEF EpochInv
<1> QED BY <1>1, <1>2, <1>3, <1>4, PTL DEF Spec, KeepsCheckpoint, Promise!Spec

\* Every variable of the mechanism keeps its type, and the current epoch is
\* never 0, the mark of a fresh bitmap, however narrow ltckpt_epoch is.
THEOREM EpochTypesHold ==
  ASSUME Configured, Synchronized, CopiesAreSaved
  PROVE  Spec => []TypeOK
BY EpochKeepsCheckpoint, PTL

-----------------------------------------------------------------------------
(* Checkpoints that are forked processes.                                  *)

\* A process identifier is not the 0 that stands for no checkpoint.
PidsArePositive == 0 \notin Pids /\ First \in Procs

\* A checkpoint that runs is the current one of the process that made it,
\* and that process has not passed the point where it would kill it.
OwnerInv ==
  \A c \in alive :
    /\ pid[parent[c]] = c /\ ~ exited[parent[c]]
    /\ hook[parent[c]] \in {"program", "before_exit"}
    /\ run[parent[c]] \in {"run", "exit", "panic"}

\* Where the processes are.
PlaceInv ==
  /\ Used \subseteq Pids /\ \A c \in Used : parent[c] \in Procs
  /\ hook \in [Procs -> {"program", "wait", "fork", "before_exit",
                       "before_exit_wait", "leave"}]
  /\ \A p \in Procs :
       /\ run[p] = "run" => ~ exited[p] /\ hook[p] \in {"program", "wait", "fork"}
       /\ run[p] = "exit" => hook[p] \in {"before_exit", "before_exit_wait", "leave"}
       /\ run[p] = "absent" => hook[p] = "program"

\* Two processes know of one checkpoint only after a fork of the program.
KnownInv ==
  \A p, q \in Procs : p # q /\ pid[p] = pid[q] /\ pid[p] # 0 => pid[p] \in copied

ForkInv == ForkTypeOK /\ PlaceInv /\ OwnerInv /\ KnownInv /\ HasCheckpoint

-----------------------------------------------------------------------------

\* The first process starts without a checkpoint.
LEMMA InitFork == ASSUME PidsArePositive, ForkInit PROVE ForkInv
<1>1. Used = {}
  BY Zenon DEF ForkInit, Used
<1>2. ForkTypeOK /\ PlaceInv
  BY Zenon, <1>1 DEF ForkInit, ForkTypeOK, PlaceInv
<1>3. OwnerInv /\ KnownInv /\ HasCheckpoint
  BY Zenon DEF ForkInit, OwnerInv, KnownInv, HasCheckpoint
<1> QED BY Zenon, <1>2, <1>3 DEF ForkInv

\* The kill of a hook: the process stops its own checkpoint or one that a
\* fork of the program has told it of.
LEMMA KillKeeps ==
  ASSUME PidsArePositive, ForkInv, NEW p \in Procs, Kill(pid[p]),
         run[p] \in {"run", "exit"}, hook[p] \in {"program", "before_exit"},
         hook' = [hook EXCEPT ![p] = IF hook[p] = "program" THEN "wait" ELSE "before_exit_wait"],
         UNCHANGED <<run, pid, exited, parent, copied>>
  PROVE  ForkInv'
<1> USE DEF ForkInv, Kill
<1>0. hook \in [Procs -> {"program", "wait", "fork", "before_exit", "before_exit_wait", "leave"}]
  BY Zenon DEF PlaceInv
<1>1. ForkTypeOK'
  BY Zenon DEF ForkTypeOK, Used
<1>2. PlaceInv'
  BY Zenon, <1>0 DEF PlaceInv, Used
<1>3. OwnerInv'
  BY <1>0 DEF OwnerInv
<1>4. KnownInv'
  BY Zenon DEF KnownInv
<1>5. HasCheckpoint'
  <2> SUFFICES ASSUME NEW q \in Procs, run[q] = "run", hook'[q] = "program", pid[q] # 0
               PROVE  pid[q] \in alive' \cup copied
    BY Zenon DEF HasCheckpoint
  <2>1. q # p /\ hook[q] = "program"
    BY Zenon, <1>0
  <2>2. pid[q] \in alive \cup copied
    BY Zenon, <2>1 DEF HasCheckpoint
  <2>3. pid[q] = pid[p] => pid[q] \in copied
    BY Zenon, <2>1 DEF KnownInv
  <2> QED BY Zenon, <2>2, <2>3
<1> QED BY Zenon, <1>1, <1>2, <1>3, <1>4, <1>5

\* Every step of a process keeps the invariant.
LEMMA NextFork ==
  ASSUME PidsArePositive, ForkInv, [ForkNext]_forkVars
  PROVE  ForkInv'
<1> USE DEF forkVars
<1>0. /\ hook \in [Procs -> {"program", "wait", "fork", "before_exit", "before_exit_wait",
                            "leave"}]
      /\ run \in [Procs -> {"absent", "run", "exit", "gone", "panic"}]
      /\ pid \in [Procs -> Used \cup {0}] /\ exited \in [Procs -> BOOLEAN]
      /\ Used \subseteq Pids /\ alive \subseteq Used /\ 0 \notin Used
  BY Zenon DEF ForkInv, ForkTypeOK, PlaceInv, PidsArePositive
<1>1. ASSUME NEW p \in Procs, ProgramFork(p) PROVE ForkInv'
  <2>1. PICK q \in Procs :
          /\ run[q] = "absent" /\ run' = [run EXCEPT ![q] = "run"]
          /\ pid' = [pid EXCEPT ![q] = pid[p]]
          /\ exited' = [exited EXCEPT ![q] = exited[p]]
    BY Zenon, <1>1 DEF ProgramFork
  <2>2. /\ run[p] = "run" /\ copied' = copied \cup {pid[p]}
        /\ UNCHANGED <<hook, alive, zombie, parent>> /\ Used' = Used
    BY Zenon, <1>1 DEF ProgramFork, Used
  <2>3. ForkTypeOK'
    BY Zenon, <1>0, <2>1, <2>2 DEF ForkInv, ForkTypeOK
  <2>4. PlaceInv'
    BY <1>0, <2>1, <2>2 DEF ForkInv, PlaceInv
  <2>5. OwnerInv'
    BY <1>0, <2>1, <2>2 DEF ForkInv, OwnerInv
  <2>6. KnownInv'
    BY Zenon, <1>0, <2>1, <2>2 DEF ForkInv, KnownInv
  <2>7. HasCheckpoint'
    BY Zenon, <1>0, <2>1, <2>2 DEF ForkInv, HasCheckpoint
  <2> QED BY Zenon, <2>3, <2>4, <2>5, <2>6, <2>7 DEF ForkInv
<1>2. ASSUME NEW p \in Procs, TolKill(p) PROVE ForkInv'
  <2>1. /\ run[p] = "run" /\ hook[p] = "program"
        /\ UNCHANGED <<pid, exited, parent, copied>> /\ Used' = Used
    BY Zenon, <1>2 DEF TolKill, Used
  <2>2. CASE pid[p] = 0 /\ hook' = [hook EXCEPT ![p] = "fork"] /\ UNCHANGED <<run, alive, zombie>>
    <3>1. ForkTypeOK' /\ KnownInv'
      BY Zenon, <2>1, <2>2 DEF ForkInv, ForkTypeOK, KnownInv
    <3>2. PlaceInv'
      BY Zenon, <1>0, <2>1, <2>2 DEF ForkInv, PlaceInv
    <3>3. OwnerInv'
      BY <1>0, <2>1, <2>2 DEF ForkInv, OwnerInv
    <3>4. HasCheckpoint'
      BY Zenon, <1>0, <2>1, <2>2 DEF ForkInv, HasCheckpoint
    <3> QED BY Zenon, <3>1, <3>2, <3>3, <3>4 DEF ForkInv
  <2>3. CASE Kill(pid[p]) /\ hook' = [hook EXCEPT ![p] = "wait"] /\ UNCHANGED run
    BY Zenon, <2>1, <2>3, KillKeeps
  <2>4. CASE /\ pid[p] # 0 /\ pid[p] \notin alive \cup zombie
             /\ run' = [run EXCEPT ![p] = "panic"] /\ UNCHANGED <<hook, alive, zombie>>
    <3>1. ForkTypeOK' /\ KnownInv'
      BY Zenon, <1>0, <2>1, <2>4 DEF ForkInv, ForkTypeOK, KnownInv
    <3>2. PlaceInv'
      BY Zenon, <1>0, <2>1, <2>4 DEF ForkInv, PlaceInv
    <3>3. OwnerInv'
      BY <1>0, <2>1, <2>4 DEF ForkInv, OwnerInv
    <3>4. HasCheckpoint'
      BY Zenon, <1>0, <2>1, <2>4 DEF ForkInv, HasCheckpoint
    <3> QED BY Zenon, <3>1, <3>2, <3>3, <3>4 DEF ForkInv
  <2> QED BY Zenon, <1>2, <2>2, <2>3, <2>4 DEF TolKill
<1>3. ASSUME NEW p \in Procs, TolWait(p) PROVE ForkInv'
  <2>1. /\ run[p] \in {"run", "exit"} /\ hook[p] = "wait" /\ hook' = [hook EXCEPT ![p] = "fork"]
        /\ zombie' \subseteq zombie
        /\ UNCHANGED <<run, pid, exited, alive, parent, copied>> /\ Used' = Used
    BY Zenon, <1>3 DEF TolWait, Running, Wait, Used
  <2>2. ForkTypeOK' /\ KnownInv'
    BY Zenon, <2>1 DEF ForkInv, ForkTypeOK, KnownInv
  <2>3. PlaceInv'
    BY Zenon, <1>0, <2>1 DEF ForkInv, PlaceInv
  <2>4. OwnerInv'
    BY <1>0, <2>1 DEF ForkInv, OwnerInv
  <2>5. HasCheckpoint'
    BY Zenon, <1>0, <2>1 DEF ForkInv, HasCheckpoint
  <2> QED BY Zenon, <2>2, <2>3, <2>4, <2>5 DEF ForkInv
<1>4. ASSUME NEW p \in Procs, TolFork(p) PROVE ForkInv'
  <2>1. PICK c \in Pids \ Used :
          /\ pid' = [pid EXCEPT ![p] = c]
          /\ alive' = alive \cup {c}
          /\ parent' = [d \in Used \cup {c} |-> IF d = c THEN p ELSE parent[d]]
    BY Zenon, <1>4 DEF TolFork, ltckpt_fork
  <2>2. /\ hook[p] = "fork" /\ hook' = [hook EXCEPT ![p] = "program"]
        /\ UNCHANGED <<run, exited, zombie, copied>>
        /\ run[p] = "run" /\ ~ exited[p]
    BY Zenon, <1>4 DEF TolFork, Running, ForkInv, PlaceInv
  <2>3. Used' = Used \cup {c} /\ c # 0
    BY <2>1 DEF Used, PidsArePositive
  <2>4. ForkTypeOK'
    BY Zenon, <1>0, <2>1, <2>2, <2>3 DEF ForkInv, ForkTypeOK
  <2>5. PlaceInv'
    BY Zenon, <1>0, <2>1, <2>2, <2>3 DEF ForkInv, PlaceInv
  <2>6. OwnerInv'
    <3> SUFFICES ASSUME NEW d \in alive' PROVE
          /\ pid'[parent'[d]] = d /\ ~ exited'[parent'[d]]
          /\ hook'[parent'[d]] \in {"program", "before_exit"}
          /\ run'[parent'[d]] \in {"run", "exit", "panic"}
      BY Zenon DEF OwnerInv
    <3>1. CASE d = c
      BY Zenon, <1>0, <2>1, <2>2, <3>1
    <3>2. CASE d # c
      <4>1. d \in alive /\ parent'[d] = parent[d] /\ parent[d] \in Procs
        BY Zenon, <1>0, <2>1, <3>2 DEF ForkInv, PlaceInv
      <4>2. parent[d] # p
        BY Zenon, <2>2, <4>1 DEF ForkInv, OwnerInv
      <4> QED BY <1>0, <2>1, <2>2, <4>1, <4>2 DEF ForkInv, OwnerInv
    <3> QED BY Zenon, <3>1, <3>2
  <2>7. KnownInv'
    BY <1>0, <2>1, <2>2 DEF ForkInv, KnownInv
  <2>8. HasCheckpoint'
    BY Zenon, <1>0, <2>1, <2>2 DEF ForkInv, HasCheckpoint
  <2> QED BY Zenon, <2>4, <2>5, <2>6, <2>7, <2>8 DEF ForkInv
<1>5. ASSUME NEW p \in Procs, Exit(p) PROVE ForkInv'
  <2>1. /\ run[p] = "run" /\ hook[p] = "program"
        /\ run' = [run EXCEPT ![p] = "exit"] /\ hook' = [hook EXCEPT ![p] = "before_exit"]
        /\ UNCHANGED <<pid, exited, alive, zombie, parent, copied>> /\ Used' = Used
    BY Zenon, <1>5 DEF Exit, Used
  <2>2. ForkTypeOK' /\ KnownInv'
    BY Zenon, <1>0, <2>1 DEF ForkInv, ForkTypeOK, KnownInv
  <2>3. PlaceInv'
    BY Zenon, <1>0, <2>1 DEF ForkInv, PlaceInv
  <2>4. OwnerInv'
    BY <1>0, <2>1 DEF ForkInv, OwnerInv
  <2>5. HasCheckpoint'
    BY Zenon, <1>0, <2>1 DEF ForkInv, HasCheckpoint
  <2> QED BY Zenon, <2>2, <2>3, <2>4, <2>5 DEF ForkInv
<1>6. ASSUME NEW p \in Procs, BeforeExit(p) PROVE ForkInv'
  <2>1. /\ run[p] \in {"run", "exit"} /\ hook[p] = "before_exit"
        /\ UNCHANGED <<run, pid, parent, copied>> /\ Used' = Used
    BY Zenon, <1>6 DEF BeforeExit, Running, Used
  <2>2. CASE exited[p] \/ pid[p] = 0
    <3>1. /\ exited' = [exited EXCEPT ![p] = TRUE]
          /\ hook' = [hook EXCEPT ![p] = "leave"] /\ UNCHANGED <<alive, zombie>>
      BY Zenon, <1>6, <2>2 DEF BeforeExit
    <3>2. ForkTypeOK' /\ KnownInv'
      BY Zenon, <1>0, <2>1, <3>1 DEF ForkInv, ForkTypeOK, KnownInv
    <3>3. run[p] = "exit"
      BY Zenon, <1>6 DEF BeforeExit, Running, ForkInv, PlaceInv
    <3>4. PlaceInv'
      BY Zenon, <1>0, <2>1, <3>1, <3>3 DEF ForkInv, PlaceInv
    <3>5. OwnerInv'
      BY <1>0, <2>1, <2>2, <3>1 DEF ForkInv, OwnerInv
    <3>6. HasCheckpoint'
      BY Zenon, <1>0, <2>1, <3>1 DEF ForkInv, HasCheckpoint
    <3> QED BY Zenon, <3>2, <3>4, <3>5, <3>6 DEF ForkInv
  <2>3. CASE ~ (exited[p] \/ pid[p] = 0)
    <3>1. Kill(pid[p]) /\ hook' = [hook EXCEPT ![p] = "before_exit_wait"] /\ UNCHANGED exited
      BY Zenon, <1>6, <2>3 DEF BeforeExit
    <3> QED BY Zenon, <2>1, <3>1, KillKeeps
  <2> QED BY Zenon, <2>2, <2>3
<1>7. ASSUME NEW p \in Procs, BeforeExitWait(p) PROVE ForkInv'
  <2>1. /\ run[p] \in {"run", "exit"} /\ hook[p] = "before_exit_wait"
        /\ exited' = [exited EXCEPT ![p] = TRUE] /\ hook' = [hook EXCEPT ![p] = "leave"]
        /\ zombie' \subseteq zombie
        /\ UNCHANGED <<run, pid, alive, parent, copied>> /\ Used' = Used
    BY Zenon, <1>7 DEF BeforeExitWait, Running, Wait, Used
  <2>2. ForkTypeOK' /\ KnownInv'
    BY Zenon, <1>0, <2>1 DEF ForkInv, ForkTypeOK, KnownInv
  <2>3. PlaceInv'
    BY Zenon, <1>0, <2>1 DEF ForkInv, PlaceInv
  <2>4. OwnerInv'
    BY <1>0, <2>1 DEF ForkInv, OwnerInv
  <2>5. HasCheckpoint'
    BY Zenon, <1>0, <2>1 DEF ForkInv, HasCheckpoint
  <2> QED BY Zenon, <2>2, <2>3, <2>4, <2>5 DEF ForkInv
<1>8. ASSUME NEW p \in Procs, Leave(p) PROVE ForkInv'
  <2>1. /\ run[p] \in {"run", "exit"} /\ hook[p] = "leave"
        /\ \/ hook' = [hook EXCEPT ![p] = "before_exit"] /\ run' = run
           \/ run' = [run EXCEPT ![p] = "gone"] /\ hook' = hook
        /\ UNCHANGED <<pid, exited, alive, zombie, parent, copied>> /\ Used' = Used
    BY Zenon, <1>8 DEF Leave, Running, Used
  <2>a. run' \in [Procs -> {"absent", "run", "exit", "gone", "panic"}]
    BY Zenon, <1>0, <2>1
  <2>2. ForkTypeOK' /\ KnownInv'
    BY Zenon, <2>1, <2>a DEF ForkInv, ForkTypeOK, KnownInv
  <2>3. PlaceInv'
    BY Zenon, <1>0, <2>1 DEF ForkInv, PlaceInv
  <2>b. \A c \in alive : parent[c] \in Procs /\ parent[c] # p
    BY Zenon, <1>0, <2>1 DEF ForkInv, OwnerInv, PlaceInv
  <2>4. OwnerInv'
    BY <1>0, <2>1, <2>b DEF ForkInv, OwnerInv
  <2>5. HasCheckpoint'
    BY Zenon, <1>0, <2>1 DEF ForkInv, HasCheckpoint
  <2> QED BY Zenon, <2>2, <2>3, <2>4, <2>5 DEF ForkInv
<1>9. CASE UNCHANGED forkVars
  BY Zenon, <1>9
    DEF ForkInv, ForkTypeOK, PlaceInv, OwnerInv, KnownInv, HasCheckpoint, Used
<1> QED
  BY <1>1, <1>2, <1>3, <1>4, <1>5, <1>6, <1>7, <1>8, <1>9, Zenon
    DEF ForkNext, Step

\* However often the program and the mechanism fork, whoever kills whose
\* checkpoint and whether the exit wrappers run once or twice: a process
\* that runs has its checkpoint unless a fork of the program shares it, and
\* a process that has left leaves no checkpoint running.
THEOREM CheckpointsLiveAlong ==
  ASSUME PidsArePositive
  PROVE  ForkSpec => []ForkTypeOK /\ []CheckpointLivesAlong
<1>1. ForkInit => ForkInv
  BY Zenon, InitFork
<1>2. ForkInv /\ [ForkNext]_forkVars => ForkInv'
  BY Zenon, NextFork
<1>3. ForkInv => ForkTypeOK /\ CheckpointLivesAlong
  <2> SUFFICES ASSUME ForkInv PROVE ForkTypeOK /\ CheckpointLivesAlong
    OBVIOUS
  <2>1. ExitLeavesNothing
    BY Zenon DEF ForkInv, OwnerInv, ExitLeavesNothing
  <2> QED BY Zenon, <2>1 DEF ForkInv, CheckpointLivesAlong
<1> QED BY <1>1, <1>2, <1>3, PTL DEF ForkSpec
=============================================================================
