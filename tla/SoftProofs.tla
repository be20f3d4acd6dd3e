----------------------------- MODULE SoftProofs -----------------------------
(***************************************************************************)
(* TLAPS proofs about SoftDirty, for every list of areas, every length of  *)
(* a chunk and every size of the tables: a checkpoint copies exactly the   *)
(* written pages, and its statistics add up. The lemmas on sums are those  *)
(* of CountProofs.                                                         *)
(***************************************************************************)
EXTENDS SoftDirty, CountProofs

\* Pages of the areas that the walk has passed.
Passed == IF vma <= Len(Vmas) THEN {p \in Walked : p < addr} ELSE Walked

Once == \A i, j \in DOMAIN copies : copies[i].addr = copies[j].addr => i = j

\* Types of what SoftTypeOK leaves out.
SoftSizes ==
  /\ before \subseteq Pages /\ written \subseteq Pages
  /\ initialized \in BOOLEAN /\ num_cows \in Nat /\ loops \in Nat /\ hist_len \in Nat
  /\ IsFiniteSet(DOMAIN statistics)
  /\ hist_len = Len(hist) \/ Len(hist) = PAGE_NUM_HIST_SIZE

\* The kernel's marks are the pages written since the last checkpoint, once
\* the mechanism is initialised.
MarksInv ==
  /\ ~ initialized => mode = "run" /\ copies = <<>> /\ before = {}
  /\ initialized /\ mode = "run" => dirty = written

\* In the walk: what remains of a chunk, and the copies of what was passed.
WalkInv ==
  mode = "walk" =>
    /\ initialized /\ dirty = before /\ written = before
    /\ vma \in 1 .. Len(Vmas) + 1
    /\ vma <= Len(Vmas) => Vmas[vma].start <= addr /\ addr <= Vmas[vma].end
    /\ DOMAIN map # {} => /\ vma <= Len(Vmas)
                          /\ \E k \in Area(vma) : addr <= k /\ DOMAIN map = addr .. k
    /\ \A p \in DOMAIN map : map[p] <=> p \in dirty
    /\ Copied = before \cap Passed
    /\ Once
    /\ \A i \in DOMAIN copies : copies[i].mem = content[copies[i].addr]

SoftInv == SoftTypeOK /\ SoftSizes /\ MarksInv /\ WalkInv /\ CopiesTheWritten

-----------------------------------------------------------------------------

\* The sum of the statistics is the sum of the numbers of their pages.
LEMMA SumUpIs ==
  ASSUME NEW f
  PROVE  SumUp(f) = Sum(f, DOMAIN f)
BY Zenon DEF SumUp, Sum, Units

\* Counting a page adds one to the sum.
LEMMA CountAddsOne ==
  ASSUME NEW f, IsFiniteSet(DOMAIN f), \A x \in DOMAIN f : f[x] \in Nat, NEW p, NEW g,
         DOMAIN g = DOMAIN f \cup {p},
         \A x \in DOMAIN f : x # p => g[x] = f[x],
         g[p] = (IF p \in DOMAIN f THEN f[p] ELSE 0) + 1
  PROVE  SumUp(g) = SumUp(f) + 1
<1>1. PICK R : R = DOMAIN f \ {p}
  BY Zenon
<1>2. IsFiniteSet(R)
  BY Zenon, <1>1, FS_Subset
<1>3. DOMAIN g = R \cup {p} /\ p \notin R
  BY Zenon, <1>1
<1>4. \A x \in R : g[x] = f[x]
  BY Zenon, <1>1
<1>5. Sum(g, R) = Sum(f, R)
  BY Zenon, <1>4, SumOfSame
<1>6. Sum(f, R) \in Nat
  <2>1. \A x \in R : f[x] \in Nat
    BY Zenon, <1>1
  <2> QED BY Zenon, <2>1, <1>2, SumIsNat
<1>7. g[p] \in Nat
  OBVIOUS
<1>8. Sum(g, R \cup {p}) = Sum(g, R) + g[p]
  <2>1. \A x \in R \cup {p} : g[x] \in Nat
    BY Zenon, <1>1, <1>4, <1>7
  <2> QED BY <2>1, <1>2, <1>3, SumOfMore
<1>9. CASE p \in DOMAIN f
  <2>1. Sum(f, DOMAIN f) = Sum(f, R) + f[p]
    BY <1>1, <1>9, SumOfLess
  <2> QED BY <2>1, <1>3, <1>5, <1>6, <1>8, <1>9, SumUpIs
<1>10. CASE p \notin DOMAIN f
  <2>1. R = DOMAIN f
    BY Zenon, <1>1, <1>10
  <2> QED BY <2>1, <1>3, <1>5, <1>6, <1>8, <1>10, SumUpIs
<1> QED BY Zenon, <1>9, <1>10

\* Appending a number to a sequence adds it to the sum.
LEMMA AppendAdds ==
  ASSUME NEW s \in Seq(Nat), NEW n \in Nat
  PROVE  SumUp(Append(s, n)) = SumUp(s) + n
<1>1. PICK t : t = Append(s, n)
  BY Zenon
<1>2. t \in Seq(Nat) /\ Len(t) = Len(s) + 1 /\ t[Len(s) + 1] = n
      /\ \A i \in 1 .. Len(s) : t[i] = s[i]
  BY <1>1
<1>3. DOMAIN s = 1 .. Len(s) /\ Len(s) \in Nat /\ DOMAIN t = 1 .. Len(s) + 1
  BY <1>2
<1>4. PICK R : R = 1 .. Len(s)
  BY Zenon
<1>5. PICK k : k = Len(s) + 1
  BY Zenon
<1>6. DOMAIN t = R \cup {k} /\ k \notin R /\ \A x \in R \cup {k} : t[x] \in Nat
  BY <1>2, <1>3, <1>4, <1>5
<1>7. IsFiniteSet(R)
  <2>1. 1 \in Int /\ Len(s) \in Int
    BY <1>3
  <2> QED BY Zenon, <2>1, <1>4, FS_Interval
<1>8. Sum(t, R \cup {k}) = Sum(t, R) + t[k]
  BY Zenon, <1>6, <1>7, SumOfMore
<1>9. Sum(t, R) = Sum(s, R)
  <2>1. \A x \in R : t[x] = s[x]
    BY Zenon, <1>2, <1>4
  <2> QED BY Zenon, <2>1, SumOfSame
<1> QED BY <1>1, <1>2, <1>3, <1>4, <1>5, <1>6, <1>8, <1>9, SumUpIs, Zenon

\* The sum of an empty function.
LEMMA EmptySum ==
  ASSUME NEW f, DOMAIN f = {}
  PROVE  SumUp(f) = 0
BY Zenon, SumUpIs, SumOfNone

-----------------------------------------------------------------------------

\* Every element of a sequence is in the set it is a sequence of.
LEMMA ElementsOf ==
  ASSUME NEW S, NEW s \in Seq(S)
  PROVE  \A i \in DOMAIN s : s[i] \in S
OBVIOUS

\* The areas in numbers.
LEMMA VmasHold ==
  /\ Len(Vmas) \in Nat /\ DOMAIN Vmas = 1 .. Len(Vmas)
  /\ \A i \in DOMAIN Vmas : Vmas[i].start \in Nat /\ Vmas[i].end \in Nat
  /\ \A i \in DOMAIN Vmas : Vmas[i].start <= Vmas[i].end
  /\ \A i, j \in DOMAIN Vmas : i < j => Vmas[i].end <= Vmas[j].start
<1>1. Vmas \in Seq([start : Nat, end : Nat])
  BY Zenon, SoftConstants
<1>2. Len(Vmas) \in Nat /\ DOMAIN Vmas = 1 .. Len(Vmas)
  BY <1>1
<1>3. \A i \in DOMAIN Vmas : Vmas[i] \in [start : Nat, end : Nat]
  BY <1>1, ElementsOf, Zenon
<1>4. \A i \in DOMAIN Vmas : Vmas[i].start \in Nat /\ Vmas[i].end \in Nat
  BY Zenon, <1>3
<1> QED BY Zenon, <1>2, <1>4, SoftConstants

\* The copies in their types.
LEMMA CopiesHold ==
  ASSUME SoftTypeOK
  PROVE  /\ Len(copies) \in Nat /\ DOMAIN copies = 1 .. Len(copies)
         /\ \A i \in DOMAIN copies : copies[i].addr \in Pages /\ copies[i].mem \in Contents
<1>1. copies \in Seq([addr : Pages, mem : Contents])
  BY Zenon DEF SoftTypeOK
<1>2. \A i \in DOMAIN copies : copies[i] \in [addr : Pages, mem : Contents]
  BY <1>1, ElementsOf, Zenon
<1>3. \A i \in DOMAIN copies : copies[i].addr \in Pages /\ copies[i].mem \in Contents
  BY Zenon, <1>2
<1> QED BY <1>1, <1>3

\* The mechanism starts with nothing copied and nothing counted.
LEMMA InitSoft ==
  ASSUME SoftInit
  PROVE  SoftInv
<1>1. copies = <<>> /\ hist = <<>> /\ DOMAIN statistics = {} /\ Len(copies) = 0 /\ Len(hist) = 0
  BY Zenon DEF SoftInit
<1>2. IsFiniteSet(DOMAIN statistics) /\ Cardinality(DOMAIN statistics) = 0
  BY Zenon, <1>1, FS_EmptySet
<1>3. copies \in Seq([addr : Pages, mem : Contents]) /\ hist \in Seq(Nat)
  BY <1>1
<1>4. SoftTypeOK
  BY <1>1, <1>2, <1>3, SoftConstants DEF SoftInit, SoftTypeOK
<1>5. SoftSizes
  BY Zenon, <1>1, <1>2, SoftConstants DEF SoftInit, SoftSizes, Eager
<1>6. MarksInv /\ WalkInv
  BY Zenon, <1>1 DEF SoftInit, MarksInv, WalkInv
<1>7. CopiesAreExact
  BY <1>1 DEF SoftInit, CopiesAreExact, Copied
<1>8. SumUp(statistics) = 0 /\ SumUp(hist) = 0
  BY <1>1, EmptySum
<1>9. StatisticsAgree
  BY <1>1, <1>8 DEF SoftInit, StatisticsAgree
<1> QED BY Zenon, <1>4, <1>5, <1>6, <1>7, <1>9 DEF SoftInv, CopiesTheWritten

\* A store marks its page and leaves the copies alone.
LEMMA StoreSoft ==
  ASSUME SoftInv, StorePage
  PROVE  SoftInv'
<1>1. PICK p \in Pages, v \in Contents :
        content' = [content EXCEPT ![p] = v] /\ dirty' = dirty \cup {p} /\ written' = written \cup {p}
  BY Zenon DEF StorePage
<1>2. /\ mode = "run"
      /\ UNCHANGED <<initialized, loops, copies, mode, walkVars, statVars, before>>
  BY Zenon DEF StorePage
<1>3. SoftTypeOK'
  BY Zenon, <1>1, <1>2 DEF SoftInv, SoftTypeOK, walkVars, statVars
<1>4. SoftSizes'
  BY Zenon, <1>1, <1>2 DEF SoftInv, SoftSizes, walkVars, statVars
<1>5. MarksInv' /\ WalkInv'
  BY Zenon, <1>1, <1>2 DEF SoftInv, MarksInv, WalkInv
<1>6. CopiesAreExact'
  <2>1. \A i \in DOMAIN copies : copies[i].addr \in Pages
    BY Zenon, CopiesHold DEF SoftInv
  <2>2. \A q \in Pages : q \notin written' => q \notin written /\ content'[q] = content[q]
    BY Zenon, <1>1 DEF SoftInv, SoftTypeOK
  <2>3. Copied' = Copied
    BY Zenon, <1>2 DEF Copied
  <2> QED BY Zenon, <1>1, <1>2, <2>1, <2>2, <2>3
    DEF SoftInv, CopiesTheWritten, CopiesAreExact
<1>7. StatisticsAgree'
  <2>1. SumUp(statistics)' = SumUp(statistics) /\ SumUp(hist)' = SumUp(hist)
    BY Zenon, <1>2 DEF statVars, SumUp
  <2> QED BY Zenon, <1>2, <2>1 DEF SoftInv, CopiesTheWritten, StatisticsAgree, statVars
<1> QED BY Zenon, <1>3, <1>4, <1>5, <1>6, <1>7 DEF SoftInv, CopiesTheWritten

\* A top of the loop between two checkpoints only counts.
LEMMA SkipSoft ==
  ASSUME SoftInv, loops' = loops + 1,
         UNCHANGED <<content, dirty, initialized, copies, mode, walkVars, statVars, written, before>>
  PROVE  SoftInv'
<1>1. SoftTypeOK'
  BY Zenon DEF SoftInv, SoftTypeOK, walkVars, statVars
<1>2. SoftSizes'
  BY DEF SoftInv, SoftSizes, statVars
<1>3. MarksInv'
  BY Zenon DEF SoftInv, MarksInv
<1>4. Copied' = Copied /\ Passed' = Passed
  BY Zenon DEF Copied, Passed, walkVars
<1>5. WalkInv'
  BY Zenon, <1>4 DEF SoftInv, WalkInv, walkVars, Once
<1>6. CopiesAreExact'
  BY Zenon, <1>4 DEF SoftInv, CopiesTheWritten, CopiesAreExact
<1>7. StatisticsAgree'
  <2>1. SumUp(statistics)' = SumUp(statistics) /\ SumUp(hist)' = SumUp(hist)
    BY Zenon DEF statVars, SumUp
  <2> QED BY Zenon, <2>1 DEF SoftInv, CopiesTheWritten, StatisticsAgree, statVars
<1> QED BY Zenon, <1>1, <1>2, <1>3, <1>5, <1>6, <1>7 DEF SoftInv, CopiesTheWritten

\* No page of an area lies before the first area.
LEMMA NothingBefore ==
  ASSUME Vmas # <<>>
  PROVE  {p \in Walked : p < Vmas[1].start} = {}
<1>1. 1 \in DOMAIN Vmas
  BY VmasHold, SoftConstants
<1>2. \A i \in DOMAIN Vmas : i = 1 \/ 1 < i
  BY VmasHold
<1>3. \A i \in DOMAIN Vmas : Vmas[1].start <= Vmas[i].start
  BY <1>1, <1>2, VmasHold
<1>4. ASSUME NEW p \in Walked PROVE ~ (p < Vmas[1].start)
  <2>1. PICK i \in DOMAIN Vmas : p \in Area(i)
    BY Zenon, <1>4 DEF Walked
  <2> QED BY <1>1, <1>3, <2>1, VmasHold DEF Area
<1> QED BY Zenon, <1>4

\* A function on the first numbers is a sequence.
LEMMA FunIsSeq ==
  ASSUME NEW n \in Nat, NEW f \in [1 .. n -> Nat]
  PROVE  f \in Seq(Nat) /\ Len(f) = n
OBVIOUS

\* The sum of the histogram is a number.
LEMMA HistSum ==
  ASSUME SoftTypeOK
  PROVE  SumUp(hist) \in Nat
<1>1. hist \in Seq(Nat) /\ Len(hist) \in Nat /\ DOMAIN hist = 1 .. Len(hist)
  BY DEF SoftTypeOK
<1>2. \A i \in DOMAIN hist : hist[i] \in Nat
  BY <1>1
<1>3. 1 \in Int /\ Len(hist) \in Int
  BY <1>1
<1>4. IsFiniteSet(1 .. Len(hist))
  BY Zenon, <1>3, FS_Interval
<1>5. Sum(hist, DOMAIN hist) \in Nat
  BY Zenon, <1>1, <1>2, <1>4, SumIsNat
<1> QED BY Zenon, <1>5, SumUpIs

\* The histogram after a checkpoint: it keeps its type, and while it has not
\* started again its sum has grown by the copies of the checkpoint before.
LEMMA HistoryHolds ==
  ASSUME SoftTypeOK, SoftSizes, RecordHistory
  PROVE  /\ hist' \in Seq(Nat) /\ Len(hist') <= PAGE_NUM_HIST_SIZE
         /\ hist_len' \in Nat /\ hist_len' < PAGE_NUM_HIST_SIZE
         /\ hist_len' = Len(hist') \/ Len(hist') = PAGE_NUM_HIST_SIZE
         /\ stats_enabled /\ hist_len' = Len(hist') =>
              hist_len = Len(hist) /\ SumUp(hist') = SumUp(hist) + Len(copies)
<1>1. /\ hist \in Seq(Nat) /\ Len(hist) \in Nat /\ Len(hist) <= PAGE_NUM_HIST_SIZE
      /\ hist_len \in Nat /\ hist_len < PAGE_NUM_HIST_SIZE
      /\ hist_len = Len(hist) \/ Len(hist) = PAGE_NUM_HIST_SIZE
      /\ PAGE_NUM_HIST_SIZE \in Nat \ {0} /\ Len(copies) \in Nat
  BY Zenon, SoftConstants, CopiesHold DEF SoftTypeOK, SoftSizes
<1>2. CASE ~ stats_enabled
  BY Zenon, <1>1, <1>2 DEF RecordHistory
<1>3. CASE stats_enabled /\ hist_len = Len(hist)
  <2>1. hist' = Append(hist, Len(copies))
        /\ hist_len' = IF hist_len + 1 >= PAGE_NUM_HIST_SIZE THEN 0 ELSE hist_len + 1
    BY Zenon, <1>3 DEF RecordHistory
  <2>2. hist' \in Seq(Nat) /\ Len(hist') = Len(hist) + 1
    BY <1>1, <2>1
  <2>3. SumUp(hist') = SumUp(hist) + Len(copies)
    BY Zenon, <1>1, <2>1, AppendAdds
  <2> QED BY <1>1, <1>3, <2>1, <2>2, <2>3
<1>4. CASE stats_enabled /\ hist_len # Len(hist)
  <2>1. hist' = [hist EXCEPT ![hist_len + 1] = Len(copies)]
    BY Zenon, <1>4 DEF RecordHistory
  <2>0. hist_len' = IF hist_len + 1 >= PAGE_NUM_HIST_SIZE THEN 0 ELSE hist_len + 1
    BY Zenon, <1>4 DEF RecordHistory
  <2>2. hist' \in Seq(Nat) /\ Len(hist') = Len(hist)
    <3>1. hist \in [1 .. Len(hist) -> Nat]
      BY <1>1
    <3>2. hist' \in [1 .. Len(hist) -> Nat]
      BY <1>1, <2>1, <3>1, Zenon
    <3>3. Len(hist) \in Nat
      BY Zenon, <1>1
    <3> QED BY <3>2, <3>3, FunIsSeq, Zenon
  <2>3. Len(hist') = PAGE_NUM_HIST_SIZE
    BY Zenon, <1>1, <1>4, <2>2
  <2>4. hist_len' \in Nat /\ hist_len' < PAGE_NUM_HIST_SIZE
    BY <1>1, <2>0
  <2> QED BY <1>1, <2>2, <2>3, <2>4
<1> QED BY Zenon, <1>2, <1>3, <1>4

\* A checkpoint begins in front of the first area, with the marks of the
\* pages written since the one before.
LEMMA BeginSoft ==
  ASSUME SoftInv, mode = "run", loops' = loops + 1, initialized' = TRUE,
         IF initialized THEN UNCHANGED <<dirty, written>> ELSE dirty' = {} /\ written' = {},
         RecordHistory, UNCHANGED <<statistics, num_cows, content>>,
         copies' = <<>>, before' = written', mode' = "walk", vma' = 1, map' = NoEntries,
         addr' = IF Vmas = <<>> THEN 0 ELSE Vmas[1].start
  PROVE  SoftInv'
<1>1. /\ hist' \in Seq(Nat) /\ Len(hist') <= PAGE_NUM_HIST_SIZE
      /\ hist_len' \in Nat /\ hist_len' < PAGE_NUM_HIST_SIZE
      /\ hist_len' = Len(hist') \/ Len(hist') = PAGE_NUM_HIST_SIZE
      /\ stats_enabled /\ hist_len' = Len(hist') =>
           hist_len = Len(hist) /\ SumUp(hist') = SumUp(hist) + Len(copies)
  BY Zenon, HistoryHolds DEF SoftInv
<1>2. copies' \in Seq([addr : Pages, mem : Contents])
  OBVIOUS
<1>3. Len(copies') = 0 /\ DOMAIN copies' = {} /\ DOMAIN map' = {}
  BY DEF NoEntries
<1>4. Vmas # <<>> => 1 \in DOMAIN Vmas
  BY VmasHold, SoftConstants
<1>5. addr' \in Nat
  BY Zenon, <1>4, VmasHold
<1>6. SoftTypeOK'
  BY <1>1, <1>2, <1>3, <1>5, SoftConstants DEF SoftInv, SoftTypeOK
<1>7. dirty' = written' /\ written' \subseteq Pages
  BY Zenon DEF SoftInv, MarksInv, SoftSizes
<1>8. SoftSizes'
  BY <1>1, <1>7 DEF SoftInv, SoftSizes
<1>9. MarksInv'
  BY Zenon DEF MarksInv
<1>10. vma' <= Len(Vmas) => Vmas # <<>>
  BY SoftConstants
<1>11. Passed' = {}
  <2>1. CASE Vmas = <<>>
    BY <2>1 DEF Passed, Walked
  <2>2. CASE Vmas # <<>>
    <3>1. vma' <= Len(Vmas)
      BY <2>2, <1>4, VmasHold
    <3>2. Passed' = {p \in Walked : p < Vmas[1].start}
      BY Zenon, <3>1, <2>2 DEF Passed
    <3> QED BY Zenon, <3>2, <2>2, NothingBefore
  <2> QED BY Zenon, <2>1, <2>2
<1>12. Copied' = {}
  BY Zenon, <1>3 DEF Copied
<1>13. WalkInv'
  <2>1. vma' \in 1 .. Len(Vmas) + 1
    BY VmasHold
  <2>2. vma' <= Len(Vmas) => Vmas[vma'].start <= addr' /\ addr' <= Vmas[vma'].end
    BY <1>4, <1>10, VmasHold
  <2> QED BY Zenon, <1>3, <1>7, <1>11, <1>12, <2>1, <2>2 DEF WalkInv, Once
<1>14. CopiesAreExact'
  BY Zenon DEF CopiesAreExact
<1>15. StatisticsAgree'
  <2>1. SumUp(statistics)' = SumUp(statistics)
    BY Zenon DEF SumUp
  <2>2. SumUp(hist)' = SumUp(hist')
    BY Zenon DEF SumUp
  <2>3. num_cows \in Nat
    BY Zenon DEF SoftInv, SoftSizes
  <2> QED BY <1>1, <1>3, <2>1, <2>2, <2>3 DEF SoftInv, CopiesTheWritten, StatisticsAgree
<1> QED BY Zenon, <1>6, <1>8, <1>9, <1>13, <1>14, <1>15 DEF SoftInv, CopiesTheWritten

\* What the walk knows while it is in an area.
LEMMA InArea ==
  ASSUME SoftInv, InVma
  PROVE  /\ mode = "walk" /\ vma \in DOMAIN Vmas /\ vma <= Len(Vmas) /\ addr \in Nat
         /\ Vmas[vma].start <= addr /\ addr <= Vmas[vma].end
         /\ Vmas[vma].start \in Nat /\ Vmas[vma].end \in Nat
         /\ initialized /\ dirty = before /\ written = before
         /\ Passed = {p \in Walked : p < addr}
<1>1. mode = "walk" /\ vma <= Len(Vmas)
  BY Zenon DEF InVma
<1>2. vma \in 1 .. Len(Vmas) + 1
  BY Zenon, <1>1 DEF SoftInv, WalkInv
<1>3. vma \in DOMAIN Vmas
  BY <1>1, <1>2, VmasHold
<1>4. Vmas[vma].start <= addr /\ addr <= Vmas[vma].end /\ addr \in Nat
  BY Zenon, <1>1 DEF SoftInv, WalkInv, SoftTypeOK
<1>5. Passed = {p \in Walked : p < addr}
  BY Zenon, <1>1 DEF Passed
<1>6. initialized /\ dirty = before /\ written = before
  BY Zenon, <1>1 DEF SoftInv, WalkInv
<1> QED BY Zenon, <1>1, <1>3, <1>4, <1>5, <1>6, VmasHold

\* Reading a chunk of the page map of the area.
LEMMA ChunkSoft ==
  ASSUME SoftInv, Chunk
  PROVE  SoftInv'
<1>1. InVma /\ addr < Vmas[vma].end
      /\ map' = [p \in util_pagemap_get(addr) |-> p \in dirty]
  BY Zenon DEF Chunk
<1>2. UNCHANGED <<content, dirty, initialized, loops, copies, mode, vma, addr, statVars,
                  written, before>>
  BY Zenon DEF Chunk
<1>3. PICK k : k = ChunkEnd(addr) - 1
  BY Zenon
<1>4. k \in Area(vma) /\ addr <= k
  <2>1. CHUNK \in Nat /\ CHUNK >= 1
    BY SoftConstants
  <2>2. /\ addr \in Nat /\ Vmas[vma].start \in Nat /\ Vmas[vma].end \in Nat
        /\ Vmas[vma].start <= addr /\ addr < Vmas[vma].end
    BY Zenon, <1>1, InArea
  <2> QED BY <1>3, <2>1, <2>2 DEF ChunkEnd, Area
<1>a. DOMAIN map' = util_pagemap_get(addr) /\ \A p \in DOMAIN map' : map'[p] <=> p \in dirty
  BY <1>1, Zenon
<1>5. DOMAIN map' = addr .. k /\ \A p \in DOMAIN map' : map'[p] <=> p \in dirty
  BY Zenon, <1>a, <1>3 DEF util_pagemap_get
<1>6. SoftTypeOK' /\ SoftSizes' /\ MarksInv'
  BY Zenon, <1>2 DEF SoftInv, SoftTypeOK, SoftSizes, MarksInv, statVars
<1>7. Copied' = Copied /\ Passed' = Passed /\ Area(vma)' = Area(vma)
  BY Zenon, <1>2 DEF Copied, Passed, Area
<1>8. WalkInv'
  <2>1. mode = "walk" /\ vma <= Len(Vmas)
    BY Zenon, <1>1 DEF InVma
  <2>2. DOMAIN map' # {} => \E j \in Area(vma)' : addr' <= j /\ DOMAIN map' = addr' .. j
    BY Zenon, <1>2, <1>4, <1>5, <1>7
  <2> QED BY Zenon, <1>2, <1>5, <1>7, <2>1, <2>2 DEF SoftInv, WalkInv, Once
<1>9. CopiesAreExact'
  BY Zenon, <1>1, <1>2 DEF CopiesAreExact, InVma
<1>10. StatisticsAgree'
  <2>1. SumUp(statistics)' = SumUp(statistics) /\ SumUp(hist)' = SumUp(hist)
    BY Zenon, <1>2 DEF statVars, SumUp
  <2> QED BY Zenon, <1>2, <2>1 DEF SoftInv, CopiesTheWritten, StatisticsAgree, statVars
<1> QED BY Zenon, <1>6, <1>8, <1>9, <1>10 DEF SoftInv, CopiesTheWritten

\* The first entry of what remains of a chunk is that of the next address.
LEMMA EntryIsNext ==
  ASSUME SoftInv, InVma, DOMAIN map # {}
  PROVE  /\ addr \in Walked /\ addr \in Pages /\ addr \in DOMAIN map
         /\ addr + 1 <= Vmas[vma].end
         /\ map[addr] <=> addr \in before
<1>1. PICK k \in Area(vma) : addr <= k /\ DOMAIN map = addr .. k
  BY Zenon, InArea DEF SoftInv, WalkInv
<1>2. addr \in Area(vma) /\ addr + 1 <= Vmas[vma].end
  BY <1>1, InArea DEF Area
<1>3. addr \in DOMAIN map
  BY <1>1, InArea
<1>4. addr \in Walked
  BY Zenon, <1>2, InArea DEF Walked
<1>5. addr \in Pages
  BY Zenon, <1>2, InArea, SoftConstants DEF Area
<1>6. map[addr] <=> addr \in dirty
  BY Zenon, <1>3, InArea DEF SoftInv, WalkInv
<1> QED BY Zenon, <1>2, <1>3, <1>4, <1>5, <1>6, InArea

\* Going to the next entry passes the page.
LEMMA EntryPassed ==
  ASSUME SoftInv, InVma, DOMAIN map # {}, NextEntry, vma' = vma
  PROVE  /\ Passed' = Passed \cup {addr} /\ addr \notin Passed
         /\ addr' \in Nat /\ Vmas[vma].start <= addr' /\ addr' <= Vmas[vma].end
         /\ DOMAIN map' # {} => \E k \in Area(vma) : addr' <= k /\ DOMAIN map' = addr' .. k
         /\ \A p \in DOMAIN map' : map'[p] <=> p \in dirty
<1>1. PICK k \in Area(vma) : addr <= k /\ DOMAIN map = addr .. k
  BY Zenon, InArea DEF SoftInv, WalkInv
<1>2. k \in Nat
  BY <1>1, InArea DEF Area
<1>3. addr' = addr + 1 /\ DOMAIN map' = DOMAIN map \ {addr}
      /\ \A p \in DOMAIN map' : map'[p] = map[p]
  BY Zenon DEF NextEntry
<1>4. DOMAIN map' = addr' .. k
  BY <1>1, <1>2, <1>3, InArea
<1>5. DOMAIN map' # {} => addr' <= k
  BY <1>2, <1>3, <1>4, InArea
<1>6. \A p \in DOMAIN map' : map'[p] <=> p \in dirty
  <2>1. \A p \in DOMAIN map : map[p] <=> p \in dirty
    BY Zenon, InArea DEF SoftInv, WalkInv
  <2> QED BY Zenon, <2>1, <1>3
<1>7. \A p \in Walked : p \in Nat
  BY VmasHold DEF Walked, Area
<1>8. Passed' = {p \in Walked : p < addr + 1}
  BY Zenon, <1>3, InArea DEF Passed
<1>9. Passed' = Passed \cup {addr} /\ addr \notin Passed
  BY <1>7, <1>8, InArea, EntryIsNext
<1> QED BY <1>1, <1>3, <1>4, <1>5, <1>6, <1>9, InArea, EntryIsNext

\* Passing a page that is not marked.
LEMMA UnmarkedSoft ==
  ASSUME SoftInv, InVma, DOMAIN map # {}, ~ map[addr], NextEntry,
         UNCHANGED <<content, dirty, initialized, loops, copies, mode, vma, statVars,
                     written, before>>
  PROVE  SoftInv'
<1>1. SoftTypeOK' /\ SoftSizes' /\ MarksInv'
  BY Zenon, EntryPassed DEF SoftInv, SoftTypeOK, SoftSizes, MarksInv, statVars
<1>2. Copied' = Copied /\ Area(vma)' = Area(vma)
  BY Zenon DEF Copied, Area
<1>3. before \cap Passed' = before \cap Passed
  BY Zenon, EntryPassed, EntryIsNext
<1>4. mode = "walk"
  BY Zenon, InArea
<1>5. WalkInv'
  BY Zenon, <1>2, <1>3, <1>4, EntryPassed, InArea DEF SoftInv, WalkInv, Once
<1>6. CopiesAreExact'
  BY Zenon, <1>4 DEF CopiesAreExact
<1>7. StatisticsAgree'
  <2>1. SumUp(statistics)' = SumUp(statistics) /\ SumUp(hist)' = SumUp(hist)
    BY Zenon DEF statVars, SumUp
  <2> QED BY Zenon, <2>1 DEF SoftInv, CopiesTheWritten, StatisticsAgree, statVars
<1> QED BY Zenon, <1>1, <1>5, <1>6, <1>7 DEF SoftInv, CopiesTheWritten

\* A walk that aborts leaves everything in its type.
LEMMA AbortSoft ==
  ASSUME SoftInv, mode' = "abort", initialized,
         DOMAIN statistics' \subseteq Pages, IsFiniteSet(DOMAIN statistics'),
         statistics' \in [DOMAIN statistics' -> Nat],
         Cardinality(DOMAIN statistics') <= PAGE_STAT_SIZE,
         UNCHANGED <<content, dirty, initialized, loops, copies, vma, addr, map, hist, hist_len,
                     num_cows, written, before>>
  PROVE  SoftInv'
<1>1. SoftTypeOK'
  BY Zenon DEF SoftInv, SoftTypeOK
<1>2. SoftSizes'
  BY Zenon DEF SoftInv, SoftSizes
<1>3. MarksInv' /\ WalkInv' /\ CopiesAreExact' /\ StatisticsAgree'
  BY Zenon DEF MarksInv, WalkInv, CopiesAreExact, StatisticsAgree
<1> QED BY Zenon, <1>1, <1>2, <1>3 DEF SoftInv, CopiesTheWritten

\* Counting a page for the statistics.
LEMMA CountSoft ==
  ASSUME SoftTypeOK, SoftSizes, NEW p \in Pages, CountPage(p), ~ OutOfStatistics(p)
  PROVE  /\ DOMAIN statistics' \subseteq Pages /\ IsFiniteSet(DOMAIN statistics')
         /\ statistics' \in [DOMAIN statistics' -> Nat]
         /\ Cardinality(DOMAIN statistics') <= PAGE_STAT_SIZE
         /\ stats_enabled => SumUp(statistics') = SumUp(statistics) + 1
<1>1. CASE ~ stats_enabled
  BY Zenon, <1>1 DEF CountPage, SoftTypeOK, SoftSizes
<1>2. CASE stats_enabled
  <2>1. DOMAIN statistics' = DOMAIN statistics \cup {p}
    BY Zenon, <1>2 DEF CountPage
  <2>2. \A q \in DOMAIN statistics : statistics[q] \in Nat
    BY Zenon DEF SoftTypeOK
  <2>3. \A q \in DOMAIN statistics : q # p => statistics'[q] = statistics[q]
    BY <1>2, <2>2 DEF CountPage
  <2>4. statistics'[p] = (IF p \in DOMAIN statistics THEN statistics[p] ELSE 0) + 1
    BY Zenon, <1>2, <2>2 DEF CountPage
  <2>5. IsFiniteSet(DOMAIN statistics)
    BY Zenon DEF SoftSizes
  <2>6. SumUp(statistics') = SumUp(statistics) + 1
    BY Zenon, <2>1, <2>2, <2>3, <2>4, <2>5, CountAddsOne
  <2>7. \A q \in DOMAIN statistics' : statistics'[q] \in Nat
    BY <2>1, <2>2, <2>3, <2>4
  <2>8. statistics' \in [DOMAIN statistics' -> Nat]
    BY Zenon, <1>2, <2>7 DEF CountPage
  <2>9. Cardinality(DOMAIN statistics) \in Nat
    BY Zenon, <2>5, FS_CardinalityType
  <2>10. /\ IsFiniteSet(DOMAIN statistics \cup {p})
         /\ Cardinality(DOMAIN statistics \cup {p}) =
              IF p \in DOMAIN statistics THEN Cardinality(DOMAIN statistics)
              ELSE Cardinality(DOMAIN statistics) + 1
    BY Zenon, <2>5, FS_AddElement
  <2>11. Cardinality(DOMAIN statistics') <= PAGE_STAT_SIZE
    BY <1>2, <2>1, <2>9, <2>10, SoftConstants DEF SoftTypeOK, OutOfStatistics
  <2> QED BY Zenon, <2>1, <2>6, <2>8, <2>10, <2>11 DEF SoftTypeOK
<1> QED BY Zenon, <1>1, <1>2

\* The callback's copy of a marked page.
CopyMarked ==
  /\ InVma /\ DOMAIN map # {} /\ map[addr] /\ ~ OutOfStatistics(addr) /\ CountPage(addr)
  /\ ~ (Len(copies) >= SOFTDIRTY_MAX_PAGES)
  /\ copies' = Append(copies, [addr |-> addr, mem |-> content[addr]])
  /\ num_cows' = num_cows + 1 /\ NextEntry
  /\ UNCHANGED <<content, dirty, initialized, loops, mode, vma, hist, hist_len, written, before>>

\* Copying a marked page.
LEMMA MarkedSoft ==
  ASSUME SoftInv, CopyMarked
  PROVE  SoftInv'
<1>a. /\ InVma /\ DOMAIN map # {} /\ map[addr] /\ NextEntry
      /\ UNCHANGED <<content, dirty, initialized, loops, mode, vma, hist, hist_len, written, before>>
  BY Zenon DEF CopyMarked
<1>b. /\ Passed' = Passed \cup {addr} /\ addr \notin Passed
      /\ addr' \in Nat /\ Vmas[vma].start <= addr' /\ addr' <= Vmas[vma].end
      /\ DOMAIN map' # {} => \E k \in Area(vma) : addr' <= k /\ DOMAIN map' = addr' .. k
      /\ \A p \in DOMAIN map' : map'[p] <=> p \in dirty
  BY Zenon, <1>a, EntryPassed
<1>1. addr \in Pages /\ addr \in before
  BY Zenon, <1>a, EntryIsNext
<1>2. content[addr] \in Contents
  BY Zenon, <1>1 DEF SoftInv, SoftTypeOK
<1>3. PICK e : e = [addr |-> addr, mem |-> content[addr]]
  BY Zenon
<1>4. e \in [addr : Pages, mem : Contents] /\ e.addr = addr /\ e.mem = content[addr]
  BY Zenon, <1>1, <1>2, <1>3
<1>5. PICK R : R = [addr : Pages, mem : Contents]
  BY Zenon
<1>6. PICK n : n = Len(copies)
  BY Zenon
<1>7. copies \in Seq(R) /\ e \in R /\ copies' = Append(copies, e)
  BY <1>3, <1>4, <1>5, Zenon DEF SoftInv, SoftTypeOK, CopyMarked
<1>8. /\ copies' \in Seq(R) /\ n \in Nat /\ Len(copies') = n + 1
      /\ DOMAIN copies = 1 .. n /\ DOMAIN copies' = 1 .. n + 1
      /\ copies'[n + 1] = e /\ \A i \in 1 .. n : copies'[i] = copies[i]
  BY <1>6, <1>7
<1>9. Len(copies') <= SOFTDIRTY_MAX_PAGES
  BY <1>6, <1>8, SoftConstants DEF CopyMarked
<1>10. /\ DOMAIN statistics' \subseteq Pages /\ IsFiniteSet(DOMAIN statistics')
       /\ statistics' \in [DOMAIN statistics' -> Nat]
       /\ Cardinality(DOMAIN statistics') <= PAGE_STAT_SIZE
       /\ stats_enabled => SumUp(statistics') = SumUp(statistics) + 1
  BY Zenon, <1>1, CountSoft DEF SoftInv, CopyMarked
<1>11. SoftTypeOK'
  BY Zenon, <1>a, <1>b, <1>5, <1>8, <1>9, <1>10 DEF SoftInv, SoftTypeOK
<1>12. SoftSizes'
  BY <1>a, <1>10 DEF SoftInv, SoftSizes, CopyMarked
<1>13. mode = "walk" /\ initialized
  BY Zenon, <1>a, InArea
<1>14. MarksInv'
  BY Zenon, <1>a, <1>13 DEF MarksInv
<1>15. Copied' = Copied \cup {addr}
  <2>1. \A i \in DOMAIN copies' : copies'[i].addr = addr \/ copies'[i].addr \in Copied
    <3> SUFFICES ASSUME NEW i \in 1 .. n + 1
                 PROVE  copies'[i].addr = addr \/ copies'[i].addr \in Copied
      BY Zenon, <1>8
    <3>1. CASE i = n + 1
      BY Zenon, <3>1, <1>4, <1>8
    <3>2. CASE i # n + 1
      <4>1. i \in DOMAIN copies /\ copies'[i] = copies[i]
        BY <3>2, <1>8
      <4> QED BY Zenon, <4>1 DEF Copied
    <3> QED BY <3>1, <3>2, Zenon
  <2>2. addr \in Copied'
    <3>1. n + 1 \in DOMAIN copies' /\ copies'[n + 1].addr = addr
      BY <1>4, <1>8
    <3> QED BY Zenon, <3>1 DEF Copied
  <2>3. \A i \in DOMAIN copies : copies[i].addr \in Copied'
    <3>1. \A i \in DOMAIN copies : i \in DOMAIN copies' /\ copies'[i] = copies[i]
      BY <1>8
    <3> QED BY Zenon, <3>1 DEF Copied
  <2> QED BY Zenon, <2>1, <2>2, <2>3 DEF Copied
<1>16. Copied = before \cap Passed
  BY Zenon, <1>13 DEF SoftInv, WalkInv
<1>17. addr \notin Copied
  BY Zenon, <1>16, <1>b
<1>18. \A i \in 1 .. n : copies[i].addr # addr
  BY Zenon, <1>8, <1>17 DEF Copied
<1>19. Once'
  <2>1. Once
    BY Zenon, <1>13 DEF SoftInv, WalkInv
  <2> SUFFICES ASSUME NEW i \in 1 .. n + 1, NEW j \in 1 .. n + 1,
                      copies'[i].addr = copies'[j].addr
               PROVE  i = j
    BY Zenon, <1>8 DEF Once
  <2>2. CASE i \in 1 .. n /\ j \in 1 .. n
    BY Zenon, <2>1, <2>2, <1>8 DEF Once
  <2>3. CASE i = n + 1 /\ j \in 1 .. n
    BY Zenon, <2>3, <1>4, <1>8, <1>18
  <2>4. CASE j = n + 1 /\ i \in 1 .. n
    BY Zenon, <2>4, <1>4, <1>8, <1>18
  <2> QED BY <2>2, <2>3, <2>4, <1>8
<1>20. \A i \in DOMAIN copies' : copies'[i].mem = content'[copies'[i].addr]
  <2>1. \A i \in DOMAIN copies : copies[i].mem = content[copies[i].addr]
    BY Zenon, <1>13 DEF SoftInv, WalkInv
  <2>2. \A i \in 1 .. n + 1 : i = n + 1 \/ i \in DOMAIN copies
    BY <1>8
  <2> QED BY Zenon, <1>a, <2>1, <2>2, <1>4, <1>8
<1>21. WalkInv'
  <2>1. Copied' = before' \cap Passed'
    BY Zenon, <1>a, <1>b, <1>1, <1>15, <1>16
  <2>2. Area(vma)' = Area(vma)
    BY Zenon, <1>a DEF Area
  <2> QED BY Zenon, <1>a, <1>b, <1>13, <1>19, <1>20, <2>1, <2>2
    DEF SoftInv, WalkInv, InVma
<1>22. CopiesAreExact'
  BY Zenon, <1>a, <1>13 DEF CopiesAreExact
<1>23. StatisticsAgree'
  <2>1. SumUp(statistics)' = SumUp(statistics') /\ SumUp(hist)' = SumUp(hist)
    BY Zenon, <1>a DEF SumUp
  <2>2. num_cows \in Nat
    BY Zenon DEF SoftInv, SoftSizes
  <2>3. stats_enabled => num_cows = SumUp(statistics)
    BY Zenon, <1>13 DEF SoftInv, CopiesTheWritten, StatisticsAgree
  <2>4. stats_enabled /\ hist_len = Len(hist) => SumUp(hist) + n = num_cows
    BY Zenon, <1>6, <1>13 DEF SoftInv, CopiesTheWritten, StatisticsAgree
  <2>5. SumUp(hist) \in Nat
    BY Zenon, HistSum DEF SoftInv
  <2>6. num_cows' = num_cows + 1
    BY Zenon DEF CopyMarked
  <2> QED BY <1>a, <1>8, <1>10, <2>1, <2>2, <2>3, <2>4, <2>5, <2>6 DEF StatisticsAgree
<1> QED BY Zenon, <1>11, <1>12, <1>14, <1>21, <1>22, <1>23 DEF SoftInv, CopiesTheWritten

\* One entry of the page map.
LEMMA VisitSoft ==
  ASSUME SoftInv, Visit
  PROVE  SoftInv'
<1>1. /\ InVma /\ DOMAIN map # {}
      /\ UNCHANGED <<content, dirty, initialized, loops, vma, hist, hist_len, written, before>>
  BY Zenon DEF Visit
<1>2. CASE ~ map[addr] /\ NextEntry /\ UNCHANGED <<copies, statistics, num_cows, mode>>
  BY Zenon, <1>1, <1>2, UnmarkedSoft DEF statVars
<1>3. CASE /\ map[addr] /\ OutOfStatistics(addr)
           /\ mode' = "abort" /\ UNCHANGED <<copies, statistics, num_cows, addr, map>>
  <2>1. DOMAIN statistics' = DOMAIN statistics /\ DOMAIN statistics \subseteq Pages
        /\ statistics' \in [DOMAIN statistics' -> Nat] /\ IsFiniteSet(DOMAIN statistics')
        /\ Cardinality(DOMAIN statistics') <= PAGE_STAT_SIZE
    BY Zenon, <1>3 DEF SoftInv, SoftTypeOK, SoftSizes
  <2> QED BY Zenon, <1>1, <1>3, <2>1, InArea, AbortSoft
<1>4. CASE /\ map[addr] /\ ~ OutOfStatistics(addr) /\ CountPage(addr)
           /\ Len(copies) >= SOFTDIRTY_MAX_PAGES
           /\ mode' = "abort" /\ UNCHANGED <<copies, num_cows, addr, map>>
  <2>1. addr \in Pages
    BY Zenon, <1>1, EntryIsNext
  <2>2. /\ DOMAIN statistics' \subseteq Pages /\ IsFiniteSet(DOMAIN statistics')
        /\ statistics' \in [DOMAIN statistics' -> Nat]
        /\ Cardinality(DOMAIN statistics') <= PAGE_STAT_SIZE
    BY Zenon, <1>4, <2>1, CountSoft DEF SoftInv
  <2> QED BY Zenon, <1>1, <1>4, <2>2, InArea, AbortSoft
<1>5. CASE /\ map[addr] /\ ~ OutOfStatistics(addr) /\ CountPage(addr)
           /\ ~ (Len(copies) >= SOFTDIRTY_MAX_PAGES)
           /\ copies' = Append(copies, [addr |-> addr, mem |-> content[addr]])
           /\ num_cows' = num_cows + 1 /\ NextEntry /\ UNCHANGED mode
  BY Zenon, <1>1, <1>5, MarkedSoft DEF CopyMarked
<1> QED BY Zenon, <1>2, <1>3, <1>4, <1>5 DEF Visit

\* Areas come by address, so the end of one is in front of all later ones.
LEMMA AreaPassed ==
  ASSUME SoftInv, InVma, addr = Vmas[vma].end
  PROVE  /\ vma = Len(Vmas) => Passed = Walked
         /\ vma < Len(Vmas) => Passed = {p \in Walked : p < Vmas[vma + 1].start}
<1>1. Passed = {p \in Walked : p < addr} /\ vma \in DOMAIN Vmas /\ addr \in Nat
  BY Zenon, InArea
<1>2. ASSUME NEW p \in Walked
      PROVE  /\ p \in Nat /\ (vma = Len(Vmas) => p < addr)
             /\ vma < Len(Vmas) => (p < Vmas[vma + 1].start <=> p < addr)
  <2>1. PICK i \in DOMAIN Vmas : p \in Area(i)
    BY Zenon, <1>2 DEF Walked
  <2>2. p \in Nat /\ Vmas[i].start <= p /\ p < Vmas[i].end
    BY <2>1, VmasHold DEF Area
  <2>3. i <= vma => Vmas[i].end <= addr
    <3>1. CASE i < vma
      <4>1. Vmas[i].end <= Vmas[vma].start /\ Vmas[vma].start <= Vmas[vma].end
        BY Zenon, <3>1, <1>1, <2>1, VmasHold
      <4> QED BY <4>1, <1>1, <2>1, VmasHold
    <3>2. CASE i = vma
      BY <3>2, <1>1
    <3> QED BY <3>1, <3>2, <1>1, <2>1, VmasHold
  <2>4. vma < Len(Vmas) => vma + 1 \in DOMAIN Vmas /\ addr <= Vmas[vma + 1].start
    <3> SUFFICES ASSUME vma < Len(Vmas)
                 PROVE  vma + 1 \in DOMAIN Vmas /\ addr <= Vmas[vma + 1].start
      OBVIOUS
    <3>1. vma + 1 \in DOMAIN Vmas /\ vma < vma + 1
      BY <1>1, VmasHold
    <3> QED BY Zenon, <3>1, <1>1, VmasHold
  <2>5. i > vma => vma < Len(Vmas) /\ Vmas[vma + 1].start <= Vmas[i].start
    <3> SUFFICES ASSUME i > vma
                 PROVE  vma < Len(Vmas) /\ Vmas[vma + 1].start <= Vmas[i].start
      OBVIOUS
    <3>1. vma < Len(Vmas)
      BY <1>1, <2>1, VmasHold
    <3>2. CASE i = vma + 1
      BY <3>1, <3>2, <2>1, VmasHold
    <3>3. CASE vma + 1 < i
      <4>1. Vmas[vma + 1].end <= Vmas[i].start /\ Vmas[vma + 1].start <= Vmas[vma + 1].end
        BY Zenon, <3>1, <3>3, <2>1, <2>4, VmasHold
      <4> QED BY <3>1, <4>1, <2>1, <2>4, VmasHold
    <3> QED BY <3>1, <3>2, <3>3, <1>1, <2>1, VmasHold
  <2>6. i \in Nat /\ vma \in Nat
    BY <1>1, <2>1, VmasHold
  <2>7. CASE i <= vma
    <3>1. p < addr
      BY <2>2, <2>3, <2>7, <1>1, <2>1, VmasHold
    <3>2. vma < Len(Vmas) => p < Vmas[vma + 1].start
      BY <3>1, <2>2, <2>4, <1>1, VmasHold
    <3> QED BY Zenon, <2>2, <3>1, <3>2
  <2>8. CASE i > vma
    <3>1. vma < Len(Vmas) /\ Vmas[vma + 1].start <= p /\ addr <= p
      BY <2>2, <2>4, <2>5, <2>8, <1>1, <2>1, VmasHold
    <3> QED BY <3>1, <2>2, <2>4, <1>1, VmasHold
  <2> QED BY <2>6, <2>7, <2>8
<1> QED BY Zenon, <1>1, <1>2

\* Going to the next area.
LEMMA AreaSoft ==
  ASSUME SoftInv, NextVma
  PROVE  SoftInv'
<1>1. /\ InVma /\ DOMAIN map = {} /\ addr >= Vmas[vma].end /\ vma' = vma + 1
      /\ addr' = IF vma = Len(Vmas) THEN addr ELSE Vmas[vma + 1].start
      /\ UNCHANGED <<content, dirty, initialized, loops, copies, mode, map, statVars, written, before>>
  BY Zenon DEF NextVma
<1>2. addr = Vmas[vma].end
  <2>1. addr \in Nat /\ Vmas[vma].end \in Nat /\ addr <= Vmas[vma].end
    BY Zenon, <1>1, InArea
  <2> QED BY <1>1, <2>1
<1>n. PICK n : n = Len(Vmas)
  BY Zenon
<1>3. n \in Nat /\ vma \in 1 .. n /\ DOMAIN Vmas = 1 .. n
  <2>1. Len(Vmas) \in Nat /\ DOMAIN Vmas = 1 .. Len(Vmas)
    BY Zenon, VmasHold
  <2>2. vma \in DOMAIN Vmas
    BY Zenon, <1>1, InArea
  <2> QED BY Zenon, <1>n, <2>1, <2>2
<1>4. vma # n => vma < n /\ vma + 1 \in DOMAIN Vmas
  BY <1>3
<1>5. addr' \in Nat
  BY Zenon, <1>n, <1>1, <1>4, InArea, VmasHold
<1>6. SoftTypeOK' /\ SoftSizes' /\ MarksInv'
  BY Zenon, <1>1, <1>5 DEF SoftInv, SoftTypeOK, SoftSizes, MarksInv, statVars
<1>7. Copied' = Copied
  BY Zenon, <1>1 DEF Copied
<1>8. Passed' = Passed
  <2>1. CASE vma = Len(Vmas)
    BY <1>n, <1>1, <1>2, <1>3, <2>1, AreaPassed DEF Passed
  <2>2. CASE vma # Len(Vmas)
    BY <1>n, <1>1, <1>2, <1>3, <1>4, <2>2, AreaPassed DEF Passed
  <2> QED BY Zenon, <2>1, <2>2
<1>9. mode = "walk"
  BY Zenon, <1>1, InArea
<1>10. WalkInv'
  <2>1. vma' \in 1 .. Len(Vmas) + 1
    BY <1>n, <1>1, <1>3
  <2>2. vma' <= Len(Vmas) => Vmas[vma'].start <= addr' /\ addr' <= Vmas[vma'].end
    BY <1>n, <1>1, <1>3, <1>4, VmasHold
  <2> QED BY Zenon, <1>1, <1>7, <1>8, <1>9, <2>1, <2>2 DEF SoftInv, WalkInv, Once
<1>11. CopiesAreExact'
  BY Zenon, <1>1, <1>9 DEF CopiesAreExact
<1>12. StatisticsAgree'
  <2>1. SumUp(statistics)' = SumUp(statistics) /\ SumUp(hist)' = SumUp(hist)
    BY Zenon, <1>1 DEF statVars, SumUp
  <2> QED BY Zenon, <1>1, <2>1 DEF SoftInv, CopiesTheWritten, StatisticsAgree, statVars
<1> QED BY Zenon, <1>6, <1>10, <1>11, <1>12 DEF SoftInv, CopiesTheWritten

\* The end of the walk: all areas are passed, and the marks are cleared.
LEMMA ClearSoft ==
  ASSUME SoftInv, ClearRefs
  PROVE  SoftInv'
<1>1. /\ mode = "walk" /\ vma > Len(Vmas) /\ dirty' = {} /\ mode' = "run" /\ written' = {}
      /\ UNCHANGED <<content, initialized, loops, copies, walkVars, statVars, before>>
  BY Zenon DEF ClearRefs, util_pagemap_clear_refs
<1>2. SoftTypeOK' /\ SoftSizes'
  BY Zenon, <1>1 DEF SoftInv, SoftTypeOK, SoftSizes, walkVars, statVars
<1>3. MarksInv' /\ WalkInv'
  BY Zenon, <1>1 DEF SoftInv, WalkInv, MarksInv
<1>4. vma \in 1 .. Len(Vmas) + 1 /\ Len(Vmas) \in Nat
  BY Zenon, <1>1, VmasHold DEF SoftInv, WalkInv
<1>5. Passed = Walked
  BY <1>1, <1>4 DEF Passed
<1>6. Copied' = Copied
  BY Zenon, <1>1 DEF Copied
<1>7. CopiesAreExact'
  BY Zenon, <1>1, <1>5, <1>6 DEF SoftInv, WalkInv, Once, CopiesAreExact
<1>8. StatisticsAgree'
  <2>1. SumUp(statistics)' = SumUp(statistics) /\ SumUp(hist)' = SumUp(hist)
    BY Zenon, <1>1 DEF statVars, SumUp
  <2> QED BY Zenon, <1>1, <2>1 DEF SoftInv, CopiesTheWritten, StatisticsAgree, statVars
<1> QED BY Zenon, <1>2, <1>3, <1>7, <1>8 DEF SoftInv, CopiesTheWritten

\* Every step of the mechanism keeps the invariant.
LEMMA NextSoft ==
  ASSUME SoftInv, [SoftNext]_softVars
  PROVE  SoftInv'
<1>1. CASE StorePage
  BY Zenon, <1>1, StoreSoft
<1>2. CASE SaveDirtyPages
  <2>1. mode = "run" /\ loops' = loops + 1 /\ UNCHANGED content
    BY Zenon, <1>2 DEF SaveDirtyPages
  <2>2. CASE interval = 0 \/ loops % interval > 0
    <3>1. UNCHANGED <<dirty, initialized, copies, mode, walkVars, statVars, written, before>>
      BY Zenon, <1>2, <2>2 DEF SaveDirtyPages
    <3> QED BY Zenon, <2>1, <3>1, SkipSoft
  <2>3. CASE ~ (interval = 0 \/ loops % interval > 0)
    <3>1. /\ initialized' = TRUE
          /\ IF initialized THEN UNCHANGED <<dirty, written>> ELSE dirty' = {} /\ written' = {}
          /\ RecordHistory /\ UNCHANGED <<statistics, num_cows>>
          /\ copies' = <<>> /\ before' = written'
          /\ mode' = "walk" /\ vma' = 1 /\ map' = NoEntries
          /\ addr' = IF Vmas = <<>> THEN 0 ELSE Vmas[1].start
      BY Zenon, <1>2, <2>3 DEF SaveDirtyPages
    <3> QED BY Zenon, <2>1, <3>1, BeginSoft
  <2> QED BY Zenon, <2>2, <2>3
<1>3. CASE Chunk
  BY Zenon, <1>3, ChunkSoft
<1>4. CASE Visit
  BY Zenon, <1>4, VisitSoft
<1>5. CASE NextVma
  BY Zenon, <1>5, AreaSoft
<1>6. CASE ClearRefs
  BY Zenon, <1>6, ClearSoft
<1>7. CASE Aborted \/ UNCHANGED softVars
  <2>1. UNCHANGED <<content, dirty, initialized, loops, copies, mode, walkVars, statVars,
                    written, before>>
    BY Zenon, <1>7 DEF Aborted, softVars
  <2>2. SoftTypeOK' /\ SoftSizes' /\ MarksInv'
    BY Zenon, <2>1 DEF SoftInv, SoftTypeOK, SoftSizes, MarksInv, walkVars, statVars
  <2>3. Copied' = Copied /\ Passed' = Passed /\ Area(vma)' = Area(vma)
    BY Zenon, <2>1 DEF Copied, Passed, Area, walkVars
  <2>4. WalkInv' /\ CopiesAreExact'
    BY Zenon, <2>1, <2>3
      DEF SoftInv, WalkInv, Once, CopiesTheWritten, CopiesAreExact, walkVars
  <2>5. SumUp(statistics)' = SumUp(statistics) /\ SumUp(hist)' = SumUp(hist)
    BY Zenon, <2>1 DEF statVars, SumUp
  <2>6. StatisticsAgree'
    BY Zenon, <2>1, <2>5 DEF SoftInv, CopiesTheWritten, StatisticsAgree, statVars
  <2> QED BY Zenon, <2>2, <2>4, <2>6 DEF SoftInv, CopiesTheWritten
<1> QED BY Zenon, <1>1, <1>2, <1>3, <1>4, <1>5, <1>6, <1>7 DEF SoftNext

\* For every list of areas, every length of a chunk and every size of the
\* tables: back in the program, the copies of a soft-dirty checkpoint are
\* exactly the pages of the areas written between the last two checkpoints,
\* once each and with their contents, and the statistics add up to them.
THEOREM SoftCopiesAreWritten ==
  SoftSpec => []SoftTypeOK /\ []CopiesTheWritten
<1>1. SoftInit => SoftInv
  BY Zenon, InitSoft
<1>2. SoftInv /\ [SoftNext]_softVars => SoftInv'
  BY Zenon, NextSoft
<1>3. SoftInv => SoftTypeOK /\ CopiesTheWritten
  BY Zenon DEF SoftInv
<1> QED BY <1>1, <1>2, <1>3, PTL DEF SoftSpec
=============================================================================
