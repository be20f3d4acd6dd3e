----------------------------- MODULE SyncBitmap -----------------------------
(***************************************************************************)
(* The bitmap mechanism with the sync scheme and a bitmap of dirty marks:  *)
(* a checkpoint copies every dirty region to the shadow space and clears   *)
(* the marks.  Two ways to find the marks are modelled: three levels of    *)
(* them (BITMAP_TREE with bits, BITMAP_TREE_BYTE with bytes), and a list   *)
(* of the bitmap's pages that were written to, kept by a handler of page   *)
(* faults (BITMAP_PLAIN_BYTE).  Regions, marks of level 2 and of level 3   *)
(* stand behind each other in one array of marks, as in the address space. *)
(***************************************************************************)
EXTENDS Integers, Sequences, FiniteSets, SequencesExt

CONSTANTS
  BITMAP_TYPE,                 \* "TREE", "TREE_BYTE" or "PLAIN_BYTE"
  N,                           \* number of regions
  Fan,                         \* marks of a level under one mark of the next
  Span,                        \* marks the walk looks at under a mark
  PageWords,                   \* words of a page of the byte bitmap
  SortedPages, LTCKPT_MAX_PF,  \* room for sorted and for faulted pages
  Stored,                      \* regions that the program writes
  Values, Zero,
  MaxTols                      \* bound on checkpoints

RegionIds == 0 .. N - 1
N2 == N \div Fan
N3 == N2 \div Fan
IsTree == BITMAP_TYPE # "PLAIN_BYTE"
Marks == 0 .. IF IsTree THEN N + N2 + N3 - 1 ELSE N - 1
PageNumbers == 0 .. N \div PageWords - 1

VARIABLES
  mem, shadow,
  marks,                       \* set of marks that are not zero
  writable, pages,             \* byte bitmap: unprotected pages, in order
  todo,                        \* third-level marks or pages still to visit
  pc, num_checkpoints,
  ckpt, written                \* history: memory at the last checkpoint and
                               \* the regions written before it

vars == <<mem, shadow, marks, writable, pages, todo, pc, num_checkpoints,
          ckpt, written>>

Init ==
  /\ mem = [r \in RegionIds |-> Zero] /\ shadow = [r \in RegionIds |-> Zero]
  /\ marks = {} /\ writable = {} /\ pages = <<>>
  /\ todo = <<>> /\ pc = "run" /\ num_checkpoints = 0
  /\ ckpt = mem /\ written = {}

-----------------------------------------------------------------------------
(* Stores.                                                                 *)

Level2(r) == N + r \div Fan
Level3(r) == N + N2 + r \div (Fan * Fan)


ltckpt_set_bit(r) == IF IsTree THEN {r, Level2(r), Level3(r)} ELSE {r}

PageOf(r) == r \div PageWords

\* The first write to a page of the byte bitmap since it was protected: the
\* handler notes the page and makes it writable.  A full list panics.
ltckpt_sigsegvhandler(r) ==
  IF IsTree \/ PageOf(r) \in writable THEN UNCHANGED <<writable, pages>>
  ELSE /\ Len(pages) + 1 < LTCKPT_MAX_PF
       /\ pages' = Append(pages, PageOf(r))
       /\ writable' = writable \cup {PageOf(r)}

\* The store hook and the store.
Store ==
  /\ pc = "run"
  /\ \E r \in Stored, v \in Values :
       /\ ltckpt_sigsegvhandler(r)
       /\ marks' = marks \cup ltckpt_set_bit(r)
       /\ mem' = [mem EXCEPT ![r] = v]
  /\ UNCHANGED <<shadow, todo, pc, num_checkpoints, ckpt, written>>

-----------------------------------------------------------------------------
(* ltckpt_clear_bitmap in the top-of-the-loop hook.                        *)

\* The byte bitmap's pages are first linked in ascending order.
SortPages == SortSeq(pages, LAMBDA p, q : p < q)

TopOfTheLoop ==
  /\ pc = "run" /\ num_checkpoints < MaxTols
  /\ num_checkpoints' = num_checkpoints + 1
  /\ pc' = "clear"
  /\ todo' = IF IsTree THEN [i \in 1 .. N3 |-> N + N2 + i - 1] ELSE SortPages
  /\ ckpt' = mem
  /\ written' = written \cup (marks \cap RegionIds)
  /\ UNCHANGED <<mem, shadow, marks, writable, pages>>

\* Copies and clears the regions whose marks are visited.
Sync(visited) ==
  shadow' = [r \in RegionIds |-> IF r \in visited THEN mem[r] ELSE shadow[r]]

From(m, n) == {k \in Marks : m <= k /\ k < m + n}

\* A set third-level mark leads to Span second-level marks, each of them that
\* is set to Span marks of regions.
ltckpt_check_second_level(m) ==
  IF m \in marks THEN From(N + (m - N - N2) * Fan, Span) \cap marks ELSE {}

ltckpt_check_first_level(second) ==
  UNION {From((k - N) * Fan, Span) : k \in second} \cap marks

\* The bytes of level 3 are never cleared.
VisitThirdLevel ==
  /\ pc = "clear" /\ IsTree /\ todo # <<>> /\ todo' = Tail(todo)
  /\ LET second == ltckpt_check_second_level(Head(todo))
         first  == ltckpt_check_first_level(second)
     IN /\ Sync(first)
        /\ marks' = marks \ (first \cup second
                        \cup IF BITMAP_TYPE = "TREE" THEN {Head(todo)} ELSE {})
  /\ UNCHANGED <<mem, writable, pages, pc, num_checkpoints, ckpt, written>>

WordsOf(p) == p * PageWords .. (p + 1) * PageWords - 1
LastWord(p) == (p + 1) * PageWords - 1

\* The scan stops at the first word that is set and is not the page's first
\* (the test "addr & 0xffc").  Before, the last word got the bit 0x2, which
\* is taken out again where the scan stops or is set anew by the next one.
ScanPage(p) ==
  LET set   == {w \in WordsOf(p) : w \in marks \/ w = LastWord(p)}
      inner == {w \in set : w # p * PageWords}
  IN {w \in set : \A x \in inner : w <= x}

VisitPage ==
  /\ pc = "clear" /\ ~ IsTree /\ todo # <<>> /\ todo' = Tail(todo)
  /\ LET p == Head(todo) IN
     /\ Sync(ScanPage(p) \cap marks)
     /\ marks' = marks \ ScanPage(p)
  /\ UNCHANGED <<mem, writable, pages, pc, num_checkpoints, ckpt, written>>

\* Ranges of pages are protected together; nr_pf = 0.
Protect == writable' = {}

ClearDone ==
  /\ pc = "clear" /\ todo = <<>> /\ pc' = "run"
  /\ Protect /\ pages' = <<>>
  /\ UNCHANGED <<mem, shadow, marks, todo, num_checkpoints, ckpt, written>>

Next == Store \/ TopOfTheLoop \/ VisitThirdLevel \/ VisitPage \/ ClearDone

Spec == Init /\ [][Next]_vars

-----------------------------------------------------------------------------
(* Properties.                                                             *)

\* Every variable keeps its type.
TypeOK ==
  /\ mem \in [RegionIds -> Values] /\ shadow \in [RegionIds -> Values]
  /\ marks \subseteq Marks /\ writable \subseteq PageNumbers
  /\ pages \in Seq(PageNumbers) /\ todo \in Seq(Marks \cup PageNumbers)
  /\ pc \in {"run", "clear"} /\ num_checkpoints \in 0 .. MaxTols
  /\ ckpt \in [RegionIds -> Values] /\ written \subseteq RegionIds


=============================================================================
