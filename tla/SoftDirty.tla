------------------------------ MODULE SoftDirty -----------------------------
(***************************************************************************)
(* The soft-dirty mechanism: the kernel marks the pages that are written,  *)
(* and a checkpoint walks the page map of the program's areas, copies the  *)
(* marked pages and clears all marks.                                      *)
(***************************************************************************)
EXTENDS Naturals, Sequences, FiniteSets

CONSTANTS
  Pages,                   \* 0 .. n - 1
  Vmas,                    \* areas saved at start-up: sequence of [start, end]
  Contents,                \* what a page holds
  CHUNK,                   \* UTIL_PAGEMMAP_DEFAULT_BUFF_SIZE / PAGE_SIZE
  SOFTDIRTY_MAX_PAGES, PAGE_STAT_SIZE, PAGE_NUM_HIST_SIZE,
  lazy_init, stats_enabled,
  interval,                \* checkpoint_interval
  MaxLoops                 \* bound on calls of the top-of-the-loop hook

\* Areas are listed as the kernel lists them: by address, without overlap.
ASSUME SoftConstants ==
  /\ Pages \subseteq Nat
  /\ Vmas \in Seq([start : Nat, end : Nat])
  /\ \A i \in DOMAIN Vmas : /\ Vmas[i].start <= Vmas[i].end
                            /\ Vmas[i].start .. Vmas[i].end - 1 \subseteq Pages
  /\ \A i, j \in DOMAIN Vmas : i < j => Vmas[i].end <= Vmas[j].start
  /\ CHUNK \in Nat \ {0} /\ PAGE_NUM_HIST_SIZE \in Nat \ {0}
  /\ SOFTDIRTY_MAX_PAGES \in Nat /\ PAGE_STAT_SIZE \in Nat
  /\ lazy_init \in BOOLEAN /\ stats_enabled \in BOOLEAN
  /\ interval \in Nat /\ MaxLoops \in Nat

VARIABLES
  content, dirty,          \* the program's pages and the kernel's marks
  initialized, num_cows,
  loops,                   \* num_tols
  copies,                  \* mem: pages of the last checkpoint, a sequence of [addr, mem]
  statistics,              \* page_statistics: count of a page that has one
  hist, hist_len,          \* page_num_hist and its length
  mode, vma, addr,         \* the walk: area and next address
  map,                     \* entries of the page map still to be visited in a
                           \* chunk: whether a page is marked
  written, before          \* history: pages written since the last checkpoint,
                           \* and until it

walkVars == <<vma, addr, map>>
statVars == <<statistics, hist, hist_len, num_cows>>
softVars == <<content, dirty, initialized, loops, copies, mode, walkVars, statVars,
          written, before>>

Area(i) == Vmas[i].start .. Vmas[i].end - 1
Walked == UNION {Area(i) : i \in DOMAIN Vmas}
Eager == ~ lazy_init /\ interval # 0

NoEntries == [p \in {} |-> FALSE]

SoftInit ==
  /\ content \in [Pages -> Contents]
  /\ dirty = IF Eager THEN {} ELSE Pages
  /\ initialized = Eager
  /\ loops = 0 /\ num_cows = 0 /\ copies = <<>>
  /\ statistics = [p \in {} |-> 0] /\ hist = <<>> /\ hist_len = 0
  /\ mode = "run" /\ vma = 0 /\ addr = 0 /\ map = NoEntries
  /\ written = {} /\ before = {}

StorePage ==
  /\ mode = "run"
  /\ \E p \in Pages, v \in Contents :
       /\ content' = [content EXCEPT ![p] = v]
       /\ dirty' = dirty \cup {p} /\ written' = written \cup {p}
  /\ UNCHANGED <<initialized, loops, copies, mode, walkVars, statVars, before>>

-----------------------------------------------------------------------------
(* The checkpoint.                                                         *)

\* The histogram starts again at its end.
RecordHistory ==
  IF stats_enabled
  THEN /\ hist' = IF hist_len = Len(hist) THEN Append(hist, Len(copies))
                  ELSE [hist EXCEPT ![hist_len + 1] = Len(copies)]
       /\ hist_len' = IF hist_len + 1 >= PAGE_NUM_HIST_SIZE THEN 0 ELSE hist_len + 1
  ELSE UNCHANGED <<hist, hist_len>>

\* The first checkpoint may have to initialise, which clears the marks.
SaveDirtyPages ==
  /\ mode = "run" /\ loops < MaxLoops
  /\ loops' = loops + 1
  /\ IF interval = 0 \/ loops % interval > 0
     THEN UNCHANGED <<dirty, initialized, copies, mode, walkVars, statVars, written, before>>
     ELSE /\ initialized' = TRUE
          /\ IF initialized THEN UNCHANGED <<dirty, written>> ELSE dirty' = {} /\ written' = {}
          /\ RecordHistory /\ UNCHANGED <<statistics, num_cows>>
          /\ copies' = <<>> /\ before' = written'
          /\ mode' = "walk" /\ vma' = 1 /\ map' = NoEntries
          /\ addr' = IF Vmas = <<>> THEN 0 ELSE Vmas[1].start
  /\ UNCHANGED content

InVma == mode = "walk" /\ vma <= Len(Vmas)

\* util_pagemap_get reads a chunk of the page map.
ChunkEnd(a) == IF a + CHUNK < Vmas[vma].end THEN a + CHUNK ELSE Vmas[vma].end
ReadOneShort(a) == a .. ChunkEnd(a) - 2
util_pagemap_get(a) == a .. ChunkEnd(a) - 1

Chunk ==
  /\ InVma /\ DOMAIN map = {} /\ addr < Vmas[vma].end
  /\ map' = [p \in util_pagemap_get(addr) |-> p \in dirty]
  /\ UNCHANGED <<content, dirty, initialized, loops, copies, mode, vma, addr, statVars,
                 written, before>>

\* ltckpt_top_of_the_loop_stat_cb: the page's count, made when there is none.
CountPage(p) ==
  IF ~ stats_enabled THEN UNCHANGED statistics
  ELSE statistics' = [q \in DOMAIN statistics \cup {p} |->
         (IF q \in DOMAIN statistics THEN statistics[q] ELSE 0) + (IF q = p THEN 1 ELSE 0)]

OutOfStatistics(p) ==
  /\ stats_enabled /\ p \notin DOMAIN statistics
  /\ Cardinality(DOMAIN statistics) >= PAGE_STAT_SIZE

\* One entry of the chunk: the callback copies a marked page.
NextEntry == addr' = addr + 1 /\ map' = [p \in DOMAIN map \ {addr} |-> map[p]]

Visit ==
  /\ InVma /\ DOMAIN map # {}
  /\ \/ /\ ~ map[addr] /\ NextEntry /\ UNCHANGED <<copies, statistics, num_cows, mode>>
     \/ /\ map[addr] /\ OutOfStatistics(addr)
        /\ mode' = "abort" /\ UNCHANGED <<copies, statistics, num_cows, addr, map>>
     \/ /\ map[addr] /\ ~ OutOfStatistics(addr) /\ CountPage(addr)
        /\ IF Len(copies) >= SOFTDIRTY_MAX_PAGES
           THEN mode' = "abort" /\ UNCHANGED <<copies, num_cows, addr, map>>
           ELSE /\ copies' = Append(copies, [addr |-> addr, mem |-> content[addr]])
                /\ num_cows' = num_cows + 1
                /\ NextEntry /\ UNCHANGED mode
  /\ UNCHANGED <<content, dirty, initialized, loops, vma, hist, hist_len, written,
                 before>>

NextVma ==
  /\ InVma /\ DOMAIN map = {} /\ addr >= Vmas[vma].end
  /\ vma' = vma + 1
  /\ addr' = IF vma = Len(Vmas) THEN addr ELSE Vmas[vma + 1].start
  /\ UNCHANGED <<content, dirty, initialized, loops, copies, mode, map, statVars, written,
                 before>>

KeepMarks == UNCHANGED dirty
util_pagemap_clear_refs == dirty' = {}

ClearRefs ==
  /\ mode = "walk" /\ vma > Len(Vmas)
  /\ util_pagemap_clear_refs /\ mode' = "run" /\ written' = {}
  /\ UNCHANGED <<content, initialized, loops, copies, walkVars, statVars, before>>

Aborted == mode = "abort" /\ UNCHANGED softVars

SoftNext == StorePage \/ SaveDirtyPages \/ Chunk \/ Visit \/ NextVma \/ ClearRefs \/ Aborted

SoftSpec == SoftInit /\ [][SoftNext]_softVars /\ WF_softVars(Chunk \/ Visit \/ NextVma \/ ClearRefs)

-----------------------------------------------------------------------------
(* Properties.                                                             *)

\* Every variable keeps its type.
SoftTypeOK ==
  /\ content \in [Pages -> Contents] /\ dirty \subseteq Pages
  /\ copies \in Seq([addr : Pages, mem : Contents]) /\ Len(copies) <= SOFTDIRTY_MAX_PAGES
  /\ statistics \in [DOMAIN statistics -> Nat] /\ DOMAIN statistics \subseteq Pages
  /\ Cardinality(DOMAIN statistics) <= PAGE_STAT_SIZE
  /\ hist \in Seq(Nat) /\ Len(hist) <= PAGE_NUM_HIST_SIZE /\ hist_len < PAGE_NUM_HIST_SIZE
  /\ mode \in {"run", "walk", "abort"} /\ addr \in Nat

Copied == {copies[i].addr : i \in DOMAIN copies}

\* Back in the program, the copies are exactly the pages of the program's areas
\* written between the last two checkpoints, once each, with what they held at
\* the checkpoint (a page that was not written since then still holds it).
CopiesAreExact ==
  mode = "run" =>
    /\ Copied = before \cap Walked
    /\ \A i, j \in DOMAIN copies : copies[i].addr = copies[j].addr => i = j
    /\ \A i \in DOMAIN copies :
         copies[i].addr \notin written => copies[i].mem = content[copies[i].addr]

\* The numbers f of finitely many things, added up.
SumUp(f) == Cardinality(UNION {{x} \X (1 .. f[x]) : x \in DOMAIN f})

\* The two statistics agree with the number of copies: the counts of the pages
\* add up to all copies, and until the histogram starts again it adds up to
\* those of the checkpoints before this one.
StatisticsAgree ==
  stats_enabled /\ mode # "abort" =>
    /\ num_cows = SumUp(statistics)
    /\ hist_len = Len(hist) => SumUp(hist) + Len(copies) = num_cows

\* Back in the program, the copies of a soft-dirty checkpoint are exactly the
\* pages written between the last two, once each, with their contents
\* (util_pagemap_proc_walk and its chunks); the counts of the pages and
\* the histogram of checkpoints both add up to the number of copies.
CopiesTheWritten == CopiesAreExact /\ StatisticsAgree

\* A checkpoint that has begun ends, in the program or in an abort: the walk
\* passes through every area, whatever its length is in chunks.
WalkEnds == mode = "walk" ~> mode # "walk"
=============================================================================
