------------------------------ MODULE ProcMaps ------------------------------
(***************************************************************************)
(* The memory maps of processes (util_proc_maps).  Reading one: the lines  *)
(* of /proc/<pid>/maps are filtered by a callback into a growing array,    *)
(* stale entries are removed in place, and util_proc_maps_get_info picks   *)
(* the regions of interest in one pass.  A line is its kind of region;     *)
(* regions of a kind that occurs once in a process occur at most once.     *)
(*                                                                         *)
(* Comparing two (util_proc_maps_diff, a behaviour of its own from DInit): *)
(* each entry of the first map that meets the range is looked up in the    *)
(* second by its ends and compared, as far as flags ask.  Addresses are    *)
(* pages, and "differs" holds those whose bytes differ.                    *)
(***************************************************************************)
EXTENDS Naturals, Sequences, SequencesExt

CONSTANTS
  Kinds, MaxLines,   \* kinds of regions and bound on the lines
  Pages,             \* the pages are 0 .. Pages - 1
  Names,             \* of the regions compared
  Flags              \* sets of differences that are allowed

Single == {"text", "ro", "data", "heap", "stack", "vdso", "vsyscall"}
Answers == {"save", "save_and_stop", "continue", "stop", "err"}

VARIABLES
  pc,
  file, i,                 \* lines: kind, mapped (not stale); the next one
  answers,                 \* what the callback says of each line
  entries, num_entries, capacity,
  ret,
  first, last,             \* first_lib/first_mmap, last_lib/last_mmap by name; 0 is NULL
  info, count,             \* the regions found and num_entries of the info
  maps, maps2,             \* the maps compared,
  differs, flags, lo, hi   \* with what and where

vars == <<pc, file, i, answers, entries, num_entries, capacity, ret, first, last, info, count>>

Files ==
  {f \in UNION {[1 .. n -> [kind : Kinds, mapped : BOOLEAN]] : n \in 1 .. MaxLines} :
     \A a, b \in DOMAIN f : f[a].kind = f[b].kind /\ f[a].kind \in Single => a = b}

Init ==
  /\ pc = "parse" /\ file \in Files /\ i = 1
  /\ answers \in [DOMAIN file -> Answers]
  /\ entries = <<>> /\ num_entries = 0 /\ capacity = 0 /\ ret = 0
  /\ first = [lib |-> 0, mmap |-> 0] /\ last = [lib |-> 0, mmap |-> 0]
  /\ info = {} /\ count = 4

infoVars == <<first, last, info, count>>

Grow == capacity' = IF num_entries + 1 > capacity THEN (capacity + 1) * 2 ELSE capacity

Save(line) ==
  /\ Grow
  /\ entries' = Append(entries, line) /\ num_entries' = num_entries + 1

\* An iteration of util_proc_maps_parse_filter.
ParseLine ==
  /\ pc = "parse" /\ i <= Len(file)
  /\ i' = i + 1
  /\ \/ answers[i] = "save" /\ Save(file[i]) /\ UNCHANGED <<ret, pc>>
     \/ answers[i] = "save_and_stop" /\ Save(file[i]) /\ pc' = "out" /\ UNCHANGED ret
     \/ answers[i] = "continue" /\ UNCHANGED <<entries, num_entries, capacity, ret, pc>>
     \/ answers[i] = "stop" /\ pc' = "out" /\ UNCHANGED <<entries, num_entries, capacity, ret>>
     \/ answers[i] = "err" /\ pc' = "out" /\ ret' = 1 /\ UNCHANGED <<entries, num_entries, capacity>>
  /\ UNCHANGED <<file, answers, infoVars>>

ParseOut ==
  /\ pc = "out" \/ (pc = "parse" /\ i > Len(file))
  /\ pc' = IF ret = 0 THEN "remove" ELSE "failed"
  /\ num_entries' = IF ret = 0 THEN num_entries ELSE 0
  /\ entries' = IF ret = 0 THEN entries ELSE <<>>
  /\ i' = 1
  /\ UNCHANGED <<file, answers, capacity, ret, infoVars>>

util_proc_maps_entry_remove ==
  /\ entries' = RemoveAt(entries, i) /\ num_entries' = num_entries - 1 /\ i' = i

RemoveUnmapped ==
  /\ pc = "remove" /\ i <= num_entries
  /\ \/ entries[i].mapped /\ i' = i + 1 /\ UNCHANGED <<entries, num_entries>>
     \/ ~ entries[i].mapped /\ util_proc_maps_entry_remove
  /\ UNCHANGED <<pc, file, answers, capacity, ret, infoVars>>

RemoveDone ==
  /\ pc = "remove" /\ i > num_entries
  /\ pc' = (IF num_entries = 0 THEN "failed" ELSE "info") /\ i' = 1
  /\ UNCHANGED <<file, answers, entries, num_entries, capacity, ret, infoVars>>

-----------------------------------------------------------------------------
(* util_proc_maps_get_info, one entry at a time.                           *)

IsLib(e) == e.kind = "lib"
IsMmap(e) == e.kind \in {"anon", "lib"}

GetInfo ==
  /\ pc = "info" /\ i <= num_entries
  /\ LET e == entries[i]
     IN /\ first' = [lib |-> IF first.lib = 0 /\ IsLib(e) THEN i ELSE first.lib,
                     mmap |-> IF first.mmap = 0 /\ IsMmap(e) THEN i ELSE first.mmap]
        /\ last' = [lib |-> IF IsLib(e) THEN i ELSE last.lib,
                    mmap |-> IF ~ IsMmap(e) /\ first.mmap # 0 /\ last.mmap = 0
                             THEN i - 1 ELSE last.mmap]
        /\ LET found == e.kind \in Single \ info
           IN /\ info' = IF found THEN info \cup {e.kind} ELSE info
              /\ count' = IF found THEN count + 1 ELSE count
  /\ i' = i + 1
  /\ UNCHANGED <<pc, file, answers, entries, num_entries, capacity, ret>>

InfoDone ==
  /\ pc = "info" /\ i > num_entries
  /\ last' = [last EXCEPT !.lib =
                IF @ # 0 /\ @ < num_entries /\ entries[@ + 1].kind = "anon" THEN @ + 1 ELSE @]
  /\ pc' = "done"
  /\ UNCHANGED <<file, i, answers, entries, num_entries, capacity, ret, first, info, count>>

Stop == pc \in {"done", "failed"} /\ UNCHANGED vars
Next == ParseLine \/ ParseOut \/ RemoveUnmapped \/ RemoveDone \/ GetInfo \/ InfoDone \/ Stop

-----------------------------------------------------------------------------
(* util_proc_maps_diff, one entry of the first map at a time.              *)

dvars == <<maps, maps2, differs, flags, lo, hi, i, ret, pc>>

Entry == {e \in [s : 0 .. Pages - 1, e : 1 .. Pages, name : Names] : e.s < e.e}
\* Maps are sorted and their entries disjoint.
Maps == {m \in UNION {[1 .. n -> Entry] : n \in 0 .. 2} :
           \A a, b \in DOMAIN m : a < b => m[a].e <= m[b].s}

DInit ==
  /\ maps \in Maps /\ maps2 \in Maps
  /\ differs \in SUBSET (0 .. Pages - 1)
  /\ flags \in Flags
  /\ lo \in 0 .. Pages - 1 /\ hi \in 1 .. Pages /\ lo < hi
  /\ i = 1 /\ ret = "same" /\ pc = "iter"

ContainsAddr(e, a) == e.s <= a /\ a < e.e
Overlaps(e, f) == ContainsAddr(e, f.s) \/ ContainsAddr(e, f.e - 1) \/ ContainsAddr(f, e.s) \/ ContainsAddr(f, e.e - 1)
NoEntry == [s |-> 0, e |-> 0, name |-> "none"]

util_proc_maps_lookup_by_addr(m, a) ==
  LET at == {n \in DOMAIN m : ContainsAddr(m[n], a)}
  IN IF at = {} THEN NoEntry ELSE m[Min(at)]

util_proc_maps_entry_data_diff(from, to) ==
  IF (from .. to - 1) \cap differs = {} THEN "same" ELSE "data"

util_proc_maps_entry_diff(e, f, from, to) ==
  LET start == Max({from, e.s, f.s})  end == Min({to, e.e, f.e})
  IN IF f = NoEntry THEN IF "no_entry" \in flags THEN "same" ELSE "no_entry"
     ELSE IF e.name # f.name /\ "name" \notin flags THEN "name"
     ELSE IF ~ Overlaps(e, f) THEN IF "mismatch" \in flags THEN "same" ELSE "mismatch"
     ELSE IF <<e.s, e.e>> # <<f.s, f.e>> /\ "range" \notin flags THEN "range"
     ELSE IF start >= end THEN "error"
     ELSE IF "data" \in flags THEN "same"
     ELSE util_proc_maps_entry_data_diff(start, end)

\* The exclusive end is looked up, so an entry that only begins there is taken.
SecondEntry(e) ==
  LET from == Max({lo, e.s})  to == Min({hi, e.e})
      byStart == util_proc_maps_lookup_by_addr(maps2, from)
  IN IF byStart # NoEntry THEN byStart ELSE util_proc_maps_lookup_by_addr(maps2, to)

util_proc_maps_diff ==
  /\ pc = "iter" /\ i <= Len(maps)
  /\ LET e == maps[i]
         r == util_proc_maps_entry_diff(e, SecondEntry(e), Max({lo, e.s}), Min({hi, e.e}))
     IN IF Overlaps(e, [s |-> lo, e |-> hi]) /\ r # "same"
        THEN ret' = r /\ pc' = "done" /\ i' = i
        ELSE i' = i + 1 /\ UNCHANGED <<ret, pc>>
  /\ UNCHANGED <<maps, maps2, differs, flags, lo, hi>>

DiffDone ==
  /\ pc = "iter" /\ i > Len(maps)
  /\ pc' = "done" /\ UNCHANGED <<maps, maps2, differs, flags, lo, hi, i, ret>>

DStop == pc = "done" /\ UNCHANGED dvars
DNext == util_proc_maps_diff \/ DiffDone \/ DStop

-----------------------------------------------------------------------------
(* Properties.                                                             *)

\* Every variable keeps its type.
TypeOK ==
  /\ pc \in {"parse", "out", "remove", "info", "done", "failed"}
  /\ num_entries = Len(entries) /\ i \in 1 .. MaxLines + 1 /\ count \in Nat

\* An entry is stored inside the array that was allocated.
WithinArray == num_entries <= capacity

\* What is left at the end: the lines the callback saved, up to the line it
\* stopped at, that are mapped, in their order; nothing after an error.
Until == LET ends == {n \in DOMAIN file : answers[n] \in {"save_and_stop", "stop", "err"}}
         IN IF ends = {} THEN Len(file) ELSE Min(ends)
Expected ==
  IF answers[Until] = "err" THEN <<>>
  ELSE LET kept == SelectSeq([n \in 1 .. Until |-> n],
                             LAMBDA n : answers[n] \in {"save", "save_and_stop"} /\ file[n].mapped)
       IN [k \in DOMAIN kept |-> file[kept[k]]]

\* The regions of the summary are runs of the map: the libraries lie between
\* their bounds, and so does every mapping of the first run.
InfoCovers ==
  pc = "done" =>
    /\ \A n \in DOMAIN entries : IsLib(entries[n]) => n \in first.lib .. last.lib
    /\ last.mmap # 0 => \A n \in first.mmap .. last.mmap : IsMmap(entries[n])

InBoth(p) ==
  \E a \in DOMAIN maps, b \in DOMAIN maps2 :
    ContainsAddr(maps[a], p) /\ ContainsAddr(maps2[b], p) /\ maps[a] = maps2[b]

\* With no difference allowed, "same" is the truth: every page of the range
\* in the first map is in an equal entry of the second and has equal bytes.
SameIsSame ==
  pc = "done" /\ flags = {} /\ ret = "same" =>
    \A p \in lo .. hi - 1 :
      (\E a \in DOMAIN maps : ContainsAddr(maps[a], p)) => InBoth(p) /\ p \notin differs

\* With no difference of maps and bytes in the range, none is reported.
DifferenceIsReal ==
  pc = "done" /\ maps = maps2 /\ (lo .. hi - 1) \cap differs = {} => ret = "same"
=============================================================================
