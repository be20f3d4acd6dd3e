---------------------------- MODULE CountProofs -----------------------------
(***************************************************************************)
(* TLAPS proofs about counts that must add up. A sum is the size of a set  *)
(* with one element for each unit of each member: in this form it has a    *)
(* meaning for every finite family without recursion, and the theorems on  *)
(* finite sets say how it changes. These lemmas serve the statistics file  *)
(* of the fault injector (EdfiStats) here, the window profile and the      *)
(* soft-dirty checkpoints in modules of their own.                         *)
(***************************************************************************)
EXTENDS EdfiStats, FiniteSetTheorems, TLAPS

Units(f, S) == UNION {{x} \X (1 .. f[x]) : x \in S}
Sum(f, S) == Cardinality(Units(f, S))

-----------------------------------------------------------------------------
\* The units are pairs of a member and a number up to its value.
LEMMA UnitsArePairs ==
  ASSUME NEW S, NEW f
  PROVE  \A u : u \in Units(f, S) <=> \E x \in S : u \in {x} \X (1 .. f[x])
  BY Zenon DEF Units

\* A sum of finitely many numbers is a number.
LEMMA SumIsNat ==
  ASSUME NEW S, IsFiniteSet(S), NEW f, \A x \in S : f[x] \in Nat
  PROVE  IsFiniteSet(Units(f, S)) /\ Sum(f, S) \in Nat
  <1> DEFINE T == {{x} \X (1 .. f[x]) : x \in S}
             g == [x \in S |-> {x} \X (1 .. f[x])]
  <1>1. g \in Surjection(S, T)
    BY Zenon DEF Surjection
  <1>2. IsFiniteSet(T)
    BY Zenon, <1>1, FS_Surjection
  <1>3. ASSUME NEW x \in S PROVE IsFiniteSet({x} \X (1 .. f[x]))
    <2>1. IsFiniteSet({x})
      BY Zenon, FS_Singleton
    <2>2. f[x] \in Int /\ 1 \in Int
      OBVIOUS
    <2>3. IsFiniteSet(1 .. f[x])
      BY Zenon, <2>2, FS_Interval
    <2> QED BY Zenon, <2>1, <2>3, FS_Product
  <1>4. IsFiniteSet(UNION T)
    BY Zenon, <1>2, <1>3, FS_UNION
  <1> QED BY Zenon, <1>4, FS_CardinalityType DEF Units, Sum

\* The sum of no numbers.
LEMMA SumOfNone ==
  ASSUME NEW f
  PROVE  Sum(f, {}) = 0
  <1>1. Units(f, {}) = {}
    BY Zenon DEF Units
  <1> QED BY Zenon, <1>1, FS_EmptySet DEF Sum

\* Only the members count.
LEMMA SumOfSame ==
  ASSUME NEW S, NEW f, NEW g, \A x \in S : f[x] = g[x]
  PROVE  Sum(f, S) = Sum(g, S)
  <1>1. \A x \in S : {x} \X (1 .. f[x]) = {x} \X (1 .. g[x])
    OBVIOUS
  <1>2. Units(f, S) \subseteq Units(g, S)
    BY Zenon, <1>1, UnitsArePairs
  <1>3. Units(g, S) \subseteq Units(f, S)
    BY <1>1, UnitsArePairs
  <1> QED BY <1>2, <1>3 DEF Sum

\* One member more.
LEMMA SumOfMore ==
  ASSUME NEW S, IsFiniteSet(S), NEW f, NEW y, y \notin S, \A x \in S \cup {y} : f[x] \in Nat
  PROVE  Sum(f, S \cup {y}) = Sum(f, S) + f[y]
  <1> DEFINE Y == {y} \X (1 .. f[y])
  <1>1. IsFiniteSet(Units(f, S)) /\ Sum(f, S) \in Nat
    BY Zenon, SumIsNat
  <1>2. IsFiniteSet(Y) /\ Cardinality(Y) = f[y]
    <2>1. IsFiniteSet({y}) /\ Cardinality({y}) = 1
      BY Zenon, FS_Singleton
    <2>0. f[y] \in Nat /\ f[y] \in Int /\ 1 \in Int
      OBVIOUS
    <2>2. IsFiniteSet(1 .. f[y]) /\ Cardinality(1 .. f[y]) = f[y]
      <3>1. IsFiniteSet(1 .. f[y]) /\ Cardinality(1 .. f[y]) = IF 1 > f[y] THEN 0 ELSE f[y] - 1 + 1
        BY Zenon, <2>0, FS_Interval
      <3> QED BY <3>1, <2>0
    <2>3. IsFiniteSet(Y) /\ Cardinality(Y) = 1 * f[y]
      BY <2>1, <2>2, FS_Product
    <2> QED BY <2>0, <2>3
  <1>3. Units(f, S \cup {y}) = Units(f, S) \cup Y
    BY UnitsArePairs
  <1>4. Units(f, S) \cap Y = {}
    BY UnitsArePairs
  <1>5. Cardinality(Units(f, S) \cap Y) = 0
    BY Zenon, <1>4, FS_EmptySet
  <1>6. Cardinality(Units(f, S) \cup Y)
          = Cardinality(Units(f, S)) + Cardinality(Y) - Cardinality(Units(f, S) \cap Y)
    BY Zenon, <1>1, <1>2, FS_Union
  <1>7. f[y] \in Nat
    OBVIOUS
  <1>8. Cardinality(Units(f, S)) \in Nat
    BY Zenon, <1>1 DEF Sum
  <1>9. Cardinality(Units(f, S \cup {y})) = Cardinality(Units(f, S)) + f[y]
    <2> HIDE DEF Y
    <2>1. Cardinality(Units(f, S \cup {y})) = Cardinality(Units(f, S) \cup Y)
      BY Zenon, <1>3
    <2> QED BY <2>1, <1>2, <1>5, <1>6, <1>7, <1>8
  <1> QED BY Zenon, <1>9 DEF Sum

\* One member less.
LEMMA SumOfLess ==
  ASSUME NEW S, IsFiniteSet(S), NEW f, NEW y \in S, \A x \in S : f[x] \in Nat
  PROVE  Sum(f, S \ {y}) \in Nat /\ Sum(f, S) = Sum(f, S \ {y}) + f[y]
  <1>0. PICK R : R = S \ {y}
    BY Zenon
  <1>1. IsFiniteSet(R) /\ y \notin R /\ S = R \cup {y}
    BY Zenon, <1>0, FS_RemoveElement
  <1>a. \A x \in R \cup {y} : f[x] \in Nat
    BY Zenon, <1>1
  <1>2. Sum(f, R) \in Nat
    BY Zenon, <1>1, <1>a, SumIsNat
  <1>3. Sum(f, R \cup {y}) = Sum(f, R) + f[y]
    BY Zenon, <1>1, <1>a, SumOfMore
  <1> QED BY Zenon, <1>0, <1>1, <1>2, <1>3

\* One member changes.
LEMMA SumOfChanged ==
  ASSUME NEW S, IsFiniteSet(S), NEW f, NEW g, NEW y \in S,
         \A x \in S : f[x] \in Nat, \A x \in S : g[x] \in Nat,
         \A x \in S : x # y => f[x] = g[x]
  PROVE  Sum(g, S) = Sum(f, S) - f[y] + g[y]
  <1>1. Sum(f, S \ {y}) \in Nat /\ Sum(f, S) = Sum(f, S \ {y}) + f[y]
    BY Zenon, SumOfLess
  <1>2. Sum(g, S \ {y}) \in Nat /\ Sum(g, S) = Sum(g, S \ {y}) + g[y]
    BY Zenon, SumOfLess
  <1>3. Sum(f, S \ {y}) = Sum(g, S \ {y})
    BY Zenon, SumOfSame
  <1> QED BY <1>1, <1>2, <1>3

\* A sum of zeros.
LEMMA SumOfZeros ==
  ASSUME NEW S, NEW f, \A x \in S : f[x] = 0
  PROVE  Sum(f, S) = 0
  <1>1. \A x \in S : {x} \X (1 .. f[x]) = {}
    OBVIOUS
  <1>2. Units(f, S) = {}
    BY Zenon, <1>1, UnitsArePairs
  <1> QED BY Zenon, <1>2, FS_EmptySet DEF Sum

-----------------------------------------------------------------------------
(* The statistics file of programs that do not fork.                       *)

\* A process has one handler until it ends, the lock when it is between the
\* opening and the closing of the file, and its counts are in the file once
\* it has written them.
HandlerInv ==
  \A p \in Procs :
    /\ at[p] # "none" /\ (at[p] # "gone" => handlers[p] = 1)
    /\ at[p] \in {"read", "write", "close"} => lock = {p} /\ num_bbs > 0
    /\ p \in stored => at[p] \in {"close", "gone"}

\* What a process is about to write is what the file has and its own counts.
FileInv ==
  ~ shortWrite =>
    /\ Len(file) \in {0, num_bbs} /\ (file = <<>> => stored = {})
    /\ \A p \in Procs, b \in Bbs : at[p] = "write" =>
         counts[p][b] = executions[p][b] + IF file = <<>> THEN 0 ELSE file[b]

StatsInv == StatsTypeOK /\ HandlerInv /\ FileInv /\ CountsAddUp

\* What the processes that wrote their counts executed, as a sum.
Runs(b) == [p \in Procs |-> executions[p][b]]

LEMMA ExecutedIsSum ==
  ASSUME stored \subseteq Procs, NEW b \in Bbs
  PROVE  Executed(b) = Sum(Runs(b), stored)
<1>1. \A p \in stored : Runs(b)[p] = executions[p][b]
  BY Zenon DEF Runs
<1>2. {{p} \X (1 .. executions[p][b]) : p \in stored} = {{p} \X (1 .. Runs(b)[p]) : p \in stored}
  BY Zenon, <1>1
<1> QED BY Zenon, <1>2 DEF Executed, Sum, Units

\* The counts of the file stay those executed while nothing is written: only
\* processes that have not written theirs execute blocks.
LEMMA ExecutedStays ==
  ASSUME StatsTypeOK, stored' = stored, NEW b \in Bbs,
         \A p \in stored : executions'[p] = executions[p]
  PROVE  Executed(b)' = Executed(b)
<1>1. \A p \in stored : {p} \X (1 .. executions'[p][b]) = {p} \X (1 .. executions[p][b])
  OBVIOUS
<1>2. {{p} \X (1 .. executions'[p][b]) : p \in stored'}
        = {{p} \X (1 .. executions[p][b]) : p \in stored}
  BY Zenon, <1>1
<1> QED BY Zenon, <1>2 DEF Executed

\* A process that writes its counts adds them.
LEMMA ExecutedGrows ==
  ASSUME StatsTypeOK, NEW p \in Procs, p \notin stored, stored' = stored \cup {p},
         executions' = executions, NEW b \in Bbs
  PROVE  Executed(b)' = Executed(b) + executions[p][b]
<1>1. stored \subseteq Procs /\ stored' \subseteq Procs
  BY Zenon DEF StatsTypeOK
<1>2. IsFiniteSet(stored)
  BY Zenon, <1>1, StatsConstants, FS_Subset
<1>3. \A q \in stored \cup {p} : Runs(b)[q] \in Nat
  BY <1>1, StatsConstants DEF StatsTypeOK, Runs
<1>4. Sum(Runs(b), stored \cup {p}) = Sum(Runs(b), stored) + Runs(b)[p]
  BY Zenon, <1>2, <1>3, SumOfMore
<1>5. Executed(b) = Sum(Runs(b), stored)
  BY Zenon, <1>1, ExecutedIsSum
<1>6. Executed(b)' = Sum(Runs(b), stored \cup {p})
  <2>1. Executed(b)' = Cardinality(UNION {{q} \X (1 .. executions[q][b]) : q \in stored \cup {p}})
    BY Zenon DEF Executed
  <2>2. \A q \in stored \cup {p} : Runs(b)[q] = executions[q][b]
    BY Zenon, <1>1 DEF Runs
  <2>3. {{q} \X (1 .. executions[q][b]) : q \in stored \cup {p}}
          = {{q} \X (1 .. Runs(b)[q]) : q \in stored \cup {p}}
    BY Zenon, <2>2
  <2> QED BY Zenon, <2>1, <2>3 DEF Sum, Units
<1> QED BY Zenon, <1>4, <1>5, <1>6 DEF Runs

\* The invariant holds when all processes are started as programs.
LEMMA InitStats ==
  ASSUME First = Procs, StatsInit
  PROVE  StatsInv
<1>1. StatsTypeOK
  BY StatsConstants DEF StatsInit, StatsTypeOK, NoCounts, Bbs
<1>2. HandlerInv
  BY Zenon DEF StatsInit, HandlerInv
<1>3. FileInv /\ CountsAddUp
  BY Zenon DEF StatsInit, FileInv, CountsAddUp
<1> QED BY Zenon, <1>1, <1>2, <1>3 DEF StatsInv

\* A step that leaves the file, what is stored and what is about to be
\* written keeps the counts right.
LEMMA FileStays ==
  ASSUME StatsInv, file' = file, shortWrite' = shortWrite, stored' = stored,
         \A p \in stored : executions'[p] = executions[p],
         \A p \in Procs : at'[p] = "write" =>
           at[p] = "write" /\ counts'[p] = counts[p] /\ executions'[p] = executions[p]
  PROVE  FileInv' /\ CountsAddUp'
<1>1. FileInv'
  BY Zenon DEF StatsInv, FileInv
<1>2. \A b \in Bbs : Executed(b)' = Executed(b)
  BY Zenon, ExecutedStays DEF StatsInv
<1>3. CountsAddUp'
  BY Zenon, <1>2 DEF StatsInv, CountsAddUp
<1> QED BY Zenon, <1>1, <1>3

\* The end of a handler is the end of the process.
LEMMA HandlerEnds ==
  ASSUME StatsInv, NEW p \in Procs, at[p] \notin {"gone"}, HandlerDone(p)
  PROVE  /\ at' = [at EXCEPT ![p] = "gone"] /\ handlers' \in [Procs -> Nat]
         /\ \A q \in Procs \ {p} : handlers'[q] = handlers[q]
<1>1. handlers[p] = 1
  BY Zenon DEF StatsInv, HandlerInv
<1> QED BY <1>1 DEF StatsInv, StatsTypeOK, HandlerDone

\* A process that runs executes a block, or exits.
LEMMA RunStep ==
  ASSUME StatsInv, NEW p \in Procs, Exit(p) \/ \E b \in Bbs : edfi_onfault_default(p, b)
  PROVE  StatsInv'
<1>1. at[p] = "run" /\ p \notin stored
  BY Zenon DEF StatsInv, HandlerInv, Exit, Goto, edfi_onfault_default
<1>2. StatsTypeOK'
  <2>1. CASE Exit(p)
    BY Zenon, <2>1 DEF StatsInv, StatsTypeOK, Exit, Goto
  <2>2. ASSUME NEW b \in Bbs, edfi_onfault_default(p, b) PROVE StatsTypeOK'
    <3>1. executions[p] \in [Bbs -> 0 .. MaxCount] /\ executions[p][b] + 1 \in 0 .. MaxCount
      BY <2>2, StatsConstants DEF StatsInv, StatsTypeOK, edfi_onfault_default
    <3>2. executions' = [executions EXCEPT ![p] = [executions[p] EXCEPT ![b] = executions[p][b] + 1]]
      BY Zenon, <2>2 DEF edfi_onfault_default
    <3>3. executions' \in [Procs -> [Bbs -> 0 .. MaxCount]]
      BY Zenon, <3>1, <3>2 DEF StatsInv, StatsTypeOK
    <3> QED BY Zenon, <2>2, <3>3 DEF StatsInv, StatsTypeOK, edfi_onfault_default
  <2> QED BY Zenon, <2>1, <2>2
<1>3. HandlerInv'
  BY Zenon, <1>1 DEF StatsInv, HandlerInv, StatsTypeOK, Exit, Goto, edfi_onfault_default
<1>4. /\ file' = file /\ shortWrite' = shortWrite /\ stored' = stored
      /\ \A q \in Procs \ {p} : executions'[q] = executions[q]
      /\ at'[p] # "write" /\ \A q \in Procs \ {p} : at'[q] = at[q] /\ counts'[q] = counts[q]
  BY Zenon, <1>1 DEF StatsInv, StatsTypeOK, Exit, Goto, edfi_onfault_default
<1>5. stored \subseteq Procs
  BY Zenon DEF StatsInv, StatsTypeOK
<1>6. FileInv' /\ CountsAddUp'
  BY Zenon, <1>1, <1>4, <1>5, FileStays
<1> QED BY Zenon, <1>2, <1>3, <1>6 DEF StatsInv

\* A process that exits has nothing to write, cannot open the file, is killed
\* or closes the file: it ends.
LEMMA EndStep ==
  ASSUME StatsInv, NEW p \in Procs,
         at' = [at EXCEPT ![p] = "gone"], handlers' \in [Procs -> Nat],
         \A q \in Procs \ {p} : handlers'[q] = handlers[q],
         lock' = lock \ {p} \/ (lock' = lock /\ at[p] = "exit"),
         UNCHANGED <<executions, counts, file, shortWrite, stored>>
  PROVE  StatsInv'
<1>1. StatsTypeOK'
  BY Zenon DEF StatsInv, StatsTypeOK
<1>2. HandlerInv'
  BY Zenon DEF StatsInv, StatsTypeOK, HandlerInv
<1>3. stored \subseteq Procs /\ \A q \in Procs : at'[q] = "write" => at[q] = "write"
  BY Zenon DEF StatsInv, StatsTypeOK
<1>4. FileInv' /\ CountsAddUp'
  BY Zenon, <1>3, FileStays
<1> QED BY Zenon, <1>1, <1>2, <1>4 DEF StatsInv

\* The file is opened and locked.
LEMMA LockStep ==
  ASSUME StatsInv, NEW p \in Procs, at[p] = "exit", edfi_stats_available(p), lock = {}, lock' = {p},
         at' = [at EXCEPT ![p] = "read"],
         UNCHANGED <<handlers, executions, counts, file, shortWrite, stored>>
  PROVE  StatsInv'
<1>1. StatsTypeOK'
  BY Zenon DEF StatsInv, StatsTypeOK
<1>2. num_bbs > 0
  BY StatsConstants DEF edfi_stats_available, Bbs
<1>3. HandlerInv'
  BY Zenon, <1>2 DEF StatsInv, StatsTypeOK, HandlerInv
<1>4. stored \subseteq Procs /\ \A q \in Procs : at'[q] = "write" => at[q] = "write"
  BY Zenon DEF StatsInv, StatsTypeOK
<1>5. FileInv' /\ CountsAddUp'
  BY Zenon, <1>4, FileStays
<1> QED BY Zenon, <1>1, <1>3, <1>5 DEF StatsInv

\* The file is read, or refused.
LEMMA ReadStep ==
  ASSUME StatsInv, NEW p \in Procs, ReadStats(p)
  PROVE  StatsInv'
<1>1. /\ at[p] = "read" /\ lock = {p} /\ num_bbs \in Nat /\ file \in Seq(Nat)
      /\ UNCHANGED <<executions, handlers, lock, file, shortWrite, stored>>
  BY Zenon, StatsConstants DEF StatsInv, StatsTypeOK, HandlerInv, ReadStats
<1>2. CASE /\ Len(file) \in {0, num_bbs} /\ at' = [at EXCEPT ![p] = "write"]
           /\ counts' = [counts EXCEPT ![p] = [b \in Bbs |-> executions[p][b] +
                                                  IF file = <<>> THEN 0 ELSE file[b]]]
  <2>1. \A b \in Bbs : file # <<>> => file[b] \in Nat
    BY <1>1, <1>2 DEF Bbs
  <2>2. \A b \in Bbs : executions[p][b] \in Nat
    BY StatsConstants DEF StatsInv, StatsTypeOK
  <2>3. [b \in Bbs |-> executions[p][b] + IF file = <<>> THEN 0 ELSE file[b]] \in [Bbs -> Nat]
    BY <2>1, <2>2
  <2>4. StatsTypeOK'
    BY Zenon, <1>1, <1>2, <2>3 DEF StatsInv, StatsTypeOK
  <2>5. HandlerInv'
    BY Zenon, <1>1, <1>2 DEF StatsInv, StatsTypeOK, HandlerInv
  <2>6. \A q \in Procs \ {p} : at[q] # "write" /\ at'[q] = at[q]
    BY Zenon, <1>1, <1>2 DEF StatsInv, StatsTypeOK, HandlerInv
  <2>7. FileInv'
    BY Zenon, <1>1, <1>2, <2>6 DEF StatsInv, StatsTypeOK, FileInv
  <2>8. \A b \in Bbs : Executed(b)' = Executed(b)
    BY Zenon, <1>1, ExecutedStays DEF StatsInv
  <2>9. CountsAddUp'
    BY Zenon, <1>1, <2>8 DEF StatsInv, CountsAddUp
  <2> QED BY Zenon, <2>4, <2>5, <2>7, <2>9 DEF StatsInv
<1>3. CASE at' = [at EXCEPT ![p] = "close"] /\ counts' = counts
  <2>1. StatsTypeOK'
    BY Zenon, <1>1, <1>3 DEF StatsInv, StatsTypeOK
  <2>2. HandlerInv'
    BY Zenon, <1>1, <1>3 DEF StatsInv, StatsTypeOK, HandlerInv
  <2>3. stored \subseteq Procs /\ \A q \in Procs : at'[q] = "write" => at[q] = "write"
    BY Zenon, <1>3 DEF StatsInv, StatsTypeOK
  <2>4. FileInv' /\ CountsAddUp'
    BY Zenon, <1>1, <1>3, <2>3, FileStays
  <2> QED BY Zenon, <2>1, <2>2, <2>4 DEF StatsInv
<1> QED BY Zenon, <1>2, <1>3 DEF ReadStats, Goto

\* The counts are written, some or all of them.
LEMMA WriteStep ==
  ASSUME StatsInv, NEW p \in Procs, WriteStats(p)
  PROVE  StatsInv'
<1>1. PICK n \in 0 .. num_bbs :
        /\ file' = [b \in 1 .. (IF n > Len(file) THEN n ELSE Len(file)) |->
                      IF b <= n THEN counts[p][b] ELSE file[b]]
        /\ shortWrite' = (shortWrite \/ n < num_bbs)
        /\ stored' = IF n = num_bbs THEN stored \cup {p} ELSE stored
  BY Zenon DEF WriteStats
<1>2. /\ at[p] = "write" /\ at' = [at EXCEPT ![p] = "close"] /\ lock = {p}
      /\ UNCHANGED <<executions, handlers, counts, lock>>
      /\ num_bbs \in Nat /\ num_bbs > 0 /\ file \in Seq(Nat) /\ counts[p] \in [1 .. num_bbs -> Nat]
  BY Zenon, StatsConstants DEF StatsInv, StatsTypeOK, HandlerInv, WriteStats, Goto, Bbs
<1>3. file' \in Seq(Nat)
  <2>1. PICK m \in Nat : m = IF n > Len(file) THEN n ELSE Len(file)
    BY <1>2
  <2>2. \A b \in 1 .. m : (IF b <= n THEN counts[p][b] ELSE file[b]) \in Nat
    BY <1>2, <2>1
  <2> QED BY <1>1, <2>1, <2>2
<1>4. StatsTypeOK'
  BY Zenon, <1>1, <1>2, <1>3 DEF StatsInv, StatsTypeOK
<1>5. HandlerInv'
  BY Zenon, <1>1, <1>2 DEF StatsInv, StatsTypeOK, HandlerInv
<1>6. CASE shortWrite'
  BY Zenon, <1>4, <1>5, <1>6 DEF StatsInv, FileInv, CountsAddUp
<1>7. CASE ~ shortWrite'
  <2>1. n = num_bbs /\ ~ shortWrite /\ stored' = stored \cup {p} /\ Len(file) \in {0, num_bbs}
    <3>1. ~ shortWrite /\ ~ (n < num_bbs)
      BY <1>1, <1>7, Zenon
    <3>2. n = num_bbs
      BY <1>2, <3>1
    <3> QED BY Zenon, <1>1, <3>1, <3>2 DEF StatsInv, FileInv
  <2>2. Len(file') = num_bbs /\ \A b \in Bbs : file'[b] = counts[p][b]
    BY <1>1, <1>2, <2>1 DEF Bbs
  <2>3. file' # <<>>
    BY <1>2, <1>3, <2>2
  <2>4. \A q \in Procs : at'[q] # "write"
    BY Zenon, <1>2 DEF StatsInv, StatsTypeOK, HandlerInv
  <2>5. FileInv'
    BY Zenon, <2>2, <2>3, <2>4 DEF FileInv
  <2>6. p \notin stored
    BY Zenon, <1>2 DEF StatsInv, HandlerInv
  <2>7. ASSUME NEW b \in Bbs PROVE file'[b] = Executed(b)'
    <3>1. Executed(b)' = Executed(b) + executions[p][b]
      BY Zenon, <1>2, <2>1, <2>6, ExecutedGrows DEF StatsInv
    <3>2. counts[p][b] = executions[p][b] + IF file = <<>> THEN 0 ELSE file[b]
      BY Zenon, <1>2, <2>1 DEF StatsInv, FileInv
    <3>3. executions[p][b] \in Nat
      BY StatsConstants DEF StatsInv, StatsTypeOK
    <3>4. CASE file = <<>>
      <4>1. stored = {}
        BY Zenon, <2>1, <3>4 DEF StatsInv, FileInv
      <4>2. Executed(b) = 0
        BY Zenon, <4>1, ExecutedIsSum, SumOfNone
      <4> QED BY <2>2, <3>1, <3>2, <3>3, <3>4, <4>2
    <3>5. CASE file # <<>>
      <4>1. file[b] = Executed(b) /\ file[b] \in Nat
        BY <1>2, <2>1, <3>5 DEF StatsInv, CountsAddUp, Bbs
      <4> QED BY <2>2, <3>1, <3>2, <3>3, <3>5, <4>1
    <3> QED BY Zenon, <3>4, <3>5
  <2>8. CountsAddUp'
    BY Zenon, <2>7 DEF CountsAddUp
  <2> QED BY Zenon, <1>4, <1>5, <2>5, <2>8 DEF StatsInv
<1> QED BY Zenon, <1>6, <1>7

\* Every step keeps the invariant; a fork needs a process that has not started.
LEMMA NextStats ==
  ASSUME StatsInv, [StatsNext]_statsVars
  PROVE  StatsInv'
<1>1. ASSUME NEW p \in Procs, NEW b \in Bbs, edfi_onfault_default(p, b)
      PROVE  StatsInv'
  BY Zenon, <1>1, RunStep
<1>2. ASSUME NEW p \in Procs, NEW q \in Procs, edfi_fork_child(p, q)
      PROVE  StatsInv'
  BY Zenon, <1>2 DEF StatsInv, HandlerInv, edfi_fork_child, Goto
<1>3. ASSUME NEW p \in Procs, Exit(p)
      PROVE  StatsInv'
  BY Zenon, <1>3, RunStep
<1>4. ASSUME NEW p \in Procs, OpenFails(p)
      PROVE  StatsInv'
  <2>1. /\ at[p] = "exit" /\ HandlerDone(p)
        /\ UNCHANGED <<lock, executions, counts, file, shortWrite, stored>>
    BY Zenon, <1>4 DEF OpenFails
  <2> QED BY Zenon, <2>1, HandlerEnds, EndStep
<1>5. ASSUME NEW p \in Procs, edfi_stats_per_bb_add(p)
      PROVE  StatsInv'
  <2>1. at[p] = "exit" /\ UNCHANGED <<executions, counts, file, shortWrite, stored>>
    BY Zenon, <1>5 DEF edfi_stats_per_bb_add
  <2>2. CASE HandlerDone(p) /\ lock' = lock
    BY Zenon, <2>1, <2>2, HandlerEnds, EndStep
  <2>3. CASE /\ edfi_stats_available(p) /\ lock = {} /\ lock' = {p}
             /\ at' = [at EXCEPT ![p] = "read"] /\ handlers' = handlers
    BY Zenon, <2>1, <2>3, LockStep
  <2> QED BY Zenon, <1>5, <2>2, <2>3 DEF edfi_stats_per_bb_add, Goto
<1>6. ASSUME NEW p \in Procs, ReadStats(p) \/ WriteStats(p)
      PROVE  StatsInv'
  BY Zenon, <1>6, ReadStep, WriteStep
<1>7. ASSUME NEW p \in Procs, CloseStats(p)
      PROVE  StatsInv'
  <2>1. /\ at[p] = "close" /\ HandlerDone(p) /\ lock' = lock \ {p}
        /\ UNCHANGED <<executions, counts, file, shortWrite, stored>>
    BY Zenon, <1>7 DEF CloseStats
  <2> QED BY Zenon, <2>1, HandlerEnds, EndStep
<1>8. ASSUME NEW p \in Procs, Kill(p)
      PROVE  StatsInv'
  <2>1. /\ at' = [at EXCEPT ![p] = "gone"] /\ handlers' = handlers /\ lock' = lock \ {p}
        /\ UNCHANGED <<executions, counts, file, shortWrite, stored>>
    BY Zenon, <1>8 DEF Kill
  <2>2. handlers' \in [Procs -> Nat]
    BY Zenon, <2>1 DEF StatsInv, StatsTypeOK
  <2> QED BY Zenon, <2>1, <2>2, EndStep
<1>9. CASE UNCHANGED statsVars
  <2>1. StatsTypeOK' /\ HandlerInv'
    BY Zenon, <1>9 DEF statsVars, StatsInv, StatsTypeOK, HandlerInv
  <2>2. FileInv' /\ CountsAddUp'
    BY Zenon, <1>9, FileStays DEF statsVars
  <2> QED BY Zenon, <2>1, <2>2 DEF StatsInv
<1> QED BY Zenon, <1>1, <1>2, <1>3, <1>4, <1>5, <1>6, <1>7, <1>8, <1>9 DEF StatsNext

\* The statistics file adds up: for any number of programs that do not fork,
\* of basic blocks and of executions, in whatever order the programs exit, fail
\* to open the file or are killed, the file has the executions of exactly the
\* programs that wrote theirs, unless a write was short
\* (edfi_stats_per_bb_add, edfi_stats_per_bb_add_with_fd).
THEOREM StatisticsAddUp ==
  ASSUME First = Procs
  PROVE  StatsSpec => []CountsAddUp
<1>1. StatsInit => StatsInv
  BY Zenon, InitStats
<1>2. StatsInv /\ [StatsNext]_statsVars => StatsInv'
  BY Zenon, NextStats
<1>3. StatsInv => CountsAddUp
  BY Zenon DEF StatsInv
<1> QED BY <1>1, <1>2, <1>3, PTL DEF StatsSpec
=============================================================================
