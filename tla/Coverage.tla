------------------------------ MODULE Coverage ------------------------------
(***************************************************************************)
(* The coverage of the tests: the table of functions that modules share    *)
(* (function.c), the execution counts of the log files (logexeccounts.c)   *)
(* added up for the basic blocks of that table (coverage.c), and the       *)
(* coverage per module, per path (pathlist.c) and of all, also without the *)
(* blocks that booting covers (minixtestloganalyze.c).  The lines of       *)
(* source code are counted once (linecounter.c).                           *)
(*                                                                         *)
(* A function of the table is found by its name and path; the hash that    *)
(* chooses its bucket is any function of these.  An index counts from 0 as *)
(* in the code.                                                            *)
(***************************************************************************)
EXTENDS MapFile

CONSTANTS
  Programs,    \* what the compiler may have instrumented: functions of each module
  MaxCount,    \* bounds an execution count
  Stale        \* how many blocks fewer the build of a log may have than the map

VARIABLES
  program, hash,
  modules,     \* the list of the loaded modules
  boot, test,  \* the counts of booting and of a test, for the logged modules
  functions,   \* the table
  phase

vars == <<program, hash, modules, boot, test, functions, phase>>

Keys(prog) == UNION {{<<prog[m][i].name, prog[m][i].path>> : i \in DOMAIN prog[m]} : m \in DOMAIN prog}
NumBlocks(prog, m) == Fold(LAMBDA n, f : n + Len(f.blocks), 0, prog[m])
Bytes(m) == WriteMap(<<m>>, program[m])
Name(module) == module.name[1]

-----------------------------------------------------------------------------
(* The table of functions.                                                 *)

round_up_to_2n(value) == Min({n \in {1, 2, 4, 8, 16} : n >= value})

\* Where in the table a function is: its bucket and its place there, 0 if it
\* is not.
functions_find(table, name, path) ==
  LET b == (hash[<<name, path>>] % Len(table)) + 1
  IN  <<b, SelectInSeq(table[b], LAMBDA f : f.name = name /\ f.path = path)>>

\* A function that two modules contain must be the same in both.
SameBlock(bbf, bbm) ==
  /\ bbf.faultcand_count = bbm.faultcand_count
  /\ bbf.faultinj_count = bbm.faultinj_count
  /\ bbf.instr_count = bbm.instr_count
  /\ bbf.fault_path = bbm.fault_path
  /\ bbf.fault_line = bbm.fault_line
  /\ bbf.fault_type = bbm.fault_type

\* Fault: functions of as many blocks are taken for the same.
SameLength(func, module_func) == func.bb_count = module_func.bb_count

functions_match(func, module_func) ==
  /\ func.bb_count = module_func.bb_count
  /\ \A i \in DOMAIN func.bbs : SameBlock(func.bbs[i], module_func.bbs[i])

function_bb_init(bb) == bb @@ [global_bb_index |-> 0]

functions_add_function_new(module, module_func) ==
  [name |-> module_func.name, path |-> module_func.path, pathFixed |-> module_func.pathFixed,
   bb_count |-> module_func.bb_count,
   bbs |-> [i \in DOMAIN module_func.bbs |-> function_bb_init(module_func.bbs[i])],
   refs |-> <<[module |-> Name(module), bb_index_first |-> module_func.bb_index_first]>>,
   global_func_index |-> 0]

\* The functions of a module are added to the table; <<>> when the program exits.
functions_add_function(table, module, module_func) ==
  LET at == functions_find(table, module_func.name, module_func.path)
      ref == [module |-> Name(module), bb_index_first |-> module_func.bb_index_first]
  IN  CASE at[2] = 0 ->
             [table EXCEPT ![at[1]] = Append(@, functions_add_function_new(module, module_func))]
        [] at[2] # 0 /\ functions_match(table[at[1]][at[2]], module_func) ->
             [table EXCEPT ![at[1]][at[2]].refs = Append(@, ref)]
        [] OTHER -> <<>>

functions_add_modules(table, mods) ==
  Fold(LAMBDA t, m : Fold(LAMBDA u, f : IF u = <<>> THEN u ELSE functions_add_function(u, m, f),
                                  t, m.funcs),
           table, mods)

\* The blocks of all functions are numbered in the order of the table.
functions_init_global_bbs(table) ==
  LET all == FlattenSeq(table)
      Before(b, i) ==
        Fold(LAMBDA n, f : n + f.bb_count, 0,
                 FlattenSeq(SubSeq(table, 1, b - 1)) \o SubSeq(table[b], 1, i - 1))
      Number(b, i) ==
        [table[b][i] EXCEPT !.bbs = [k \in DOMAIN @ |-> [@[k] EXCEPT !.global_bb_index = Before(b, i) + k - 1]]]
  IN  [table |-> [b \in DOMAIN table |-> [i \in DOMAIN table[b] |-> Number(b, i)]],
       global_bb_count |-> Fold(LAMBDA n, f : n + f.bb_count, 0, all),
       global_func_count |-> Len(all)]

functions_build_table(mods) ==
  LET count == Fold(LAMBDA n, m : n + m.func_count, 0, mods)
      empty == [b \in 1 .. round_up_to_2n(count) |-> <<>>]
      full == functions_add_modules(empty, mods)
  IN  IF full = <<>> THEN <<>> ELSE functions_init_global_bbs(full)

\* The functions in the order of the table.
Entries(F) == FlattenSeq(F.table)

Find(F, name, path) ==
  LET at == functions_find(F.table, name, path) IN F.table[at[1]][at[2]]

\* The global index of a block of a module, whose index counts from 0.
RECURSIVE ToGlobalFrom(_, _, _, _)
ToGlobalFrom(F, module, i, bbindex_mod) ==
  CASE i > Len(module.funcs) -> -1
    [] i <= Len(module.funcs) /\ bbindex_mod < module.funcs[i].bb_count ->
         Find(F, module.funcs[i].name, module.funcs[i].path).bbs[bbindex_mod + 1].global_bb_index
    [] OTHER -> ToGlobalFrom(F, module, i + 1, bbindex_mod - module.funcs[i].bb_count)

module_bbindex_to_global(F, module, bbindex_mod) == ToGlobalFrom(F, module, 1, bbindex_mod)

module_find(mods, name) == SelectInSeq(mods, LAMBDA m : Name(m) = name)

-----------------------------------------------------------------------------
(* Execution counts.                                                       *)

coverage_init(F) ==
  [bbs |-> [g \in 0 .. F.global_bb_count - 1 |-> 0],
   funcs |-> [g \in 0 .. F.global_func_count - 1 |-> 0],
   modules |-> <<>>]

\* acc is the coverage and the index of the next block of the module.
coverage_add_execcount_function(acc, func, counts) ==
  LET Add(a, bb) ==
        [bb_index |-> a.bb_index + 1, covered |-> a.covered \/ (a.bb_index < Len(counts) /\ counts[a.bb_index + 1] > 0),
         coverage |-> IF a.bb_index < Len(counts)
                      THEN [a.coverage EXCEPT !.bbs[bb.global_bb_index] = @ + counts[a.bb_index + 1]]
                      ELSE a.coverage]
      added == Fold(Add, [acc EXCEPT !.covered = FALSE], func.bbs)
  IN  IF added.covered THEN [added EXCEPT !.coverage.funcs[func.global_func_index] = 1] ELSE added

coverage_add_module_to_list(coverage, name) ==
  IF Contains(coverage.modules, name) THEN coverage
  ELSE [coverage EXCEPT !.modules = <<name>> \o @]

\* <<>> when the log and the map disagree on the number of blocks.
coverage_add_execcount_module(coverage, F, module, counts) ==
  LET listed == coverage_add_module_to_list(coverage, Name(module))
      added == Fold(LAMBDA acc, f : coverage_add_execcount_function(acc, Find(F, f.name, f.path), counts),
                        [bb_index |-> 0, covered |-> FALSE, coverage |-> listed], module.funcs)
  IN  IF added.bb_index # Len(counts) THEN <<>> ELSE added.coverage

\* log is a sequence of <<name, counts>>, one for each module.
coverage_add_execcount_list(coverage, F, mods, log) ==
  Fold(LAMBDA c, e : IF c = <<>> \/ module_find(mods, e[1]) = 0 THEN c
                         ELSE coverage_add_execcount_module(c, F, mods[module_find(mods, e[1])], e[2]),
           coverage, log)

-----------------------------------------------------------------------------
(* Statistics.  lines_cov and lines_tot are the lines counted so far.      *)

Fields == {"func", "bb", "ins", "fc", "inj"}
NoStats == [cov |-> [f \in Fields |-> 0], tot |-> [f \in Fields |-> 0], lines_cov |-> {}, lines_tot |-> {}]

module_is_used(coverage, name) == Contains(coverage.modules, name)

function_is_in_used_module(coverage, func) ==
  \E i \in DOMAIN func.refs : module_is_used(coverage, func.refs[i].module)

Lines(bb) == {<<bb.lines[i].path, bb.lines[i].line>> : i \in DOMAIN bb.lines}

AddBlock(counts, bb) ==
  [counts EXCEPT !["bb"] = @ + 1, !["ins"] = @ + bb.instr_count,
                 !["fc"] = @ + bb.faultcand_count, !["inj"] = @ + bb.faultinj_count]

\* exclude is <<>> or a coverage whose covered blocks are left out; a function
\* with such a block is not counted.
coverage_compute_func(stats, coverage, exclude, func, only_used_modules) ==
  LET Excluded(bb) == exclude # <<>> /\ exclude[1].bbs[bb.global_bb_index] > 0
      Covered(bb) == coverage.bbs[bb.global_bb_index] > 0
      Add(s, bb) ==
        CASE Excluded(bb) -> s
          [] ~Excluded(bb) /\ Covered(bb) ->
               [cov |-> AddBlock(s.cov, bb), tot |-> AddBlock(s.tot, bb),
                lines_cov |-> s.lines_cov \union Lines(bb), lines_tot |-> s.lines_tot \union Lines(bb)]
          [] OTHER -> [s EXCEPT !.tot = AddBlock(@, bb), !.lines_tot = @ \union Lines(bb)]
      added == Fold(Add, stats, func.bbs)
      blocks == ToSet(func.bbs)
      cov_func == IF \E bb \in blocks : ~Excluded(bb) /\ Covered(bb) THEN 1 ELSE 0
  IN  CASE only_used_modules /\ ~function_is_in_used_module(coverage, func) -> stats
        [] ~(only_used_modules /\ ~function_is_in_used_module(coverage, func))
             /\ (\E bb \in blocks : Excluded(bb)) -> added
        [] OTHER -> [added EXCEPT !.cov["func"] = @ + cov_func, !.tot["func"] = @ + 1]

\* Whether match, of which matchlen tokens count, is the path or a directory
\* above it.
path_match(path, match) ==
  /\ IsPrefix(match, path)
  /\ \/ Len(path) = Len(match)
     \/ match = <<>>
     \/ Last(match) = "/"

\* path is <<>> or holds the path that functions must match.
coverage_compute_total(coverage, exclude, F, only_used_modules, path) ==
  Fold(LAMBDA s, f : IF path # <<>> /\ ~path_match(f.pathFixed, path[1]) THEN s
                         ELSE coverage_compute_func(s, coverage, exclude, f, only_used_modules),
           NoStats, Entries(F))

coverage_compute_module(coverage, exclude, F, module) ==
  Fold(LAMBDA s, f : coverage_compute_func(s, coverage, exclude, Find(F, f.name, f.path), FALSE),
           NoStats, module.funcs)

\* The paths of the functions and the directories above them, each once.
pathlist_init(F) ==
  UNION {{SubSeq(f.pathFixed, 1, n) :
            n \in {Len(f.pathFixed)} \union {k \in 1 .. Len(f.pathFixed) - 1 : f.pathFixed[k] = "/"}} :
         f \in ToSet(Entries(F))}

\* The coverage of a test and what of it booting does not cover, of a module (by
\* name), of a path, or of all.
dump_stats_for_test_get_coverage(c, b, F, mods, modname, path) ==
  LET module == mods[module_find(mods, modname)]
  IN CASE modname # "" /\ module_find(mods, modname) = 0 -> <<NoStats, NoStats>>
       [] modname # "" /\ module_find(mods, modname) # 0 ->
            <<coverage_compute_module(c, <<>>, F, module), coverage_compute_module(c, <<b>>, F, module)>>
       [] OTHER -> <<coverage_compute_total(c, <<>>, F, TRUE, path), coverage_compute_total(c, <<b>>, F, TRUE, path)>>

-----------------------------------------------------------------------------
(* The analysis: map and log files in any order, then the tables.          *)

Init ==
  /\ program \in Programs
  /\ hash \in [Keys(program) -> 0 .. 1]
  /\ modules = <<>> /\ boot = <<>> /\ test = <<>> /\ functions = <<>>
  /\ phase = "args"

load_map(m) ==
  /\ phase = "args"
  /\ module_find(modules, m) = 0
  /\ modules' = <<module_load_from_map(Bytes(m))>> \o modules
  /\ UNCHANGED <<program, hash, boot, test, functions, phase>>

\* A log with the counts of a module while booting and in a test.  The system
\* may have been built from an older program than the map.
load_log(m) ==
  /\ phase = "args"
  /\ m \notin {test[i][1] : i \in DOMAIN test}
  /\ \E n \in {NumBlocks(program, m) - k : k \in Stale} :
       /\ \E c \in [1 .. n -> 0 .. MaxCount] : test' = Append(test, <<m, c>>)
       /\ \E first \in 0 .. 1 : boot' = Append(boot, <<m, [k \in 1 .. n |-> IF k = 1 THEN first ELSE 0]>>)
  /\ UNCHANGED <<program, hash, modules, functions, phase>>

\* The table and the coverages; the tool exits when a function differs between
\* modules or a log does not belong to the map.
Tables ==
  /\ phase = "args" /\ modules # <<>>
  /\ LET table == functions_build_table(modules)
         failed == \/ table = <<>>
                   \/ coverage_add_execcount_list(coverage_init(table), table, modules, test) = <<>>
     IN  /\ functions' = IF failed THEN <<>> ELSE table
         /\ phase' = IF failed THEN "exit" ELSE "done"
  /\ UNCHANGED <<program, hash, modules, boot, test>>

Next == Tables \/ \E m \in DOMAIN program : load_map(m) \/ load_log(m)
Spec == Init /\ [][Next]_vars

CoverageOf(log) == coverage_add_execcount_list(coverage_init(functions), functions, modules, log)

-----------------------------------------------------------------------------
(* What the tables say, against the program and the logs.                  *)

\* The state of the tool: the loaded modules are modules of the program, each
\* once; the table exists once the arguments are read.
TypeOK ==
  /\ program \in Programs
  /\ phase \in {"args", "done", "exit"}
  /\ {Name(m) : m \in ToSet(modules)} \subseteq DOMAIN program
  /\ IsInjective([i \in DOMAIN modules |-> Name(modules[i])])
  /\ (functions # <<>>) = (phase = "done")

\* What the blocks of the program are.
Cands(block) == Fold(LAMBDA n, ins : n + Len(ins.candidates), 0, block)
Injs(block) == Fold(LAMBDA n, ins : n + Len(ins.injected), 0, block)
Places(block) == {block[i].at : i \in {j \in DOMAIN block : block[j].at # <<>>}}
InProgram(m, k) ==
  LET all == FlattenSeq([i \in DOMAIN program[m] |-> program[m][i].blocks]) IN all[k]

RECURSIVE Resolve(_, _)
Resolve(dir, path) ==
  CASE path = <<>> -> dir
    [] path # <<>> /\ path[1] \in {"/", "."} -> Resolve(dir, Tail(path))
    [] path # <<>> /\ path[1] = ".." -> Resolve(IF dir = <<>> THEN dir ELSE Front(dir), Tail(path))
    [] OTHER -> Resolve(Append(dir, path[1]), Tail(path))

\* A module that is loaded from the map the pass wrote has the functions and
\* blocks of the program: every block with its candidates, faults,
\* instructions and lines, found by the index that the pass gave it, and every
\* path names the same file after fixPath.
MapsAreRead ==
  \A i \in DOMAIN modules :
    LET mod == modules[i]  m == Name(mod)  prog == program[m]
    IN  /\ mod.func_count = Len(prog) /\ Len(mod.funcs) = Len(prog)
        /\ \A f \in DOMAIN prog :
             /\ mod.funcs[f].name = prog[f].name /\ mod.funcs[f].path = prog[f].path
             /\ Resolve(<<>>, mod.funcs[f].pathFixed) = Resolve(<<>>, WithoutDirectory(prog[f].path))
             /\ ToSet(mod.funcs[f].pathFixed) \intersect {".", ".."} = {}
        /\ \A k \in 1 .. NumBlocks(program, m) :
             LET at == module_get_bb_by_index(mod, k)
                 bb == mod.funcs[at[1]].bbs[at[2]]
             IN  /\ mod.funcs[at[1]].bb_index_first + at[2] = k
                 /\ bb.faultcand_count = Cands(InProgram(m, k))
                 /\ bb.faultinj_count = Injs(InProgram(m, k))
                 /\ bb.instr_count = Len(InProgram(m, k))
                 /\ Lines(bb) = Places(InProgram(m, k))
        /\ module_get_bb_by_index(mod, NumBlocks(program, m) + 1) = <<>>

\* mapprint shows the same blocks, and numbers the candidates one by one.
PrintsTheMap ==
  \A i \in DOMAIN modules :
    LET m == Name(modules[i])  printed == Printed(Bytes(m))
    IN  /\ Len(printed.rows) = NumBlocks(program, m)
        /\ \A k \in DOMAIN printed.rows :
             LET row == printed.rows[k]  at == module_get_bb_by_index(modules[i], k)
             IN  /\ row[1] = k /\ row[2] = program[m][at[1]].name
                 /\ row[3] = Cands(InProgram(m, k)) /\ row[4] = Injs(InProgram(m, k))
                 /\ row[5] = Len(InProgram(m, k))
                 /\ ToSet(row[6]) = Places(InProgram(m, k)) /\ IsInjective(row[6])
        /\ \A n \in DOMAIN printed.listed : printed.listed[n][1] = n - 1

\* The blocks of the program: <<module, index>>, equal ones of shared functions
\* identified.
Loaded == {Name(m) : m \in ToSet(modules)}
GlobalOf(m, k) == module_bbindex_to_global(functions, modules[module_find(modules, m)], k - 1)
FunctionOf(m, k) ==
  LET mod == modules[module_find(modules, m)]  at == module_get_bb_by_index(mod, k)
  IN  <<mod.funcs[at[1]].name, mod.funcs[at[1]].path, at[2]>>
Sites == UNION {{m} \X (1 .. NumBlocks(program, m)) : m \in Loaded}

\* Two blocks of modules have the same global index if and only if they are
\* the same block of the same function, and the indices are 0, 1, ... .
BlocksAreNumbered ==
  phase = "done" =>
    /\ \A s, t \in Sites :
         /\ (GlobalOf(s[1], s[2]) = GlobalOf(t[1], t[2])) = (FunctionOf(s[1], s[2]) = FunctionOf(t[1], t[2]))
         /\ GlobalOf(s[1], s[2]) = GlobalOf(t[1], t[2]) =>
              LET a == InProgram(s[1], s[2])  b == InProgram(t[1], t[2])
              IN  Cands(a) = Cands(b) /\ Injs(a) = Injs(b) /\ Len(a) = Len(b)
    /\ {GlobalOf(s[1], s[2]) : s \in Sites} = 0 .. functions.global_bb_count - 1

\* What the logs of loaded modules say of a block: its executions in all of
\* the modules that contain it.
Executions(log, g) ==
  MapThenSumSet(LAMBDA s : LET e == SelectInSeq(log, LAMBDA x : x[1] = s[1]) IN IF e = 0 THEN 0 ELSE log[e][2][s[2]],
                {s \in Sites : GlobalOf(s[1], s[2]) = g})

\* The coverage of a block is the sum of its executions in all modules; no
\* table is made from a log that does not belong to its map.
CountsAreAdded ==
  phase = "done" =>
    /\ \A i \in DOMAIN test : test[i][1] \in Loaded => Len(test[i][2]) = NumBlocks(program, test[i][1])
    /\ \A g \in 0 .. functions.global_bb_count - 1 :
      /\ CoverageOf(test).bbs[g] = Executions(test, g)
      /\ CoverageOf(boot).bbs[g] = Executions(boot, g)

\* The statistics count every selected block once: of all modules, of one
\* module and of one path; what is covered without booting was not covered by
\* booting; what lies under a directory is what lies under its entries; no
\* percentage of a row is above 100.
StatisticsAreTrue ==
  phase = "done" =>
    LET c == CoverageOf(test)  b == CoverageOf(boot)
        Blocks(P(_)) == {g \in 0 .. functions.global_bb_count - 1 : P(g)}
        all == coverage_compute_total(c, <<>>, functions, FALSE, <<>>)
        used == coverage_compute_total(c, <<>>, functions, TRUE, <<>>)
        late == coverage_compute_total(c, <<b>>, functions, FALSE, <<>>)
        paths == pathlist_init(functions)
    IN  /\ all.tot["bb"] = functions.global_bb_count
        /\ all.tot["func"] = functions.global_func_count
        /\ all.cov["bb"] = Cardinality(Blocks(LAMBDA g : Executions(test, g) > 0))
        /\ late.cov["bb"] = Cardinality(Blocks(LAMBDA g : Executions(test, g) > 0 /\ Executions(boot, g) = 0))
        /\ used.cov = all.cov /\ used.lines_cov = all.lines_cov
        /\ \A s \in {all, used, late} : s.lines_cov \subseteq s.lines_tot /\ \A f \in Fields : s.cov[f] <= s.tot[f]
        /\ \A m \in Loaded :
             LET s == coverage_compute_module(c, <<>>, functions, modules[module_find(modules, m)])
             IN  s.tot["bb"] = NumBlocks(program, m) /\ s.lines_tot \subseteq all.lines_tot
        /\ \A p \in paths :
             LET under == {q \in paths : IsPrefix(p, q) /\ q # p /\ (p = <<>> \/ Last(p) = "/")
                             /\ \A r \in paths : IsPrefix(p, r) /\ IsStrictPrefix(r, q) => r = p}
                 Of(q) == coverage_compute_total(c, <<>>, functions, FALSE, <<q>>).tot["bb"]
             IN  under # {} => Of(p) = MapThenSumSet(Of, under)
        /\ \A row \in {dump_stats_for_test_get_coverage(c, b, functions, modules, m, <<>>) : m \in {""} \union DOMAIN program}
                    \union {dump_stats_for_test_get_coverage(c, b, functions, modules, "", <<p>>) : p \in paths} :
             \A f \in Fields : row[2].cov[f] <= row[1].cov[f] /\ row[1].cov[f] <= row[1].tot[f]

CoverageIsTrue == MapsAreRead /\ PrintsTheMap /\ BlocksAreNumbered /\ CountsAreAdded /\ StatisticsAreTrue
=============================================================================
