------------------------------ MODULE Pickers ------------------------------
(***************************************************************************)
(* faultpicker chooses the basic blocks whose faults an experiment         *)
(* enables, at random in proportion to their fault candidates, from the    *)
(* blocks that the logged runs execute (faultpicker.c, bb_info.c).         *)
(* testpicker reads the lines that it prints and chooses, for each, tests  *)
(* that reach the block and other tests before and after them, within the  *)
(* time that a run may take (testpicker.c).                                *)
(***************************************************************************)
EXTENDS Coverage

CONSTANTS
  Names,       \* the names of the modules, sorted
  Loads,       \* the map files that may be named, in which order
  Logs,        \* what the logs of faultpicker may hold: <<module, counts>>
  Tests,       \* the tests of the golden run: their names, times and counts
  Boots,       \* the counts of booting
  Settings,    \* the options of testpicker
  Types,       \* the fault types that may be excluded (-T)
  MaxFaults

VARIABLES
  logs, typeexclude, numfaults, setting,
  bb_list,     \* the suitable blocks, shuffled; fc_count and the statistics
  lines,       \* the lines of the fault file
  tests        \* the tests printed for the lines so far

pvars == <<program, hash, modules, boot, test, functions, phase,
           logs, typeexclude, numfaults, setting, bb_list, lines, tests>>

DefaultRuntime == 600

LoadAll(order) == Fold(LAMBDA list, m : <<module_load_from_map(Bytes(m))>> \o list, <<>>, order)

-----------------------------------------------------------------------------
(* faultpicker.                                                            *)

module_find_duplicate(mods) ==
  \E i, j \in DOMAIN mods : i < j /\ Name(mods[i]) = Name(mods[j])

modules_sort(mods) ==
  FlattenSeq([i \in DOMAIN Names |-> SelectSeq(mods, LAMBDA m : Name(m) = Names[i])])

\* The run-time libraries of the recovery are not faulted.
Disabled(name) == name \in {<<"hypermem_">>, <<"ltckpt_">>, <<"lt_">>, <<"sef_">>}

fault_select_bb(bb, disable) ==
  IF bb.faultinj_count > 0 /\ (disable \/ bb.fault_type \in typeexclude)
  THEN [bb EXCEPT !.faultinj_count = 0] ELSE bb

fault_select(mods) ==
  [i \in DOMAIN mods |->
    [mods[i] EXCEPT !.funcs =
      [f \in DOMAIN @ |->
        [@[f] EXCEPT !.bbs = [b \in DOMAIN @ |-> fault_select_bb(@[b], Disabled(mods[i].funcs[f].name))]]]]]

\* The counts of modules that are logged several times are added to the last;
\* the tool exits when their numbers of blocks differ.
RECURSIVE execcounts_deduplicate(_)
execcounts_deduplicate(list) ==
  IF list = <<>> THEN <<>>
  ELSE LET other == SelectInSeq(Tail(list), LAMBDA e : e[1] = Head(list)[1])
           sum == [i \in DOMAIN Head(list)[2] |-> Tail(list)[other][2][i] + Head(list)[2][i]]
       IN  IF other = 0 THEN <<Head(list)>> \o execcounts_deduplicate(Tail(list))
           ELSE execcounts_deduplicate([Tail(list) EXCEPT ![other][2] = sum])

Mismatch(list) == \E i, j \in DOMAIN list : list[i][1] = list[j][1] /\ Len(list[i][2]) # Len(list[j][2])

\* The blocks of a function with what the statistics tell apart.
Classes == {"inj", "noinj", "nocand"} \X {"exec", "noexec"}
Class(coverage, bb, only_executed) ==
  <<CASE bb.faultcand_count <= 0 -> "nocand"
      [] bb.faultcand_count > 0 /\ bb.faultinj_count <= 0 -> "noinj"
      [] OTHER -> "inj",
    IF ~only_executed \/ coverage.bbs[bb.global_bb_index] > 0 THEN "exec" ELSE "noexec">>

Suitable(coverage, bb, only_executed) ==
  bb.faultinj_count > 0 /\ (~only_executed \/ coverage.bbs[bb.global_bb_index] > 0)

functions_get_injectable_bbs(coverage, F, only_executed) ==
  LET Of(f) == [i \in DOMAIN f.bbs |-> [func |-> f, func_bb_index |-> i - 1, bb |-> f.bbs[i], selected |-> FALSE]]
      all == FlattenSeq([i \in DOMAIN Entries(F) |-> Of(Entries(F)[i])])
      bbs == SelectSeq(all, LAMBDA b : Suitable(coverage, b.bb, only_executed))
      \* The second pass counts again when it finds no array.
      passes == IF bbs = <<>> THEN 2 ELSE 1
      Sum(c, N(_)) ==
        passes * Fold(LAMBDA n, b : IF Class(coverage, b.bb, only_executed) = c THEN n + N(b.bb) ELSE n, 0, all)
  IN  [bbs |-> bbs,
       bb_count |-> [c \in Classes |-> Sum(c, LAMBDA bb : 1)],
       fc_count |-> [c \in Classes |-> Sum(c, LAMBDA bb : bb.faultcand_count)],
       func_count |-> passes * Len(Entries(F)),
       func_count_shared |-> passes * Len(SelectSeq(Entries(F), LAMBDA f : Len(f.refs) > 1))]

\* The block that a random number selects among those not selected yet.
SelectedBy(list, fc_index) ==
  LET Upto(j) == Fold(LAMBDA n, b : IF b.selected THEN n ELSE n + b.bb.faultcand_count, 0, SubSeq(list, 1, j))
  IN  {j \in DOMAIN list : ~list[j].selected /\ fc_index < Upto(j) /\ \A k \in 1 .. j - 1 : fc_index >= Upto(k)}

\* A line of the fault file: the block in every module that has it and, after
\* an @, where its fault is in the source.
FaultLine(b) ==
  LET bb == b.func.bbs[b.func_bb_index + 1]
  IN  [faultspec |-> [i \in DOMAIN b.func.refs |->
         <<b.func.refs[i].module, b.func.refs[i].bb_index_first + b.func_bb_index + 1>>],
       comment |-> IF bb.fault_path # <<>> THEN <<bb.fault_path, bb.fault_line>> ELSE <<>>]

\* The tables that are printed when no faults are requested: the blocks with
\* a number of candidates or of faults, and how many of them are suitable.
print_stats_per_count(coverage, F, only_executed, use_inj) ==
  LET all == FlattenSeq([i \in DOMAIN Entries(F) |-> Entries(F)[i].bbs])
      Value(bb) == IF use_inj THEN bb.faultinj_count ELSE bb.faultcand_count
      most == Max({0} \union {Value(bb) : bb \in ToSet(all)})
      Total(v) == SelectSeq(all, LAMBDA bb : Value(bb) = v)
  IN  SelectSeq([n \in 1 .. most + 1 |->
                  <<n - 1, Len(SelectSeq(Total(n - 1), LAMBDA bb : Suitable(coverage, bb, only_executed))),
                    Len(Total(n - 1))>>],
                LAMBDA row : row[3] # 0)

\* The rows of -C: per function, without functions, and a line as often as it
\* occurs.
print_coveragefunc_function(coverage, func) ==
  LET Covered(bb) == coverage.bbs[bb.global_bb_index] > 0
      covered == SelectSeq(func.bbs, Covered)
      Counts(blocks) == Fold(AddBlock, NoStats.tot, blocks)
      Locs(blocks) == Fold(LAMBDA n, bb : n + Len(bb.lines), 0, blocks)
  IN  [name |-> func.name, path |-> func.path,
       module |-> IF Len(func.refs) > 1 THEN "<MULTIPLE>" ELSE func.refs[1].module,
       used |-> function_is_in_used_module(coverage, func),
       cov |-> Counts(covered), tot |-> Counts(func.bbs),
       cov_loc |-> Locs(covered), tot_loc |-> Locs(func.bbs)]

\* The rows of -c: the modules, all modules, all used modules.
print_coverage(coverage, F, mods) ==
  [i \in DOMAIN mods |-> coverage_compute_module(coverage, <<>>, F, mods[i])]
  \o <<coverage_compute_total(coverage, <<>>, F, FALSE, <<>>), coverage_compute_total(coverage, <<>>, F, TRUE, <<>>)>>

-----------------------------------------------------------------------------
(* testpicker.                                                             *)

\* The block that a line names in all of its modules, -1 if they disagree.
\* After a module or block that is not found the parser does not move past
\* the number, and rejects the line.
\* What is before the @ of a line.
select_tests_with_faultfile(line) == line.faultspec

\* The options that testpicker refuses.  With -o the time is the default.
usage(s) ==
  \/ s.onetest /\ (~s.printfaultspec \/ s.multitest \/ s.pretest \/ s.posttest \/ s.runtime # DefaultRuntime)
  \/ s.runtime <= 0

faultspec_to_bbindex(line) ==
  LET Global(ref) ==
        LET at == module_find(modules, ref[1])
        IN  IF at = 0 THEN -1 ELSE module_bbindex_to_global(functions, modules[at], ref[2] - 1)
      found == {Global(line[i]) : i \in DOMAIN line}
  IN  IF Cardinality(found) = 1 THEN CHOOSE g \in found : TRUE ELSE -1

Coverages(log) == coverage_add_execcount_list(coverage_init(functions), functions, modules, log)

\* The lists of tests that shuffling may make.
test_list_build(bbindex) ==
  LET Entry(t) == [name |-> t.name, runtime |-> t.runtime, covered |-> Coverages(t.counts).bbs[bbindex] > 0,
                   excluded |-> t.name \in setting.excludetest, selected |-> 0]
  IN  IF setting.excludeboot /\ Coverages(boot).bbs[bbindex] > 0 THEN {<<>>}
      ELSE {[i \in DOMAIN test |-> Entry(test[p[i]])] : p \in Permutations(DOMAIN test)}

Bit(b) == IF b THEN 1 ELSE 0
Factor(covered) == IF covered THEN 1 ELSE Bit(setting.pretest) + Bit(setting.posttest)

\* s is the list and the time that is left; with -m the tests that were
\* selected least often come first.
test_list_select_one(s, covered) ==
  LET fits == {i \in DOMAIN s.list : /\ ~s.list[i].excluded /\ s.list[i].covered = covered
                                     /\ s.list[i].runtime * Factor(covered) <= s.runtime}
      least == Min({s.list[i].selected : i \in fits})
      first == {i \in fits : s.list[i].selected = IF setting.multitest THEN least ELSE 0}
      i == Min(first)
  IN  IF first = {} THEN <<>>
      ELSE <<[list |-> [s.list EXCEPT ![i].selected = @ + 1],
              runtime |-> s.runtime - s.list[i].runtime * Factor(covered)]>>

RECURSIVE SelectMore(_)
SelectMore(s) ==
  LET other == IF setting.pretest \/ setting.posttest THEN test_list_select_one(s, FALSE) ELSE <<>>
      next == IF other # <<>> THEN other ELSE test_list_select_one(s, TRUE)
  IN  IF next = <<>> THEN s ELSE SelectMore(next[1])

\* At least one test must reach the fault.
test_list_select(list, runtime) ==
  LET s == [list |-> list, runtime |-> runtime]  first == test_list_select_one(s, TRUE)
  IN  IF first = <<>> THEN s ELSE SelectMore(first[1])

\* The selected tests, round by round, before, during and after the workload.
Round(list, covered, n) ==
  SelectSeq([i \in DOMAIN list |-> IF list[i].covered = covered /\ list[i].selected >= n THEN list[i].name ELSE ""],
            LAMBDA name : name # "")
Rounds(list, covered) ==
  FlattenSeq([n \in 1 .. Max({0} \union {list[i].selected : i \in DOMAIN list}) |-> Round(list, covered, n)])
test_list_print(list) ==
  <<IF setting.pretest THEN Rounds(list, FALSE) ELSE <<>>, Rounds(list, TRUE),
    IF setting.posttest THEN Rounds(list, FALSE) ELSE <<>>>>

\* With -o every test that reaches the fault is a run of its own, twice.
test_list_select_onetest(list) == SelectSeq(list, LAMBDA t : t.covered /\ ~t.excluded)

print_tests_onetest ==
  LET faults == Reverse([i \in DOMAIN tests |-> [line |-> i, runs |-> tests[i].runs]])
      most == Max({0} \union {Len(faults[i].runs) : i \in DOMAIN faults})
      Index(n) == LET having == SelectSeq(faults, LAMBDA f : Len(f.runs) >= n)
                  IN  [i \in DOMAIN having |-> <<having[i].line, having[i].runs[n]>>]
  IN  FlattenSeq([n \in 1 .. most |-> Index(n)])

TimeOf(name) == LET i == SelectInSeq(test, LAMBDA t : t.name = name) IN IF i = 0 THEN 0 ELSE test[i].runtime

Available == setting.runtime - setting.boottime - MapThenSumSet(TimeOf, setting.extratest)

-----------------------------------------------------------------------------
(* The two programs.                                                       *)

PInit ==
  /\ program \in Programs
  /\ hash = [k \in Keys(program) |-> 0]
  /\ \E order \in Loads : modules = LoadAll(order)
  /\ logs \in Logs /\ typeexclude \in SUBSET Types /\ numfaults \in 1 .. MaxFaults
  /\ setting = <<>> /\ test = <<>> /\ boot = <<>>
  /\ functions = <<>> /\ bb_list = <<>> /\ lines = <<>> /\ tests = <<>>
  /\ phase = "args"

inputs == <<program, hash, logs, typeexclude, numfaults>>
golden == <<setting, test, boot>>

\* faultpicker up to the shuffled list of suitable blocks.
faultpicker ==
  /\ phase = "args"
  /\ LET mods == fault_select(modules_sort(modules))
         table == functions_build_table(mods)
         log == execcounts_deduplicate(logs)
         coverage == coverage_add_execcount_list(coverage_init(table), table, mods, log)
         failed == \/ module_find_duplicate(mods) \/ table = <<>>
                   \/ Mismatch(logs) \/ coverage = <<>>
         suitable == functions_get_injectable_bbs(coverage, table, logs # <<>>)
     IN  IF failed THEN phase' = "exit" /\ UNCHANGED <<modules, functions, bb_list>>
         ELSE /\ phase' = "select"
              /\ modules' = mods /\ functions' = table
              /\ \E p \in Permutations(DOMAIN suitable.bbs) :
                   bb_list' = [suitable EXCEPT !.bbs = [i \in DOMAIN @ |-> @[p[i]]]]
                                @@ [left |-> suitable.fc_count[<<"inj", "exec">>]]
  /\ UNCHANGED <<inputs, golden, lines, tests>>

ToSelect == Min({numfaults, Len(bb_list.bbs)})
Selected == {j \in DOMAIN bb_list.bbs : bb_list.bbs[j].selected}

\* One random number; left is fc_count of the code.
select_fault ==
  /\ phase = "select" /\ Cardinality(Selected) < ToSelect
  /\ \E fc_index \in 0 .. bb_list.left - 1 : \E j \in SelectedBy(bb_list.bbs, fc_index) :
       bb_list' = [bb_list EXCEPT !.bbs[j].selected = TRUE, !.left = @ - bb_list.bbs[j].bb.faultcand_count]
  /\ UNCHANGED <<inputs, golden, modules, functions, lines, tests, phase>>

\* The lines are printed, and testpicker starts with its own options, map
\* files and logs.
print_faults ==
  /\ phase = "select" /\ Cardinality(Selected) = ToSelect
  /\ lines' = LET chosen == SelectSeq(bb_list.bbs, LAMBDA b : b.selected)
              IN  [i \in DOMAIN chosen |-> FaultLine(chosen[i])]
  /\ \E order \in Loads :
       LET mods == LoadAll(order) IN modules' = mods /\ functions' = functions_build_table(mods)
  /\ setting' \in Settings /\ test' \in Tests /\ boot' \in Boots
  /\ phase' = IF usage(setting') \/ functions' = <<>> THEN "exit" ELSE "tests"
  /\ UNCHANGED <<inputs, bb_list, tests>>

select_test_with_faultspec ==
  /\ phase = "tests" /\ Len(tests) < Len(lines)
  /\ LET bbindex == faultspec_to_bbindex(select_tests_with_faultfile(lines[Len(tests) + 1]))
         none == [bbindex |-> bbindex, list |-> <<>>, printed |-> <<<<>>, <<>>, <<>>>>, runs |-> <<>>]
     IN  \/ /\ bbindex < 0
            /\ tests' = Append(tests, none)
            /\ phase' = phase
         \/ /\ bbindex >= 0 /\ Available <= 0
            /\ phase' = "exit"
            /\ tests' = tests
         \/ /\ bbindex >= 0 /\ Available > 0
            /\ \E list \in test_list_build(bbindex) :
                 LET s == test_list_select(list, Available)
                     runs == test_list_select_onetest(list)
                 IN  tests' = Append(tests,
                       IF setting.onetest
                       THEN [none EXCEPT !.runs = [i \in DOMAIN runs |-> runs[i].name]]
                       ELSE [none EXCEPT !.list = s.list, !.printed = test_list_print(s.list)])
            /\ phase' = phase
  /\ UNCHANGED <<inputs, golden, modules, functions, bb_list, lines>>

\* The program fails when no test was selected for any fault.
Finish ==
  /\ phase = "tests" /\ Len(tests) = Len(lines)
  /\ phase' = IF \E i \in DOMAIN tests : tests[i].printed[2] # <<>> \/ tests[i].runs # <<>> THEN "done" ELSE "exit"
  /\ UNCHANGED <<inputs, golden, modules, functions, bb_list, lines, tests>>

PNext == faultpicker \/ select_fault \/ print_faults \/ select_test_with_faultspec \/ Finish
PSpec == PInit /\ [][PNext]_pvars

-----------------------------------------------------------------------------
(* What is picked.                                                         *)

\* The state of the two programs.
PTypeOK ==
  /\ phase \in {"args", "select", "tests", "done", "exit"}
  /\ phase \in {"tests", "done"} => Len(tests) <= Len(lines)
  /\ phase = "select" => bb_list.left >= 0

\* The executions of the block of a function in the logs of all modules.
LoggedRuns(name, path, k) ==
  LET Of(m, j) == Fold(LAMBDA n, e : IF e[1] = m THEN n + e[2][j] ELSE n, 0, logs)
  IN  MapThenSumSet(LAMBDA s : IF FunctionOf(s[1], s[2]) = <<name, path, k>> THEN Of(s[1], s[2]) ELSE 0, Sites)

\* Every random number selects one block, a block is selected by as many as it
\* has fault candidates, and no block is selected twice (the assertions on
\* fc_count and fc_index in select_faults).  Only blocks of the program with
\* an injected fault of a type that was not excluded, and that a logged run
\* executes, can be selected.
PicksAreFair ==
  phase = "select" =>
    /\ Cardinality(Selected) < ToSelect => bb_list.left > 0
    /\ \A j \in DOMAIN bb_list.bbs :
         LET b == bb_list.bbs[j]  block == b.func.bbs[b.func_bb_index + 1]
         IN  /\ Cardinality({n \in 0 .. bb_list.left - 1 : j \in SelectedBy(bb_list.bbs, n)})
                  = IF b.selected THEN 0 ELSE block.faultcand_count
             /\ ~Disabled(b.func.name) /\ block.fault_type \notin typeexclude /\ block.fault_type # <<>>
    /\ \A n \in 0 .. bb_list.left - 1 : Cardinality(SelectedBy(bb_list.bbs, n)) = 1

\* The statistics of faultpicker: every block is in one class, the suitable
\* blocks are the ones to select from, and the tables of blocks per number of
\* candidates and of coverage per function add up to the same.
StatisticsAddUp ==
  phase = "select" =>
    LET log == execcounts_deduplicate(logs)
        c == coverage_add_execcount_list(coverage_init(functions), functions, modules, log)
        Rows(use_inj) == print_stats_per_count(c, functions, logs # <<>>, use_inj)
        Column(rows, k) == Fold(LAMBDA n, row : n + row[k], 0, rows)
        PerFunction == [i \in DOMAIN Entries(functions) |-> print_coveragefunc_function(c, Entries(functions)[i])]
        Printed2 == print_coverage(c, functions, modules)
        total == Printed2[Len(modules) + 1]
    IN  /\ bb_list.bbs # <<>> =>
             /\ MapThenSumSet(LAMBDA k : bb_list.bb_count[k], Classes) = functions.global_bb_count
             /\ bb_list.bb_count[<<"inj", "exec">>] = Len(bb_list.bbs)
             /\ bb_list.func_count = functions.global_func_count
             /\ bb_list.func_count_shared <= bb_list.func_count
        /\ \A use_inj \in BOOLEAN :
             /\ Column(Rows(use_inj), 3) = functions.global_bb_count
             /\ Column(Rows(use_inj), 2) = Len(bb_list.bbs)
        /\ \A f \in Fields \ {"func"} :
             /\ Fold(LAMBDA n, r : n + r.tot[f], 0, PerFunction) = total.tot[f]
             /\ Fold(LAMBDA n, r : n + r.cov[f], 0, PerFunction) = total.cov[f]
        /\ \A i \in DOMAIN bb_list.bbs :
             LET b == bb_list.bbs[i]
             IN  logs # <<>> => LoggedRuns(b.func.name, b.func.path, b.func_bb_index + 1) > 0

\* A line of the fault file names the block that was selected in every module
\* that has it, and testpicker, with any order of map files that has all of
\* these modules, takes it for that block.
FaultsAreNamed ==
  phase \in {"tests", "done"} =>
    LET chosen == SelectSeq(bb_list.bbs, LAMBDA b : b.selected)
    IN  /\ Len(lines) = ToSelect /\ IsInjective([i \in DOMAIN lines |-> lines[i].faultspec])
        /\ \A i \in DOMAIN lines :
             LET all == {ref[1] : ref \in ToSet(lines[i].faultspec)}  g == faultspec_to_bbindex(lines[i].faultspec)
             IN  /\ all \subseteq Loaded =>
                      \A ref \in ToSet(lines[i].faultspec) :
                        /\ GlobalOf(ref[1], ref[2]) = g
                        /\ FunctionOf(ref[1], ref[2]) =
                             <<chosen[i].func.name, chosen[i].func.path, chosen[i].func_bb_index + 1>>
                 /\ ~(all \subseteq Loaded) => g = -1

\* The tests chosen for a fault fit in the time of a run, one of them reaches
\* the fault, the same ones run before and after the workload when both are
\* asked for, excluded tests never run, a test runs once unless it may be
\* repeated, and nothing that still fits was left out.
TestsFit ==
  phase \in {"tests", "done"} =>
    \A i \in DOMAIN tests :
      LET t == tests[i]
          Cost(names) == Fold(LAMBDA n, name : n + TimeOf(name), 0, names)
          cost == Cost(t.printed[1]) + Cost(t.printed[2]) + Cost(t.printed[3])
          spent == setting.boottime + MapThenSumSet(TimeOf, setting.extratest) + cost
          names == UNION {ToSet(t.printed[k]) : k \in 1 .. 3}
          Reaches(name) ==
            Coverages(test[SelectInSeq(test, LAMBDA x : x.name = name)].counts).bbs[t.bbindex] > 0
      IN  /\ names # {} => t.bbindex >= 0 /\ t.printed[2] # <<>> /\ spent <= setting.runtime
          /\ names \intersect setting.excludetest = {}
          /\ \A name \in names : Reaches(name) = (name \in ToSet(t.printed[2]))
          /\ setting.pretest /\ setting.posttest => t.printed[1] = t.printed[3]
          /\ ~setting.multitest => \A k \in 1 .. 3 : IsInjective(t.printed[k])
          /\ t.printed[2] # <<>> =>
               \A k \in DOMAIN t.list :
                 LET e == t.list[k]
                 IN  (setting.multitest \/ e.selected = 0) /\ ~e.excluded /\ (e.covered \/ Factor(FALSE) > 0)
                       => spent + e.runtime * Factor(e.covered) > setting.runtime

\* With -o every fault is run with every test that reaches it, once.
OneTestRuns ==
  phase = "done" /\ setting.onetest =>
    /\ IsInjective(print_tests_onetest)
    /\ ToSet(print_tests_onetest) =
         {p \in (DOMAIN tests) \X {t.name : t \in ToSet(test)} :
            LET t == test[SelectInSeq(test, LAMBDA x : x.name = p[2])]  g == tests[p[1]].bbindex
            IN  /\ g >= 0 /\ p[2] \notin setting.excludetest
                /\ ~(setting.excludeboot /\ Coverages(boot).bbs[g] > 0)
                /\ Coverages(t.counts).bbs[g] > 0}

=============================================================================
