----------------------------- MODULE LogReport -----------------------------
(***************************************************************************)
(* hypermemloganalyze: what it keeps of the log of a run (loginfo.c), the  *)
(* row that it writes for the run, the aggregates of the runs by fault,    *)
(* module, path, number of restarts and step of the workload, for each     *)
(* system and workload, and the statistical tests that compare them        *)
(* (hypermemloganalyze.c, stats.c).  A run without a fault is golden.      *)
(*                                                                         *)
(* A log is the sequence of callbacks that logparse.c makes of it, each    *)
(* with its time.  0 is the zero time.  Systems and workloads are numbers  *)
(* in the order of their names, 0 is no name, or all of them.  A path is   *)
(* the sequence of its elements.                                           *)
(***************************************************************************)
EXTENDS MapFile

CONSTANTS
  Base,              \* Base[m] is the name of a module without its instance
  MapFiles,          \* the blocks of modules: [path, line, func, type]
  pathclass_specs,   \* <<class, path>>
  Directories,       \* Directories[d]: the logs, each [system, lines], and how
                     \* many of them at most are given to the tool
  MIN_RUNS,          \* 5 in the code: groups with fewer runs are not compared
  CHI2_EXPECTED_MIN  \* 5 in the code

VARIABLES
  golden_list,       \* the golden runs, the latest first
  stats,             \* the aggregates: a function of <<list, key, <<system, workload>>>>
  output_all,        \* the rows of the runs
  summary,           \* what the statistical tests say
  warnings,          \* the warnings about each log, in order
  phase,             \* "logs", "done", or "assert" when an assertion failed
  history,           \* what is kept of each log, in order
  directory          \* where the logs are

vars == <<golden_list, stats, output_all, summary, warnings, phase, history, directory>>

logstep_before_qemu_start == 0
logstep_qemu_start == 1
logstep_before_sanity_pre == 2
logstep_after_sanity_pre == 3
logstep_workload_end == 4
logstep_after_sanity_post == 5
logstep_qemu_exit == 6
Steps == 0 .. 6

-----------------------------------------------------------------------------
(* What is kept of a log.                                                  *)

None == [s \in Steps |-> 0]
NoModule ==
  [time_startup |-> 0, time_context_set |-> 0, time_faultindex_get |-> 0, fault_bb_index |-> -1,
   execcount |-> <<>>, fault_count |-> None, fault_time_first |-> None, fault_time_last |-> None,
   restart_count |-> None, restart_time_first |-> None, restart_time_last |-> None]

NoInfo(system) ==
  [system |-> system, workload |-> 0, faultspec |-> "", pre |-> FALSE, post |-> FALSE,
   step |-> 0, step_time |-> None, modules |-> <<>>]

timeval_set_to_min(dst, src) == IF src = 0 THEN dst ELSE IF dst = 0 \/ src < dst THEN src ELSE dst
timeval_set_to_max(dst, src) == IF src = 0 THEN dst ELSE IF dst = 0 \/ src > dst THEN src ELSE dst

module_loginfo_find(info, name) == SelectInSeq(info.modules, LAMBDA m : m.name = name)

loginfo_module_add(info, name) ==
  IF module_loginfo_find(info, name) # 0 THEN info
  ELSE [info EXCEPT !.modules = Append(@, [name |-> name] @@ NoModule)]

\* An unexpected transition is taken, but its time is not kept.
set_logstep(info, step, time) ==
  IF info.step >= step THEN [info EXCEPT !.step = step]
  ELSE [info EXCEPT !.step = step, !.step_time[step] = time]

\* What a line does to the module it names; f is a function on modules.
OnModule(info, name, Do(_)) ==
  LET added == loginfo_module_add(info, name)
  IN  [added EXCEPT !.modules[module_loginfo_find(added, name)] = Do(@)]

loginfo_line_handler_edfi_context_reset(info, name, time) ==
  OnModule(info, name,
    LAMBDA m : [m EXCEPT !.restart_count[info.step] = @ + 1,
                         !.restart_time_first[info.step] = timeval_set_to_min(@, time),
                         !.restart_time_last[info.step] = timeval_set_to_max(@, time)])

\* All instances of a module get the index; the first one stays.
loginfo_line_handler_edfi_faultindex_get(info, base, bbindex, time) ==
  IF bbindex < 0 THEN info
  ELSE [info EXCEPT !.modules =
         [i \in DOMAIN @ |->
           IF Base[@[i].name] = base /\ @[i].fault_bb_index < 0
           THEN [@[i] EXCEPT !.fault_bb_index = bbindex, !.time_faultindex_get = time] ELSE @[i]]]

loginfo_line_handler_fault(info, name, repeat, time) ==
  OnModule(info, name,
    LAMBDA m : [m EXCEPT !.fault_count[info.step] = @ + repeat,
                         !.fault_time_first[info.step] = timeval_set_to_min(@, time),
                         !.fault_time_last[info.step] = timeval_set_to_max(@, time)])

\* Counts of another number of blocks than before are not taken.
loginfo_line_handler_edfi_dump_stats_module(info, name, bbs) ==
  OnModule(info, name, LAMBDA m : IF m.execcount # <<>> /\ Len(m.execcount) # Len(bbs) THEN m
                                  ELSE [m EXCEPT !.execcount = bbs])

loginfo_line_handler_print_sanity(info, passed, posttest, time) ==
  LET stepped == set_logstep(info, IF posttest THEN logstep_after_sanity_post ELSE logstep_after_sanity_pre, time)
  IN  [stepped EXCEPT !.pre = @ \/ (passed /\ ~posttest), !.post = @ \/ (passed /\ posttest)]

Handle(info, line) ==
  CASE line.cb = "hypermem_logpath" -> set_logstep(info, logstep_qemu_start, line.time)
    [] line.cb = "hypermem_faultspec" -> [info EXCEPT !.faultspec = IF @ = "" THEN line.arg ELSE @]
    [] line.cb = "qemu_drive" -> [info EXCEPT !.workload = IF @ = 0 THEN line.arg ELSE @]
    [] line.cb = "print_startup" -> OnModule(info, line.arg, LAMBDA m : [m EXCEPT !.time_startup = line.time])
    [] line.cb = "edfi_context_set" -> OnModule(info, line.arg, LAMBDA m : [m EXCEPT !.time_context_set = line.time])
    [] line.cb = "edfi_context_reset" -> loginfo_line_handler_edfi_context_reset(info, line.arg, line.time)
    [] line.cb = "edfi_faultindex_get" ->
         loginfo_line_handler_edfi_faultindex_get(info, line.arg[1], line.arg[2], line.time)
    [] line.cb = "fault" -> loginfo_line_handler_fault(info, line.arg[1], line.arg[2], line.time)
    [] line.cb = "edfi_dump_stats" ->
         IF info.step = logstep_qemu_start THEN set_logstep(info, logstep_before_sanity_pre, line.time) ELSE info
    [] line.cb = "edfi_dump_stats_module" ->
         loginfo_line_handler_edfi_dump_stats_module(info, line.arg[1], line.arg[2])
    [] line.cb = "print_sanity" -> loginfo_line_handler_print_sanity(info, line.arg[1], line.arg[2], line.time)
    [] line.cb \in {"print_start", "print_workload", "print_workload_completed"} -> info
    [] line.cb = "print_end" -> set_logstep(info, logstep_workload_end, line.time)
    [] line.cb = "qemu_exit" -> set_logstep(info, logstep_qemu_exit, line.time)

loginfo_load_from_log(log) == Fold(Handle, NoInfo(log.system), log.lines)

is_golden(info) == \A i \in DOMAIN info.modules : info.modules[i].fault_bb_index < 0

\* The latest golden run of a system and workload, 0 if there is none.
golden_find(info) ==
  SelectInSeq(golden_list, LAMBDA g : g.system = info.system /\ g.workload = info.workload)

Sum(m, field) == Fold(LAMBDA n, s : n + m[field][s], 0, <<0, 1, 2, 3, 4, 5, 6>>)
SumOver(seq, N(_)) == Fold(LAMBDA n, x : n + N(x), 0, seq)

-----------------------------------------------------------------------------
(* The row of a run.                                                       *)

NoFault == [path |-> <<>>, line |-> 0, func |-> "", type |-> ""]
lookup_map_info(m) ==
  LET map == IF Base[m.name] \in DOMAIN MapFiles THEN MapFiles[Base[m.name]] ELSE <<>>
  IN  IF m.fault_bb_index \in DOMAIN map THEN map[m.fault_bb_index] ELSE NoFault

\* What the modules of a log say of the fault; the first is believed.
Known(info, field) ==
  SelectSeq([i \in DOMAIN info.modules |-> lookup_map_info(info.modules[i])[field]], LAMBDA x : x # NoFault[field])
FirstKnown(info, field) == IF Known(info, field) = <<>> THEN NoFault[field] ELSE Known(info, field)[1]
Inconsistent(info) ==
  {<<"inconsistent", f>> : f \in {f \in DOMAIN NoFault : \E x \in ToSet(Known(info, f)) : x # FirstKnown(info, f)}}

\* The earliest of the times of a log, but for the first faults and restarts.
find_reftime(info) ==
  LET OfSteps(time, times) == Fold(timeval_set_to_min, time, [s \in 1 .. 7 |-> times[s - 1]])
      OfModule(time, m) ==
        OfSteps(OfSteps(Fold(timeval_set_to_min, time, <<m.time_startup, m.time_context_set, m.time_faultindex_get>>),
                        m.fault_time_last), m.restart_time_last)
  IN  Fold(OfModule, OfSteps(0, info.step_time), info.modules)

\* The last step that a run reached while the machine ran.
find_last_step(info) ==
  Max({0} \union {s \in 0 .. logstep_qemu_exit - 1 : info.step_time[s] # 0})

\* Blocks that only one of two runs executes; none unless both were counted.
match_bbs_executed(m, golden) ==
  LET Only(a, b) == Cardinality({i \in DOMAIN a : a[i] > 0 /\ b[i] = 0})
  IN  IF m.execcount = <<>> \/ golden.execcount = <<>> THEN <<0, 0>>
      ELSE <<Only(m.execcount, golden.execcount), Only(golden.execcount, m.execcount)>>

\* What a row says of the modules; first and last are the times of a kind.
SummarizeModules(info) ==
  LET mods == info.modules
      g == IF is_golden(info) THEN 0 ELSE golden_find(info)
      Golden(m) == IF g = 0 THEN 0 ELSE module_loginfo_find(golden_list[g], m.name)
      Restarts(m) == Sum(m, "restart_count")
      Expected(m) == IF Golden(m) = 0 THEN 0 ELSE Sum(golden_list[g].modules[Golden(m)], "restart_count")
      Beyond(m) == IF Restarts(m) > Expected(m) THEN Restarts(m) - Expected(m) ELSE 0
      Blocks(m, k) == IF Golden(m) = 0 THEN 0 ELSE match_bbs_executed(m, golden_list[g].modules[Golden(m)])[k]
      Count(P(_)) == Len(SelectSeq(mods, P))
      PerStep(field) == [s \in Steps |-> SumOver(mods, LAMBDA m : m[field][s])]
      Times(field, Best(_, _)) ==
        Fold(LAMBDA time, m : Fold(Best, time, [s \in 1 .. 7 |-> m[field][s - 1]]), 0, mods)
      FirstAndLast(field) == <<Fold(LAMBDA time, m : timeval_set_to_min(time, m[field]), 0, mods),
                               Fold(LAMBDA time, m : timeval_set_to_max(time, m[field]), 0, mods)>>
  IN  [module_count |-> Len(mods),
       startup_time |-> FirstAndLast("time_startup"), context_set_time |-> FirstAndLast("time_context_set"),
       faultindex_get_time |-> FirstAndLast("time_faultindex_get"),
       module_startup_count |-> Count(LAMBDA m : m.time_startup # 0),
       module_context_set_count |-> Count(LAMBDA m : m.time_context_set # 0),
       module_faultindex_get_count |-> Count(LAMBDA m : m.time_faultindex_get # 0),
       module_fault_inj_count |-> Count(LAMBDA m : m.fault_bb_index >= 0),
       module_fault_act_count |-> Count(LAMBDA m : Sum(m, "fault_count") > 0),
       fault_act_count |-> PerStep("fault_count"), restart_count |-> PerStep("restart_count"),
       fault_time |-> <<Times("fault_time_first", timeval_set_to_min), Times("fault_time_last", timeval_set_to_max)>>,
       restart_time |-> <<Times("restart_time_first", timeval_set_to_min), Times("restart_time_last", timeval_set_to_max)>>,
       module_restart_count |-> Count(LAMBDA m : Restarts(m) > 0),
       module_restart_count_not_in_golden |-> Count(LAMBDA m : Beyond(m) > 0),
       restart_count_not_in_golden |-> SumOver(mods, Beyond),
       bb_extra |-> SumOver(mods, LAMBDA m : Blocks(m, 1)), bb_missing |-> SumOver(mods, LAMBDA m : Blocks(m, 2)),
       module_extra |-> Count(LAMBDA m : Golden(m) = 0),
       module_missing |-> IF g = 0 THEN 0
         ELSE Len(SelectSeq(golden_list[g].modules, LAMBDA m : module_loginfo_find(info, m.name) = 0))]

\* The titles of the file of all runs.  A time, like all that may be missing,
\* is <<>> or <<time>>.
Named(names) == [i \in DOMAIN names |-> <<names[i]>>]
CountAndTimes(name) == << <<name, "count">>, <<name, "time_first">>, <<name, "time_last">> >>
RowTitles ==
  Named(<<"system", "workload", "logpath", "faultspec", "faultloc", "faultfunc", "faultype", "workload_reported",
          "sanity_passed_pre", "sanity_passed_post", "last_step">>)
  \o [s \in 1 .. 6 |-> <<"time", s>>]
  \o << <<"module_count">> >> \o CountAndTimes("module_startup") \o CountAndTimes("module_context_set") \o CountAndTimes("module_faultindex_get")
  \o Named(<<"module_fault_inj_count", "module_fault_act_count">>) \o CountAndTimes("fault_act")
  \o [s \in 1 .. 7 |-> <<"fault_act_count", s - 1>>]
  \o << <<"module_restart_count">> >> \o CountAndTimes("restart")
  \o [s \in 1 .. 7 |-> <<"restart_count", s - 1>>]
  \o Named(<<"module_restart_count_not_in_golden", "restart_count_not_in_golden", "bb_extra", "bb_missing",
             "module_extra", "module_missing">>)

\* The row of a run; the times are relative to the earliest.
output_analysis_all(info) ==
  LET reftime == find_reftime(info)  row == SummarizeModules(info)
      Relative(time) == IF time = 0 THEN <<>> ELSE <<time - reftime>>
      Both(times) == <<Relative(times[1]), Relative(times[2])>>
      Total(counts) == Fold(LAMBDA n, s : n + counts[s], 0, <<0, 1, 2, 3, 4, 5, 6>>)
      Counts(counts) == [s \in 1 .. 7 |-> counts[s - 1]]
  IN  <<info.system, info.workload, "logpath", IF is_golden(info) THEN "" ELSE info.faultspec,
        <<FirstKnown(info, "path"), FirstKnown(info, "line")>>, FirstKnown(info, "func"), FirstKnown(info, "type"),
        "workload_reported", info.pre, info.post, find_last_step(info)>>
      \o [s \in 1 .. 6 |-> Relative(info.step_time[s])]
      \o <<row.module_count, row.module_startup_count>> \o Both(row.startup_time)
      \o <<row.module_context_set_count>> \o Both(row.context_set_time)
      \o <<row.module_faultindex_get_count>> \o Both(row.faultindex_get_time)
      \o <<row.module_fault_inj_count, row.module_fault_act_count, Total(row.fault_act_count)>> \o Both(row.fault_time)
      \o Counts(row.fault_act_count)
      \o <<row.module_restart_count, Total(row.restart_count)>> \o Both(row.restart_time)
      \o Counts(row.restart_count)
      \o (IF is_golden(info) THEN [i \in 1 .. 6 |-> <<>>]
          ELSE <<row.module_restart_count_not_in_golden, row.restart_count_not_in_golden, row.bb_extra, row.bb_missing,
                 row.module_extra, row.module_missing>>)

-----------------------------------------------------------------------------
(* The aggregates.                                                         *)

outcome_inactive == 0
outcome_invalid == 1
outcome_success == 2
outcome_crash == 3
Outcomes == 0 .. 3
ZSCORE_MAX == 4

\* The pairs of steps whose time is written, of all that are aggregated.
TimedSeq ==
  << <<logstep_qemu_start, logstep_before_sanity_pre>>, <<logstep_before_sanity_pre, logstep_after_sanity_pre>>,
     <<logstep_after_sanity_pre, logstep_workload_end>>, <<logstep_workload_end, logstep_after_sanity_post>>,
     <<logstep_qemu_start, logstep_after_sanity_post>> >>
TimedSteps == ToSet(TimedSeq)

NoAggregateStat == [n |-> 0, sum |-> 0, sum2 |-> 0]
stat_aggregate_add(a, value) == [n |-> a.n + 1, sum |-> a.sum + value, sum2 |-> a.sum2 + value * value]
\* The variance times n * (n - 1).
stat_aggregate_var(a) == a.n * a.sum2 - a.sum * a.sum

\* The score is rounded to zero: (value - avg) / stdev is at least k if
\* this holds of the squares.
stat_aggregate_zscore_add(bins, value, golden) ==
  LET away == value * golden.n - golden.sum
      size == Max({k \in 0 .. ZSCORE_MAX :
                     away * away * (golden.n - 1) >= k * k * golden.n * stat_aggregate_var(golden)})
  IN  IF golden.n <= 1 \/ stat_aggregate_var(golden) = 0 THEN bins
      ELSE [bins EXCEPT ![IF away < 0 THEN -size ELSE size] = @ + 1]

bin_index(value) ==
  IF value < 1 THEN 0 ELSE IF value < 2 THEN 1 ELSE IF value < 5 THEN 2 ELSE IF value < 10 THEN 3
  ELSE Min({11} \union {b \in 4 .. 10 : value < 10 ^ (b - 2)})

NoAggregate ==
  [n |-> 0, sanity_passed |-> [p \in BOOLEAN \X BOOLEAN |-> 0], activated |-> 0, valid |-> 0, crash |-> 0,
   step_reached |-> [o \in Outcomes |-> None],
   step_time_diff |-> [p \in TimedSteps |-> NoAggregateStat],
   step_time_diff_z |-> [p \in TimedSteps |-> [z \in -ZSCORE_MAX .. ZSCORE_MAX |-> 0]],
   module_fault_act_count |-> NoAggregateStat, fault_act_count |-> NoAggregateStat, log10_n |-> 0,
   fault_act_count_bins |-> [b \in 0 .. 11 |-> 0],
   module_restart_count |-> NoAggregateStat, restart_count |-> NoAggregateStat,
   restart_count_bins |-> [b \in 0 .. 11 |-> 0]]

Activations(info) == SumOver(info.modules, LAMBDA m : Sum(m, "fault_count"))
Restarts(info) == SumOver(info.modules, LAMBDA m : Sum(m, "restart_count"))

Outcome(info) ==
  IF Activations(info) = 0 THEN outcome_inactive
  ELSE IF ~info.pre THEN outcome_invalid
  ELSE IF info.post THEN outcome_success ELSE outcome_crash

GoldenList == "golden"
Lists == {"fault_act_count", "fault_type", "module", "path", "pathclass", "restart_count", "step"}
ALL == <<"<ALL>">>
FAULTY == <<"<FAULTY>">>
GOLDEN == <<"<GOLDEN>">>
Key(value) == <<"=", value>>

path_match(path, matchwith) == IsPrefix(matchwith, path)

\* The class of the longest match, of the first among equals.
pathclassify(path) ==
  LET matches == {i \in DOMAIN pathclass_specs : path_match(path, pathclass_specs[i][2])}
      longest == {i \in matches : \A j \in matches : Len(pathclass_specs[j][2]) <= Len(pathclass_specs[i][2])}
  IN  IF matches = {} THEN "other" ELSE pathclass_specs[Min(longest)][1]

\* The step in which a fault was activated first.
output_analysis_aggregate_step(active) == IF active = {} THEN <<"<NONE>">> ELSE Key(Min(active))

\* The keys of a faulty run, besides those of output_analysis_aggregate_all.
output_analysis_aggregate(info) ==
  LET path == FirstKnown(info, "path")  type == FirstKnown(info, "type")
      faulty == SelectSeq(info.modules, LAMBDA m : m.fault_bb_index >= 0)
      active == {s \in Steps : \E i \in DOMAIN info.modules : info.modules[i].fault_count[s] > 0}
  IN  {<<"fault_act_count", Key(bin_index(Activations(info)))>>,
       <<"module", IF Len(faulty) > 1 THEN <<"<MULTIPLE>">> ELSE Key(faulty[1].name)>>,
       <<"pathclass", Key(IF path = <<>> THEN "other" ELSE pathclassify(path))>>,
       <<"restart_count", Key(bin_index(Restarts(info)))>>,
       <<"step", output_analysis_aggregate_step(active)>>}
      \union (IF type = "" THEN {} ELSE {<<"fault_type", Key(type)>>})
      \union (IF path = <<>> THEN {<<"path", <<"<UNKNOWN>">>>>}
              ELSE {<<"path", Key(SubSeq(path, 1, n))>> : n \in DOMAIN path})

\* What the aggregates take from a run.
Facts(info) ==
  [system |-> info.system, workload |-> info.workload, golden |-> is_golden(info), sanity |-> <<info.pre, info.post>>,
   outcome |-> Outcome(info), last |-> find_last_step(info), time |-> info.step_time, module_count |-> Len(info.modules),
   acts |-> Activations(info), restarts |-> Restarts(info),
   fault_modules |-> Len(SelectSeq(info.modules, LAMBDA m : Sum(m, "fault_count") > 0)),
   restart_modules |-> Len(SelectSeq(info.modules, LAMBDA m : Sum(m, "restart_count") > 0)),
   keys |-> IF is_golden(info) THEN {} ELSE output_analysis_aggregate(info)]

\* golden is the aggregate of the golden runs, if it is used and exists.
output_analysis_aggregate_add(run, a, golden) ==
  LET outcome == run.outcome
      Took(p) == run.time[p[2]] - run.time[p[1]]
      Timed(p) == run.time[p[1]] # 0 /\ run.time[p[2]] # 0
      One(P) == IF P THEN 1 ELSE 0
  IN  [n |-> a.n + 1,
       sanity_passed |-> [a.sanity_passed EXCEPT ![run.sanity] = @ + 1],
       activated |-> a.activated + One(outcome # outcome_inactive),
       valid |-> a.valid + One(outcome \in {outcome_success, outcome_crash}),
       crash |-> a.crash + One(outcome = outcome_crash),
       step_reached |-> [a.step_reached EXCEPT ![outcome][run.last] = @ + 1],
       step_time_diff |-> [p \in TimedSteps |->
         IF Timed(p) THEN stat_aggregate_add(a.step_time_diff[p], Took(p)) ELSE a.step_time_diff[p]],
       step_time_diff_z |-> [p \in TimedSteps |->
         IF golden # <<>> /\ Timed(p)
         THEN stat_aggregate_zscore_add(a.step_time_diff_z[p], Took(p), golden[1].step_time_diff[p])
         ELSE a.step_time_diff_z[p]],
       module_fault_act_count |-> stat_aggregate_add(a.module_fault_act_count, run.fault_modules),
       fault_act_count |-> stat_aggregate_add(a.fault_act_count, run.acts),
       log10_n |-> a.log10_n + One(run.acts > 0),
       fault_act_count_bins |-> [a.fault_act_count_bins EXCEPT ![bin_index(run.acts)] = @ + 1],
       module_restart_count |-> stat_aggregate_add(a.module_restart_count, run.restart_modules),
       restart_count |-> stat_aggregate_add(a.restart_count, run.restarts),
       restart_count_bins |-> [a.restart_count_bins EXCEPT ![bin_index(run.restarts)] = @ + 1]]

\* The tests that a run belongs to: all, those of its system or workload.
TestsOf(run) == {0, run.system} \X {0, run.workload}

get_stats_golden(st, run) ==
  LET group == <<GoldenList, <<>>, <<run.system, run.workload>>>>
  IN  IF group \in DOMAIN st THEN <<st[group]>> ELSE <<>>

\* The entries of keys, which are made when there are none.
output_analysis_aggregate_add_key(run, keys) == {<<k[1], k[2], t>> : k \in keys, t \in TestsOf(run)}

\* Adds a run to the keys of lists, for the tests that it belongs to.
output_analysis_aggregate_add_per_test(st, run, keys, use_golden) ==
  LET golden == IF use_golden THEN get_stats_golden(st, run) ELSE <<>>
      groups == output_analysis_aggregate_add_key(run, keys)
  IN  [g \in DOMAIN st \union groups |->
        IF g \notin groups THEN st[g]
        ELSE output_analysis_aggregate_add(run, IF g \in DOMAIN st THEN st[g] ELSE NoAggregate, golden)]

output_analysis_aggregate_all(keys) == Lists \X keys

output_analysis_aggregate_golden(st, info) ==
  output_analysis_aggregate_add_per_test(st, Facts(info), output_analysis_aggregate_all({ALL, GOLDEN}), TRUE)

output_analysis_aggregate_golden_all(st) == Fold(output_analysis_aggregate_golden, st, golden_list)

-----------------------------------------------------------------------------
(* The statistical tests.                                                  *)

outcometotal(a, outcome) ==
  CASE outcome = outcome_inactive -> a.n - a.activated
    [] outcome = outcome_invalid -> a.activated - a.valid
    [] outcome = outcome_success -> a.valid - a.crash
    [] outcome = outcome_crash -> a.crash

\* What is compared: how many of how many runs did this.
Deeds == {<<"pass the pre-test">>, <<"crash">>}
         \union {<<"reach step", s, o>> : s \in logstep_qemu_start .. logstep_qemu_exit - 1, o \in Outcomes}
Reached(a, outcome, step) == MapThenSumSet(LAMBDA s : a.step_reached[outcome][s], step .. logstep_qemu_exit)
Rate(a, deed) ==
  CASE deed = <<"pass the pre-test">> -> <<a.valid, a.activated>>
    [] deed = <<"crash">> -> <<a.crash, a.valid>>
    [] OTHER -> <<Reached(a, deed[3], deed[2]), outcometotal(a, deed[3])>>

key_classify(key) ==
  CASE key = ALL -> "all" [] key = FAULTY -> "faulty" [] key = GOLDEN -> "golden" [] OTHER -> "other"
\* The order of the keys, as far as keys of several classes go.
KeyRank(key) == CASE key = ALL -> 1 [] key = FAULTY -> 2 [] key = GOLDEN -> 3 [] OTHER -> 4


\* How the runs of two groups are related; "" if they are not compared.
output_analysis_stattest_set_compare(key1, t1, key2, t2) ==
  LET c1 == key_classify(key1)  c2 == key_classify(key2)
      supers == CASE c1 = "all" /\ c1 # "all" -> {1}
                  [] c1 # "all" /\ c2 = "all" -> {2}
                  [] c1 = "faulty" /\ c2 = "other" -> {1}
                  [] c1 = "other" /\ c2 = "faulty" -> {2}
                  [] OTHER -> {}
      super1 == 1 \in supers \/ \E d \in 1 .. 2 : t1[d] = 0 /\ t2[d] # 0
      super2 == 2 \in supers \/ \E d \in 1 .. 2 : t1[d] # 0 /\ t2[d] = 0
      disjoint == \E d \in 1 .. 2 : t1[d] # 0 /\ t2[d] # 0 /\ t1[d] # t2[d]
  IN  CASE supers = {} /\ key1 # key2 -> ""
        [] super1 /\ ~super2 /\ ~disjoint -> "super1"
        [] ~super1 /\ super2 /\ ~disjoint -> "super2"
        [] ~super1 /\ ~super2 /\ disjoint -> "disjoint"
        [] OTHER -> "warned"

\* The pairs are formed of groups in this order.
stattest_stats_aggregate_per_test_sort(t1, t2) == t1[1] < t2[1] \/ (t1[1] = t2[1] /\ t1[2] < t2[2])
stattest_stats_by_string_key_sort(key1, key2) == KeyRank(key1) < KeyRank(key2)

cross_system == {"fault_act_count", "fault_type", "step"}

output_analysis_stattest_write_per_test_compare_tests(list, t1, t2) ==
  /\ stattest_stats_aggregate_per_test_sort(t1, t2)
  /\ t1[1] = t2[1] \/ t1[2] = t2[2]
  /\ t1[2] # 0 /\ t2[2] # 0 => t1[2] = t2[2]
  /\ list \in cross_system \/ (t1[1] # 0 /\ t1[1] = t2[1])

output_analysis_stattest_write_per_test_compare_keys(list, t1, t2) ==
  t1 = t2 /\ (list \in cross_system \/ t1[1] # 0)

\* The pairs of groups that are compared.
output_analysis_stattest_write_keys_cols(st) ==
  LET enough(list) == {g \in DOMAIN st : g[1] = list /\ st[g].n >= MIN_RUNS}
  IN  {p \in UNION {enough(list) \X enough(list) : list \in Lists} :
           \/ p[1][2] = p[2][2] /\ output_analysis_stattest_write_per_test_compare_tests(p[1][1], p[1][3], p[2][3])
           \/ stattest_stats_by_string_key_sort(p[1][2], p[2][2])
              /\ output_analysis_stattest_write_per_test_compare_keys(p[1][1], p[1][3], p[2][3])}

Relation(p) == output_analysis_stattest_set_compare(p[1][2], p[1][3], p[2][2], p[2][3])

\* The larger group loses the runs of the smaller one.
Less(a, b) == [i \in 1 .. 2 |-> a[i] - b[i]]
Apart(p, r1, r2) ==
  CASE Relation(p) = "super1" -> <<Less(r1, r2), r2>>
    [] Relation(p) = "super2" -> <<r1, Less(r2, r1)>>
    [] OTHER -> <<r1, r2>>

\* The test is made if all four numbers that are expected are large enough.
Tested(r1, r2) ==
  LET v == r1[1] + r2[1]  total == r1[2] + r2[2]
  IN  /\ total > 0
      /\ \A x \in {v, total - v}, t \in {r1[2], r2[2]} : x * t >= CHI2_EXPECTED_MIN * total

\* Its result exceeds 3.841 where the table of stats-chi2.h reaches p = 0.05.
print_chi2(r1, r2) ==
  LET v1 == r1[1]  v2 == r2[1]  o1 == r1[2] - r1[1]  o2 == r2[2] - r2[1]
      total == r1[2] + r2[2]
      away == v1 * o2 - v2 * o1
  IN  /\ Tested(r1, r2)
      /\ total * away * away * 1000 >= 3841 * (v1 + v2) * (o1 + o2) * r1[2] * r2[2]

Specificity(g) ==
  Cardinality({i \in 1 .. 4 : <<key_classify(g[2]) # "all", key_classify(g[2]) = "other", g[3][1] # 0, g[3][2] # 0>>[i]})
output_analysis_summary_should_swap(g1, g2) == Specificity(g1) < Specificity(g2)

\* What is said of the first of two groups alone: where it differs from the
\* second one.  Without a key, system or workload it is "other runs".
output_analysis_summary_write_comparison_part(g1, g2) ==
  [key |-> IF g1[2] # g2[2] THEN <<g1[2]>> ELSE <<>>,
   system |-> IF g1[3][1] # g2[3][1] THEN <<g1[3][1]>> ELSE <<>>,
   workload |-> IF g1[3][2] # g2[3][2] THEN <<g1[3][2]>> ELSE <<>>]

\* The sentence about a deed in two groups: what they have in common, what each
\* is alone, and whether the first does it more or less often.
output_analysis_summary_write_comparison(deed, g1, g2, n1, n2, is_more) ==
  [independent |-> g1[1], dependent |-> deed, n |-> <<n1, n2>>, more |-> is_more,
   both |-> [key |-> IF g1[2] = g2[2] /\ key_classify(g1[2]) # "all" THEN <<g1[2]>> ELSE <<>>,
             system |-> IF g1[3][1] = g2[3][1] /\ g1[3][1] # 0 THEN <<g1[3][1]>> ELSE <<>>,
             workload |-> IF g1[3][2] = g2[3][2] /\ g1[3][2] # 0 THEN <<g1[3][2]>> ELSE <<>>],
   first |-> output_analysis_summary_write_comparison_part(g1, g2),
   second |-> output_analysis_summary_write_comparison_part(g2, g1)]

Swapped(swap, pair) == IF swap THEN <<pair[2], pair[1]>> ELSE pair

output_analysis_summary_write_chi2(deed, g1, g2, r1, r2) ==
  LET swap == output_analysis_summary_should_swap(g1, g2)
      g == Swapped(swap, <<g1, g2>>)
      r == Swapped(swap, <<r1, r2>>)
  IN  output_analysis_summary_write_comparison(deed, g[1], g[2], r[1][2], r[2][2], r[1][1] * r[2][2] > r[2][1] * r[1][2])

\* The tests: two groups, a deed and its rate in each.
Tests(st) ==
  {<<x[1], x[2], Apart(x[1], Rate(st[x[1][1]], x[2]), Rate(st[x[1][2]], x[2]))>> :
     x \in {p \in output_analysis_stattest_write_keys_cols(st) : Relation(p) \notin {"", "warned"}} \X Deeds}

output_analysis_stattest_write(tests) ==
  {output_analysis_summary_write_chi2(x[2], x[1][1], x[1][2], x[3][1], x[3][2]) :
     x \in {y \in tests : print_chi2(y[3][1], y[3][2])}}

-----------------------------------------------------------------------------
(* The tables: titles and rows.  An empty field is <<>>, a mean or a share *)
(* <<numerator, denominator>>, a deviation the variance times n * (n - 1). *)

Concat(seqs) == Fold(LAMBDA a, b : a \o b, <<>>, seqs)
Pct(value, total) == IF total > 0 THEN <<value, total>> ELSE <<>>
Avg(a) == IF a.n > 0 THEN <<a.sum, a.n>> ELSE <<>>
Stdev(a) == IF a.n > 1 THEN <<stat_aggregate_var(a)>> ELSE <<>>
PerOutcome(Do(_)) == Concat([i \in 1 .. 4 |-> Do(i - 1)])
PerStep(from, Do(_)) == Concat([i \in 1 .. logstep_qemu_exit - from |-> Do(from + i - 1)])
PerTimed(Do(_)) == Concat([i \in DOMAIN TimedSeq |-> Do(TimedSeq[i])])
Bins(name) == [b \in 1 .. 12 |-> <<name, b - 1>>]
Counts(f) == [b \in 1 .. 12 |-> f[b - 1]]
Depth(list, column) == IF list = "path" THEN <<column>> ELSE <<>>

output_analysis_aggregate_write_time_diff(p, a) ==
  <<a.step_time_diff[p].n, Avg(a.step_time_diff[p]), Stdev(a.step_time_diff[p])>>
  \o [z \in 1 .. 2 * ZSCORE_MAX + 1 |-> LET bins == a.step_time_diff_z[p] IN
        IF \A b \in DOMAIN bins : bins[b] = 0 THEN <<>> ELSE bins[z - 1 - ZSCORE_MAX]]

\* The tables, and their column for the key.
output_analysis_aggregate_write_all == [list \in Lists |-> IF list = "step" THEN "fault_first" ELSE list]

\* The rows of a table; their order, by key and test, is left out.
stats_by_string_key_sort(st, list) == {g \in DOMAIN st : g[1] = list}

countchar(key) == IF Len(key) = 2 THEN Len(key[2]) - 1 ELSE 0

AggregateTitles(list) ==
  Named(<<"system", "workload">> \o Depth(list, "depth") \o <<output_analysis_aggregate_write_all[list]>>)
  \o Named(<<"n", "sanity_passed_neither", "sanity_passed_pre", "sanity_passed_post", "sanity_passed_both",
       "activated_n", "valid_n", "crash_n", "valid_pct", "crash_pct">>)
  \o PerOutcome(LAMBDA o : PerStep(0, LAMBDA s : << <<"reached", o, s>> >>))
  \o Named(<<"module_fault_act_count_avg", "module_fault_act_count_stdev", "fault_act_count_avg", "fault_act_count_stdev",
       "fault_act_count_log10_n", "fault_act_count_log10_avg", "fault_act_count_log10_stdev">>)
  \o Bins("fault_act_count")
  \o Named(<<"module_restart_count_avg", "module_restart_count_stdev", "restart_count_avg", "restart_count_stdev">>)
  \o Bins("restart_count")
  \o PerTimed(LAMBDA p : << <<"time_n", p>>, <<"time_avg", p>>, <<"time_stdev", p>> >>
                         \o [z \in 1 .. 2 * ZSCORE_MAX + 1 |-> <<"time_z", p, z - 1 - ZSCORE_MAX>>])

output_analysis_aggregate_write_cols(g, a) ==
  <<g[3][1], g[3][2]>> \o Depth(g[1], countchar(g[2])) \o <<g[2]>>
  \o <<a.n, a.sanity_passed[<<FALSE, FALSE>>], a.sanity_passed[<<TRUE, FALSE>>], a.sanity_passed[<<FALSE, TRUE>>],
       a.sanity_passed[<<TRUE, TRUE>>], a.activated, a.valid, a.crash, Pct(a.valid, a.activated), Pct(a.crash, a.valid)>>
  \o PerOutcome(LAMBDA o : PerStep(0, LAMBDA s : <<a.step_reached[o][s]>>))
  \o <<Avg(a.module_fault_act_count), Stdev(a.module_fault_act_count), Avg(a.fault_act_count), Stdev(a.fault_act_count),
       a.log10_n, "log10_avg", "log10_stdev">>
  \o Counts(a.fault_act_count_bins)
  \o <<Avg(a.module_restart_count), Stdev(a.module_restart_count), Avg(a.restart_count), Stdev(a.restart_count)>>
  \o Counts(a.restart_count_bins)
  \o PerTimed(LAMBDA p : output_analysis_aggregate_write_time_diff(p, a))

output_analysis_stattest_write_header(list) ==
  Named(<<"system1", "system2", "workload1", "workload2">> \o Depth(list, "depth1") \o Depth(list, "depth2"))
  \o Named(<<"key1", "key2", "n1", "n2", "activated_n1", "activated_n2", "valid_n1", "valid_n2", "crash_n1", "crash_n2",
       "valid_pct1", "valid_pct2", "valid_chi2_1df", "valid_p", "crash_pct1", "crash_pct2", "crash_chi2_1df", "crash_p">>)
  \o PerTimed(LAMBDA p : [i \in 1 .. 9 |-> <<"time", p, <<"t", "df", "p", "n1", "avg1", "stdev1", "n2", "avg2", "stdev2">>[i]>>])
  \o PerOutcome(LAMBDA o :
       PerStep(0, LAMBDA s : << <<"reached_n1", o, s>>, <<"reached_n2", o, s>> >>)
       \o PerStep(logstep_qemu_start, LAMBDA s :
            << <<"reached_pct1", o, s>>, <<"reached_pct2", o, s>>, <<"reached_chi2_1df", o, s>>, <<"reached_p", o, s>> >>))

\* Chi-square and p: made or not.
Chi2(p, r1, r2) == LET r == Apart(p, r1, r2) IN
  IF Relation(p) \in {"", "warned"} \/ ~Tested(r[1], r[2]) THEN <<<<>>, <<>>>> ELSE << <<"chi2">>, <<"p">> >>

\* The times of two groups; the test needs two runs on both sides that do
\* not all take the same time.
output_analysis_stattest_write_time_diff(p, a, b) ==
  LET Minus(x, y) == [f \in DOMAIN x |-> x[f] - y[f]]
      d1 == IF Relation(p) = "super1" THEN Minus(a, b) ELSE a
      d2 == IF Relation(p) = "super2" THEN Minus(b, a) ELSE b
      test == /\ Relation(p) \in {"super1", "super2", "disjoint"}
              /\ d1.n > 1 /\ d2.n > 1
              /\ stat_aggregate_var(d1) > 0 \/ stat_aggregate_var(d2) > 0
  IN  (IF test THEN << <<"t">>, <<"df">>, <<"p">> >> ELSE <<<<>>, <<>>, <<>>>>)
      \o <<d1.n, Avg(d1), Stdev(d1), d2.n, Avg(d2), Stdev(d2)>>

output_analysis_stattest_row(p, a, b) ==
  LET g1 == p[1]  g2 == p[2]
  IN  <<g1[3][1], g2[3][1], g1[3][2], g2[3][2]>>
      \o (IF g1[1] = "path" THEN <<countchar(g1[2]), countchar(g2[2])>> ELSE <<>>)
      \o <<g1[2], g2[2], a.n, b.n, a.activated, b.activated, a.valid, b.valid, a.crash, b.crash,
           Pct(a.valid, a.activated), Pct(b.valid, b.activated)>>
      \o Chi2(p, Rate(a, <<"pass the pre-test">>), Rate(b, <<"pass the pre-test">>))
      \o <<Pct(a.crash, a.valid), Pct(b.crash, b.valid)>>
      \o Chi2(p, Rate(a, <<"crash">>), Rate(b, <<"crash">>))
      \o PerTimed(LAMBDA s : output_analysis_stattest_write_time_diff(p, a.step_time_diff[s], b.step_time_diff[s]))
      \o PerOutcome(LAMBDA o :
           PerStep(logstep_qemu_start, LAMBDA s : <<Reached(a, o, s), Reached(b, o, s)>>)
           \o PerStep(logstep_qemu_start, LAMBDA s :
                <<Pct(Reached(a, o, s), a.activated), Pct(Reached(b, o, s), b.activated)>>
                \o Chi2(p, Rate(a, <<"reach step", s, o>>), Rate(b, <<"reach step", s, o>>))))

\* The assertions of print_chi2, of the times that are compared and of the
\* rows that are written.
Asserted(st, tests) ==
  /\ \A x \in tests : \A i \in 1 .. 2 : 0 <= x[3][i][1] /\ x[3][i][1] <= x[3][i][2]
  /\ \A p \in output_analysis_stattest_write_keys_cols(st), s \in TimedSteps :
       LET a == st[p[1]].step_time_diff[s]  b == st[p[2]].step_time_diff[s]
       IN  /\ Relation(p) = "super1" => a.n >= b.n /\ a.sum2 >= b.sum2
           /\ Relation(p) = "super2" => b.n >= a.n /\ b.sum2 >= a.sum2
  /\ \A g \in DOMAIN st : st[g].n = st[g].fault_act_count.n /\ st[g].n = st[g].restart_count.n

-----------------------------------------------------------------------------
(* The warnings.                                                           *)

\* Modules whose blocks cannot be matched with those of the golden run.
Uncounted(info) ==
  LET g == IF is_golden(info) THEN 0 ELSE golden_find(info)
      In(name) == IF g = 0 THEN 0 ELSE module_loginfo_find(golden_list[g], name)
  IN  {<<"no counts", m.name>> : m \in
         {m \in ToSet(info.modules) : In(m.name) # 0 /\ golden_list[g].modules[In(m.name)].execcount = <<>>}}

\* A golden run that does not do with a module what an earlier one did; the
\* first difference only.
check_golden_run_consistency_module(m, golden) ==
  LET bbs == match_bbs_executed(m, golden)
  IN  CASE Sum(m, "restart_count") # Sum(golden, "restart_count") -> {<<"restarts", m.name>>}
        [] Sum(m, "restart_count") = Sum(golden, "restart_count") /\ Len(m.execcount) # Len(golden.execcount) ->
             {<<"block count", m.name>>}
        [] OTHER -> {<<"no counts", x.name>> : x \in {x \in {m} : x.execcount = <<>>}}
                    \union {<<"extra blocks", x.name>> : x \in {x \in {m} : bbs[1] > 0}}
                    \union {<<"missing blocks", x.name>> : x \in {x \in {m} : bbs[1] = 0 /\ bbs[2] > 0}}

\* The modules of the earlier run are looked for in that run itself.
check_golden_run_consistency(info) ==
  LET g == golden_find(info)
      Find(m) == module_loginfo_find(golden_list[g], m.name)
  IN  (IF info.pre /\ info.post THEN {} ELSE {<<"sanity">>})
      \union IF g = 0 THEN {}
             ELSE {<<"lacks", m.name>> : m \in {m \in ToSet(golden_list[g].modules) : Find(m) = 0}}
                  \union {<<"extra", m.name>> : m \in {m \in ToSet(info.modules) : Find(m) = 0}}
                  \union UNION {check_golden_run_consistency_module(m, golden_list[g].modules[Find(m)]) :
                                 m \in {m \in ToSet(info.modules) : Find(m) # 0}}

Warnings(info) ==
  Inconsistent(info) \union Uncounted(info) \union
  IF is_golden(info)
  THEN (IF \E i \in DOMAIN history : ~history[i].golden THEN {<<"incomplete">>} ELSE {})
       \union check_golden_run_consistency(info)
  ELSE IF golden_find(info) = 0 THEN {<<"no golden run">>} ELSE {}

-----------------------------------------------------------------------------
Init ==
  /\ golden_list = <<>> /\ stats = <<>> /\ output_all = <<>> /\ summary = {} /\ warnings = <<>> /\ phase = "logs"
  /\ history = <<>> /\ directory \in DOMAIN Directories

output_analysis(info, run) ==
  /\ output_all' = Append(output_all, output_analysis_all(info))
  /\ stats' = IF run.golden
              THEN output_analysis_aggregate_add_per_test(stats, run, {<<GoldenList, <<>>>>}, FALSE)
              ELSE output_analysis_aggregate_add_per_test(stats, run,
                     output_analysis_aggregate_all({ALL, FAULTY}) \union run.keys, TRUE)

process_log ==
  /\ phase = "logs" /\ Len(history) < Directories[directory].most
  /\ \E log \in Directories[directory].logs : LET info == loginfo_load_from_log(log)  run == Facts(info) IN
       /\ output_analysis(info, run)
       /\ golden_list' = IF run.golden THEN <<info>> \o golden_list ELSE golden_list
       /\ warnings' = Append(warnings, Warnings(info))
       /\ history' = Append(history, run)
  /\ UNCHANGED <<summary, phase, directory>>

output_write ==
  /\ phase = "logs" /\ history # <<>>
  /\ LET st == output_analysis_aggregate_golden_all(stats)  tests == Tests(st) IN
       /\ stats' = st
       /\ phase' = IF Asserted(st, tests) THEN "done" ELSE "assert"
       /\ summary' = output_analysis_stattest_write(tests)
  /\ UNCHANGED <<golden_list, output_all, warnings, history, directory>>

Next == process_log \/ output_write
Spec == Init /\ [][Next]_vars

-----------------------------------------------------------------------------
TypeOK ==
  /\ phase \in {"logs", "done", "assert"}
  /\ Len(output_all) = Len(history) /\ Len(warnings) = Len(history) /\ Len(history) <= Directories[directory].most
  /\ \A i \in DOMAIN golden_list : is_golden(golden_list[i])
  /\ \A g \in DOMAIN stats : g[1] \in Lists \union {GoldenList} /\ stats[g].n \in 1 .. Directories[directory].most

\* The runs of a group.
RunsOf(g) ==
  {i \in DOMAIN history :
    /\ g[3] \in TestsOf(history[i])
    /\ CASE g[2] = ALL -> TRUE
         [] g[2] = FAULTY -> ~history[i].golden
         [] g[2] \in {GOLDEN, <<>>} -> history[i].golden
         [] OTHER -> <<g[1], g[2]>> \in history[i].keys}
With(runs, P(_)) == Cardinality({i \in runs : P(history[i])})
Did(deed, i) ==
  CASE deed = <<"pass the pre-test">> -> history[i].outcome \in {outcome_success, outcome_crash}
    [] deed = <<"crash">> -> history[i].outcome = outcome_crash
    [] OTHER -> history[i].outcome = deed[3] /\ history[i].last >= deed[2]
Could(deed, i) ==
  CASE deed = <<"pass the pre-test">> -> history[i].outcome # outcome_inactive
    [] deed = <<"crash">> -> history[i].outcome \in {outcome_success, outcome_crash}
    [] OTHER -> history[i].outcome = deed[3]

\* A row has a field for each title.  It has no time before the start of its
\* log, its first event of a kind is not after its last one, the counts of the
\* steps add up, and the modules that the run shares with the golden run, those
\* it has in addition and those it lacks are all the modules of the two
\* (output_analysis_all).
RowsAreTrue ==
  \A titles \in {RowTitles}, i \in DOMAIN output_all :
    LET Field(title) == output_all[i][CHOOSE k \in DOMAIN titles : titles[k] = title]
        Times(name) == <<Field(<<name, "time_first">>), Field(<<name, "time_last">>)>>
        kinds == {"module_startup", "module_context_set", "module_faultindex_get", "fault_act", "restart"}
    IN  /\ Len(output_all[i]) = Len(titles)
        /\ \A s \in 1 .. 6 : Field(<<"time", s>>) # <<>> => Field(<<"time", s>>)[1] >= 0
        /\ \A k \in kinds : \A times \in {Times(k)} :
             /\ (times[1] = <<>>) = (times[2] = <<>>) /\ (times[1] # <<>>) = (Field(<<k, "count">>) > 0)
             /\ times[1] # <<>> => 0 <= times[1][1] /\ times[1][1] <= times[2][1]
        /\ Field(<<"fault_act", "count">>) = SumOver([s \in 1 .. 7 |-> s - 1], LAMBDA s : Field(<<"fault_act_count", s>>))
        /\ Field(<<"restart", "count">>) = SumOver([s \in 1 .. 7 |-> s - 1], LAMBDA s : Field(<<"restart_count", s>>))
        /\ LET before == {j \in 1 .. i - 1 : history[j].golden /\ history[j].system = Field(<<"system">>)
                                             /\ history[j].workload = Field(<<"workload">>)}
           IN  ~history[i].golden =>
                 /\ before = {} => Field(<<"module_extra">>) = Field(<<"module_count">>)
                 /\ before # {} => Field(<<"module_count">>) - Field(<<"module_extra">>) + Field(<<"module_missing">>)
                                   = history[Max(before)].module_count

\* A golden run that nothing is said of has only modules that the one before it
\* has, and does with them what that one did (check_golden_run_consistency).
SilenceIsAgreement ==
  LET goldens == SelectSeq([i \in DOMAIN history |-> i], LAMBDA i : history[i].golden)
      Said(k) == warnings[goldens[Len(goldens) + 1 - k]]
      Earlier(k) == {j \in k + 1 .. Len(golden_list) : golden_list[j].system = golden_list[k].system
                                                       /\ golden_list[j].workload = golden_list[k].workload}
  IN  \A k \in DOMAIN golden_list : Said(k) = {} /\ Earlier(k) # {} =>
        \A m \in ToSet(golden_list[k].modules) : \E n \in ToSet(golden_list[Min(Earlier(k))].modules) :
          /\ m.name = n.name
          /\ Sum(m, "restart_count") = Sum(n, "restart_count")
          /\ {b \in DOMAIN m.execcount : m.execcount[b] > 0} = {b \in DOMAIN n.execcount : n.execcount[b] > 0}

\* Every aggregate is of the runs of its group: how many there are, what
\* came of them and how far they got; and no group of runs is left out.
AggregatesAreTrue ==
  /\ phase # "logs" => \A g \in DOMAIN stats : \A runs \in {RunsOf(g)} :
       LET a == stats[g]
       IN  /\ a.n = Cardinality(runs) /\ a.n > 0
           /\ \A p \in BOOLEAN \X BOOLEAN : a.sanity_passed[p] = With(runs, LAMBDA r : r.sanity = p)
           /\ \A d \in Deeds : Rate(a, d) = <<Cardinality({i \in runs : Did(d, i)}), Cardinality({i \in runs : Could(d, i)})>>
           /\ \A b \in 0 .. 11 : a.restart_count_bins[b] = With(runs, LAMBDA r : bin_index(r.restarts) = b)
           /\ \A p \in TimedSteps : SumFunction(a.step_time_diff_z[p]) <= a.step_time_diff[p].n
  /\ phase # "logs" => \A l \in Lists, k \in {ALL, FAULTY, GOLDEN}, i \in DOMAIN history : \A t \in TestsOf(history[i]) :
       (<<l, k, t>> \in DOMAIN stats) = (RunsOf(<<l, k, t>>) # {})

\* The runs of two groups that are tested are related as the tests take
\* them to be, so that no run is on both sides (set_compare).
ComparedRunsAreApart ==
  phase # "logs" => \A p \in output_analysis_stattest_write_keys_cols(stats) :
    LET r1 == RunsOf(p[1])  r2 == RunsOf(p[2])
    IN  CASE Relation(p) = "super1" -> r2 \subseteq r1
          [] Relation(p) = "super2" -> r1 \subseteq r2
          [] Relation(p) = "disjoint" -> r1 \cap r2 = {}
          [] OTHER -> Relation(p) = ""

\* What the summary says is true of the runs: the runs of its first group
\* that are not of the second do it more, or less, often than those of the
\* second that are not of the first, or are all of it; the groups are the ones
\* that the words of the sentence name.
SentencesAreTrue ==
  \A s \in summary :
    LET Named1(part, field, all) ==
          IF part[field] # <<>> THEN part[field][1] ELSE IF s.both[field] # <<>> THEN s.both[field][1] ELSE all
        Group(part) == <<s.independent, Named1(part, "key", ALL),
                         <<Named1(part, "system", 0), Named1(part, "workload", 0)>>>>
        r1 == RunsOf(Group(s.first))  r2 == RunsOf(Group(s.second))
        side1 == IF r2 \subseteq r1 THEN r1 \ r2 ELSE r1
        side2 == IF r1 \subseteq r2 THEN r2 \ r1 ELSE r2
        Of(side) == <<Cardinality({i \in side : Did(s.dependent, i)}), Cardinality({i \in side : Could(s.dependent, i)})>>
        a == Of(side1)  b == Of(side2)
    IN  /\ s.n = <<a[2], b[2]>>
        /\ IF s.more THEN a[1] * b[2] > b[1] * a[2] ELSE a[1] * b[2] < b[1] * a[2]

\* A row has a field for each title, and under a title what the title says
\* (write_cols, stattest_write up to the steps that are reached).
TablesAreTrue ==
  phase # "logs" => LET pairs == output_analysis_stattest_write_keys_cols(stats) IN \A l \in {"path", "step"} :
    LET titles == AggregateTitles(l)
        header == output_analysis_stattest_write_header(l)
        Place(seq, title) == CHOOSE i \in DOMAIN seq : seq[i] = title
        n == Place(titles, <<"n">>)  pre == Place(titles, <<"sanity_passed_pre">>)
        crash == Place(titles, <<"crash_n">>)  pct == Place(titles, <<"crash_pct">>)
        crash2 == Place(header, <<"crash_n2">>)  time == Place(header, <<"time", TimedSeq[1], "t">>)
    IN  /\ \A g \in stats_by_string_key_sort(stats, l) :
             LET row == output_analysis_aggregate_write_cols(g, stats[g])
                 runs == RunsOf(g)
             IN  /\ Len(row) = Len(titles)
                 /\ row[n] = Cardinality(runs)
                 /\ row[pre] = With(runs, LAMBDA r : r.sanity = <<TRUE, FALSE>>)
                 /\ row[crash] = With(runs, LAMBDA r : r.outcome = outcome_crash)
                 /\ row[pct] # <<>> => row[pct][1] <= row[pct][2]
        /\ \A p \in {x \in pairs : x[1][1] = l} :
             LET row == output_analysis_stattest_row(p, stats[p[1]], stats[p[2]])
             IN  /\ row[crash2] = With(RunsOf(p[2]), LAMBDA r : r.outcome = outcome_crash)
                 /\ row[time + 3] <= Cardinality(RunsOf(p[1]))
                 /\ row[time] # <<>> => row[time + 5] # <<>> /\ row[time + 8] # <<>>

=============================================================================
