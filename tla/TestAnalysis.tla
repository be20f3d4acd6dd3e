---------------------------- MODULE TestAnalysis ----------------------------
(***************************************************************************)
(* minixtestloganalyze: the summaries of the logs of several runs of the   *)
(* tests are added to one set of statistics (minixteststats.c), which is   *)
(* then written as tables.  The runs and their summaries are those of      *)
(* LogSummary.  A statistic (struct stats) is the sequence of its values;  *)
(* statistics that only say whether another one is positive are left out.  *)
(***************************************************************************)
EXTENDS LogSummary

CONSTANTS setting_pretest_count, setting_naive_mode, setting_max_count, MaxLogs

VARIABLES
  stats,
  history                        \* the runs so far: summary and what really happened

avars == <<vars, stats, history>>

Bases == {Base[m] : m \in Modules}
Outcomes == {"success", "failed", "shutdown", "crash", "timeout"}
Metrics == {"planned", "started", "completed", "passed", "failed", "crashed", "unreached"}
Reported == {"count", "rate", "time"}

NoStatsModule == [count |-> 0, bb_count |-> 0, bbs |-> 0]
NoStatsTest ==
  [count_pass |-> 0, count_fail |-> 0, count_crash |-> 0, count_notreached |-> 0,
   duration |-> <<>>, reported |-> [k \in Reported |-> <<>>],
   modules |-> [b \in Bases |-> NoStatsModule],
   faultact |-> <<>>, faultinj |-> <<>>, recoveries |-> <<>>]
NoFaults == [faultact |-> 0, faultinj |-> 0, recoveries |-> NoRecoveries]
NoStats ==
  [tests |-> [n \in {} |-> NoStatsTest],
   phases |-> [p \in {"boot", "between", "alltests", "total"} |-> NoStatsTest],
   classification |-> [c \in Outcomes \X BOOLEAN \X BOOLEAN |-> 0],
   cnt |-> [k \in Metrics |-> <<>>],
   callsites |-> [b \in Bases |-> [id \in 0 .. CALLSITE_ID_MAX - 1 |-> 0]]]

FoldModules(Op(_, _), base) ==
  MapThenFoldSet(Op, base, LAMBDA m : m, LAMBDA S : CHOOSE m \in S : TRUE, Modules)

-----------------------------------------------------------------------------
stats_add(values, value) == IF value = NAN THEN values ELSE Append(values, value)

\* Twice the median of the values, interpolated between the two in the middle.
stats_median2(values) ==
  LET sorted == SortSeq(values, <)
      index == (Len(values) - 1) \div 2
  IN IF (Len(values) - 1) % 2 = 0 THEN 2 * sorted[index + 1] ELSE sorted[index + 1] + sorted[index + 2]

\* The mean without the lowest third, as a sum and a number of values.
stats_mean_unixbench(values) ==
  LET low == Len(values) \div 3
  IN <<FoldLeft(+, 0, SubSeq(SortSeq(values, <), low + 1, Len(values))), Len(values) - low>>

stats_compute_duration(start, end) ==
  IF start = 0 \/ end = 0 \/ start > end THEN NAN ELSE end - start
stats_add_duration(values, start, end) == stats_add(values, stats_compute_duration(start, end))
timeval_add(sum, duration) == IF duration = NAN THEN sum ELSE sum + duration

minixtest_stats_get_test(s, name) ==
  IF name \in DOMAIN s.tests THEN s
  ELSE [s EXCEPT !.tests = [n \in DOMAIN @ \cup {name} |-> IF n = name THEN NoStatsTest ELSE @[n]]]

\* The modules' names lose what follows an "@".
minixtest_stats_add_module(modules, name, bb_count, bbs) ==
  IF bbs = NULL \/ modules[Base[name]].bb_count \notin {0, bb_count} THEN modules
  ELSE [modules EXCEPT ![Base[name]] =
          [count |-> @.count + 1, bb_count |-> bb_count, bbs |-> @.bbs + bbs[1]]]

bbs_sub(bbs1, bbs2, bb_count) ==
  IF bb_count = 0 THEN NULL
  ELSE IF bbs1 = NULL THEN <<0>> ELSE <<bbs1[1] - IF bbs2 = NULL THEN 0 ELSE bbs2[1]>>

recoveries_add(dst, src, factor) == [k \in Recoveries |-> dst[k] + factor * src[k]]
FaultsAdd(dst, src) ==
  [dst EXCEPT !.faultact = @ + src.faultact, !.recoveries = recoveries_add(@, src.recoveries, 1)]

faultstats_add(test, src) ==
  [test EXCEPT !.faultact = stats_add(@, src.faultact),
               !.faultinj = stats_add(@, IF src.faultinj > 0 THEN 1 ELSE 0),
               !.recoveries = Append(@, src.recoveries)]

\* What one execution of the tests adds for a module: to the phases given.
AddTo(s, phases, name, bb_count, bbs) ==
  [s EXCEPT !.phases = [p \in DOMAIN @ |->
     IF p \notin phases THEN @[p]
     ELSE [@[p] EXCEPT !.modules = minixtest_stats_add_module(@, name, bb_count, bbs)]]]

minixtest_stats_add_test_module_diff(s, name, mod, next) ==
  IF next.bb_count # mod.bb_count THEN s
  ELSE AddTo(s, {"between", "total"}, name, mod.bb_count, bbs_sub(next.before, mod.after, mod.bb_count))

minixtest_stats_add_test_module(s, tests, i, name) ==
  LET mod == tests[i].modules[name]
      during == AddTo([s EXCEPT !.tests[tests[i].name].modules =
                         minixtest_stats_add_module(@, name, mod.bb_count, mod.during)],
                      {"alltests", "total"}, name, mod.bb_count, mod.during)
      between == IF i < Len(tests)
                 THEN minixtest_stats_add_test_module_diff(during, name, mod, tests[i + 1].modules[name])
                 ELSE during
  IN IF i = 1 THEN AddTo(between, {"boot", "total"}, name, mod.bb_count, mod.before) ELSE between

minixtest_stats_add_test(s, tests, i, one) ==
  LET test == tests[i]
      counted == [minixtest_stats_get_test(s, test.name) EXCEPT
                    !.tests[test.name].count_pass = @ + IF test.status = "passed" THEN 1 ELSE 0,
                    !.tests[test.name].count_fail = @ + IF test.status = "failed" THEN 1 ELSE 0,
                    !.tests[test.name].count_crash = @ + IF test.status = "running" THEN 1 ELSE 0,
                    !.tests[test.name].duration = stats_add_duration(@, test.start, test.end),
                    !.tests[test.name].reported =
                       [k \in Reported |-> stats_add(@[k], test.reported[k])]]
      added == FoldModules(LAMBDA m, t : minixtest_stats_add_test_module(t, tests, i, m), counted)
  IN [added EXCEPT !.tests[test.name] = faultstats_add(@, one)]

\* The faults and recoveries of test i; every test counts as injected if any
\* module was.
FaultsOfTest(tests, i, faultinj) ==
  FoldModules(LAMBDA m, f : FaultsAdd(f, tests[i].modules[m]), [NoFaults EXCEPT !.faultinj = faultinj])

faultstats_sum(summ) ==
  FoldModules(LAMBDA m, f :
    LET mod == summ.modules[m]
    IN [FaultsAdd(f, mod) EXCEPT
          !.faultinj = @ + IF mod.retrieved > 0 /\ mod.faultindex >= 0 THEN 1 ELSE 0], NoFaults)


\* testsplanned is what is left of the planned tests, or NULL; the next one is
\* skipped if it is the test that ran.
testsplanned_skip(testsplanned, test) ==
  IF testsplanned # NULL /\ testsplanned[1] # <<>> /\ Head(testsplanned[1]) = test
  THEN <<Tail(testsplanned[1])>> ELSE testsplanned

minixtest_stats_add_tests_unreached(s, testsunreached) ==
  IF testsunreached = NULL THEN s
  ELSE FoldLeft(LAMBDA t, name :
         [minixtest_stats_get_test(t, name) EXCEPT !.tests[name].count_notreached = @ + 1],
         s, testsunreached[1])

Passed(test) == test.status = "passed"

run_classify(summ, pretest_count, naive_mode) ==
  LET Recovered(kinds) == \E m \in Modules, k \in kinds : summ.modules[m].recoveries[k] > 0
      pretests == 1 .. IF pretest_count < Len(summ.tests) THEN pretest_count ELSE Len(summ.tests)
      Started(mods) == FoldModules(LAMBDA m, n : n + mods[m].recoveries["start"], 0)
      pretest_recovery == FoldLeft(LAMBDA n, t : n + Started(t.modules), 0,
                                   SubSeq(summ.tests, 1, Cardinality(pretests)))
      outcome == IF naive_mode /\ Recovered({"deadlock"}) THEN "timeout"
                 ELSE IF Recovered({"shutdown", "deadlock"}) THEN "shutdown"
                 ELSE IF summ.status_reset THEN "crash"
                 ELSE IF summ.signal > 0 THEN "timeout"
                 ELSE IF summ.status < mtls_tests_complete THEN "crash"
                 ELSE IF \E i \in DOMAIN summ.tests : ~Passed(summ.tests[i]) THEN "failed"
                 ELSE "success"
  IN <<outcome,
       Cardinality({i \in pretests : Passed(summ.tests[i])}) >= pretest_count,
       Started(summ.modules) > pretest_recovery>>

minixtest_stats_add_callsites(callsites, summ) ==
  FoldModules(LAMBDA m, c :
    [c EXCEPT ![Base[m]] = [id \in DOMAIN @ |-> @[id] + summ.modules[m].closed[id]]], callsites)

\* The number of the tests; what the code adds as unreached is the number of
\* completed tests.
AddCounts(cnt, summ) ==
  LET Status(st) == Cardinality({i \in DOMAIN summ.tests : summ.tests[i].status = st})
      completed == Status("passed") + Status("failed")
      value == [planned |-> IF summ.testsplanned = NULL THEN 0 ELSE Len(summ.testsplanned[1]),
                started |-> Len(summ.tests), completed |-> completed, passed |-> Status("passed"),
                failed |-> Status("failed"), crashed |-> Status("running"), unreached |-> completed]
  IN [k \in Metrics |-> stats_add(cnt[k], value[k])]

minixtest_stats_add(s, summ) ==
  LET tests == summ.tests
      total == faultstats_sum(summ)
      first == IF tests = <<>> THEN summ.exit ELSE tests[1].start
      FaultsOf(i) == FaultsOfTest(tests, i, total.faultinj)
      alltests == FoldLeft(LAMBDA f, i : FaultsAdd(f, FaultsOf(i)), [NoFaults EXCEPT !.faultinj = total.faultinj],
                           [i \in DOMAIN tests |-> i])
      boot == [total EXCEPT !.faultact = @ - alltests.faultact,
                            !.recoveries = recoveries_add(@, alltests.recoveries, -1)]
      Previous(i) == IF i = 1 THEN first ELSE tests[i - 1].end
      between == FoldLeft(LAMBDA sum, i : timeval_add(sum, stats_compute_duration(Previous(i), tests[i].start)),
                          0, [i \in DOMAIN tests |-> i])
      tested == FoldLeft(LAMBDA t, i : minixtest_stats_add_test(t, tests, i, FaultsOf(i)),
                         s, [i \in DOMAIN tests |-> i])
      left == FoldLeft(LAMBDA p, t : testsplanned_skip(p, t.name), summ.testsplanned, tests)
  IN [minixtest_stats_add_tests_unreached(tested, left) EXCEPT
        !.phases["total"] = [faultstats_add(@, total) EXCEPT
                               !.duration = stats_add_duration(@, summ.start, summ.exit)],
        !.phases["boot"] = [faultstats_add(@, boot) EXCEPT
                              !.duration = stats_add_duration(@, summ.start, first)],
        !.phases["alltests"] = faultstats_add(@, alltests),
        !.phases["between"].duration = stats_add(@, between),
        !.classification[run_classify(summ, setting_pretest_count, setting_naive_mode)] = @ + 1,
        !.cnt = AddCounts(@, summ),
        !.callsites = minixtest_stats_add_callsites(@, summ)]

-----------------------------------------------------------------------------
(* The tables.  A total row or column of the classification is made from   *)
(* all outcomes, or from both values.                                      *)

sum_classification(s, outcomes, pretests, recoveries) ==
  MapThenSumSet(LAMBDA c : s.classification[c], outcomes \X pretests \X recoveries)

\* The line of the LaTeX table for the runs whose pretests are in the set.
dump_latex_line(s, pretests) ==
  LET Count(outcomes) == sum_classification(s, outcomes, pretests, BOOLEAN)
  IN <<Count({"success"}), Count({"failed"}), Count({"shutdown"}), Count({"crash"}) + Count({"timeout"})>>

\* The lines that are appended to the LaTeX file: of the runs whose pretests
\* passed, if there are pretests, and of all; none without runs.
dump_latex_with_file(s) ==
  SelectSeq(IF setting_pretest_count > 0 THEN <<dump_latex_line(s, {TRUE}), dump_latex_line(s, BOOLEAN)>>
            ELSE <<dump_latex_line(s, BOOLEAN)>>, LAMBDA line : FoldLeft(+, 0, line) > 0)

callsites_enumerate(s) ==
  {<<b, id>> \in Bases \X (0 .. CALLSITE_ID_MAX - 1) : s.callsites[b][id] > 0}
callsites_compare(s, cs1, cs2) ==
  LET Closed(cs) == s.callsites[cs[1]][cs[2]]
  IN Closed(cs1) > Closed(cs2) \/ (Closed(cs1) = Closed(cs2) /\ cs1[1] = cs2[1] /\ cs1[2] < cs2[2])
dump_stats_callsites_with_file(s) ==
  SetToSortSeq(callsites_enumerate(s), LAMBDA cs1, cs2 : callsites_compare(s, cs1, cs2))

dump_test_stats_line(values) ==
  [sum |-> FoldLeft(+, 0, values), median2 |-> stats_median2(values), n |-> Len(values),
   min |-> Min(Range(values)), max |-> Max(Range(values))]

\* The recoveries that have a column in the overview of the runs, which is also
\* given the totals of every status and method.
show_recovery ==
  ({"failure"} \X {"generic", "idempotent", "process_specific", "writelog"})
  \cup ({"shutdown"} \X {"generic", "deadlock", "failstop"})
  \cup ({"start"} \X {"generic", "writelog"})
  \cup ({"success"} \X {"idempotent", "process_specific", "service_fi", "writelog"})

\* The line of a run in that overview.  The tests of -X are left out, but not
\* from the planned ones.
dump_stats_for_run(summ, excludetest) ==
  LET Mods(P(_)) == Cardinality({m \in Modules : P(summ.modules[m])})
      Tests(statuses) == Cardinality({i \in DOMAIN summ.tests : summ.tests[i].status \in statuses
                                                               /\ summ.tests[i].name \notin excludetest})
  IN [class |-> run_classify(summ, setting_pretest_count, setting_naive_mode),
      modcountfaultretr |-> Mods(LAMBDA m : m.retrieved > 0),
      modcountfaultinj |-> Mods(LAMBDA m : m.retrieved > 0 /\ m.faultindex >= 0),
      modcountfaultact |-> Mods(LAMBDA m : m.faultact > 0),
      faultact |-> FoldModules(LAMBDA m, n : n + summ.modules[m].faultact, 0),
      first |-> summ.statusfaultfirst, last |-> summ.statusfaultlast,
      recoveries |-> FoldModules(LAMBDA m, r : recoveries_add(r, summ.modules[m].recoveries, 1), NoRecoveries),
      times |-> <<summ.start, summ.boot, summ.tests_starting, summ.tests_complete, summ.exit>>,
      executed |-> Tests({"running", "passed", "failed"}), passed |-> Tests({"passed"}),
      failed |-> Tests({"failed"}), crashed |-> Tests({"running"}),
      planned |-> IF summ.testsplanned = NULL THEN 0 ELSE Len(summ.testsplanned[1])]

\* The sum under the tests, of the (doubled) medians; no number if a test has none.
sumstats_add(sum, values) == IF sum = NAN \/ values = <<>> THEN NAN ELSE sum + stats_median2(values)
dump_stats_per_test_for_module(s, excludetest) ==
  LET names == SetToSeq(DOMAIN s.tests \ excludetest)
      durations == [i \in DOMAIN names |-> s.tests[names[i]].duration]
  IN FoldLeft(sumstats_add, 0, durations \o <<s.phases["boot"].duration, s.phases["between"].duration>>)

\* The columns that the options -s, -S and -T and the presence of benchmark
\* results select, in the line of titles and in the line of a test.
Selected(condition, columns) == IF condition THEN columns ELSE <<>>
CoverageColumns == <<"module", "path", "cov", "cov-ex-boot", "tot", "cov-pct", "cov-ex-boot-pct">>
DurationColumns(perfstats, fewer) ==
  <<"median">> \o Selected(perfstats, <<"mean">>) \o Selected(~fewer, <<"stdev">>)
  \o Selected(perfstats, <<"stderr", "t", "min", "max", "range", "n">>)
BenchColumns(mean, fewer, perfonly, ub) ==
  ub \o Selected(mean, <<"mean">>) \o Selected(~fewer, <<"stdev">>)
  \o Selected(~perfonly, <<"stderr", "min", "max", "n">>)
TestColumns(perfonly, extra, fewer, bench, mean) ==
  LET unixbench == <<"ubmean">> \o Selected(~fewer, <<"median">>)
  IN <<"test">> \o Selected(~perfonly, CoverageColumns) \o DurationColumns(~perfonly \/ extra, fewer)
     \o Selected(bench, BenchColumns(mean, fewer, perfonly, unixbench) \o BenchColumns(mean, fewer, perfonly, unixbench)
                    \o BenchColumns(mean, fewer, perfonly, <<"median">>))
     \o Selected(~perfonly, <<"pass", "fail", "crash">>)
dump_stats_per_test_with_file(perfonly, extra, fewer, bench) ==
  TestColumns(perfonly, extra, fewer, bench, ~perfonly)
dump_stats_for_test_with_duration(perfonly, extra, fewer, bench) ==
  TestColumns(perfonly, extra, fewer, bench, ~perfonly \/ extra)

-----------------------------------------------------------------------------
AInit == Init /\ stats = NoStats /\ history = <<>>

\* The log of a run is complete: it is added, unless enough were, and the
\* next run starts.
load_log ==
  /\ phase = "done"
  /\ stats' = IF Len(history) < setting_max_count THEN minixtest_stats_add(stats, summary) ELSE stats
  /\ history' = Append(history, [summ |-> summary, measured |-> measured, replaced |-> replaced])
  /\ summary' = NoSummary /\ time' = 0 /\ count' = None /\ ran' = None /\ measured' = <<>>
  /\ replaced' = {} /\ faults' = None /\ events' = 0
  /\ phase' = IF Len(history) + 1 < MaxLogs THEN "qemu" ELSE "dump"

ANext == (Next /\ UNCHANGED <<stats, history>>) \/ load_log

-----------------------------------------------------------------------------
(* Properties.                                                             *)

Runs == SubSeq(history, 1, IF Len(history) < setting_max_count THEN Len(history) ELSE setting_max_count)
SumSeq(seq) == FoldLeft(+, 0, seq)
SumRuns(Op(_)) == FoldLeft(LAMBDA sum, r : sum + Op(r), 0, Runs)
CountRuns(P(_)) == SumRuns(LAMBDA r : IF P(r) THEN 1 ELSE 0)
SumTests(Op(_)) == MapThenSumSet(LAMBDA n : Op(stats.tests[n]), DOMAIN stats.tests)

ATypeOK ==
  /\ TypeOK
  /\ DOMAIN stats.tests \subseteq Range(Planned)
  /\ stats.classification \in [Outcomes \X BOOLEAN \X BOOLEAN -> Nat]

\* Every test that a run had planned is counted once: as passed, failed,
\* crashed or not reached (minixtest_stats_add_test, testsplanned_skip).
PlannedAreCounted ==
  \A n \in Range(Planned) :
    (IF n \in DOMAIN stats.tests
     THEN LET t == stats.tests[n] IN t.count_pass + t.count_fail + t.count_crash + t.count_notreached
     ELSE 0)
    = SumRuns(LAMBDA r : IF r.summ.testsplanned = NULL THEN 0
                         ELSE Cardinality({i \in DOMAIN Planned : Planned[i] = n}))

\* What the modules of a name executed during boot, in the tests and between
\* them adds up to the total; and the total is what they really executed until
\* the last measurement, if they were replaced only during tests.
ExecutionsAddUp ==
  \A b \in Bases :
    LET Bbs(p) == stats.phases[p].modules[b].bbs
        mods == {m \in Modules : Base[m] = b /\ ~string_ll_contains(m)}
        Complete(r) == /\ r.replaced \cap mods = {}
                       /\ \A i \in DOMAIN r.summ.tests : Len(r.measured[i]) = 2
        Executed(r) == IF r.summ.tests = <<>> THEN 0
                       ELSE MapThenSumSet(LAMBDA m : r.measured[Len(r.summ.tests)][2][m], mods)
    IN /\ Bbs("total") = Bbs("boot") + Bbs("between") + Bbs("alltests")
       /\ Bbs("alltests") = SumTests(LAMBDA t : t.modules[b].bbs)
       /\ (\A i \in DOMAIN Runs : Complete(Runs[i])) => Bbs("total") = SumRuns(Executed)

\* Boot, the tests and the time between them add up to the time from the
\* start of QEMU to the end of the last test, without gap or overlap.
DurationsAddUp ==
  SumSeq(stats.phases["boot"].duration) + SumSeq(stats.phases["between"].duration)
    + SumTests(LAMBDA t : SumSeq(t.duration))
  = SumRuns(LAMBDA r : (IF r.summ.tests = <<>> THEN r.summ.exit ELSE Last(r.summ.tests).end) - r.summ.start)

\* A run counts as successful exactly if all tests it planned passed, nothing
\* shut down and the machine was neither reset nor killed; every run counts
\* once, with its pretests and its recoveries outside of the pretests.
OutcomesAreTrue ==
  LET Class(o, p, r) == sum_classification(stats, o, p, r)
      PassedAll(r, n) == Len(r.summ.tests) >= n /\ \A i \in 1 .. n : Passed(r.summ.tests[i])
      Success(r) == /\ PassedAll(r, Len(Planned)) /\ r.summ.status >= mtls_tests_complete
                    /\ ~r.summ.status_reset /\ r.summ.signal = 0
                    /\ \A m \in Modules : \A k \in {"shutdown", "deadlock"} : r.summ.modules[m].recoveries[k] = 0
      Recovered(r) ==
        \E m \in Modules :
          r.summ.modules[m].recoveries["start"] >
            MapThenSumSet(LAMBDA i : r.summ.tests[i].modules[m].recoveries["start"],
                   DOMAIN r.summ.tests \cap 1 .. setting_pretest_count)
  IN /\ SumSeq(dump_latex_line(stats, BOOLEAN)) = Len(Runs)
     /\ Class({"success"}, BOOLEAN, BOOLEAN) = CountRuns(Success)
     /\ Class(Outcomes, {TRUE}, BOOLEAN) = CountRuns(LAMBDA r : PassedAll(r, setting_pretest_count))
     /\ Class(Outcomes, BOOLEAN, {TRUE}) = CountRuns(Recovered)

\* No more faults and recoveries are counted in the tests of a run than in
\* the whole run.
FaultsAddUp ==
  \A i \in DOMAIN Runs :
    LET boot == stats.phases["boot"]
        total == stats.phases["total"]
        alltests == stats.phases["alltests"]
    IN /\ boot.faultact[i] >= 0 /\ total.faultact[i] = boot.faultact[i] + alltests.faultact[i]
       /\ \A k \in Recoveries : boot.recoveries[i][k] >= 0

\* Half of the values are on either side of the median that is printed, and the
\* trimmed mean is not below the mean.
StatisticsAreRight ==
  \A k \in Metrics :
    LET v == stats.cnt[k]
        ub == stats_mean_unixbench(v)
    IN v # <<>> =>
         /\ 2 * Cardinality({i \in DOMAIN v : 2 * v[i] <= stats_median2(v)}) >= Len(v)
         /\ 2 * Cardinality({i \in DOMAIN v : 2 * v[i] >= stats_median2(v)}) >= Len(v)
         /\ LET line == dump_test_stats_line(v)
            IN /\ 2 * line.min <= line.median2 /\ line.median2 <= 2 * line.max
               /\ line.n * line.min <= line.sum /\ line.sum <= line.n * line.max
         /\ ub[2] > 0 /\ ub[1] * Len(v) >= SumSeq(v) * ub[2]

\* The line of a run says what the statistics are given of it: the same tests,
\* faults and recoveries, at times in order; its faults have a first and a last
\* moment if there are any, and no more modules are injected than asked.
RunsAreTold ==
  \A i \in DOMAIN Runs, excludetest \in {{}, {Planned[1]}} :
    LET run == dump_stats_for_run(Runs[i].summ, excludetest)
        total == stats.phases["total"]
    IN /\ run.executed = run.passed + run.failed + run.crashed
       /\ run.executed <= stats.cnt["started"][i]
       /\ excludetest = {} => /\ run.executed = stats.cnt["started"][i] /\ run.passed = stats.cnt["passed"][i]
                              /\ run.planned = stats.cnt["planned"][i] /\ run.failed = stats.cnt["failed"][i]
       /\ run.faultact = total.faultact[i] /\ run.recoveries = total.recoveries[i]
       /\ (run.modcountfaultinj > 0) = (total.faultinj[i] > 0)
       /\ run.modcountfaultinj <= run.modcountfaultretr
       /\ run.faultact > 0 => run.modcountfaultact > 0 /\ run.first # mtls_none /\ run.first <= run.last
       /\ \A t \in 1 .. 4 : run.times[t] <= run.times[t + 1]

\* When every test has run once, the sum that is printed under their durations
\* is the time until the last of them ended; with pretests the file for LaTeX
\* gets a line for the runs that passed them, which are among all runs; and the
\* call sites are listed by how often they closed the window.
TotalsAreTrue ==
  /\ (Len(Runs) = 1 /\ \A n \in DOMAIN stats.tests : Len(stats.tests[n].duration) = 1) =>
       LET s == Runs[1].summ
       IN dump_stats_per_test_for_module(stats, {})
            = 2 * ((IF s.tests = <<>> THEN s.exit ELSE Last(s.tests).end) - s.start)
  /\ LET latex == dump_latex_with_file(stats)
     IN Runs # <<>> => latex # <<>> /\ \A k \in 1 .. 4 : latex[1][k] <= Last(latex)[k]
  /\ LET sites == dump_stats_callsites_with_file(stats)
     IN \A i, j \in DOMAIN sites : i < j => stats.callsites[sites[i][1]][sites[i][2]] >= stats.callsites[sites[j][1]][sites[j][2]]

\* The titles of a table are those of its columns; with -T and -s the means of
\* the benchmark results have no title.
ColumnsHaveTitles ==
  \A perfonly, extra, fewer, bench \in BOOLEAN :
    ~(perfonly /\ extra /\ bench) =>
      dump_stats_per_test_with_file(perfonly, extra, fewer, bench)
        = dump_stats_for_test_with_duration(perfonly, extra, fewer, bench)

=============================================================================
