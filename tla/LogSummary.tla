----------------------------- MODULE LogSummary -----------------------------
(***************************************************************************)
(* The summary of the log of one run of the MINIX tests                    *)
(* (minixtestlogsummarize.c): its callbacks, fed with the lines that QEMU, *)
(* MINIX and the test scripts write while modules execute, crash, recover  *)
(* and the machine resets.  Time is the number of the line; the counts of  *)
(* a module's basic blocks are added one by one, so one block stands for   *)
(* all.                                                                    *)
(***************************************************************************)
EXTENDS Integers, FiniteSetsExt, SequencesExt

CONSTANTS
  Modules, excludemod, Base,     \* Base[m] is the name of m up to its "@"
  CALLSITE_ID_MAX, Callsites,
  edfi,                          \* basic blocks are counted and dumped
  Planned,                       \* the names of the tests the script runs
  MaxWork, MaxEvents

VARIABLES
  summary,
  time, phase,                   \* of the test script
  count, ran,                    \* executions by a module since it and since the machine started
  measured,                      \* ran at the two dumps of each test
  replaced,                      \* modules that were replaced outside of a measured test
  faults, events                 \* faults of each module; events so far

vars == <<summary, time, phase, count, ran, measured, replaced, faults, events>>

mtls_none == 0
mtls_start == 1
mtls_boot == 2
mtls_tests_starting == 3
mtls_test_running == 4
mtls_test_running_stats == 5
mtls_test_done_stats == 6
mtls_test_done == 7
mtls_tests_complete == 8
mtls_quit == 9

NAN == -1
NULL == <<>>
\* Of the recoveries: started, shut down, and shut down for a deadlock.
Recoveries == {"start", "shutdown", "deadlock"}
NoRecoveries == [k \in Recoveries |-> 0]
NoCounts ==
  [bb_count |-> 0, before |-> NULL, after |-> NULL, during |-> NULL, faultact |-> 0, recoveries |-> NoRecoveries]
NoModule ==
  [closed |-> [id \in 0 .. CALLSITE_ID_MAX - 1 |-> 0], retrieved |-> 0, faultindex |-> 0,
   faultact |-> 0, recoveries |-> NoRecoveries]

CHECKSTATUS(s, statuses) == ~s.status_exited /\ s.status \in statuses
Current(s) == Len(s.tests)

callback_edfi_dump_stats(s, msg) ==
  CASE ~s.status_reset /\ msg = "test-start" /\ CHECKSTATUS(s, {mtls_test_running}) ->
         [s EXCEPT !.status = mtls_test_running_stats]
    [] ~s.status_reset /\ msg = "test-done" /\ CHECKSTATUS(s, {mtls_test_running_stats}) ->
         [s EXCEPT !.status = mtls_test_done_stats]
    [] OTHER -> s

string_ll_contains(name) == Base[name] \in excludemod

\* Counts of another number of basic blocks than before are not added.
add_module_stats(s, name, bbs, bb_count, field, factor) ==
  LET m == s.tests[Current(s)].modules[name]
      set == IF field # "during" /\ m[field] = NULL THEN [m EXCEPT ![field] = <<bbs>>] ELSE m
      sum == factor * bbs + IF m.during = NULL THEN 0 ELSE m.during[1]
  IN IF string_ll_contains(name) \/ m.bb_count \notin {0, bb_count} THEN s
     ELSE [s EXCEPT !.tests[Current(s)].modules[name] =
             [set EXCEPT !.bb_count = bb_count, !.during = <<sum>>]]

add_module_stats_before(s, name, bbs, n) == add_module_stats(s, name, bbs, n, "before", -1)
add_module_stats_after(s, name, bbs, n) == add_module_stats(s, name, bbs, n, "after", 1)
add_module_stats_during(s, name, bbs, n) == add_module_stats(s, name, bbs, n, "during", 1)

callback_edfi_dump_stats_module(s, name, msg, bbs, bb_count) ==
  CASE s.status_reset -> s
    [] msg = "test-start" /\ CHECKSTATUS(s, {mtls_test_running_stats}) ->
         add_module_stats_before(s, name, bbs, bb_count)
    [] msg = "test-done" /\ CHECKSTATUS(s, {mtls_test_done_stats}) ->
         add_module_stats_after(s, name, bbs, bb_count)
    [] msg = "edfi_context_release" /\ CHECKSTATUS(s, {mtls_test_running_stats}) ->
         add_module_stats_during(s, name, bbs, bb_count)
    [] OTHER -> s

callback_edfi_faultindex_get(s, name, bbindex) ==
  IF s.status_reset THEN s
  ELSE [s EXCEPT !.modules[name].retrieved = @ + 1,
                 !.modules[name].faultindex = IF s.modules[name].retrieved = 0 THEN bbindex ELSE @]

\* Faults and recoveries are counted for the module, and for the running test.
Tally(s, name, Count(_)) ==
  LET t == [s EXCEPT !.modules[name] = Count(@)]
  IN IF s.status \in {mtls_test_running, mtls_test_running_stats}
     THEN [t EXCEPT !.tests[Current(s)].modules[name] = Count(@)] ELSE t

callback_fault(s, name, repeat) ==
  IF s.status_reset THEN s
  ELSE [Tally(s, name, LAMBDA m : [m EXCEPT !.faultact = @ + repeat]) EXCEPT
          !.statusfaultfirst = IF @ = mtls_none THEN s.status ELSE @,
          !.statusfaultlast = s.status]

callback_print_ltckpt(s, name, kind) ==
  IF s.status_reset THEN s ELSE Tally(s, name, LAMBDA m : [m EXCEPT !.recoveries[kind] = @ + 1])

callback_hypermem_faultspec(s, spec) ==
  IF CHECKSTATUS(s, {mtls_start}) /\ s.faultspec = NULL THEN [s EXCEPT !.faultspec = <<spec>>] ELSE s

callback_hypermem_logpath(s, now) ==
  IF CHECKSTATUS(s, {mtls_none}) THEN [s EXCEPT !.start = now, !.status = mtls_start] ELSE s

callback_print_ltckpt_closed_ipc_callsites(s, name, callsites) ==
  [s EXCEPT !.modules[name].closed = [id \in DOMAIN @ |-> @[id] + IF id \in callsites THEN 1 ELSE 0]]

add_test_before(s, name, now) ==
  [s EXCEPT !.tests = Append(@, [name |-> name, status |-> "running", start |-> now, end |-> 0,
                                 reported |-> [k \in {"count", "rate", "time"} |-> NAN],
                                 modules |-> [m \in Modules |-> NoCounts]])]
add_test_after(s, status, now) ==
  [s EXCEPT !.tests[Current(s)].end = now, !.tests[Current(s)].status = status]

callback_print_test(s, name, status, now) ==
  CASE status = "running" /\ CHECKSTATUS(s, {mtls_tests_starting, mtls_test_done}) ->
         add_test_before([s EXCEPT !.status = mtls_test_running], name, now)
    [] status # "running" /\ CHECKSTATUS(s, {mtls_test_running, mtls_test_done_stats}) ->
         add_test_after([s EXCEPT !.status = mtls_test_done], status, now)
    [] OTHER -> s

\* Output such as "COUNT|5.0|1|lps" or "TIME|2.5" is added to what is reported.
callback_print_test_output(s, name, kind, value) ==
  IF CHECKSTATUS(s, {mtls_test_done}) /\ s.tests[Current(s)].name = name
     /\ kind \in {"count", "rate", "time"}
  THEN [s EXCEPT !.tests[Current(s)].reported[kind] = IF @ = NAN THEN value ELSE @ + value] ELSE s

callback_print_tests_completed(s, now) ==
  IF CHECKSTATUS(s, {mtls_test_done})
  THEN [s EXCEPT !.tests_complete = now, !.status = mtls_tests_complete] ELSE s

Booted(s, now) == IF s.status = mtls_start THEN [s EXCEPT !.boot = now, !.status = mtls_boot] ELSE s

callback_print_tests_starting(s, names, now) ==
  LET t == Booted(s, now)
  IN IF CHECKSTATUS(t, {mtls_boot})
     THEN [t EXCEPT !.tests_starting = now, !.status = mtls_tests_starting, !.testsplanned = <<names>>]
     ELSE t

callback_print_startup(s, now) == IF s.status_reset THEN s ELSE Booted(s, now)

Exited(s, now) ==
  IF s.status_exited THEN s ELSE [s EXCEPT !.status_exited = TRUE, !.exit = now]

callback_qemu_exit(s, now) ==
  IF s.status_reset THEN s
  ELSE Exited([s EXCEPT !.status = IF @ = mtls_tests_complete THEN mtls_quit ELSE @], now)

callback_qemu_hypermem_reset(s, now) ==
  IF s.status_reset \/ s.status <= mtls_start THEN s
  ELSE Exited([s EXCEPT !.status_reset = TRUE], now)

callback_qemu_signal(s, number) ==
  IF number > 0 /\ s.signal = 0 THEN [s EXCEPT !.signal = number] ELSE s

\* The end of minixtest_log_summarize: what the log does not tell is filled in.
Fill(s, timestamp_last) ==
  LET exit == IF s.status_exited THEN s.exit ELSE timestamp_last
      complete == IF s.status < mtls_tests_complete THEN exit ELSE s.tests_complete
      End(i) == IF s.tests[i].status # "running" THEN s.tests[i].end
                ELSE IF i < Len(s.tests) THEN s.tests[i + 1].start ELSE complete
  IN [s EXCEPT
        !.exit = exit,
        !.boot = IF s.status < mtls_boot THEN exit ELSE @,
        !.tests_starting = IF s.status < mtls_tests_starting THEN exit ELSE @,
        !.tests_complete = complete,
        !.tests = [i \in DOMAIN @ |-> [@[i] EXCEPT !.end = End(i)]]]

-----------------------------------------------------------------------------
(* The lines of a run.  QEMU writes the statistics of all modules at once.  *)

None == [m \in Modules |-> 0]

NoSummary ==
  [status |-> mtls_none, status_exited |-> FALSE, status_reset |-> FALSE,
   start |-> 0, boot |-> 0, tests_starting |-> 0, tests_complete |-> 0, exit |-> 0,
   tests |-> <<>>, modules |-> [m \in Modules |-> NoModule], signal |-> 0,
   faultspec |-> NULL, testsplanned |-> NULL,
   statusfaultfirst |-> mtls_none, statusfaultlast |-> mtls_none]

Init ==
  /\ summary = NoSummary
  /\ time = 0 /\ phase = "qemu" /\ count = None /\ ran = None /\ measured = <<>> /\ replaced = {}
  /\ faults = None /\ events = 0

Line(s, next) == summary' = s /\ time' = time + 1 /\ phase' = next
Quiet == UNCHANGED <<count, ran, measured, replaced, faults, events>>
Alive == phase \notin {"qemu", "end", "done", "dump"}
Event == Alive /\ events < MaxEvents /\ events' = events + 1
Now == time + 1

QemuStarts ==
  /\ phase = "qemu" /\ Line(callback_hypermem_logpath(summary, Now), "boot") /\ Quiet

Faultspec ==
  /\ phase = "boot" /\ Event
  /\ Line(callback_hypermem_faultspec(summary, "spec"), phase)
  /\ UNCHANGED <<count, ran, measured, replaced, faults>>

Startup ==
  /\ phase = "boot" /\ edfi /\ Line(callback_print_startup(summary, Now), "up") /\ Quiet

TestsStart ==
  /\ phase = IF edfi THEN "up" ELSE "boot"
  /\ Line(callback_print_tests_starting(summary, Planned, Now), "tests") /\ Quiet

TestRuns ==
  /\ phase \in {"tests", "over"} /\ Len(measured) < Len(Planned)
  /\ Line(callback_print_test(summary, Planned[Len(measured) + 1], "running", Now), "running")
  /\ measured' = Append(measured, NULL)
  /\ UNCHANGED <<count, ran, replaced, faults, events>>

Dump(s, msg) ==
  MapThenFoldSet(LAMBDA m, t : callback_edfi_dump_stats_module(t, m, msg, count[m], 1),
                 callback_edfi_dump_stats(s, msg), LAMBDA m : m,
                 LAMBDA S : CHOOSE m \in S : TRUE, Modules)

DumpStart ==
  /\ phase = "running" /\ edfi
  /\ Line(Dump(summary, "test-start"), "measuring")
  /\ measured' = [measured EXCEPT ![Len(measured)] = <<ran>>]
  /\ UNCHANGED <<count, ran, replaced, faults, events>>

DumpDone ==
  /\ phase = "measuring"
  /\ Line(Dump(summary, "test-done"), "measured")
  /\ measured' = [measured EXCEPT ![Len(measured)] = Append(@, ran)]
  /\ UNCHANGED <<count, ran, replaced, faults, events>>

TestEnds(result) ==
  /\ phase \in {"running", "measured"}
  /\ Line(callback_print_test(summary, Planned[Len(measured)], result, Now), "over") /\ Quiet

TestOutput(name, kind) ==
  /\ phase = "over" /\ Event
  /\ Line(callback_print_test_output(summary, name, kind, 2), phase)
  /\ UNCHANGED <<count, ran, measured, replaced, faults>>

TestsComplete ==
  /\ phase = "over" /\ Len(measured) = Len(Planned)
  /\ Line(callback_print_tests_completed(summary, Now), "complete") /\ Quiet

\* A module executes; no line is written.
Work(m) ==
  /\ Alive /\ count[m] < MaxWork
  /\ count' = [count EXCEPT ![m] = @ + 1] /\ ran' = [ran EXCEPT ![m] = @ + 1]
  /\ UNCHANGED <<summary, time, phase, measured, replaced, faults, events>>

FaultIndexGet(m) ==
  /\ Event /\ Line(callback_edfi_faultindex_get(summary, m, 1), phase)
  /\ UNCHANGED <<count, ran, measured, replaced, faults>>

Fault(m, repeat) ==
  /\ Event /\ Line(callback_fault(summary, m, repeat), phase)
  /\ faults' = [faults EXCEPT ![m] = @ + repeat]
  /\ UNCHANGED <<count, ran, measured, replaced>>

Recovery(m, kind) ==
  /\ Event /\ Line(callback_print_ltckpt(summary, m, kind), phase)
  /\ UNCHANGED <<count, ran, measured, replaced, faults>>

WindowClosed(m) ==
  /\ Event /\ Line(callback_print_ltckpt_closed_ipc_callsites(summary, m, Callsites), phase)
  /\ UNCHANGED <<count, ran, measured, replaced, faults>>

\* A module is replaced: its counts are dumped and start again from zero.
Release(m) ==
  /\ edfi /\ Event
  /\ Line(callback_edfi_dump_stats_module(summary, m, "edfi_context_release", count[m], 1), phase)
  /\ count' = [count EXCEPT ![m] = 0]
  /\ replaced' = replaced \cup IF phase = "measuring" THEN {} ELSE {m}
  /\ UNCHANGED <<ran, measured, faults>>

\* The machine boots again.
Reset ==
  /\ Event /\ Line(callback_qemu_hypermem_reset(summary, Now), "boot")
  /\ count' = None /\ ran' = None /\ UNCHANGED <<measured, replaced, faults>>

Signal ==
  /\ Event /\ Line(callback_qemu_signal(summary, 15), phase)
  /\ UNCHANGED <<count, ran, measured, replaced, faults>>

Exit == Alive /\ Line(callback_qemu_exit(summary, Now), "end") /\ Quiet

\* QEMU is killed and writes no more.
Truncated ==
  /\ Alive /\ phase' = "end" /\ UNCHANGED <<summary, time>> /\ Quiet

minixtest_log_summarize ==
  /\ phase = "end" /\ phase' = "done"
  /\ summary' = Fill(summary, time)
  /\ UNCHANGED time /\ Quiet

Next ==
  \/ QemuStarts \/ Faultspec \/ Startup \/ TestsStart \/ TestRuns \/ DumpStart \/ DumpDone
  \/ \E r \in {"passed", "failed"} : TestEnds(r)
  \/ \E n \in Range(Planned), k \in {"count", "text"} : TestOutput(n, k)
  \/ TestsComplete
  \/ \E m \in Modules : \/ Work(m) \/ FaultIndexGet(m) \/ WindowClosed(m) \/ Release(m)
                        \/ \E k \in Recoveries : Recovery(m, k)
                        \/ \E n \in 1 .. 2 : Fault(m, n)
  \/ Reset \/ Signal \/ Exit \/ Truncated \/ minixtest_log_summarize

-----------------------------------------------------------------------------
(* Properties.                                                             *)

TypeOK ==
  /\ summary.status \in mtls_none .. mtls_quit
  /\ summary.tests \in Seq([name : Range(Planned), status : {"running", "passed", "failed"},
                            start : Nat, end : Nat, reported : [{"count", "rate", "time"} -> Int],
                            modules : [Modules -> [bb_count : Nat, before : Seq(Nat), after : Seq(Nat),
                                                   during : Seq(Int), faultact : Nat,
                                                   recoveries : [Recoveries -> Nat]]]])

\* However a run ends, its summary has its phases in the order in which they
\* happened, the tests one after the other within the phase of the tests, and
\* all of them ended (minixtest_log_summarize fills in what the log lacks).
TimesAreOrdered ==
  phase = "done" =>
    LET s == summary
        n == Len(s.tests)
    IN /\ s.start <= s.boot /\ s.boot <= s.tests_starting
       /\ s.tests_starting <= s.tests_complete /\ s.tests_complete <= s.exit
       /\ \A i \in 1 .. n :
            /\ s.tests_starting <= s.tests[i].start /\ s.tests[i].start <= s.tests[i].end
            /\ s.tests[i].end <= IF i < n THEN s.tests[i + 1].start ELSE s.tests_complete

\* What a summary says a module executed during a measured test is what it
\* executed between the two dumps, also when it was replaced in between and
\* its counters started again; faults are counted once, and only those of a
\* test for the test (add_module_stats_before, _during, _after, callback_fault).
SumOver(m) == FoldLeft(LAMBDA a, t : a + t.modules[m].faultact, 0, summary.tests)
CountsAreTrue ==
  phase = "done" =>
    \A m \in Modules :
      /\ \A i \in DOMAIN summary.tests :
           LET t == summary.tests[i].modules[m]
           IN t.after # NULL =>
                t.before # NULL /\ ~string_ll_contains(m) /\ t.during = <<measured[i][2][m] - measured[i][1][m]>>
      /\ ~summary.status_reset => summary.modules[m].faultact = faults[m]
      /\ SumOver(m) <= summary.modules[m].faultact
=============================================================================
