------------------------------ MODULE MCTools ------------------------------
(***************************************************************************)
(* The tools that read the logs of experiments: the parser of logs, the    *)
(* summary and the analysis of test runs, map files and coverage, the      *)
(* choice of faults and of tests, and the report on fault injection runs.  *)
(* The variable part says which of them a behaviour is about; the          *)
(* variables of the others are 0.                                          *)
(***************************************************************************)
EXTENDS Integers, FiniteSets, Sequences, TLC

VARIABLES
  part,
  file, newline, at, c, lineno, out, timestamp_last, state, summary, time, phase,
  count, ran, measured, replaced, faults, events, stats, history, program, hash,
  modules, boot, test, functions, logs, typeexclude, numfaults, setting, bb_list,
  lines, tests, golden_list, output_all, warnings, directory

-----------------------------------------------------------------------------
(* Logs for the parser: every line that can be written, among others.      *)

Line == INSTANCE LogParse WITH callbacks <- {}, Logs <- {}
Vfs == Line!W("vfs")
Msg == Line!W("hello")
Says ==
  Line!RecoverySays(Vfs) \union {Line!WritelogSays(Vfs, 3, 0)} \union Line!ClosedSays(Vfs)
  \union {Line!hypermem_log_callsites(Vfs, 3, sites) : sites \in {<<>>, <<4>>, <<4, 9>>}}
  \union Line!hypermem_log_nonreplyable(Vfs, 5)
  \union {Line!edfi_print_hypermemlike_stats(Vfs, bbs) : bbs \in UNION {[1 .. k -> 0 .. 2] : k \in 0 .. 2}}
  \union Line!QemuSays(Vfs, Msg, 2) \union Line!SystemSays(Vfs, Msg, 2) \union Line!ScriptsSay(Vfs, Msg)
Blank == [kind |-> "blank"]
Unstamped == [kind |-> "unstamped"]
WrittenLogs ==
  {<<>>, <<Blank, Blank>>}
  \union {<<Unstamped, b, Blank>> : b \in Says}
  \union {<<Blank, CHOOSE x \in Line!ClosedSays(Vfs) : TRUE, b, Unstamped>> :
            b \in Line!RecoverySays(Vfs) \union Line!ClosedSays(Vfs)}
Callbacks ==
  {Line!logparse_line_patterns[r].cb : r \in DOMAIN Line!logparse_line_patterns} \ {"no_context", "nop"}

-----------------------------------------------------------------------------
(* Modules of the test runs, and programs for map files: an instruction    *)
(* has a place, or none, and the types of faults it may and does get.      *)

BaseOf == ("vfs" :> "vfs") @@ ("rs@1" :> "rs") @@ ("vfs@1" :> "vfs")
Inst(place, candidates, injected) == [at |-> place, candidates |-> candidates, injected |-> injected]
Func(name, path, blocks) == [name |-> <<name>>, path |-> path, blocks |-> blocks]
XC == <<"a", "/", "x.c">>
SWAP == <<"swap">>
NOLOAD == <<"noload">>
Two == <<Inst(<<XC, 1>>, <<SWAP, NOLOAD>>, <<SWAP>>), Inst(<<>>, <<>>, <<>>)>>
Far == <<Inst(<<XC, 130>>, <<NOLOAD>>, <<NOLOAD>>)>>
Other == <<Inst(<<XC, 2>>, <<SWAP>>, <<>>)>>
Header == <<Inst(<<<<"b.h">>, 1>>, <<>>, <<>>)>>
CoveredPrograms ==
  {[vfs |-> <<Func("f", XC, <<Far>>)>>, pm |-> <<Func("f", XC, <<Header>>)>>]}
  \union {LET p == <<"/", "c", "/", "/", "a", "/", ".", "/", "b", "/", "..", "/", "x.c">> IN
          [vfs |-> <<Func("f", p, <<Two>>)>>,
           pm |-> <<Func("h", <<"a", "/", "y.c">>, <<Far>>), Func("f", p, <<Two>>)>>]}
PickedPrograms ==
  {[vfs |-> <<Func("f", XC, <<Two, Other>>)>>,
    pm |-> <<Func("lt_", XC, <<Far>>), Func("h", XC, <<Far>>), Func("f", XC, <<Two, Other>>)>>]}
PickedMaps == {<<"vfs", "pm">>, <<"pm">>, <<"pm", "pm">>}
PickedLogs ==
  {<<>>, << <<"vfs", <<1, 0>>>> >>, << <<"pm", <<1, 1, 0, 1>>>>, <<"pm", <<1, 0, 0, 1>>>> >>,
   << <<"pm", <<1, 1, 0, 1>>>>, <<"pm", <<1, 0, 0>>>> >>}
BootCounts == {<< <<"vfs", <<1, 0>>>> >>}
Golden(name, runtime, module, counts) == [name |-> name, runtime |-> runtime, counts |-> << <<module, counts>> >>]
GoldenTests ==
  {<<Golden("t1", 2, "vfs", <<1, 0>>), Golden("t2", 3, "pm", <<0, 1, 0, 0>>), Golden("t3", 1, "pm", <<0, 0, 1, 1>>)>>}
Setting(multi, one, pre, post, noboot, runtime) ==
  [printfaultspec |-> TRUE, multitest |-> multi, onetest |-> one, pretest |-> pre, posttest |-> post, excludeboot |-> noboot, runtime |-> runtime,
   boottime |-> 1, extratest |-> {"t3"}, excludetest |-> IF runtime \in {12, 600} THEN {"t2"} ELSE {}]
PickSettings ==
  {Setting(TRUE, FALSE, TRUE, FALSE, FALSE, 8), Setting(FALSE, FALSE, TRUE, TRUE, FALSE, 9),
   Setting(FALSE, TRUE, FALSE, FALSE, TRUE, 600), Setting(TRUE, FALSE, FALSE, FALSE, TRUE, 12),
   Setting(TRUE, FALSE, TRUE, TRUE, TRUE, 2), Setting(TRUE, TRUE, FALSE, FALSE, TRUE, 600)}

-----------------------------------------------------------------------------
(* Logs of fault injection runs: where the fault is, when it is activated  *)
(* (1 at start-up, 3 in the workload; 4 for a reboot), the sanity tests,   *)
(* the time the workload takes and the workload.                           *)

BlocksOf == [pm |-> << [path |-> <<"servers", "pm">>, line |-> 3, func |-> "f", type |-> "swap"],
                       [path |-> <<>>, line |-> 0, func |-> "g", type |-> ""] >>]
Classes == << <<"server", <<"servers">>>>, <<"pm", <<"servers", "pm">>>> >>
At(cb, arg, when) == [cb |-> cb, arg |-> arg, time |-> when]
Lines(v) ==
  <<At("hypermem_logpath", "", 1), At("qemu_drive", v.workload, 1), At("hypermem_faultspec", "vfs:1", 1),
    At("edfi_context_set", "pm", 2), At("print_startup", "vfs", 2)>>
  \o (IF v.module # "" THEN <<At("edfi_faultindex_get", <<v.module, v.block>>, 2)>> ELSE <<>>)
  \o (IF v.at = 1 THEN <<At("fault", <<"vfs1", 1>>, 3)>> ELSE <<>>)
  \o <<At("edfi_dump_stats", "", 3), At("edfi_dump_stats_module", <<"pm", <<1, v.block % 2>>>>, 3)>>
  \o (IF v.pre = "none" THEN <<>> ELSE
       <<At("print_sanity", <<v.pre = "pass", FALSE>>, 4), At("print_start", "", 4)>>
       \o (IF v.at = 3 THEN <<At("fault", <<"pm", 2>>, 5), At("edfi_context_reset", "pm", 6)>> ELSE <<>>)
       \o (IF v.at = 4 THEN <<At("hypermem_logpath", "", 6)>> ELSE <<>>)
       \o <<At("print_end", "", 5 + v.slow)>>
       \o (IF v.post = "none" THEN <<>> ELSE <<At("print_sanity", <<v.post = "pass", TRUE>>, 7 + v.slow)>>))
  \o <<At("qemu_exit", "", 9 + v.slow)>>
SingleLogs ==
  {[system |-> 1, lines |-> Lines(v)] :
     v \in [module : {"", "pm", "vfs"}, block : {2}, at : {0, 1, 3, 4}, pre : {"none", "pass", "fail"},
            post : {"none", "pass", "fail"}, slow : {0}, workload : {0}]}
Variant(module, post, slow) ==
  [module |-> module, block |-> 1, at |-> 0, pre |-> "pass", post |-> post, slow |-> slow, workload |-> 0]
GoldenLogs ==
  {[system |-> 1, lines |-> Lines(v)] :
     v \in [module : {""}, block : {1, 2}, at : {0, 1, 3}, pre : {"pass"}, post : {"pass"}, slow : {0}, workload : {0}]}
ComparedLogs ==
  {[system |-> 1, lines |-> Lines(Variant("", "pass", 0))], [system |-> 1, lines |-> Lines(Variant("", "pass", 3))],
   [system |-> 2, lines |-> Lines(Variant("pm", "none", 2))]}
LogDirectories ==
  [single |-> [logs |-> SingleLogs, most |-> 1], compared |-> [logs |-> ComparedLogs, most |-> 4],
   golden |-> [logs |-> GoldenLogs, most |-> 2]]

Log == INSTANCE LogParse WITH
  callbacks <- Callbacks, Logs <- WrittenLogs

Naive == INSTANCE TestAnalysis WITH
  excludemod <- {"rs"}, Base <- BaseOf, CALLSITE_ID_MAX <- 2, Callsites <- {0, 2},
  MaxWork <- 1, setting_max_count <- 2, Modules <- {"vfs", "rs@1"}, edfi <- FALSE,
  Planned <- <<"t", "u">>, MaxEvents <- 1, setting_pretest_count <- 1,
  setting_naive_mode <- TRUE, MaxLogs <- 1
Counted == INSTANCE TestAnalysis WITH
  excludemod <- {"rs"}, Base <- BaseOf, CALLSITE_ID_MAX <- 2, Callsites <- {2},
  MaxWork <- 1, setting_max_count <- 2, Modules <- {"vfs", "vfs@1"}, edfi <- TRUE,
  Planned <- <<"t">>, MaxEvents <- 1, setting_pretest_count <- 0,
  setting_naive_mode <- FALSE, MaxLogs <- 1
Repeated == INSTANCE TestAnalysis WITH
  excludemod <- {"rs"}, Base <- BaseOf, CALLSITE_ID_MAX <- 2, Callsites <- {0, 2},
  MaxWork <- 1, setting_max_count <- 2, Modules <- {"vfs"}, edfi <- FALSE,
  Planned <- <<"t", "t">>, MaxEvents <- 0, setting_pretest_count <- 1,
  setting_naive_mode <- TRUE, MaxLogs <- 2

Cover == INSTANCE Coverage WITH
  Programs <- CoveredPrograms, MaxCount <- 1, Stale <- {0, 1}

Pick == INSTANCE Pickers WITH
  Programs <- PickedPrograms, MaxCount <- 1, Stale <- {0}, Names <- <<"pm", "vfs">>,
  Loads <- PickedMaps, Logs <- PickedLogs, Boots <- BootCounts, Tests <- GoldenTests,
  Settings <- PickSettings, Types <- {SWAP}, MaxFaults <- 2

Report == INSTANCE LogReport WITH
  Base <- [pm |-> "pm", vfs |-> "vfs", vfs1 |-> "vfs"], MapFiles <- BlocksOf,
  pathclass_specs <- Classes, MIN_RUNS <- 2, CHI2_EXPECTED_MIN <- 1,
  Directories <- LogDirectories

logVars == <<file, newline, at, c, lineno, out, timestamp_last, state>>
testVars == <<time, count, ran, measured, replaced, faults, events>>
pickVars == <<logs, typeexclude, numfaults, setting, bb_list, lines, tests>>
reportVars == <<golden_list, output_all, warnings, directory>>

vars == <<part, summary, phase, stats, history, program, hash, modules, boot, test,
          functions, logVars, testVars, pickVars, reportVars>>

LogIdle == file = 0 /\ newline = 0 /\ at = 0 /\ c = 0 /\ lineno = 0 /\ out = 0 /\
    timestamp_last = 0 /\ state = 0
TestIdle == time = 0 /\ count = 0 /\ ran = 0 /\ measured = 0 /\ replaced = 0 /\ faults = 0 /\
    events = 0
PickIdle == logs = 0 /\ typeexclude = 0 /\ numfaults = 0 /\ setting = 0 /\ bb_list = 0 /\
    lines = 0 /\ tests = 0
ReportIdle == golden_list = 0 /\ output_all = 0 /\ warnings = 0 /\ directory = 0

Init ==
  \/ /\ part = "Log" /\ Log!Init
     /\ summary = 0 /\ phase = 0 /\ stats = 0 /\ history = 0 /\ program = 0 /\
        hash = 0 /\ modules = 0 /\ boot = 0 /\ test = 0 /\ functions = 0 /\
        TestIdle /\ PickIdle /\ ReportIdle
  \/ /\ \/ part = "Naive" /\ Naive!AInit
        \/ part = "Counted" /\ Counted!AInit
        \/ part = "Repeated" /\ Repeated!AInit
     /\ program = 0 /\ hash = 0 /\ modules = 0 /\ boot = 0 /\ test = 0 /\
        functions = 0 /\ LogIdle /\ PickIdle /\ ReportIdle
  \/ /\ part = "Cover" /\ Cover!Init
     /\ summary = 0 /\ stats = 0 /\ history = 0 /\ LogIdle /\ TestIdle /\ PickIdle /\
        ReportIdle
  \/ /\ part = "Pick" /\ Pick!PInit
     /\ summary = 0 /\ stats = 0 /\ history = 0 /\ LogIdle /\ TestIdle /\ ReportIdle
  \/ /\ part = "Report" /\ Report!Init
     /\ program = 0 /\ hash = 0 /\ modules = 0 /\ boot = 0 /\ test = 0 /\
        functions = 0 /\ LogIdle /\ TestIdle /\ PickIdle

Next ==
  \/ /\ part = "Log" /\ Log!Next
     /\ UNCHANGED <<part, summary, phase, stats, history, program, hash, modules,
                    boot, test, functions, testVars, pickVars, reportVars>>
  \/ /\ \/ part = "Naive" /\ Naive!ANext
        \/ part = "Counted" /\ Counted!ANext
        \/ part = "Repeated" /\ Repeated!ANext
     /\ UNCHANGED <<part, program, hash, modules, boot, test, functions, logVars,
                    pickVars, reportVars>>
  \/ /\ part = "Cover" /\ Cover!Next
     /\ UNCHANGED <<part, summary, stats, history, logVars, testVars, pickVars,
                    reportVars>>
  \/ /\ part = "Pick" /\ Pick!PNext
     /\ UNCHANGED <<part, summary, stats, history, logVars, testVars, reportVars>>
  \/ /\ part = "Report" /\ Report!Next
     /\ UNCHANGED <<part, program, hash, modules, boot, test, functions, logVars,
                    testVars, pickVars>>

Spec == Init /\ [][Next]_vars

-----------------------------------------------------------------------------
(* Properties.                                                             *)


\* Every recovery that the parser can report has a column of its own in the
\* overview of the runs ("must match combinations sent to print_ltckpt in
\* logparse.c", minixtestloganalyze.c).
RecoveriesAreShown ==
  \A r \in DOMAIN Line!logparse_line_patterns :
    LET row == Line!logparse_line_patterns[r]
    IN row.cb = "print_ltckpt" =>
         \E s \in Naive!show_recovery : row.args[1] = Line!Const(s[1]) /\ row.args[2] = Line!Const(s[2])


\* A map file tells its readers what the compiler put in it, functions that are
\* linked into several modules get the same global blocks, and coverage is that
\* of the executions counted for them (MapFile.cpp, mapparse.c, coverage.c).
CoverageIsTrue == part = "Cover" => Cover!TypeOK /\ Cover!CoverageIsTrue


=============================================================================
