------------------------------ MODULE LogParse ------------------------------
(***************************************************************************)
(* The parser of hypermem logs (logparse.c) and the messages the run-time  *)
(* libraries write to them.  A line is a sequence of tokens: words, which  *)
(* hold no character that a pattern's star stops at, these characters,     *)
(* numbers and run-length encoded counts.  Patterns that differ only in    *)
(* the wording of a reason are one.                                        *)
(***************************************************************************)
EXTENDS Naturals, FiniteSets, SequencesExt

CONSTANTS
  callbacks,               \* the callbacks a tool has set
  Logs                     \* logs: sequences of lines

VARIABLES
  file, newline,           \* lines of the log; whether a newline ends the last one
  at, c,                   \* the line of the character c: "text", "newline" or "eof"
  lineno,
  out,                     \* callbacks made: line number and callback
  timestamp_last,          \* line the last time stamp was read from
  state                    \* of logparse_from_file: "open", "done" or "crashed"

vars == <<file, newline, at, c, lineno, out, timestamp_last, state>>

W(s) == <<s>>
Num(n) == <<"#", n>>
Run(count, repeats) == <<"x", count, repeats>>
Star == W("*")
Hash == W("#")

\* A row of the table: pattern, callback, and its arguments, each a constant
\* or a parameter.
Row(cb, args, pattern) == [cb |-> cb, args |-> args, pattern |-> pattern]
P(i) == <<"param", i>>
Const(w) == <<W(w)>>
NoParam == <<>>

EdfiContextRows ==
  << Row("edfi_context_release", <<P(1)>>, <<W("EDFI context release module="), Star>>),
     Row("edfi_context_reset", <<P(1)>>, <<W("EDFI context reset module="), Star>>),
     Row("edfi_context_set", <<P(1)>>, <<W("EDFI context set module="), Star>>),
     Row("edfi_dump_stats", <<P(1)>>, <<W("edfi_dump_stats msg="), Star>>),
     Row("edfi_dump_stats", <<NoParam>>, <<W("edfi_dump_stats")>>) >>

StatsModule == W("edfi_dump_stats_module name=")
Sp == W(" ")
NoContextRows ==
  << Row("no_context", <<P(1), P(2)>>, <<StatsModule, Star, Sp, W("msg="), Star, Sp, W("no context known")>>),
     Row("no_context", <<P(1), NoParam>>, <<StatsModule, Star, Sp, W("no context known")>>) >>
StatsModuleRows ==
  << Row("edfi_dump_stats_module", <<P(1), P(2), P(3)>>,
         <<StatsModule, Star, Sp, W("msg="), Star, Sp, W("bbs="), Star>>),
     Row("edfi_dump_stats_module", <<P(1), NoParam, P(2)>>, <<StatsModule, Star, Sp, Star>>) >>

FaultRows ==
  << Row("edfi_faultindex_get", <<P(1), P(2)>>,
         <<W("edfi_faultindex_get name="), Star, Sp, W("bbindex="), Hash>>),
     Row("edfi_faultindex_get", <<P(1), Const("-1")>>,
         <<W("edfi_faultindex_get name="), Star, Sp, W("not selected for fault injection")>>),
     Row("fault", <<P(1), P(2), P(3)>>,
         <<W("fault name="), Star, Sp, W("bbindex="), Hash, Sp, W("count="), Hash>>),
     Row("fault", <<P(1), P(2), Const("1")>>, <<W("fault name="), Star, Sp, W("bbindex="), Hash>>) >>

Quote == W("\"")
HypermemRows ==
  << Row("hypermem_error", <<P(1)>>, <<W("error:"), Sp, Star>>),
     Row("hypermem_faultspec", <<P(1)>>, <<W("hypermem-faultspec="), Quote, Star, Quote>>),
     Row("hypermem_flushlog", <<Const("0")>>, <<W("hypermem-flushlog=false")>>),
     Row("hypermem_flushlog", <<Const("1")>>, <<W("hypermem-flushlog=true")>>),
     Row("hypermem_logpath", <<P(1)>>, <<W("hypermem-logpath="), Quote, Star, Quote>>),
     Row("hypermem_warning", <<P(1)>>, <<W("warning:"), Sp, Star>>),
     Row("nop", <<>>, <<W("nop")>>) >>

DriveRows ==
  << Row("qemu_drive", <<P(1), P(2)>>, <<W("drive["), Hash, W("]={ file: "), Quote, Star, Quote, W(" }")>>) >>
QemuRows ==
  [i \in 1 .. 6 |-> LET q == <<"exit", "hypermem_reset", "powerdown", "reset", "shutdown", "quit">>[i]
                    IN Row(q, <<>>, <<W("QEMU"), W(q)>>)]
  \o << Row("qemu_interrupt", <<P(1)>>, <<W("Interrupt "), Hash>>),
        Row("qemu_signal", <<P(1)>>, <<W("QEMU"), W("signal "), Hash>>) >>

Pr == W("print ")
EndRows ==
  << Row("print_abort_after_restart", <<>>, <<Pr, W("Aborting tests after previous restart")>>),
     Row("print_debug", <<P(1)>>, <<Pr, W("DEBUG: "), Star>>),
     Row("print_end", <<>>, <<Pr, W("<END>")>>) >>
RsRows ==
  << Row("print_rs_crash", <<P(2), P(1)>>, <<Pr, W("rs-CRASH: signal ["), Hash, W("] sent for "), Star>>),
     Row("print_rs_normal", <<P(1)>>, <<Pr, W("rs-NORMAL: down sent for "), Star>>),
     Row("print_ltckpt", <<Const("shutdown"), Const("deadlock"), Const("rs")>>, <<Pr, W("RS: shutdown due to deadlock")>>) >>

Colon == W(":")
Paren == W(")")
SanityRow(text, pass, when, post) ==
  Row("print_sanity", <<Const(pass), Const(post)>>, <<Pr, W(text), W("("), Star, Colon, W(when), Paren, Sp, Star>>)
SanityRows ==
  << SanityRow("Sanity Failed ", "0", "POSTTEST", "1"), SanityRow("Sanity Failed ", "0", "PRETEST", "0"),
     SanityRow("Sanity Passed ", "1", "POSTTEST", "1"), SanityRow("Sanity Passed ", "1", "PRETEST", "0") >>
WorkloadRows ==
  << Row("print_start", <<>>, <<Pr, W("<START>")>>),
     Row("print_startup", <<P(1)>>, <<Pr, W("<EDFI> startup "), Star>>),
     Row("print_workload", <<P(1)>>, <<Pr, W("("), Star, Paren, W(" Workload")>>),
     Row("print_workload_completed", <<>>, <<Pr, W("Workload Completed")>>),
     Row("print_workload_completed", <<P(1)>>, <<Pr, W("Workload Completed"), Sp, Star>>) >>

Test(rest) == <<Pr, W("Test "), Star, Colon>> \o rest
TestRows ==
  << Row("print_test", <<P(1), Const("failed")>>, Test(<<W(" failed")>>)),
     Row("print_test_output", <<P(1), P(2)>>, Test(<<W(" output line"), Colon, Sp, Star>>)),
     Row("print_test", <<P(1), Const("passed")>>, Test(<<W(" passed")>>)),
     Row("print_test", <<P(1), Const("running")>>, Test(<<W(" running")>>)),
     Row("print_tests_completed", <<NoParam>>, <<Pr, W("Completed tests")>>),
     Row("print_tests_completed", <<P(1)>>, <<Pr, W("Completed tests"), W(", these failed: "), Star>>),
     Row("print_tests_starting", <<P(1)>>, <<Pr, W("Starting tests: "), Star>>) >>

\* What hypermem_log makes of a message.
Logged(text, module) == <<Pr, W("ltckpt recovery: ")>> \o text \o <<W(";"), W(" module="), module>>
ClosedRows ==
  << Row("print_ltckpt_closed", <<Const("ipc"), P(1)>>, Logged(<<W("window closed: ltckpt_set_fail_stop_recovery")>>, Star)) >>
ClosedCallsitesRows ==
  << Row("print_ltckpt_closed_ipc_callsites", <<P(4), P(1), P(2), P(3)>>,
         Logged(<<W("window closed "), Hash, W(" times from "), Hash, W(" callsite(s): "), Star>>, Star)) >>
ClosedElseRows ==
  << Row("print_ltckpt_closed", <<Const("unknown"), P(1)>>, Logged(<<W("window closed: reason unknown")>>, Star)),
     Row("print_ltckpt_closed", <<Const("writelog_full"), P(1)>>, Logged(<<W("window closed: writelog full")>>, Star)) >>
LtckptRow(status, method) ==
  Row("print_ltckpt", <<Const(status), Const(method), P(1)>>, Logged(<<W(status), W(method)>>, Star))
FailedRows ==
  << LtckptRow("failure", "generic"), LtckptRow("failure", "idempotent"),
     Row("print_ltckpt", <<Const("failure"), Const("generic"), P(2)>>,
         Logged(<<W("failed: non-replyable message: "), Hash>>, Star)),
     LtckptRow("failure", "process_specific"), LtckptRow("failure", "writelog") >>
ShutdownRows ==
  << LtckptRow("shutdown", "generic"), LtckptRow("shutdown", "failstop"),
     LtckptRow("start", "generic"), LtckptRow("start", "writelog") >>
SuccessRows ==
  << LtckptRow("success", "idempotent"), LtckptRow("success", "process_specific"),
     LtckptRow("success", "service_fi"),
     Row("print_ltckpt", <<Const("success"), Const("writelog"), P(3)>>,
         Logged(<<W("success: writelog: "), Hash, W(" log entries, "), Hash, W(" stack entries")>>, Star)) >>

logparse_line_patterns ==
  EdfiContextRows \o NoContextRows \o StatsModuleRows \o FaultRows \o HypermemRows \o DriveRows
  \o QemuRows \o EndRows \o RsRows \o SanityRows \o WorkloadRows \o TestRows
  \o ClosedRows \o ClosedCallsitesRows \o ClosedElseRows \o FailedRows \o ShutdownRows \o SuccessRows

NoMatch == <<"no match">>
\* A star takes the text up to the token that follows it in the pattern.
pattern_match(line, pattern) ==
  LET M[i \in 1 .. Len(line) + 1, j \in 1 .. Len(pattern) + 1] ==
        LET Take(k, param) == LET rest == M[k, j + 1]
                              IN IF rest = NoMatch THEN NoMatch ELSE <<param>> \o rest
            ends == {k \in i .. Len(line) : j < Len(pattern) /\ line[k] = pattern[j + 1]}
            stop == IF ends = {} THEN Len(line) + 1 ELSE Min(ends)
        IN CASE j > Len(pattern) -> IF i > Len(line) THEN <<>> ELSE NoMatch
             [] j <= Len(pattern) /\ pattern[j] = Star -> Take(stop, SubSeq(line, i, stop - 1))
             [] OTHER ->
                  IF i > Len(line) THEN NoMatch
                  ELSE IF pattern[j] = Hash /\ Len(line[i]) = 2 THEN Take(i + 1, <<line[i]>>)
                  ELSE IF pattern[j] = line[i] THEN M[i + 1, j + 1] ELSE NoMatch
  IN M[1, 1]

\* The first pattern that matches, if any.
patterns_match(line) ==
  LET rows == {r \in DOMAIN logparse_line_patterns :
                 pattern_match(line, logparse_line_patterns[r].pattern) # NoMatch}
  IN IF rows = {} THEN 0 ELSE Min(rows)

\* Run-length encoded counts: a number, or a number and how often it comes.
ValidCount(t) == Len(t) = 2 \/ (Len(t) = 3 /\ t[3] > 0)
Counts(t) == IF Len(t) = 2 THEN <<t>> ELSE [i \in 1 .. t[3] |-> Num(t[2])]
read_execcounts_from_string(s) ==
  LET counts == SelectSeq(s, LAMBDA t : t # Sp)
  IN [valid |-> \A i \in DOMAIN counts : ValidCount(counts[i]),
      bbs |-> FlattenSeq([i \in DOMAIN counts |-> IF ValidCount(counts[i]) THEN Counts(counts[i]) ELSE <<>>])]

\* Numbers with commas between them, up to the first that has none.
parse_ipc_callsites(s) ==
  LET Site(k) == 2 * k - 1 \in DOMAIN s /\ Len(s[2 * k - 1]) = 2
      Listed(k) == Site(k) /\ (k > 1 => s[2 * k - 2] = W(", "))
      n == Cardinality({k \in 1 .. Len(s) : \A l \in 1 .. k : Listed(l)})
  IN [k \in 1 .. n |-> s[2 * k - 1]]

Handled(row, params) ==
  LET arg == [i \in DOMAIN row.args |->
                IF Len(row.args[i]) = 2 THEN params[row.args[i][2]] ELSE row.args[i]]
      last == Len(arg)
  IN [cb |-> row.cb,
      args |-> CASE row.cb = "edfi_dump_stats_module" ->
                      [arg EXCEPT ![last] = read_execcounts_from_string(@).bbs]
                 [] row.cb = "print_ltckpt_closed_ipc_callsites" ->
                      [arg EXCEPT ![last] = parse_ipc_callsites(@)]
                 [] OTHER -> arg]

-----------------------------------------------------------------------------
(* What is written to the log, with the callback it stands for: by the      *)
(* recovery code, by the statistics of EDFI, and by QEMU, MINIX and the      *)
(* scripts of the experiments.                                              *)

Says(text, cb, args) == [kind |-> "stamped", text |-> text, means |-> [cb |-> cb, args |-> args]]
Lost(text) == [kind |-> "stamped", text |-> text, means |-> [cb |-> "none", args |-> <<>>]]

hypermem_log(text, module) ==
  <<Pr, W("ltckpt recovery: ")>> \o text \o <<W(";"), W(" module="), module>>

RecoveryReports ==
  {"failure"} \X {"generic", "idempotent", "process_specific", "writelog"}
  \cup {"shutdown"} \X {"generic", "failstop"} \cup {"start"} \X {"generic", "writelog"}
  \cup {"success"} \X {"idempotent", "process_specific", "service_fi"}
RecoverySays(module) ==
  {Says(hypermem_log(<<W(r[1]), W(r[2])>>, module), "print_ltckpt",
        <<Const(r[1]), Const(r[2]), <<module>>>>) : r \in RecoveryReports}
WritelogSays(module, entries, stack) ==
  Says(hypermem_log(<<W("success: writelog: "), Num(entries), W(" log entries, "), Num(stack),
                      W(" stack entries")>>, module),
       "print_ltckpt", <<Const("success"), Const("writelog"), <<module>>>>)
ClosedSays(module) ==
  {Says(hypermem_log(<<W("window closed: " \o why[2])>>, module), "print_ltckpt_closed",
        <<Const(why[1]), <<module>>>>) :
     why \in {<<"ipc", "ltckpt_set_fail_stop_recovery">>, <<"unknown", "reason unknown">>,
              <<"writelog_full", "writelog full">>}}

hypermem_log_callsites(module, total, sites) ==
  Says(hypermem_log(<<W("window closed "), Num(total), W(" times from "), Num(Len(sites)),
                      W(" callsite(s): ")>>
                    \o [i \in 1 .. 2 * Len(sites) - (IF sites = <<>> THEN 0 ELSE 1) |->
                         IF i % 2 = 1 THEN Num(sites[(i + 1) \div 2]) ELSE W(", ")], module),
       "print_ltckpt_closed_ipc_callsites",
       <<<<module>>, <<Num(total)>>, <<Num(Len(sites))>>, [i \in DOMAIN sites |-> Num(sites[i])]>>)

\* The table has no pattern for a success.
hypermem_log_nonreplyable(module, msgtype) ==
  {Says(hypermem_log(<<W("failed: non-replyable message: "), Num(msgtype)>>, module),
        "print_ltckpt", <<Const("failure"), Const("generic"), <<module>>>>),
   Lost(hypermem_log(<<W("success: non-replyable message: "), Num(msgtype)>>, module))}

\* Equal counts in a row are written once with their number.
edfi_print_hypermemlike_stats(name, bbs) ==
  LET Flush(a) == a.text \o CASE a.repeats = 0 -> <<>>
                               [] a.repeats = 1 -> <<Sp, Num(a.count)>>
                               [] OTHER -> <<Sp, Run(a.count, a.repeats)>>
      Block(a, n) == IF a.count = n THEN [a EXCEPT !.repeats = @ + 1]
                     ELSE [text |-> Flush(a), count |-> n, repeats |-> 1]
      text == Flush(FoldLeft(Block, [text |-> <<StatsModule, name>>, count |-> 0, repeats |-> 0], bbs))
  IN IF bbs = <<>> THEN Lost(text)
     ELSE Says(text, "edfi_dump_stats_module",
               <<<<name>>, NoParam, [i \in DOMAIN bbs |-> Num(bbs[i])]>>)

QemuSays(name, msg, n) ==
  {Says(<<W("EDFI context " \o what \o " module="), name>>, "edfi_context_" \o what, <<<<name>>>>) :
     what \in {"release", "reset", "set"}}
  \cup {Says(<<W("edfi_dump_stats msg="), msg>>, "edfi_dump_stats", <<<<msg>>>>),
        Says(<<W("edfi_dump_stats")>>, "edfi_dump_stats", <<NoParam>>),
        Says(<<StatsModule, name, Sp, W("msg="), msg, Sp, W("bbs="), Num(n), Sp, Run(n, 2)>>,
             "edfi_dump_stats_module", <<<<name>>, <<msg>>, <<Num(n), Num(n), Num(n)>>>>),
        Lost(<<StatsModule, name, Sp, W("msg="), msg, Sp, W("no context known")>>),
        Lost(<<StatsModule, name, Sp, W("no context known")>>),
        Lost(<<StatsModule, name, Sp, W("msg="), msg, Sp, W("bbs="), Run(n, 0)>>),
        Says(<<W("edfi_faultindex_get name="), name, Sp, W("bbindex="), Num(n)>>,
             "edfi_faultindex_get", <<<<name>>, <<Num(n)>>>>),
        Says(<<W("edfi_faultindex_get name="), name, Sp, W("not selected for fault injection")>>,
             "edfi_faultindex_get", <<<<name>>, Const("-1")>>),
        Says(<<W("fault name="), name, Sp, W("bbindex="), Num(n), Sp, W("count="), Num(7)>>,
             "fault", <<<<name>>, <<Num(n)>>, <<Num(7)>>>>),
        Says(<<W("fault name="), name, Sp, W("bbindex="), Num(n)>>, "fault",
             <<<<name>>, <<Num(n)>>, Const("1")>>),
        Says(<<W("error:"), Sp, msg, Sp, msg>>, "hypermem_error", <<<<msg, Sp, msg>>>>),
        Says(<<W("warning:"), Sp, msg>>, "hypermem_warning", <<<<msg>>>>),
        Says(<<W("hypermem-faultspec="), Quote, name, Colon, Num(n), Quote>>,
             "hypermem_faultspec", <<<<name, Colon, Num(n)>>>>),
        Says(<<W("hypermem-flushlog=true")>>, "hypermem_flushlog", <<Const("1")>>),
        Says(<<W("hypermem-flushlog=false")>>, "hypermem_flushlog", <<Const("0")>>),
        Says(<<W("hypermem-logpath="), Quote, msg, Quote>>, "hypermem_logpath", <<<<msg>>>>),
        Says(<<W("nop")>>, "nop", <<>>),
        Says(<<W("drive["), Num(n), W("]={ file: "), Quote, msg, Quote, W(" }")>>,
             "qemu_drive", <<<<Num(n)>>, <<msg>>>>),
        Says(<<W("Interrupt "), Num(n)>>, "qemu_interrupt", <<<<Num(n)>>>>),
        Says(<<W("QEMU"), W("signal "), Num(n)>>, "qemu_signal", <<<<Num(n)>>>>)}
  \cup {Says(<<W("QEMU"), W(q)>>, q, <<>>) :
          q \in {"exit", "hypermem_reset", "powerdown", "reset", "shutdown", "quit"}}

SystemSays(name, msg, n) ==
  {Says(<<Pr, W("DEBUG: "), msg, Colon>>, "print_debug", <<<<msg, Colon>>>>),
   Says(<<Pr, W("rs-CRASH: signal ["), Num(n), W("] sent for "), name>>, "print_rs_crash",
        <<<<name>>, <<Num(n)>>>>),
   Says(<<Pr, W("rs-NORMAL: down sent for "), name>>, "print_rs_normal", <<<<name>>>>),
   Says(<<Pr, W("RS: shutdown due to deadlock")>>, "print_ltckpt",
        <<Const("shutdown"), Const("deadlock"), Const("rs")>>),
   Says(<<Pr, W("<EDFI> startup "), name>>, "print_startup", <<<<name>>>>),
   Says(<<Pr, W("Test "), name, Colon, W(" output line"), Colon, Sp, msg, Colon, msg>>,
        "print_test_output", <<<<name>>, <<msg, Colon, msg>>>>),
   Says(<<Pr, W("Completed tests")>>, "print_tests_completed", <<NoParam>>),
   Says(<<Pr, W("Completed tests"), W(", these failed: "), name, Sp, msg>>,
        "print_tests_completed", <<<<name, Sp, msg>>>>),
   Says(<<Pr, W("Starting tests: "), name, Sp, msg>>, "print_tests_starting", <<<<name, Sp, msg>>>>)}
  \cup {Says(<<Pr, W("Test "), name, Colon, W(" " \o r)>>, "print_test", <<<<name>>, Const(r)>>) :
          r \in {"failed", "passed", "running"}}

\* The scripts write the date after "Workload Completed" and the sanity check.
ScriptsSay(name, date) ==
  {Says(<<Pr, W("<START>")>>, "print_start", <<>>), Says(<<Pr, W("<END>")>>, "print_end", <<>>),
   Says(<<Pr, W("("), name, Paren, W(" Workload")>>, "print_workload", <<<<name>>>>),
   Says(<<Pr, W("Workload Completed")>>, "print_workload_completed", <<>>),
   Lost(<<Pr, W("Workload Completed"), Sp, date>>),
   Says(<<Pr, W("Aborting tests after previous restart")>>, "print_abort_after_restart", <<>>)}
  \cup {Says(<<Pr, W("Sanity " \o s[1]), W("("), Num(0), Colon, W(s[2]), Paren, Sp, date>>,
             "print_sanity",
             <<Const(IF s[1] = "Passed " THEN "1" ELSE "0"), Const(IF s[2] = "POSTTEST" THEN "1" ELSE "0")>>) :
          s \in {"Passed ", "Failed "} \X {"PRETEST", "POSTTEST"}}

-----------------------------------------------------------------------------
(* Reading the log.  A line is blank, has no time stamp, or has one and     *)
(* some text.                                                              *)

FirstChar(i) ==
  IF i > Len(file) THEN "eof"
  ELSE IF file[i].kind # "blank" THEN "text"
  ELSE IF i < Len(file) \/ newline THEN "newline" ELSE "eof"
EndChar(i) == IF i < Len(file) \/ newline THEN "newline" ELSE "eof"


next_char(char, i) ==
  /\ c' = char /\ at' = i
  /\ lineno' = lineno + (IF char = "newline" THEN 1 ELSE 0)

Init ==
  /\ file \in Logs /\ newline \in BOOLEAN
  /\ at = 1 /\ c = FirstChar(1)
  /\ lineno = 1 + (IF FirstChar(1) = "newline" THEN 1 ELSE 0)
  /\ out = <<>> /\ timestamp_last = 0 /\ state = "open"

EmptyLine ==
  /\ state = "open" /\ c = "newline"
  /\ next_char(FirstChar(at + 1), at + 1)
  /\ UNCHANGED <<file, newline, out, timestamp_last, state>>

skip_line ==
  /\ state = "open" /\ c = "text" /\ file[at].kind = "unstamped"
  /\ next_char(EndChar(at), at)
  /\ UNCHANGED <<file, newline, out, timestamp_last, state>>

\* A date after "Workload Completed" fails the handler's assertion that there
\* is no parameter; a tool without edfi_dump_stats_module calls it all the same
\* for a module without context.
Crashes(row) ==
  \/ row.cb = "print_workload_completed" /\ row.args # <<>>
  \/ row.cb = "no_context" /\ "edfi_dump_stats_module" \notin callbacks

\* The row's callback is set, and its execution counts can be read.
Calls(row, params) ==
  /\ row.cb \in callbacks
  /\ row.cb = "edfi_dump_stats_module" => read_execcounts_from_string(Last(params)).valid

logparse_from_file_line ==
  /\ state = "open" /\ c = "text" /\ file[at].kind = "stamped"
  /\ timestamp_last' = at
  /\ next_char(EndChar(at), at)
  /\ LET r == patterns_match(file[at].text)
         row == logparse_line_patterns[r]
         params == pattern_match(file[at].text, row.pattern)
     IN /\ out' = IF r # 0 /\ ~Crashes(row) /\ Calls(row, params)
                  THEN Append(out, <<lineno, Handled(row, params)>>) ELSE out
        /\ state' = IF r # 0 /\ Crashes(row) THEN "crashed"
                    ELSE IF c' = "eof" THEN "done" ELSE "open"
  /\ UNCHANGED <<file, newline>>

EndOfFile ==
  /\ state = "open" /\ c = "eof"
  /\ state' = "done"
  /\ UNCHANGED <<file, newline, at, c, lineno, out, timestamp_last>>

Next == EmptyLine \/ skip_line \/ logparse_from_file_line \/ EndOfFile

-----------------------------------------------------------------------------
(* Properties.                                                             *)

TypeOK ==
  /\ at \in 1 .. Len(file) + 1 /\ c \in {"text", "newline", "eof"}
  /\ state \in {"open", "done", "crashed"}
  /\ lineno \in 1 .. Len(file) + 1

\* What a tool must hear of the first n lines: the messages it has callbacks for.
Told(n) ==
  LET lines == SelectSeq([i \in 1 .. n |-> i],
                         LAMBDA i : file[i].kind = "stamped" /\ file[i].means.cb \in callbacks)
  IN [k \in DOMAIN lines |-> <<lines[k], file[lines[k]].means>>]

=============================================================================
