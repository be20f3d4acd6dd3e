------------------------------- MODULE MCEdfi -------------------------------
(***************************************************************************)
(* The parts of fault injection with EDFI: the pass that injects faults    *)
(* into a program, the run-time that the program is linked with, its       *)
(* execution counts, its control server, and the command line of edfictl.  *)
(* The variable part says which of them, in which configuration, a         *)
(* behaviour is about; the others rest, the control server in one initial  *)
(* state and the rest with variables that are 0.                           *)
(***************************************************************************)
EXTENDS EdfiControl, EdfiRuntime, EdfiStats, EdfictlArgs, Naturals, Sequences

\* One fault in each block.
OneEach == <<1, 1>>
\* Distances between faults, one block and a probability.
FdpConfs == {[NoConf EXCEPT !.min_fdp_interval = 2], [NoConf EXCEPT !.min_fdp_interval = 3],
             [NoConf EXCEPT !.faulty_bb_index = 2, !.min_fdp_interval = 1, !.randmax = 1]}

\* Requests of edfictl, one with the parameters of a fault library.
Req(k, x, p) == [cmd |-> k, context |-> x, params |-> p]
Plain == {Req("start", TRUE, FALSE), Req("test", FALSE, FALSE)}
AllKinds == {Req("start", TRUE, TRUE), Req("start", FALSE, TRUE), Req("test", FALSE, FALSE)}

Parser == INSTANCE InjectionOptions WITH Wrappers <- {"edfi_free_wrapper"}, Onfdps <- {"edfi_onfdp_default"}
-----------------------------------------------------------------------------
(* Modules for the EDFI pass.                                              *)

I(id, op, type, args) == [id |-> id, op |-> op, type |-> type, args |-> args, to |-> <<>>, callee |-> <<>>, reload |-> FALSE]
To(i, blocks) == [i EXCEPT !.to = blocks]
CallOf(id, type, args, callee) == [I(id, "call", type, args) EXCEPT !.callee = callee]
K(n, type) == <<"const", n, type>>
V(id, type) == <<"inst", id, type>>
P(n) == <<"arg", n, "ptr">>
N(n, type) == <<"arg", n, type>>
Ret(id) == I(id, "ret", "void", <<>>)
Goes(id, b) == To(I(id, "br", "void", <<>>), <<b>>)
Either(id, cond, b1, b2) == To(I(id, "br", "void", <<cond>>), <<b1, b2>>)
Function(name, section, path, blocks) == [name |-> name, section |-> section, path |-> path, blocks |-> blocks]
App(name, blocks) == Function(name, "", <<name>>, blocks)
Edfi(name, blocks) == Function(name, "edfi_functions", <<"edfi">>, blocks)
Declared(name) == App(name, <<>>)

\* A load that is an index, an address, a store, arithmetic and a condition.
Indexing == <<App("f", <<<<I(1, "load", "i32", <<P(1)>>), I(2, "gep", "ptr", <<P(1), V(1, "i32")>>),
                         I(3, "store", "void", <<V(1, "i32"), V(2, "ptr")>>),
                         I(4, "sub", "i32", <<V(1, "i32"), K(1, "i32")>>),
                         I(5, "icmp", "i1", <<V(4, "i32"), K(0, "i32")>>), Ret(6)>>>>)>>
\* Stores first, and operators of every class.
Operators == <<App("f", <<<<I(1, "store", "void", <<K(1, "i8"), P(1)>>), I(2, "store", "void", <<K(2, "i8"), P(1)>>),
                            I(3, "shl", "i64", <<N(1, "i64"), N(2, "i64")>>), I(4, "frem", "float", <<N(3, "float"), N(4, "float")>>),
                            I(5, "add", "i80", <<N(5, "i80"), N(6, "i80")>>), Ret(6)>>>>)>>
\* Calls that have wrappers, of a build with the given size_t.
Wrapped(n) == <<App("f", <<<<CallOf(1, "void", <<P(1), P(2), N(1, n)>>, <<"llvm", "memcpy", n>>),
                            CallOf(2, "void", <<P(1), N(2, "i8"), N(1, n)>>, <<"llvm", "memset", n>>),
                            CallOf(3, "void", <<P(1), P(2), N(1, n)>>, <<"llvm", "memmove", n>>),
                            CallOf(4, "ptr", <<N(1, n)>>, <<"malloc">>), CallOf(5, "void", <<V(4, "ptr")>>, <<"free">>),
                            CallOf(6, "ptr", <<P(1), P(2)>>, <<"strcpy">>), CallOf(7, "i32", <<P(1), N(1, n)>>, <<"munmap">>),
                            Ret(8)>>>>)>>
\* A loop whose counter is a PHI node, and a value that two blocks use.
Loop == <<App("f", <<<<I(1, "alloca", "ptr", <<K(1, "i32")>>), I(2, "load", "i32", <<P(1)>>),
                       I(3, "icmp", "i1", <<V(2, "i32"), K(0, "i32")>>), Either(4, V(3, "i1"), 2, 3)>>,
                     <<To(I(5, "phi", "i32", <<K(0, "i32"), V(6, "i32")>>), <<1, 2>>),
                       I(6, "add", "i32", <<V(5, "i32"), V(2, "i32")>>),
                       I(7, "icmp", "i1", <<V(6, "i32"), K(9, "i32")>>), Either(8, V(7, "i1"), 2, 3)>>,
                     <<To(I(9, "phi", "i32", <<V(2, "i32"), V(5, "i32")>>), <<1, 2>>),
                       I(10, "store", "void", <<V(9, "i32"), V(1, "ptr")>>), Ret(11)>>>>)>>
\* A loop in a loop, without values across blocks.
Nested == <<App("f", <<<<Goes(1, 2)>>, <<I(2, "load", "i1", <<P(1)>>), Either(3, V(2, "i1"), 3, 4)>>,
                       <<I(4, "load", "i1", <<P(1)>>), Either(5, V(4, "i1"), 3, 2)>>, <<Ret(6)>>>>)>>
\* The logger of faults calls a function that is instrumented.
Logging == <<App("f", <<<<CallOf(1, "void", <<>>, <<"edfi_free_wrapper">>), Goes(2, 2)>>,
                        <<I(3, "load", "i1", <<P(1)>>), Either(4, V(3, "i1"), 2, 3)>>, <<Ret(5)>>>>),
             Edfi("edfi_onfault_default", <<<<CallOf(1, "void", <<>>, <<"g">>), Goes(2, 2)>>, <<Ret(3)>>>>),
             Edfi("edfi_free_wrapper", <<<<Ret(1)>>>>), App("g", <<<<Ret(1)>>>>)>>
\* Several functions, source files and callers.
Several == <<App("f", <<<<CallOf(1, "void", <<>>, <<"g">>), CallOf(2, "void", <<>>, <<"h">>), Goes(3, 2)>>, <<Ret(4)>>>>),
             Declared("h"), App("g", <<<<Ret(1)>>>>), App("ha_key_cmp", <<<<Ret(1)>>>>),
             Function("u", "", <<>>, <<<<CallOf(1, "void", <<>>, <<"h">>), Ret(2)>>>>)>>

D == Parser!Default
Half == [D EXCEPT !.prob_default = 1]
Always == [D EXCEPT !.prob_default = 2]
OnePerBlock == [D EXCEPT !.oneFaultPerBlock = TRUE]
Only(o, names) == [o EXCEPT !.FaultTypeNames = names]
WrapperNames == {"buffer-overflow", "mem-leak", "dangling-pointer"}
Case(p, o) == [prog |-> p, opts |-> o, calls |-> 0, commands |-> 0]
Run(p, o, commands) == [Case(p, o) EXCEPT !.calls = 1, !.commands = commands]
InjCases ==
  {Case(Indexing, Half), Case(Indexing, OnePerBlock), Case(Indexing, [Always EXCEPT !.compat = "dsn"]),
   Case(Operators, OnePerBlock), Case(Operators, Only(Half, {"no-store", "null-pointer", "corrupt-operator-v2"})),
   Case(Operators, [D EXCEPT !.fault_selector = {<<"f", 0>>, <<"f", 3>>}]),
   Case(Wrapped("i64"), Only(Always, WrapperNames)),
   Case(Wrapped("i32"), [Only(Half, WrapperNames) EXCEPT !.size_t = "i32"]),
   Case(Loop, Only(Half, {"flip-branch", "stuck-at-branch", "stuck-at-loop"})),
   Case(Loop, [Only(Half, {"no-load", "corrupt-integer", "stuck-at-loop"}) EXCEPT !.prob = [NoLoadFault |-> 2]]),
   Case(Loop, [OnePerBlock EXCEPT !.compat = "atc"]),
   Run(Loop, [Only(Half, {"stuck-at-branch"}) EXCEPT !.COUNT_ALL_BLOCKS = TRUE, !.noDFTs = TRUE, !.noDFLs = TRUE], 1),
   Run(Loop, [Always EXCEPT !.do_unconditionalize = TRUE, !.do_inline_profiling = TRUE, !.statistics_only = TRUE], 0),
   Run(Nested, [Only(Half, {"stuck-at-loop", "flip-branch"}) EXCEPT !.doLoopHeaderSwitching = TRUE], 2),
   Run(Logging, [D EXCEPT !.doLoopHeaderSwitching = TRUE], 2),
   Run(Logging, [D EXCEPT !.noDFTs = TRUE, !.switchFlagMap = <<<<{""}, {"g"}, 1>>>>], 2)}
  \union {Case(Several, [Always EXCEPT !.random_BB_FIF = <<2, 0>>, !.functions_FIF = fs, !.functioncallers_FIF = [h |-> 1],
                           !.modules_FIF = <<<<{<<"g">>, <<"f">>}, 1>>, <<{<<"f">>}, 2>>>>, !.ModuleNames = ms]) :
            fs \in {<<>>, [g |-> 2]}, ms \in {<<>>, <<{<<"f">>}, {<<"g">>}>>}}
ShortArgs == UNION {[1 .. n -> {"f", "1", ":", ",", "/"}] : n \in 0 .. 4}

VARIABLES
  part,
  other_at, other_executions, other_handlers, other_counts, other_lock, other_file,
  other_shortWrite, other_stored, other_main, other_srv, other_completed,
  other_svr_thread_done, other_backlog, other_cur, other_data, other_client,
  other_request, other_reply, other_wire, other_executed, prog, opts, phase, picked,
  fifs, code, it, numbers, stats, mapfile, flag, version, inject_bb, stack, control

Family == INSTANCE EdfiStats WITH
  Procs <- {"p1", "p2"}, First <- {"p1"}, num_bbs <- 1, MaxCount <- 1, at <- other_at,
  executions <- other_executions, handlers <- other_handlers, counts <- other_counts,
  lock <- other_lock, file <- other_file, shortWrite <- other_shortWrite,
  stored <- other_stored

WithThread == INSTANCE EdfiControl WITH
  Clients <- {"c1", "c2"}, Requests <- AllKinds, no_svr_thread <- FALSE,
  num_requests_on_start <- 1, Crashes <- TRUE, Quits <- TRUE, main <- other_main,
  srv <- other_srv, completed <- other_completed,
  svr_thread_done <- other_svr_thread_done, backlog <- other_backlog,
  cur <- other_cur, data <- other_data, client <- other_client,
  request <- other_request, reply <- other_reply, wire <- other_wire,
  executed <- other_executed

Inject == INSTANCE Injection WITH
  Cases <- InjCases, Args <- ShortArgs, MaxCount <- 2, MaxDepth <- 4,
  Wrappers <- {"edfi_free_wrapper"}, Onfdps <- {"edfi_onfdp_default"},
  executions <- other_executions

forksVars == <<other_at, other_handlers, other_counts, other_lock, other_file,
  other_shortWrite, other_stored>>
controlVars == <<other_main, other_srv, other_completed, other_svr_thread_done,
  other_backlog, other_cur, other_data, other_client, other_request,
  other_reply, other_wire, other_executed>>
passVars == <<prog, opts, phase, picked, fifs, code, it, numbers, stats, mapfile,
  flag, version, inject_bb, stack, control>>

partVars == <<part, vars, runtimeVars, statsVars, argsVars, other_executions,
              forksVars, controlVars, passVars>>

ForksIdle == other_at = 0 /\ other_handlers = 0 /\ other_counts = 0 /\ other_lock = 0 /\
    other_file = 0 /\ other_shortWrite = 0 /\ other_stored = 0
ControlIdle == other_main = 0 /\ other_srv = 0 /\ other_completed = 0 /\
    other_svr_thread_done = 0 /\ other_backlog = 0 /\ other_cur = 0 /\
    other_data = 0 /\ other_client = 0 /\ other_request = 0 /\ other_reply = 0 /\
    other_wire = 0 /\ other_executed = 0
PassIdle == prog = 0 /\ opts = 0 /\ phase = 0 /\ picked = 0 /\ fifs = 0 /\ code = 0 /\
    it = 0 /\ numbers = 0 /\ stats = 0 /\ mapfile = 0 /\ flag = 0 /\ version = 0 /\
    inject_bb = 0 /\ stack = 0 /\ control = 0
MainIdle == Init /\ request = [k \in Clients |-> Req("test", FALSE, FALSE)]
RuntimeIdle == RuntimeInit
StatsIdle == StatsInit
ArgsIdle == ArgsInit /\ todo = <<>> /\ command = "known" /\ server_id = "good"

PartInit ==
  \/ /\ part = "AtStart" /\ Init
     /\ RuntimeIdle /\ StatsIdle /\ ArgsIdle /\ other_executions = 0 /\ ForksIdle /\
        ControlIdle /\ PassIdle
  \/ /\ part = "Runtime" /\ RuntimeInit
     /\ MainIdle /\ StatsIdle /\ ArgsIdle /\ other_executions = 0 /\ ForksIdle /\
        ControlIdle /\ PassIdle
  \/ /\ part = "TwoPrograms" /\ StatsInit
     /\ MainIdle /\ RuntimeIdle /\ ArgsIdle /\ other_executions = 0 /\ ForksIdle /\
        ControlIdle /\ PassIdle
  \/ /\ part = "Lines" /\ ArgsInit
     /\ MainIdle /\ RuntimeIdle /\ StatsIdle /\ other_executions = 0 /\ ForksIdle /\
        ControlIdle /\ PassIdle
  \/ /\ part = "Family" /\ Family!StatsInit
     /\ MainIdle /\ RuntimeIdle /\ StatsIdle /\ ArgsIdle /\ ControlIdle /\ PassIdle
  \/ /\ part = "WithThread" /\ WithThread!Init
     /\ MainIdle /\ RuntimeIdle /\ StatsIdle /\ ArgsIdle /\ other_executions = 0 /\
        ForksIdle /\ PassIdle
  \/ /\ part = "Inject" /\ Inject!Init
     /\ MainIdle /\ RuntimeIdle /\ StatsIdle /\ ArgsIdle /\ ForksIdle /\ ControlIdle

PartNext ==
  \/ /\ part = "AtStart" /\ Next
     /\ UNCHANGED <<part, runtimeVars, statsVars, argsVars, other_executions,
                    forksVars, controlVars, passVars>>
  \/ /\ part = "Runtime" /\ RuntimeNext
     /\ UNCHANGED <<part, vars, statsVars, argsVars, other_executions, forksVars,
                    controlVars, passVars>>
  \/ /\ part = "TwoPrograms" /\ StatsNext
     /\ UNCHANGED <<part, vars, runtimeVars, argsVars, other_executions, forksVars,
                    controlVars, passVars>>
  \/ /\ part = "Lines" /\ ArgsNext
     /\ UNCHANGED <<part, vars, runtimeVars, statsVars, other_executions, forksVars,
                    controlVars, passVars>>
  \/ /\ part = "Family" /\ Family!StatsNext
     /\ UNCHANGED <<part, vars, runtimeVars, statsVars, argsVars, controlVars,
                    passVars>>
  \/ /\ part = "WithThread" /\ WithThread!Next
     /\ UNCHANGED <<part, vars, runtimeVars, statsVars, argsVars, other_executions,
                    forksVars, passVars>>
  \/ /\ part = "Inject" /\ Inject!Next
     /\ UNCHANGED <<part, vars, runtimeVars, statsVars, argsVars, forksVars,
                    controlVars>>

\* A process at its exit runs on, the threads of the program and the clients
\* of its control server are scheduled; that a client comes is not promised.
StatsStep(p) ==
  part = "Family" /\ (\/ Family!edfi_stats_per_bb_add(p) \/ Family!ReadStats(p)
                      \/ Family!WriteStats(p) \/ Family!CloseStats(p))
Fairness ==
  /\ \A p \in {"p1", "p2"} : WF_(Family!statsVars)(StatsStep(p))
  /\ WF_vars(part = "AtStart" /\ WaitForRequests)
  /\ WF_vars(part = "AtStart" /\ WaitForThread)
  /\ WF_vars(part = "AtStart" /\ Serve)
  /\ \A k \in {"c1", "c2", "c3"} :
       /\ WF_vars(part = "AtStart" /\ Send(k))
       /\ WF_vars(part = "AtStart" /\ Recv(k))

PartSpec == PartInit /\ [][PartNext]_partVars /\ Fairness

-----------------------------------------------------------------------------
(* Properties.                                                             *)

\* A program that keeps its server thread starts as well only when as many
\* requests as asked for are processed and confirmed, and then serves on: a
\* reply comes after its request was executed, with the client's own command,
\* whoever else is served, quits or crashes the program
\* (edfi_ctl_server_start, edfi_ctl_server_process).
ServesOn ==
  part = "WithThread" =>
    WithThread!TypeOK /\ WithThread!StartsConfigured /\ WithThread!ReplyIsExecuted

Waits(k) == part = "AtStart" /\ client[k] = "recv"

Exiting(p) == part = "Family" /\ other_at[p] = "exit"

\* A process that exits ends, however many handlers its forks gave it, since no
\* one waits for the lock of the statistics file for ever, and a client that
\* stays gets an answer, or an error when the server ends.
EveryoneEnds ==
  /\ [](part = "Family" => Family!StatsTypeOK)
  /\ \A p \in {"p1", "p2"} : Exiting(p) ~> (part = "Family" /\ other_at[p] = "gone")
  /\ \A k \in {"c1", "c2", "c3"} : Waits(k) ~> ~ Waits(k)

\* Whatever faults the pass injects, the program stays code whose correct
\* copies are the program's own, the options choose the blocks they name, all
\* tables number the blocks alike, and a run changes between the copies only
\* where the function would go on, with injection as the last command left it
\* (FaultInjector::runOnModule).
InjectionIsTrue == part = "Inject" => Inject!TypeOK /\ Inject!InjectionIsTrue
=============================================================================
