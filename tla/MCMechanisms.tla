---------------------------- MODULE MCMechanisms ----------------------------
(***************************************************************************)
(* The checkpointing mechanisms a program can be linked with, each in the  *)
(* builds that differ in control, and the passes that instrument it.  The  *)
(* variable mech is the build.  The modules of the epoch bitmap, of the     *)
(* soft-dirty pages and of the forked checkpoints are extended: in other   *)
(* builds they rest in an initial state, and the variables that a build    *)
(* does not have stay 0.                                                   *)
(***************************************************************************)
EXTENDS EpochBitmap, SoftDirty, ForkCheckpoint, Integers, Sequences, TLC

Bit == {0, 1}

\* An area of a chunk and a half, an empty one and one of a single page; page
\* 3 is not saved.
ThreeVmas == <<[start |-> 0, end |-> 3], [start |-> 3, end |-> 3], [start |-> 4, end |-> 5]>>

FourKinds == (0 :> "data") @@ (1 :> "heap") @@ (2 :> "stack") @@ (3 :> "mmap")

\* Programs for the instrumentation passes: values, instructions, functions.
Object(kind, o, local) == [kind |-> kind, obj |-> o, local |-> local]
AnyOf(objs, local) == [kind |-> "any", objs |-> objs, local |-> local]
Gep(v, off, inbounds) == [kind |-> "gep", of |-> v, off |-> off, inbounds |-> inbounds, constant |-> TRUE]
CastOf(v) == [kind |-> "cast", of |-> v]
PhiOf(b, from) == [kind |-> "phi", block |-> b, from |-> from, local |-> FALSE]

StoreTo(v, cells) == [op |-> "store", ptr |-> v, width |-> cells]
Copy(v, cells) == [op |-> "mem", ptr |-> v, width |-> cells]
Def(v) == [op |-> "def", ptr |-> v]
CallOf(f) == [op |-> "call", callee |-> f]
Br(blocks) == [op |-> "br", to |-> blocks]
Ret == [op |-> "ret", to |-> <<>>]

Fun(f, values, blocks) == [name |-> f, section |-> "", prefix |-> "", values |-> values, blocks |-> blocks]

\* A server: it sets up, receives in a loop and handles.
Server(handler) ==
  << Fun("main", [none |-> Object("global", "g", FALSE)],
         << <<CallOf("ltckpt_conf_setup"), CallOf("init_vm"), Br(<<2>>)>>,
            <<CallOf("sef_receive"), CallOf("handler"), Br(<<2>>)>> >>),
     [Fun("ltckpt_conf_setup", [o |-> Object("global", "own", FALSE)], << <<StoreTo("o", 1), Ret>> >>)
        EXCEPT !.section = "ltckpt_functions"],
     Fun("init_vm", [o |-> Object("global", "g", FALSE)], << <<StoreTo("o", 1), Ret>> >>),
     Fun("sef_receive", [o |-> Object("global", "g", FALSE), c |-> CastOf("o")],
         << <<Copy("c", 2), StoreTo("o", 1), Ret>> >>),
     [Fun("__libc_call", [o |-> Object("global", "own", FALSE)], << <<StoreTo("o", 1), Ret>> >>)
        EXCEPT !.prefix = "__libc"],
     Fun("handler", handler.values, handler.blocks) >>

\* Stores through casts and offsets of a pointer on two branches that meet, a
\* PHI node of stack objects only, one that is not, and an object that dies.
Branches ==
  [values |-> [p |-> AnyOf({"g", "h"}, FALSE), c |-> CastOf("p"), q |-> Gep("p", 2, TRUE), z |-> Gep("p", 0, TRUE),
               a |-> Object("alloca", "a", TRUE), b |-> Object("alloca", "b", TRUE),
               stacked |-> PhiOf(4, (2 :> "a") @@ (3 :> "b")), mixed |-> PhiOf(4, (2 :> "q") @@ (3 :> "a")),
               l |-> AnyOf({"dies"}, TRUE)],
   blocks |-> << <<Def("p"), StoreTo("p", 1), Br(<<2, 3>>)>>,
                 <<StoreTo("c", 2), Br(<<4>>)>>,
                 <<StoreTo("z", 2), StoreTo("q", 1), Copy("a", 2), CallOf("__libc_call"), Br(<<4>>)>>,
                 <<StoreTo("stacked", 1), StoreTo("mixed", 1), StoreTo("q", 2), Def("l"), StoreTo("l", 1), Ret>> >>]

\* A loop whose pointer changes, with stores after it, and a PHI node that
\* comes back to itself.
Loop ==
  [values |-> [v |-> AnyOf({"g", "h"}, FALSE), c |-> CastOf("v"), w |-> Gep("v", 1, TRUE), out |-> Gep("v", 1, FALSE),
               a |-> Object("alloca", "a", TRUE), next |-> Gep("again", 1, TRUE),
               again |-> PhiOf(2, (1 :> "a") @@ (3 :> "again"))],
   blocks |-> << <<Br(<<2>>)>>,
                 <<Def("v"), StoreTo("v", 1), Br(<<3, 4>>)>>,
                 <<StoreTo("c", 2), StoreTo("w", 2), StoreTo("again", 1), Br(<<2>>)>>,
                 <<StoreTo("v", 1), StoreTo("out", 1), Copy("v", 3), StoreTo("next", 1), Ret>> >>]

\* The fields of a structure, written on branches and after they meet.
Fields ==
  [values |-> [s |-> AnyOf({"g"}, FALSE), x |-> Gep("s", 0, TRUE), y |-> Gep("s", 1, TRUE), z |-> Gep("y", 1, TRUE)],
   blocks |-> << <<Def("s"), StoreTo("y", 1), Br(<<2, 3>>)>>,
                 <<StoreTo("x", 1), StoreTo("z", 1), Br(<<4>>)>>,
                 <<StoreTo("y", 1), Br(<<4>>)>>,
                 <<StoreTo("x", 1), Ret>> >>]

\* A handler that receives in the middle of its stores.
Nested ==
  [values |-> [o |-> Object("global", "h", FALSE)],
   blocks |-> << <<StoreTo("o", 1), CallOf("sef_receive"), StoreTo("o", 2), Ret>> >>]

\* The passes, with and without data structure analysis (the heap pass needs
\* it), and the aggregation of stores.
PassOptions(aggregate) ==
  {o \in [pass : {"basic", "heap", "wc"}, skip_alloca : BOOLEAN, LLVM_HAS_DSA : BOOLEAN, aggregate : {aggregate}, vm : BOOLEAN] :
     (o.pass = "heap" => o.LLVM_HAS_DSA) /\ (o.vm => o.pass = "basic" /\ o.skip_alloca)}

StoreCases ==
  {[funcs |-> Server(h), opts |-> o, tol |-> {"sef_receive"}, survives |-> {"g", "h"}] :
     h \in {Branches, Loop, Nested}, o \in PassOptions(FALSE)}
  \union {[funcs |-> Server(Fields), opts |-> o, tol |-> {"sef_receive"}, survives |-> {"g", "h"}] :
     o \in {x \in PassOptions(TRUE) : x.pass = "basic" /\ x.skip_alloca /\ ~ x.vm}}

\* Modules for the recovery pass: calls and files.
IpcCall(site, module, caller) == [kind |-> "ipc", site |-> site, module |-> module, caller |-> caller, number |-> -1]
KernelCall(number, caller) == [kind |-> "kernel", site |-> -1, module |-> "", caller |-> caller, number |-> number]
OtherCall == [kind |-> "other", site |-> -1, module |-> "", caller |-> "do_fork", number |-> -1]

File(lines) == [named |-> TRUE, lines |-> lines]
NoFile == [named |-> FALSE, lines |-> <<>>]
NoMatch == [match |-> FALSE]
SiteLine(module, site, value) == [match |-> TRUE, module |-> module, site |-> site, value |-> value]
KernelLine(number, decision, suicide) == [match |-> TRUE, number |-> number, decision |-> decision, suicide |-> suicide]
NumberLine(number) == [match |-> TRUE, number |-> number]
CallerLine(caller) == [match |-> TRUE, caller |-> caller]

SomeCalls ==
  <<IpcCall(0, "vm", "do_fork"), KernelCall(1, "sys_fork"), OtherCall, IpcCall(1, "vm", "getepinfo"),
    KernelCall(2, "sys_vmctl"), KernelCall(3, "sys_vmctl")>>
ForeignCalls == <<IpcCall(0, "vm", "do_fork"), IpcCall(1, "pm", "do_exit"), KernelCall(-1, "do_exit"),
                  IpcCall(2, "vm", "do_exit")>>
ManyKernelCalls == [i \in 1 .. 4 |-> KernelCall(i, "sys_fork")]
ManyIpcCalls == [i \in 1 .. 5 |-> IpcCall(i - 1, "vm", "do_fork")]

\* Lines of other modules, of one whose name contains this one's, lines that
\* the loaders reject, and lines that contradict an earlier one.
SiteLines == <<NoMatch, SiteLine("pm", 1, 1), SiteLine("vmd", 0, 1), SiteLine("vm", 0, 4), SiteLine("vm", 1, 0)>>
KernelLines == <<KernelLine(1, 2, FALSE), KernelLine(1, 4, TRUE), NoMatch, KernelLine(2, 4, FALSE)>>

RecoveryCase(calls, suicide, force, suicides, files) ==
  [module |-> "vm", calls |-> calls, suicide |-> suicide, noSuicideOnKernelCall |-> FALSE, force |-> force,
   suicides |-> suicides, decisions |-> files[1], kernelcalls |-> files[2], exclusions |-> files[3], callers |-> files[4]]

AllFiles == <<File(SiteLines), File(KernelLines), File(<<NumberLine(3)>>), File(<<CallerLine("sys_vmctl")>>)>>
Lost(file) == {file, File(<<>>), File(<<NoMatch>>), NoFile}

\* Any of the files may be missing, empty, without a good line or not named;
\* every decision that can be forced, and one that cannot.
RecoveryCases ==
  {RecoveryCase(SomeCalls, suicide, 0, NoFile, <<decisions, kernelcalls, exclusions, callers>>) :
     suicide \in BOOLEAN, decisions \in Lost(AllFiles[1]), kernelcalls \in Lost(AllFiles[2]),
     exclusions \in {AllFiles[3], NoFile}, callers \in {AllFiles[4], NoFile}}
  \union {RecoveryCase(SomeCalls, TRUE, force, suicides, AllFiles) :
            force \in {0, 1, 4, 5, 8, 9}, suicides \in Lost(File(<<SiteLine("vm", 1, 0), SiteLine("vm", 0, 1)>>))}
  \union {[RecoveryCase(SomeCalls, TRUE, 0, NoFile, AllFiles) EXCEPT !.noSuicideOnKernelCall = TRUE]}
  \union {RecoveryCase(calls, TRUE, 0, NoFile, AllFiles) :
            calls \in {ForeignCalls, ManyKernelCalls, ManyIpcCalls, <<OtherCall>>}}

\* Programs for the cloning pass.
Direct(f) == [op |-> "call", callee |-> f, repl |-> FALSE]
LoopCall(f) == [op |-> "call", callee |-> f, repl |-> TRUE]
ByPointer(type, targets, found) == [op |-> "icall", type |-> type, targets |-> targets, found |-> found]
IpcSite == [op |-> "ipc"]
Branch(n) == [op |-> "branch", by |-> n]

TypeOf(id, params, void) == [id |-> id, params |-> params, void |-> void, vararg |-> FALSE]
Variadic == [id |-> "printf", params |-> 1, void |-> TRUE, vararg |-> TRUE]
Handler == TypeOf("handler", 1, FALSE)

Define(f, type, body) ==
  [name |-> f, clone |-> 0, section |-> "", defined |-> TRUE, taken |-> FALSE, internal |-> FALSE, type |-> type, body |-> body]
Taken(f) == [f EXCEPT !.taken = TRUE]

\* The loop of main was extracted; the receiver calls itself in a circle; the
\* handlers are called by pointer; one of them has a loop that was extracted.
ServerProgram(mainCall) ==
  << Define("main", TypeOf("main", 2, FALSE), <<Direct("helper"), mainCall>>),
     [Define("main_loop", TypeOf("loop", 0, TRUE),
             <<Direct("sef_receive"), ByPointer(Handler, {"do_fork", "do_exit"}, {"do_fork"}), Branch(-2)>>)
        EXCEPT !.internal = TRUE, !.taken = mainCall.op = "icall"],
     Define("sef_receive", TypeOf("recv", 1, FALSE), <<Direct("sef_retry"), Direct("sef_handle_message")>>),
     [Define("sef_retry", TypeOf("retry", 0, TRUE), <<Branch(2), Direct("sef_again")>>)
        EXCEPT !.internal = TRUE],
     [Define("sef_again", TypeOf("retry", 0, TRUE), <<Branch(2), Direct("sef_receive")>>) EXCEPT !.internal = TRUE],
     Define("sef_handle_message", TypeOf("msg", 1, FALSE), <<>>),
     Taken(Define("do_fork", Handler, <<IpcSite, Direct("helper"), Direct("log")>>)),
     Taken(Define("do_exit", TypeOf("exit", 1, FALSE), <<LoopCall("exit_loop"), IpcSite>>)),
     [Define("exit_loop", TypeOf("loop", 0, TRUE), <<IpcSite, Direct("helper"), Branch(-2)>>) EXCEPT !.internal = TRUE],
     Define("helper", TypeOf("helper", 0, TRUE), <<>>),
     Taken(Define("log", Variadic, <<>>)),
     [Define("inc_counter", TypeOf("helper", 0, TRUE), <<>>) EXCEPT !.section = "ltckpt_functions"],
     [Define("memcpy", TypeOf("memcpy", 3, FALSE), <<>>) EXCEPT !.defined = FALSE] >>

AllOf(names) == [valid |-> TRUE, matches |-> names]
CloneNames == {ServerProgram(Direct("main_loop"))[i].name : i \in 1 .. 13}
CloneTuple(one, two) == <<AllOf({"", "sef"}), AllOf(CloneNames), one, two>>

CloneOptions ==
  [flag |-> TRUE, map |-> <<CloneTuple("ltckpt_functions", "NULL")>>, excludeCallstacksTo |-> <<"sef_handle_message">>,
   calleeMapper |-> "DIRECTCALL", LLVM_HAS_DSA |-> FALSE, slicer |-> FALSE, hookClone1 |-> "", hookClone2 |-> "",
   flagValue1 |-> 1, inlineLoops |-> TRUE]

\* The main loop called directly, where it was extracted, and by pointer.
MainLoops == {Direct("main_loop"), LoopCall("main_loop"), ByPointer(TypeOf("loop", 0, TRUE), {"main_loop"}, {"main_loop"})}

CloneCases ==
  {[funcs |-> ServerProgram(main), opts |-> [CloneOptions EXCEPT !.calleeMapper = mapper]] :
     main \in MainLoops, mapper \in {"DIRECTCALL", "TYPETARGETS", "PARAMTARGETS", "ATTARGETS", "ALLTARGETS", "CALLTARGETS"}}
  \union {[funcs |-> ServerProgram(Direct("main_loop")), opts |-> o] : o \in
     { [CloneOptions EXCEPT !.flagValue1 = 0, !.map = <<CloneTuple("NULL", "ltckpt_functions")>>],
       [CloneOptions EXCEPT !.map = <<CloneTuple("ltckpt_functions", "NULL"), CloneTuple("NULL", "NULL")>>, !.inlineLoops = FALSE],
       [CloneOptions EXCEPT !.hookClone1 = "inc_counter"],
       [CloneOptions EXCEPT !.hookClone2 = "absent"],
       [CloneOptions EXCEPT !.flag = FALSE],
       [CloneOptions EXCEPT !.map = <<CloneTuple("", "NULL")>>],
       [CloneOptions EXCEPT !.map = <<SubSeq(CloneTuple("NULL", "NULL"), 1, 3)>>],
       [CloneOptions EXCEPT !.excludeCallstacksTo = <<"helper", "absent">>],
       [CloneOptions EXCEPT !.calleeMapper = "CALLTARGETS", !.LLVM_HAS_DSA = TRUE],
       [CloneOptions EXCEPT !.calleeMapper = "SPTTARGETS", !.slicer = TRUE] }}

VARIABLES
  mech,
  other_mem, other_shadow, other_bitmap, other_ltckpt_epoch,
  other_ltckpt_bitmap_enabled, other_first_time, other_num_tols, other_at, other_op,
  other_reg, other_old, other_saved_bytes, other_valid, marks, writable, pages, todo,
  pc, num_checkpoints, ckpt, other_written, other_initialized, efault, other_content,
  other_dirty, other_num_cows, other_loops, other_copies, other_statistics,
  other_hist, other_hist_len, other_mode, other_vma, other_addr, other_map,
  other_before, funcs, opts, tol, survives, hooks, chains, first, late, stack, logged,
  ran, spanned, case, recoveryDecisions, suicideMap, kernelcallDecisions,
  kernelcallExclusionSet, idempotentKernelCallersSet, sites, recovery, handled,
  planted, kernelCallsiteCounter, kernelcallSuicideMap, g_shutter_board, window,
  called, regexList, skipFunctions, sa_window__is_open, prior_have_handled_message

EpochThreads == INSTANCE EpochBitmap WITH
  Threads <- {"main", "worker"}, Main <- "main", Values <- Bit, Zero <- 0,
  NoSnapshot <- NoSnapshot, Regions <- {0}, LTCKPT_SCHEME <- "SYNC",
  LTCKPT_BITMAP_ALWAYS_ON <- TRUE, LTCKPT_BITMAP_SYNCHRONIZE <- TRUE, EpochBits <- 2,
  checkpoint_interval <- 1, MaxCopy <- 0, MaxTols <- 3, mem <- other_mem,
  shadow <- other_shadow, bitmap <- other_bitmap, ltckpt_epoch <- other_ltckpt_epoch,
  ltckpt_bitmap_enabled <- other_ltckpt_bitmap_enabled,
  first_time <- other_first_time, num_tols <- other_num_tols, at <- other_at,
  op <- other_op, reg <- other_reg, old <- other_old,
  saved_bytes <- other_saved_bytes, valid <- other_valid
EpochDiff == INSTANCE EpochBitmap WITH
  Threads <- {"main"}, Main <- "main", Values <- Bit, Zero <- 0,
  NoSnapshot <- NoSnapshot, Regions <- 0 .. 1, LTCKPT_SCHEME <- "DIFF",
  LTCKPT_BITMAP_ALWAYS_ON <- FALSE, LTCKPT_BITMAP_SYNCHRONIZE <- FALSE,
  EpochBits <- 2, checkpoint_interval <- 1, MaxCopy <- 0, MaxTols <- 3,
  mem <- other_mem, shadow <- other_shadow, bitmap <- other_bitmap,
  ltckpt_epoch <- other_ltckpt_epoch,
  ltckpt_bitmap_enabled <- other_ltckpt_bitmap_enabled,
  first_time <- other_first_time, num_tols <- other_num_tols, at <- other_at,
  op <- other_op, reg <- other_reg, old <- other_old,
  saved_bytes <- other_saved_bytes, valid <- other_valid

Tree == INSTANCE SyncBitmap WITH
  BITMAP_TYPE <- "TREE", N <- 8, Fan <- 2, Span <- 2, PageWords <- 8,
  SortedPages <- 1, LTCKPT_MAX_PF <- 1, Stored <- {0, 1, 3, 6}, Values <- Bit,
  Zero <- 0, MaxTols <- 2, mem <- other_mem, shadow <- other_shadow,
  written <- other_written
TreeByte == INSTANCE SyncBitmap WITH
  BITMAP_TYPE <- "TREE_BYTE", N <- 8, Fan <- 2, Span <- 4, PageWords <- 8,
  SortedPages <- 1, LTCKPT_MAX_PF <- 1, Stored <- {0, 1, 3, 6}, Values <- Bit,
  Zero <- 0, MaxTols <- 2, mem <- other_mem, shadow <- other_shadow,
  written <- other_written
PlainByte == INSTANCE SyncBitmap WITH
  BITMAP_TYPE <- "PLAIN_BYTE", N <- 4, Fan <- 2, Span <- 2, PageWords <- 2,
  SortedPages <- 3, LTCKPT_MAX_PF <- 4, Stored <- 0 .. 3, Values <- Bit, Zero <- 0,
  MaxTols <- 2, mem <- other_mem, shadow <- other_shadow, written <- other_written

Mprotect == INSTANCE PageCheckpoint WITH
  Pages <- 0 .. 3, Kind <- FourKinds, Values <- Bit, MPROTECT_MAX_PAGES <- 3,
  skip_mmap <- TRUE, lazy_init <- TRUE, checkpoint_interval <- 2, MaxTols <- 3,
  MaxEntries <- 3, NoSnapshot <- NoSnapshot, mem <- other_mem,
  initialized <- other_initialized, num_tols <- other_num_tols, valid <- other_valid

SoftCopies == INSTANCE SoftDirty WITH
  Pages <- 0 .. 3, Vmas <- <<ThreeVmas[1], ThreeVmas[2]>>, CHUNK <- 2,
  SOFTDIRTY_MAX_PAGES <- 2, Contents <- Bit, PAGE_STAT_SIZE <- 1,
  PAGE_NUM_HIST_SIZE <- 1, lazy_init <- FALSE, stats_enabled <- FALSE, interval <- 2,
  MaxLoops <- 3, content <- other_content, dirty <- other_dirty,
  initialized <- other_initialized, num_cows <- other_num_cows, loops <- other_loops,
  copies <- other_copies, statistics <- other_statistics, hist <- other_hist,
  hist_len <- other_hist_len, mode <- other_mode, vma <- other_vma,
  addr <- other_addr, map <- other_map, written <- other_written,
  before <- other_before

Stores == INSTANCE StoreElimination WITH
  Cases <- StoreCases, Unit <- 2, at <- other_at, dirty <- other_dirty

Recovery == INSTANCE RecoveryPass WITH
  Cases <- RecoveryCases, Within <- {<<"vm", "vmd">>}, Garbage <- {0, 2},
  LTCKPT_SHUTTER_BOARD_IPC_END <- 3, LTCKPT_SHUTTER_BOARD_MAX_SIZE <- 7

Clones == INSTANCE BBClone WITH
  Cases <- CloneCases, MaxDepth <- 7

epochVars == <<other_bitmap, other_ltckpt_epoch, other_ltckpt_bitmap_enabled,
  other_first_time, other_op, other_reg, other_old, other_saved_bytes>>
syncVars == <<marks, num_checkpoints, ckpt>>
pageVars == <<efault>>
copiesVars == <<other_content, other_num_cows, other_loops, other_copies,
  other_statistics, other_hist, other_hist_len, other_mode, other_vma,
  other_addr, other_map, other_before>>
storesVars == <<tol, survives, hooks, chains, first, late, logged, ran, spanned>>
recoveryVars == <<case, recoveryDecisions, suicideMap, kernelcallDecisions,
  kernelcallExclusionSet, idempotentKernelCallersSet, sites, recovery,
  handled, planted, kernelCallsiteCounter, kernelcallSuicideMap,
  g_shutter_board, window, called>>
cloneVars == <<regexList, skipFunctions, sa_window__is_open,
  prior_have_handled_message>>

partVars == <<mech, vars, softVars, forkVars, other_mem, other_shadow, other_num_tols,
              other_at, other_valid, writable, pages, todo, pc, other_written,
              other_initialized, other_dirty, funcs, opts, stack, epochVars, syncVars,
              pageVars, copiesVars, storesVars, recoveryVars, cloneVars>>

EpochIdle == other_bitmap = 0 /\ other_ltckpt_epoch = 0 /\ other_ltckpt_bitmap_enabled = 0 /\
    other_first_time = 0 /\ other_op = 0 /\ other_reg = 0 /\ other_old = 0 /\
    other_saved_bytes = 0
SyncIdle == marks = 0 /\ num_checkpoints = 0 /\ ckpt = 0
PageIdle == efault = 0
CopiesIdle == other_content = 0 /\ other_num_cows = 0 /\ other_loops = 0 /\ other_copies = 0 /\
    other_statistics = 0 /\ other_hist = 0 /\ other_hist_len = 0 /\ other_mode = 0 /\
    other_vma = 0 /\ other_addr = 0 /\ other_map = 0 /\ other_before = 0
StoresIdle == tol = 0 /\ survives = 0 /\ hooks = 0 /\ chains = 0 /\ first = 0 /\ late = 0 /\
    logged = 0 /\ ran = 0 /\ spanned = 0
RecoveryIdle == case = 0 /\ recoveryDecisions = 0 /\ suicideMap = 0 /\ kernelcallDecisions = 0 /\
    kernelcallExclusionSet = 0 /\ idempotentKernelCallersSet = 0 /\ sites = 0 /\
    recovery = 0 /\ handled = 0 /\ planted = 0 /\ kernelCallsiteCounter = 0 /\
    kernelcallSuicideMap = 0 /\ g_shutter_board = 0 /\ window = 0 /\ called = 0
CloneIdle == regexList = 0 /\ skipFunctions = 0 /\ sa_window__is_open = 0 /\
    prior_have_handled_message = 0
MainIdle == Init /\ mem = [r \in Regions |-> Zero]
SoftIdle == SoftInit
ForkIdle == ForkInit

PartInit ==
  \/ /\ mech = "EpochWrap" /\ Init
     /\ SoftIdle /\ ForkIdle /\ other_mem = 0 /\ other_shadow = 0 /\
        other_num_tols = 0 /\ other_at = 0 /\ other_valid = 0 /\ writable = 0 /\
        pages = 0 /\ todo = 0 /\ pc = 0 /\ other_written = 0 /\
        other_initialized = 0 /\ other_dirty = 0 /\ funcs = 0 /\ opts = 0 /\
        stack = 0 /\ EpochIdle /\ SyncIdle /\ PageIdle /\ CopiesIdle /\ StoresIdle /\
        RecoveryIdle /\ CloneIdle
  \/ /\ mech = "SoftStats" /\ SoftInit
     /\ MainIdle /\ ForkIdle /\ other_mem = 0 /\ other_shadow = 0 /\
        other_num_tols = 0 /\ other_at = 0 /\ other_valid = 0 /\ writable = 0 /\
        pages = 0 /\ todo = 0 /\ pc = 0 /\ other_written = 0 /\
        other_initialized = 0 /\ other_dirty = 0 /\ funcs = 0 /\ opts = 0 /\
        stack = 0 /\ EpochIdle /\ SyncIdle /\ PageIdle /\ CopiesIdle /\ StoresIdle /\
        RecoveryIdle /\ CloneIdle
  \/ /\ mech = "ForkFamily" /\ ForkInit
     /\ MainIdle /\ SoftIdle /\ other_mem = 0 /\ other_shadow = 0 /\
        other_num_tols = 0 /\ other_at = 0 /\ other_valid = 0 /\ writable = 0 /\
        pages = 0 /\ todo = 0 /\ pc = 0 /\ other_written = 0 /\
        other_initialized = 0 /\ other_dirty = 0 /\ funcs = 0 /\ opts = 0 /\
        stack = 0 /\ EpochIdle /\ SyncIdle /\ PageIdle /\ CopiesIdle /\ StoresIdle /\
        RecoveryIdle /\ CloneIdle
  \/ /\ \/ mech = "EpochThreads" /\ EpochThreads!Init
        \/ mech = "EpochDiff" /\ EpochDiff!Init
     /\ MainIdle /\ SoftIdle /\ ForkIdle /\ writable = 0 /\ pages = 0 /\ todo = 0 /\
        pc = 0 /\ other_written = 0 /\ other_initialized = 0 /\ other_dirty = 0 /\
        funcs = 0 /\ opts = 0 /\ stack = 0 /\ SyncIdle /\ PageIdle /\ CopiesIdle /\
        StoresIdle /\ RecoveryIdle /\ CloneIdle
  \/ /\ \/ mech = "Tree" /\ Tree!Init
        \/ mech = "TreeByte" /\ TreeByte!Init
        \/ mech = "PlainByte" /\ PlainByte!Init
     /\ MainIdle /\ SoftIdle /\ ForkIdle /\ other_num_tols = 0 /\ other_at = 0 /\
        other_valid = 0 /\ other_initialized = 0 /\ other_dirty = 0 /\ funcs = 0 /\
        opts = 0 /\ stack = 0 /\ EpochIdle /\ PageIdle /\ CopiesIdle /\ StoresIdle /\
        RecoveryIdle /\ CloneIdle
  \/ /\ mech = "Mprotect" /\ Mprotect!Init
     /\ MainIdle /\ SoftIdle /\ ForkIdle /\ other_shadow = 0 /\ other_at = 0 /\
        todo = 0 /\ other_written = 0 /\ other_dirty = 0 /\ funcs = 0 /\ opts = 0 /\
        stack = 0 /\ EpochIdle /\ SyncIdle /\ CopiesIdle /\ StoresIdle /\
        RecoveryIdle /\ CloneIdle
  \/ /\ mech = "SoftCopies" /\ SoftCopies!SoftInit
     /\ MainIdle /\ SoftIdle /\ ForkIdle /\ other_mem = 0 /\ other_shadow = 0 /\
        other_num_tols = 0 /\ other_at = 0 /\ other_valid = 0 /\ writable = 0 /\
        pages = 0 /\ todo = 0 /\ pc = 0 /\ funcs = 0 /\ opts = 0 /\ stack = 0 /\
        EpochIdle /\ SyncIdle /\ PageIdle /\ StoresIdle /\ RecoveryIdle /\ CloneIdle
  \/ /\ mech = "Stores" /\ Stores!Init
     /\ MainIdle /\ SoftIdle /\ ForkIdle /\ other_mem = 0 /\ other_shadow = 0 /\
        other_num_tols = 0 /\ other_valid = 0 /\ writable = 0 /\ pages = 0 /\
        todo = 0 /\ pc = 0 /\ other_written = 0 /\ other_initialized = 0 /\
        EpochIdle /\ SyncIdle /\ PageIdle /\ CopiesIdle /\ RecoveryIdle /\ CloneIdle
  \/ /\ mech = "Recovery" /\ Recovery!Init
     /\ MainIdle /\ SoftIdle /\ ForkIdle /\ other_mem = 0 /\ other_shadow = 0 /\
        other_num_tols = 0 /\ other_at = 0 /\ other_valid = 0 /\ writable = 0 /\
        pages = 0 /\ todo = 0 /\ other_written = 0 /\ other_initialized = 0 /\
        other_dirty = 0 /\ funcs = 0 /\ opts = 0 /\ stack = 0 /\ EpochIdle /\
        SyncIdle /\ PageIdle /\ CopiesIdle /\ StoresIdle /\ CloneIdle
  \/ /\ mech = "Clones" /\ Clones!Init
     /\ MainIdle /\ SoftIdle /\ ForkIdle /\ other_mem = 0 /\ other_shadow = 0 /\
        other_num_tols = 0 /\ other_at = 0 /\ other_valid = 0 /\ writable = 0 /\
        pages = 0 /\ other_written = 0 /\ other_initialized = 0 /\ other_dirty = 0 /\
        EpochIdle /\ SyncIdle /\ PageIdle /\ CopiesIdle /\ StoresIdle /\ RecoveryIdle

PartNext ==
  \/ /\ mech = "EpochWrap" /\ Next
     /\ UNCHANGED <<mech, softVars, forkVars, other_mem, other_shadow, other_num_tols,
                    other_at, other_valid, writable, pages, todo, pc, other_written,
                    other_initialized, other_dirty, funcs, opts, stack, epochVars,
                    syncVars, pageVars, copiesVars, storesVars, recoveryVars,
                    cloneVars>>
  \/ /\ mech = "SoftStats" /\ SoftNext
     /\ UNCHANGED <<mech, vars, forkVars, other_mem, other_shadow, other_num_tols,
                    other_at, other_valid, writable, pages, todo, pc, other_written,
                    other_initialized, other_dirty, funcs, opts, stack, epochVars,
                    syncVars, pageVars, copiesVars, storesVars, recoveryVars,
                    cloneVars>>
  \/ /\ mech = "ForkFamily" /\ ForkNext
     /\ UNCHANGED <<mech, vars, softVars, other_mem, other_shadow, other_num_tols,
                    other_at, other_valid, writable, pages, todo, pc, other_written,
                    other_initialized, other_dirty, funcs, opts, stack, epochVars,
                    syncVars, pageVars, copiesVars, storesVars, recoveryVars,
                    cloneVars>>
  \/ /\ \/ mech = "EpochThreads" /\ EpochThreads!Next
        \/ mech = "EpochDiff" /\ EpochDiff!Next
     /\ UNCHANGED <<mech, vars, softVars, forkVars, writable, pages, todo, pc,
                    other_written, other_initialized, other_dirty, funcs, opts, stack,
                    syncVars, pageVars, copiesVars, storesVars, recoveryVars,
                    cloneVars>>
  \/ /\ \/ mech = "Tree" /\ Tree!Next
        \/ mech = "TreeByte" /\ TreeByte!Next
        \/ mech = "PlainByte" /\ PlainByte!Next
     /\ UNCHANGED <<mech, vars, softVars, forkVars, other_num_tols, other_at,
                    other_valid, other_initialized, other_dirty, funcs, opts, stack,
                    epochVars, pageVars, copiesVars, storesVars, recoveryVars,
                    cloneVars>>
  \/ /\ mech = "Mprotect" /\ Mprotect!Next
     /\ UNCHANGED <<mech, vars, softVars, forkVars, other_shadow, other_at, todo,
                    other_written, other_dirty, funcs, opts, stack, epochVars,
                    syncVars, copiesVars, storesVars, recoveryVars, cloneVars>>
  \/ /\ mech = "SoftCopies" /\ SoftCopies!SoftNext
     /\ UNCHANGED <<mech, vars, softVars, forkVars, other_mem, other_shadow,
                    other_num_tols, other_at, other_valid, writable, pages, todo, pc,
                    funcs, opts, stack, epochVars, syncVars, pageVars, storesVars,
                    recoveryVars, cloneVars>>
  \/ /\ mech = "Stores" /\ Stores!Next
     /\ UNCHANGED <<mech, vars, softVars, forkVars, other_mem, other_shadow,
                    other_num_tols, other_valid, writable, pages, todo, pc,
                    other_written, other_initialized, epochVars, syncVars, pageVars,
                    copiesVars, recoveryVars, cloneVars>>
  \/ /\ mech = "Recovery" /\ Recovery!Next
     /\ UNCHANGED <<mech, vars, softVars, forkVars, other_mem, other_shadow,
                    other_num_tols, other_at, other_valid, writable, pages, todo,
                    other_written, other_initialized, other_dirty, funcs, opts, stack,
                    epochVars, syncVars, pageVars, copiesVars, storesVars, cloneVars>>
  \/ /\ mech = "Clones" /\ Clones!Next
     /\ UNCHANGED <<mech, vars, softVars, forkVars, other_mem, other_shadow,
                    other_num_tols, other_at, other_valid, writable, pages,
                    other_written, other_initialized, other_dirty, epochVars,
                    syncVars, pageVars, copiesVars, storesVars, recoveryVars>>

\* The walk of a soft-dirty checkpoint is a loop of the program's own thread.
PartSpec ==
  /\ PartInit /\ [][PartNext]_partVars
  /\ WF_softVars(mech = "SoftStats" /\ (Chunk \/ Visit \/ NextVma \/ ClearRefs))

-----------------------------------------------------------------------------
(* Properties.                                                             *)


=============================================================================
