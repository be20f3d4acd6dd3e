----------------------------- MODULE RecoveryPass -----------------------------
(***************************************************************************)
(* The recovery pass (src/llvm/passes/staticrecovery): it reads which IPC  *)
(* sites and kernel calls leave the recovery window open, plants a hook    *)
(* before each of them, opens the window where sef_handle_message returns, *)
(* and fills the board that switches the deliberate crashes.  Then the     *)
(* instrumented server runs.                                               *)
(*                                                                         *)
(* A file is the sequence of its lines; a line has match = FALSE when the  *)
(* loader's expression rejects it, and a file that cannot be opened has    *)
(* none.  The name of a module is what compareModuleNames extracts of it,  *)
(* "" if nothing.  A member that was never assigned is "uninit": it may be *)
(* a null pointer or any other, which undoes the pass when it is followed. *)
(***************************************************************************)
EXTENDS Integers, FiniteSets, SequencesExt, Functions

CONSTANTS
  Cases,        \* modules with their calls, options and files
  Within,       \* <<inner, outer>>: a module's name is part of another's
  Garbage,      \* what a site id may be that was never assigned
  LTCKPT_SHUTTER_BOARD_IPC_END, LTCKPT_SHUTTER_BOARD_MAX_SIZE

VARIABLES
  pc,           \* where the pass is; "run" when the server runs
  case,         \* the module, the options and the files
  recoveryDecisions, suicideMap, kernelcallDecisions,
  kernelcallExclusionSet, idempotentKernelCallersSet,
  sites,        \* the target calls that have no hooks yet, with their site ids
  recovery,     \* recovery hooks are planted
  handled,      \* the hooks before the returns of sef_handle_message
  planted,      \* for each call, its hooks: suicide, then recovery
  kernelCallsiteCounter, kernelcallSuicideMap,
  g_shutter_board,
  window,       \* the recovery window is open
  called        \* the calls since it was opened

vars == <<pc, case, recoveryDecisions, suicideMap, kernelcallDecisions, kernelcallExclusionSet,
          idempotentKernelCallersSet, sites, recovery, handled, planted, kernelCallsiteCounter,
          kernelcallSuicideMap, g_shutter_board, window, called>>
maps == <<recoveryDecisions, kernelcallDecisions, kernelcallExclusionSet, idempotentKernelCallersSet>>
plants == <<planted, kernelCallsiteCounter, kernelcallSuicideMap>>
runs == <<window, called>>

DECISION_IDEMPOTENT == 1
DECISION_GLOBAL_CHANGE == 4
\* A value that no IPC site and no kernel call has.
KERNEL_CALL_SITE_IDENTIFIER == -1

Calls == DOMAIN case.calls
NULL == [kind |-> "null"]
Uninit == [kind |-> "uninit"]
New(x) == [kind |-> "new", val |-> x]

-----------------------------------------------------------------------------
(* Input files.                                                            *)

\* The lines that a loader accepts; a file that is not named has none.
read(file) == SelectSeq(file.lines, LAMBDA line : line.match)

\* Whether one name contains the other; the first is returned.
compareModuleNames(modName1, modName2) ==
  IF modName2 \in {"", modName1} \/ <<modName2, modName1>> \in Within THEN modName1 ELSE ""

\* Of several lines for a key, the first one counts.
FirstOf(lines, Key(_), Value(_)) ==
  LET Of(k) == {i \in DOMAIN lines : Key(lines[i]) = k}
  IN  [k \in {Key(lines[i]) : i \in DOMAIN lines} |-> Value(lines[Min(Of(k))])]

DecisionMap_load(file) ==
  FirstOf(SelectSeq(read(file), LAMBDA line : compareModuleNames(line.module, case.module) # ""),
          LAMBDA line : line.site, LAMBDA line : line.value)

KCDecisionMap_load(file) ==
  FirstOf(read(file), LAMBDA line : line.number, LAMBDA line : [decision |-> line.decision, suicide |-> line.suicide])

KCExclusionMap_load(file) == {read(file)[i].number : i \in DOMAIN read(file)}

getIdempotentKernelCallers(file) == {read(file)[i].caller : i \in DOMAIN read(file)}

\* The exclusions are only looked for once decisions were read, the callers
\* only once the kernel calls' decisions were: else the members are not
\* assigned.
loadStaticRecoveryDecisions ==
  LET decided == case.decisions.named /\ read(case.decisions) # <<>>
      kernel == case.kernelcalls.named /\ read(case.kernelcalls) # <<>>
      OrNull(file, value) == IF file.named /\ read(file) # <<>> THEN New(value) ELSE NULL
  IN  /\ recoveryDecisions' = IF decided THEN DecisionMap_load(case.decisions) ELSE <<>>
      /\ kernelcallExclusionSet' =
           IF decided THEN OrNull(case.exclusions, KCExclusionMap_load(case.exclusions)) ELSE Uninit
      /\ kernelcallDecisions' =
           IF decided THEN OrNull(case.kernelcalls, KCDecisionMap_load(case.kernelcalls)) ELSE Uninit
      /\ idempotentKernelCallersSet' =
           IF decided /\ kernel THEN OrNull(case.callers, getIdempotentKernelCallers(case.callers)) ELSE Uninit

-----------------------------------------------------------------------------
(* The pass.                                                               *)

Init ==
  /\ case \in Cases
  /\ pc = "load"
  /\ recoveryDecisions = <<>> /\ suicideMap = NULL
  /\ kernelcallDecisions = Uninit /\ kernelcallExclusionSet = Uninit /\ idempotentKernelCallersSet = Uninit
  /\ sites = <<>> /\ recovery = FALSE /\ handled = {}
  /\ planted = [i \in Calls |-> <<>>]
  /\ kernelCallsiteCounter = LTCKPT_SHUTTER_BOARD_IPC_END /\ kernelcallSuicideMap = <<>>
  /\ g_shutter_board = <<>>
  /\ window = FALSE /\ called = {}

\* Without anything to do, or without a line in the map of crashes that was
\* asked for, the module is left as it is.
runOnModule ==
  /\ pc = "load"
  /\ \/ ~ case.suicide /\ ~ case.decisions.named /\ pc' = "run" /\ UNCHANGED <<maps, suicideMap>>
     \/ /\ case.suicide \/ case.decisions.named
        /\ loadStaticRecoveryDecisions
        /\ \/ /\ case.suicide /\ case.suicides.named /\ read(case.suicides) = <<>>
              /\ pc' = "run" /\ UNCHANGED suicideMap
           \/ /\ case.suicide /\ case.suicides.named /\ read(case.suicides) # <<>>
              /\ suicideMap' = New(DecisionMap_load(case.suicides)) /\ pc' = "fetch"
           \/ ~ (case.suicide /\ case.suicides.named) /\ pc' = "fetch" /\ UNCHANGED suicideMap
  /\ UNCHANGED <<case, sites, recovery, handled, plants, g_shutter_board, runs>>

\* The site id of an IPC call: of one in another module it is not assigned.
IpcCalls == {i \in Calls : case.calls[i].kind = "ipc"}
KernelCalls == {i \in Calls : case.calls[i].kind = "kernel"}
Foreign == {i \in IpcCalls : compareModuleNames(case.module, case.calls[i].module) = ""}
getIPCSiteID(i, garbage) == IF i \in Foreign THEN garbage[i] ELSE case.calls[i].site

\* Kernel calls, and calls with a site id; all other calls are no targets.
fetchTargetCallSites ==
  /\ pc = "fetch"
  /\ \E garbage \in [Foreign -> Garbage] :
       sites' = [i \in IpcCalls \union KernelCalls |->
                   IF i \in KernelCalls THEN KERNEL_CALL_SITE_IDENTIFIER ELSE getIPCSiteID(i, garbage)]
  /\ pc' = IF IpcCalls \union KernelCalls = {} THEN "run" ELSE "window"
  /\ UNCHANGED <<case, maps, suicideMap, recovery, handled, plants, g_shutter_board, runs>>

\* The hooks before the returns of sef_handle_message.
NaiveDecisions == {5, 6, 7}
plantWindowHooks ==
  /\ pc = "window"
  /\ recovery' = (DOMAIN recoveryDecisions # {})
  /\ handled' = IF recovery' THEN {"start"} \union {"naive" : d \in NaiveDecisions \intersect {case.force}} ELSE {}
  /\ pc' = "plant"
  /\ UNCHANGED <<case, maps, suicideMap, sites, plants, g_shutter_board, runs>>

\* What a pointer that was never assigned turns out to be.
Followed(member) == IF member.kind = "uninit" THEN {NULL, Uninit} ELSE {member}

\* The decision on a kernel call: of a caller, of a number, or the default.
kernelDecision(call, callers, decisions) ==
  IF callers.kind = "new" /\ call.caller \in callers.val
  THEN [decision |-> DECISION_IDEMPOTENT, suicide |-> FALSE]
  ELSE IF decisions.kind = "new" /\ call.number \in DOMAIN decisions.val THEN decisions.val[call.number]
  ELSE [decision |-> DECISION_GLOBAL_CHANGE, suicide |-> TRUE]

\* The decision on an IPC site; abort is 0.
Enhanced == {"_brk", "getepinfo", "vm_notify_sig", "vm_willexit"}
ipcDecision(call, site_id) ==
  CASE case.force \in {1} \union NaiveDecisions -> DECISION_IDEMPOTENT
    [] case.force = 4 -> DECISION_GLOBAL_CHANGE
    [] case.force = 9 -> IF call.caller \in Enhanced THEN DECISION_IDEMPOTENT ELSE DECISION_GLOBAL_CHANGE
    [] case.force = 0 -> IF site_id \in DOMAIN recoveryDecisions THEN recoveryDecisions[site_id] ELSE DECISION_GLOBAL_CHANGE
    [] OTHER -> 0

\* The hook of a decision; fail-stop unless it is a known one.
theHook(decision) ==
  IF decision \in 1 .. 3 THEN <<"idempotent", "request_specific", "process_local">>[decision] ELSE "fail_stop"

\* The hooks before a call, each with the site id it is given.
Hooks(id, kernel, decision) ==
  (IF case.suicide /\ ~ (kernel /\ case.noSuicideOnKernelCall) THEN <<[hook |-> "suicide", site |-> id]>> ELSE <<>>)
  \o (IF recovery THEN <<[hook |-> theHook(decision), site |-> id]>> ELSE <<>>)

Skip(i) == sites' = Restrict(sites, DOMAIN sites \ {i}) /\ UNCHANGED plants /\ pc' = pc
Fails(how) == pc' = how /\ UNCHANGED <<sites, plants>>

\* A kernel call: by its number, unless that is unknown or excluded.
plantKernel(i) ==
  LET call == case.calls[i]
  IN  \/ call.number = KERNEL_CALL_SITE_IDENTIFIER /\ Skip(i)
      \/ /\ call.number # KERNEL_CALL_SITE_IDENTIFIER
         /\ \E exclusion \in Followed(kernelcallExclusionSet), callers \in Followed(idempotentKernelCallersSet),
               decisions \in Followed(kernelcallDecisions) :
              \/ exclusion.kind = "new" /\ call.number \in exclusion.val /\ Skip(i)
              \/ /\ ~ (exclusion.kind = "new" /\ call.number \in exclusion.val)
                 /\ \/ Uninit \in {exclusion, callers, decisions} /\ Fails("undefined")
                    \/ /\ Uninit \notin {exclusion, callers, decisions}
                       /\ LET d == kernelDecision(call, callers, decisions)
                              id == kernelCallsiteCounter + 1
                          IN  /\ kernelCallsiteCounter' = id
                              /\ planted' = [planted EXCEPT ![i] = Hooks(id, TRUE, d.decision)]
                              /\ kernelcallSuicideMap' =
                                   IF case.suicide /\ ~ case.noSuicideOnKernelCall
                                   THEN [k \in DOMAIN kernelcallSuicideMap \union {id} |->
                                           IF k = id THEN d.suicide ELSE kernelcallSuicideMap[k]]
                                   ELSE kernelcallSuicideMap
                              /\ sites' = Restrict(sites, DOMAIN sites \ {i}) /\ pc' = pc

plantIpc(i) ==
  LET decision == ipcDecision(case.calls[i], sites[i])
  IN  \/ recovery /\ decision = 0 /\ case.force # 0 /\ Fails("aborted")
      \/ /\ ~ (recovery /\ decision = 0 /\ case.force # 0)
         /\ planted' = [planted EXCEPT ![i] = Hooks(sites[i], FALSE, decision)]
         /\ sites' = Restrict(sites, DOMAIN sites \ {i}) /\ pc' = pc
         /\ UNCHANGED <<kernelCallsiteCounter, kernelcallSuicideMap>>

\* The calls are in the order of their addresses, which is any order.
plantHooks ==
  /\ pc = "plant"
  /\ \E i \in DOMAIN sites : IF sites[i] = KERNEL_CALL_SITE_IDENTIFIER THEN plantKernel(i) ELSE plantIpc(i)
  /\ UNCHANGED <<case, maps, suicideMap, recovery, handled, g_shutter_board, runs>>

\* The board: entry 1 of the sequence is that of site 0.  The IPC sites come
\* first, the kernel calls behind LTCKPT_SHUTTER_BOARD_IPC_END.  An initializer
\* of another size than the array's is refused.
IpcPart ==
  [i \in 1 .. Cardinality(IpcCalls) |->
     ~ (suicideMap.kind = "new" /\ i - 1 \in DOMAIN suicideMap.val /\ suicideMap.val[i - 1] = 0)]
Zeros(from, to) == [i \in 1 .. to - from + 1 |-> FALSE]
KernelPart ==
  [i \in 1 .. kernelCallsiteCounter - LTCKPT_SHUTTER_BOARD_IPC_END |->
     LET k == LTCKPT_SHUTTER_BOARD_IPC_END + i
     IN  k \in DOMAIN kernelcallSuicideMap => kernelcallSuicideMap[k]]

setShutterBoard ==
  /\ pc = "plant" /\ DOMAIN sites = {}
  /\ LET board == IpcPart \o Zeros(Cardinality(IpcCalls), LTCKPT_SHUTTER_BOARD_IPC_END)
                  \o KernelPart \o Zeros(kernelCallsiteCounter + 1, LTCKPT_SHUTTER_BOARD_MAX_SIZE - 1)
     IN  \/ Len(board) = LTCKPT_SHUTTER_BOARD_MAX_SIZE /\ g_shutter_board' = board /\ pc' = "run"
         \/ Len(board) # LTCKPT_SHUTTER_BOARD_MAX_SIZE /\ pc' = "aborted" /\ UNCHANGED g_shutter_board
  /\ UNCHANGED <<case, maps, suicideMap, sites, recovery, handled, plants, runs>>

-----------------------------------------------------------------------------
(* The server, with what RecoveryWindow says of its hooks kept to the      *)
(* window: the first message after a while opens it, handing the control   *)
(* back and a fail-stop hook close it.                                     *)

Message ==
  /\ pc = "run" /\ "start" \in handled
  /\ \E have_handled_message \in BOOLEAN \ {window} :
       /\ window' = have_handled_message
       /\ called' = IF have_handled_message THEN {} ELSE called
  /\ UNCHANGED <<pc, case, maps, suicideMap, sites, recovery, handled, plants, g_shutter_board>>

CallOut ==
  /\ pc = "run"
  /\ \E i \in Calls :
       /\ called' = called \union {i}
       /\ window' = (window /\ \A h \in DOMAIN planted[i] : planted[i][h].hook # "fail_stop")
  /\ UNCHANGED <<pc, case, maps, suicideMap, sites, recovery, handled, plants, g_shutter_board>>

Next ==
  \/ runOnModule \/ fetchTargetCallSites \/ plantWindowHooks \/ plantHooks \/ setShutterBoard
  \/ Message \/ CallOut

-----------------------------------------------------------------------------
(* Properties.                                                             *)

\* Every variable keeps its type.
TypeOK ==
  /\ pc \in {"load", "fetch", "window", "plant", "run", "undefined", "aborted"}
  /\ \A i \in Calls : \A h \in DOMAIN planted[i] :
       planted[i][h].hook \in {"suicide", "idempotent", "request_specific", "process_local", "fail_stop"}
  /\ called \subseteq Calls
  /\ {recovery, window} \subseteq BOOLEAN
  /\ kernelCallsiteCounter \in LTCKPT_SHUTTER_BOARD_IPC_END .. LTCKPT_SHUTTER_BOARD_IPC_END + Cardinality(KernelCalls)

\* The first line of a file that is about something says this of it.
Says(file, About(_), This(_)) ==
  \E i \in DOMAIN file.lines :
    /\ file.named /\ file.lines[i].match /\ About(file.lines[i]) /\ This(file.lines[i])
    /\ \A j \in 1 .. i - 1 : ~ (file.lines[j].match /\ About(file.lines[j]))

ListedCaller(i) == Says(case.callers, LAMBDA line : line.caller = case.calls[i].caller, LAMBDA line : TRUE)
AboutNumber(i, line) == line.number = case.calls[i].number
AboutSite(i, line) ==
  line.site = case.calls[i].site /\ (line.module = case.module \/ <<case.module, line.module>> \in Within)

\* The options or the files say that a call keeps the window open.
Harmless(i) ==
  CASE i \in KernelCalls ->
         \/ ListedCaller(i)
         \/ Says(case.kernelcalls, LAMBDA line : AboutNumber(i, line), LAMBDA line : line.decision \in 1 .. 3)
         \/ Says(case.exclusions, LAMBDA line : AboutNumber(i, line), LAMBDA line : TRUE)
    [] i \in IpcCalls ->
         \/ case.force \in {1} \union NaiveDecisions
         \/ case.force = 9 /\ case.calls[i].caller \in Enhanced
         \/ case.force = 0
            /\ Says(case.decisions, LAMBDA line : AboutSite(i, line), LAMBDA line : line.value \in 1 .. 3)
    [] OTHER -> TRUE

\* Whichever files are missing, empty or contradictory, an open window has only
\* seen calls that the options or the first line about them declare harmless:
\* what cannot be loaded falls back on closing the window ("Its okay as we use
\* default value as fallback option").  Kernel calls whose number is no
\* constant and calls of another module's sites have no such decision.
WindowIsHonest ==
  pc = "run" /\ window =>
    \A i \in called \ Foreign :
      Harmless(i) \/ (i \in KernelCalls /\ case.calls[i].number = KERNEL_CALL_SITE_IDENTIFIER)

\* In whatever order the calls are met, every kernel call with a crash hook has
\* an entry of the board to itself, which is on unless a file has switched it
\* off, and is off when the files could all be read; and of the first IPC sites
\* those are off that the map of crashes names with 0 (kernelCallsiteCounter,
\* kernelcallSuicideMap, g_shutter_board).  The pass only gives up on a decision
\* that cannot be forced or on more calls than the board has room for.
CrashesAreSwitched ==
  LET Site(i) == planted[i][1].site
      Planted == {i \in Calls : planted[i] # <<>> /\ planted[i][1].hook = "suicide"}
      Entry(site) == g_shutter_board[site + 1]
      Off(i) == \/ ListedCaller(i)
                \/ Says(case.kernelcalls, LAMBDA line : AboutNumber(i, line), LAMBDA line : ~ line.suicide)
      Loaded == idempotentKernelCallersSet.kind # "uninit"
      Fits == /\ Cardinality(IpcCalls) <= LTCKPT_SHUTTER_BOARD_IPC_END + 1
              /\ LTCKPT_SHUTTER_BOARD_IPC_END + Cardinality(KernelCalls) < LTCKPT_SHUTTER_BOARD_MAX_SIZE
  IN  /\ pc = "aborted" => ~ Fits \/ case.force \notin {0, 1, 4, 9} \union NaiveDecisions
      /\ pc = "run" =>
          /\ \A i, j \in Planted \intersect KernelCalls : i # j => Site(i) # Site(j)
          /\ \A i \in Planted \intersect KernelCalls :
               (~ Off(i) => Entry(Site(i))) /\ (Off(i) /\ Loaded => ~ Entry(Site(i)))
          /\ \A i \in (Planted \intersect IpcCalls) \ Foreign :
               Site(i) < Cardinality(IpcCalls) =>
                 Entry(Site(i)) = ~ Says(case.suicides, LAMBDA line : AboutSite(i, line), LAMBDA line : line.value = 0)
=============================================================================
