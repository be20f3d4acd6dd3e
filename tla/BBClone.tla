------------------------------- MODULE BBClone -------------------------------
(***************************************************************************)
(* The cloning pass (BBClone.cpp) and the part of the call graph utility   *)
(* that it uses (dsa_common.h).  Every function of the program gets two    *)
(* clones and becomes a switch between them: one that the checkpoint       *)
(* passes leave alone, for when no recovery window is open, and one that   *)
(* they instrument.  The callers of sef_handle_message are not cloned,     *)
(* since the window opens below them.  Then the program runs.              *)
(*                                                                         *)
(* A function is a sequence of calls: "call" and "icall" (through a        *)
(* pointer that may hold any of targets), "ipc" for a call with a policy   *)
(* hook, "branch" for a conditional one, and "switch" for what the pass      *)
(* makes of a function.  A call in a block that loop-extract has named codeRepl  *)
(* has repl = TRUE.  A regular expression is the set of what it matches.   *)
(***************************************************************************)
EXTENDS Integers, SequencesExt

CONSTANTS
  Cases,    \* programs with the options of the pass
  MaxDepth  \* bound on the stack

VARIABLES
  pc,       \* where the pass is; "run" when the program runs
  opts,     \* the options
  funcs,    \* the functions of the module, in its order
  regexList, skipFunctions,
  todo,     \* the functions that are still to be looked at
  stack,    \* the frames: function and instruction
  sa_window__is_open, prior_have_handled_message

vars == <<pc, opts, funcs, regexList, skipFunctions, todo, stack, sa_window__is_open, prior_have_handled_message>>
module == <<opts, funcs, regexList, skipFunctions, todo>>
process == <<stack, sa_window__is_open, prior_have_handled_message>>

\* Function n is <<0, n>>, its clones are <<1, n>> and <<2, n>>.
Ids == {<<funcs[i].clone, funcs[i].name>> : i \in DOMAIN funcs}
Names == {n \in {funcs[i].name : i \in DOMAIN funcs} : <<0, n>> \in Ids}
FunctionOf(id) == funcs[CHOOSE i \in DOMAIN funcs : <<funcs[i].clone, funcs[i].name>> = id]

Unlogged == "ltckpt_functions"
SefHandleMessage == <<0, "sef_handle_message">>

-----------------------------------------------------------------------------
(* The call graph.                                                         *)

\* Functions fall in one bucket if the mapper cannot tell their types apart.
getCalleeTypeHash(type, calleeMapper) ==
  CASE calleeMapper = "TYPETARGETS" -> <<type.id, 0>>
    [] calleeMapper = "PARAMTARGETS" -> <<"params", type.params + (IF type.void THEN 0 ELSE 1000)>>
    [] OTHER -> <<"all", 1>>

getCalleesDCA(call) == IF call.op = "call" THEN {call.callee} ELSE {}

\* The functions whose address is taken, or that another module may take it of.
PointerTargets(calleeMapper) ==
  {i \in DOMAIN funcs : funcs[i].taken \/ (calleeMapper = "ALLTARGETS" /\ ~ funcs[i].internal)}

\* Functions with variable arguments are targets of every call by pointer.
getCalleesGEN(call, calleeMapper) ==
  IF call.op = "call" THEN getCalleesDCA(call)
  ELSE {funcs[i].name : i \in
          {i \in PointerTargets(calleeMapper) :
             \/ funcs[i].type.vararg
             \/ /\ ~ call.type.vararg
                /\ getCalleeTypeHash(funcs[i].type, calleeMapper) = getCalleeTypeHash(call.type, calleeMapper)}}

\* External: what the data structure analysis and the slicer find; nothing
\* when they are not there.
Analysed(call, available) ==
  CASE ~ available -> {}
    [] available /\ call.op = "call" -> {call.callee}
    [] available /\ call.op = "icall" -> call.found

getCallees(call) ==
  CASE opts.calleeMapper \in {"TYPETARGETS", "PARAMTARGETS", "ALLTARGETS", "ATTARGETS"} ->
         getCalleesGEN(call, opts.calleeMapper)
    [] opts.calleeMapper \in {"CALLTARGETS", "CALLGRAPH"} -> Analysed(call, opts.LLVM_HAS_DSA)
    [] opts.calleeMapper = "SPTTARGETS" -> Analysed(call, opts.slicer)
    [] OTHER -> getCalleesDCA(call)

IsCall(i) == i.op \in {"call", "icall"}

\* fetchActualCallers, for one function.
getCallers(F) ==
  {funcs[k].name : k \in {k \in DOMAIN funcs :
     \E j \in DOMAIN funcs[k].body : IsCall(funcs[k].body[j]) /\ F \in getCallees(funcs[k].body[j])}}

\* The stacks that end in a call of F; a stack is not followed past a function
\* that is on it already.
RECURSIVE getCallStacks(_, _)
getCallStacks(F, visited) ==
  IF getCallers(F) = {} \/ F \in visited THEN {<<F>>}
  ELSE {Append(s, F) : s \in UNION {getCallStacks(caller, visited \union {F}) : caller \in getCallers(F)}}

getCallStacksFunctions(F) == UNION {ToSet(s) : s \in getCallStacks(F, {})}

-----------------------------------------------------------------------------
(* The pass.                                                               *)

\* Four parts, of two tuples with the same expressions the first.
parseStringTwoKeyMapOpt(tuples) ==
  LET Value(i) == tuples[Min({j \in DOMAIN tuples : SubSeq(tuples[j], 1, 2) = SubSeq(tuples[i], 1, 2)})]
  IN  [i \in DOMAIN tuples |->
         [section |-> tuples[i][1], function |-> tuples[i][2], clone1 |-> Value(i)[3], clone2 |-> Value(i)[4]]]

Parses(tuples) == \A i \in DOMAIN tuples : Len(tuples[i]) = 4

Usable(t) == t.section.valid /\ t.function.valid /\ t.clone1 # "" /\ t.clone2 # ""

SectionOf(name) == IF name = "NULL" THEN "" ELSE name

initRegexMap(list) ==
  [i \in DOMAIN list |->
     [section |-> list[i].section.matches, function |-> list[i].function.matches,
      clone1 |-> SectionOf(list[i].clone1), clone2 |-> SectionOf(list[i].clone2)]]

\* Whether the option is accepted.
parseAndInitRegexMap(tuples) ==
  Parses(tuples) /\ \A i \in DOMAIN tuples : Usable(parseStringTwoKeyMapOpt(tuples)[i])

Init ==
  /\ \E c \in Cases : opts = c.opts /\ funcs = c.funcs
  /\ pc = "init"
  /\ regexList = <<>> /\ skipFunctions = {} /\ todo = <<>>
  /\ stack = <<[fn |-> <<0, "main">>, at |-> 1]>> /\ sa_window__is_open = 0 /\ prior_have_handled_message = FALSE

\* Without the flag, or with a map that is not in order, the pass exits.
moduleInit ==
  /\ pc = "init"
  /\ LET fine == opts.flag /\ parseAndInitRegexMap(opts.map)
     IN  \/ ~ fine /\ pc' = "exit" /\ UNCHANGED regexList
         \/ fine /\ pc' = "skip" /\ regexList' = initRegexMap(parseStringTwoKeyMapOpt(opts.map))
  /\ UNCHANGED <<opts, funcs, skipFunctions, todo, process>>

getSkipFunctions ==
  /\ pc = "skip"
  /\ LET excluded == ToSet(opts.excludeCallstacksTo)
     IN  \/ ~ excluded \subseteq Names /\ pc' = "exit" /\ UNCHANGED skipFunctions
         \/ excluded \subseteq Names /\ pc' = "hooks" /\ skipFunctions' = UNION {getCallStacksFunctions(F) : F \in excluded}
  /\ UNCHANGED <<opts, funcs, regexList, todo, process>>

getHooks ==
  /\ pc = "hooks"
  /\ pc' = IF {opts.hookClone1, opts.hookClone2} \ {""} \subseteq Names THEN "clone" ELSE "aborted"
  /\ todo' = SelectSeq([i \in DOMAIN funcs |-> funcs[i].name], LAMBDA n : n \notin skipFunctions)
  /\ UNCHANGED <<opts, funcs, regexList, skipFunctions, process>>

isCloneCandidateFromRegexes(F, t) == F.section \in t.section /\ F.name \in t.function

isCloneCandidate(F) == {i \in DOMAIN regexList : isCloneCandidateFromRegexes(F, regexList[i])}

\* A clone: internal, nobody has its address.
cloneFunction(F, clone, section) ==
  [F EXCEPT !.clone = clone, !.section = section, !.taken = FALSE, !.internal = TRUE]

HookCall(hook) == IF hook = "" THEN <<>> ELSE <<[op |-> "call", callee |-> hook, repl |-> FALSE]>>

\* The function compares the flag with the value at its entry.
Switch(F) == [F EXCEPT !.body = <<[op |-> "switch", of |-> F.name]>>]

\* The next function.  A hook is also put before the end of the block that
\* calls the clone, which is empty at that time: LLVM does not say what comes
\* of it.
cloneFunctions ==
  /\ pc = "clone" /\ todo # <<>>
  /\ todo' = Tail(todo)
  /\ LET F == FunctionOf(<<0, Head(todo)>>)
         t == regexList[Min(isCloneCandidate(F))]
         Clone(k, section, hook) ==
           [cloneFunction(F, k, section) EXCEPT !.body = HookCall(hook) \o @]
     IN  \/ /\ ~ F.defined \/ isCloneCandidate(F) = {}
            /\ UNCHANGED <<pc, funcs>>
         \/ /\ F.defined /\ isCloneCandidate(F) # {}
            /\ funcs' = [i \in DOMAIN funcs |-> IF funcs[i] = F THEN Switch(F) ELSE funcs[i]]
                        \o <<Clone(1, t.clone1, opts.hookClone1), Clone(2, t.clone2, opts.hookClone2)>>
            /\ pc' \in {pc} \union {"undefined" : h \in {opts.hookClone1, opts.hookClone2} \ {""}}
  /\ UNCHANGED <<opts, regexList, skipFunctions, process>>

endOfClones ==
  /\ pc = "clone" /\ todo = <<>>
  /\ pc' = IF opts.inlineLoops THEN "inline" ELSE "run"
  /\ UNCHANGED <<module, process>>

Calls(F, n) == \E j \in DOMAIN F.body : F.body[j].op = "call" /\ F.body[j].callee = n
Extracted(F) == {j \in DOMAIN F.body : F.body[j].op = "call" /\ F.body[j].repl}

\* The first loop that was extracted is put back, the names of its blocks get
\* a suffix, and its function goes when nothing refers to it any more.
inlineLoops ==
  /\ pc = "inline"
  /\ LET where == {i \in DOMAIN funcs : Extracted(funcs[i]) # {}}
         F == Min(where)
         j == Min(Extracted(funcs[F]))
         IF_ == FunctionOf(<<0, funcs[F].body[j].callee>>)
         body == [k \in DOMAIN IF_.body |-> IF IF_.body[k].op = "call" THEN [IF_.body[k] EXCEPT !.repl = FALSE] ELSE IF_.body[k]]
         inlined == [funcs EXCEPT ![F].body = SubSeq(@, 1, j - 1) \o body \o SubSeq(@, j + 1, Len(@))]
         used == \E k \in DOMAIN inlined : Calls(inlined[k], IF_.name)
     IN  \/ where = {} /\ pc' = "run" /\ UNCHANGED funcs
         \/ /\ where # {}
            /\ funcs' = SelectSeq(inlined, LAMBDA G : G.clone # 0 \/ G.name # IF_.name \/ used \/ IF_.taken \/ ~ IF_.internal)
            /\ UNCHANGED pc
  /\ UNCHANGED <<opts, regexList, skipFunctions, todo, process>>

-----------------------------------------------------------------------------
(* The program.                                                            *)

Frame == stack[Len(stack)]
Code == FunctionOf(Frame.fn).body
Current == Code[Frame.at]
Step == [stack EXCEPT ![Len(stack)].at = @ + 1]
Running == pc = "run" /\ stack # <<>>
Enter(f) == stack' = Append(Step, [fn |-> f, at |-> 1])

Call ==
  /\ Running /\ Frame.at <= Len(Code) /\ IsCall(Current) /\ Len(stack) < MaxDepth
  /\ \E f \in (IF Current.op = "call" THEN {Current.callee} ELSE Current.targets) : Enter(<<0, f>>)
  /\ UNCHANGED <<pc, module, sa_window__is_open, prior_have_handled_message>>

\* The flag as it is at the entry: clone 1 when it is not the value.
SwitchClones ==
  /\ Running /\ Frame.at <= Len(Code) /\ Current.op = "switch" /\ Len(stack) < MaxDepth
  /\ Enter(<<IF sa_window__is_open # opts.flagValue1 THEN 1 ELSE 2, Current.of>>)
  /\ UNCHANGED <<pc, module, sa_window__is_open, prior_have_handled_message>>

\* A conditional branch, over some instructions, back or ahead.
Branch ==
  /\ Running /\ Frame.at <= Len(Code) /\ Current.op = "branch"
  /\ stack' \in {Step, [stack EXCEPT ![Len(stack)].at = @ + Current.by]}
  /\ UNCHANGED <<pc, module, sa_window__is_open, prior_have_handled_message>>

\* A policy hook may close the window.
Ipc ==
  /\ Running /\ Frame.at <= Len(Code) /\ Current.op = "ipc"
  /\ sa_window__is_open' \in {sa_window__is_open, 0}
  /\ stack' = Step
  /\ UNCHANGED <<pc, module, prior_have_handled_message>>

\* Before sef_handle_message returns, the window opens or closes.
Return ==
  /\ Running /\ Frame.at > Len(Code)
  /\ stack' = Front(stack)
  /\ \/ Frame.fn # SefHandleMessage /\ UNCHANGED <<sa_window__is_open, prior_have_handled_message>>
     \/ /\ Frame.fn = SefHandleMessage
        /\ \E have_handled_message \in BOOLEAN :
             /\ sa_window__is_open' =
                  CASE ~ prior_have_handled_message /\ have_handled_message -> 1
                    [] prior_have_handled_message /\ ~ have_handled_message -> 0
                    [] OTHER -> sa_window__is_open
             /\ prior_have_handled_message' = have_handled_message
  /\ UNCHANGED <<pc, module>>

Next ==
  \/ moduleInit \/ getSkipFunctions \/ getHooks \/ cloneFunctions \/ endOfClones \/ inlineLoops
  \/ Call \/ SwitchClones \/ Branch \/ Ipc \/ Return

-----------------------------------------------------------------------------
(* Properties.                                                             *)

\* Every variable keeps its type.
TypeOK ==
  /\ pc \in {"init", "skip", "hooks", "clone", "inline", "run", "exit", "aborted", "undefined"}
  /\ \A i, j \in DOMAIN funcs : funcs[i].name = funcs[j].name /\ funcs[i].clone = funcs[j].clone => i = j
  /\ ToSet(todo) \subseteq Names
  /\ pc = "run" => \A d \in DOMAIN stack :
                     stack[d].fn \in Ids /\ stack[d].at \in 1 .. Len(FunctionOf(stack[d].fn).body) + 1
  /\ sa_window__is_open \in {0, 1} /\ prior_have_handled_message \in BOOLEAN

\* The functions that are left alone are those from which an excluded one can
\* be reached, and no others, however the calls form cycles: no smaller set has
\* the excluded functions and all callers of its members (getCallStacks, which
\* stops at a function it has visited).
SkipsTheCallers ==
  LET Closed(s) == ToSet(opts.excludeCallstacksTo) \subseteq s /\ \A F \in s : getCallers(F) \subseteq s
  IN  pc = "hooks" => Closed(skipFunctions) /\ \A F \in skipFunctions : ~ \E s \in SUBSET (skipFunctions \ {F}) : Closed(s)

\* The mapper sees where every call by pointer can go.
Resolved ==
  \A i \in DOMAIN funcs : \A j \in DOMAIN funcs[i].body :
    funcs[i].body[j].op = "icall" => funcs[i].body[j].targets \subseteq getCallees(funcs[i].body[j])

\* However the calls nest, and whenever policy hooks close the window, an open
\* window has no frame of the program on the stack whose stores the checkpoint
\* passes have left alone, provided that the mapper sees the calls by pointer:
\* a function that was entered while the window was closed has returned before
\* the window opens again (the switch on sa_window__is_open).
OpenWindowIsLogged ==
  pc = "run" /\ Resolved /\ sa_window__is_open = 1 =>
    \A d \in DOMAIN stack : stack[d].fn[1] # 0 => FunctionOf(stack[d].fn).section # Unlogged
=============================================================================
