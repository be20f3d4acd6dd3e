------------------------------ MODULE Injection ------------------------------
(***************************************************************************)
(* The EDFI pass (FaultInjector::runOnModule) and the program it leaves.   *)
(* The pass clones the blocks of each function, splits the clones into a   *)
(* header that decides, a correct and a corrupted copy, injects faults     *)
(* into the corrupted copies, numbers the blocks and writes the map file   *)
(* and the statistics.  The program then runs, while a control thread      *)
(* starts and stops injection.                                             *)
(*                                                                         *)
(* The nodes of the control flow graph of function f are <<f, kind, b>>    *)
(* for its block b: "orig", the block as it was (and "tail", the rest of   *)
(* a loop header), "head", "good" and "bad", the clones, "new", the entry, *)
(* "exit", the only return, and "dummy", where no one gets.                *)
(***************************************************************************)
EXTENDS InjectionOptions

CONSTANTS
  Cases,       \* the modules and command lines, with bounds on the runs:
               \* records with prog, opts, and the numbers of calls of the
               \* program and of START and STOP commands
  Args,        \* strings for the parsers of options
  MaxCount,    \* bound on the executions of a block that are counted
  MaxDepth     \* bound on nested calls

VARIABLES
  prog,     \* the module as it was given
  opts,     \* the command line
  phase,    \* what the pass does, "done" when the program runs
  picked,   \* the blocks that were chosen at random
  fifs,     \* BB_FIF_map
  code,     \* the blocks of the module by their nodes
  it,       \* the function, its corrupted blocks, the block and the instruction
  numbers,  \* bb_index, fault_index and fault_index_selected
  stats,    \* per fault type and block, the candidates and the injected faults
  mapfile,  \* per function, per block, per instruction what the map says
  flag,     \* edfi_faultinjection_enabled
  version,  \* edfi_faultinjection_enabled_version
  inject_bb,\* edfi_inject_bb
  stack,    \* the activations of the running program
  executions, \* bb_num_executions, and how often each header was executed
  control   \* the last command, a command half done, whether none raced,
            \* and the calls and commands that are left

passVars == <<prog, opts, phase, picked, fifs, code, it, numbers, stats, mapfile>>
runVars == <<flag, version, inject_bb, stack, executions, control>>
vars == <<passVars, runVars>>

-----------------------------------------------------------------------------
(* Control flow graphs.                                                    *)

NodesOf(graph, f) == {n \in DOMAIN graph : n[1] = f}
Successors(graph, n) == ToSet(Last(graph[n]).to)

RECURSIVE ReachedFrom(_, _, _)
ReachedFrom(graph, seen, without) ==
  LET next == seen \union (UNION {Successors(graph, n) : n \in seen} \ without)
  IN  IF next = seen THEN seen ELSE ReachedFrom(graph, next, without)

\* The natural loop of a header, {} when no reachable block branches back to
\* it that it dominates.
LoopOf(graph, entry, h) ==
  LET around == ReachedFrom(graph, {entry} \ {h}, {h})
      back == {t \in ReachedFrom(graph, {entry}, {}) : h \in Successors(graph, t) /\ t \notin around}
  IN  IF back = {} THEN {}
      ELSE {h} \union {n \in NodesOf(graph, h[1]) \ around :
                         ReachedFrom(graph, {n} \ {h}, {h}) \intersect back # {}}

\* The header of the innermost loop of a block, NoNode when it is in none.
getLoopFor(graph, entry, n) ==
  LET headers == {h \in ReachedFrom(graph, {entry}, {}) : n \in LoopOf(graph, entry, h)}
  IN  IF headers = {} THEN NoNode
      ELSE CHOOSE h \in headers : \A g \in headers : Cardinality(LoopOf(graph, entry, h)) <= Cardinality(LoopOf(graph, entry, g))

-----------------------------------------------------------------------------
(* The instrumentation of a function.                                      *)

Blocks(f) == DOMAIN prog[f].blocks
PHIs(B) == SubSeq(B, 1, getFirstNonPHI(B) - 1)
Body(B) == SubSeq(B, getFirstNonPHI(B), Len(B))

\* The nodes that instructions branch to, or PHI nodes come from, renamed.
Redirect(B, Name(_)) == [k \in DOMAIN B |-> [B[k] EXCEPT !.to = [t \in DOMAIN B[k].to |-> Name(B[k].to[t])]]]
As(kind, n) == IF n[2] = "orig" THEN <<n[1], kind, n[3]>> ELSE n

Branch(to) == Instruction(0, "br", "void", <<>>, <<to>>, <<>>)
createFlagBasedBranchInst(IfTrue, IfFalse, var, rhv, index) ==
  Instruction(0, "test", "void", <<Const(rhv, "i32"), Const(index, "i32")>>, <<IfTrue, IfFalse>>, <<var>>)

\* The new entry gets the allocas of constant size, and leads to the clones
\* or, while the flag is 0, to the blocks as they were.
StaticAlloca(i) == opts.compat # "dsn" /\ i.op = "alloca" /\ i.args[1][1] = "const"
NewFirstBB(graph, f) ==
  LET old == <<f, "orig", 1>>
      branch == IF opts.COUNT_ALL_BLOCKS \/ opts.do_unconditionalize THEN Branch(<<f, "head", 1>>)
                ELSE createFlagBasedBranchInst(old, <<f, "head", 1>>, "enabled", 0, 0)
  IN  [graph EXCEPT ![old] = SelectSeq(graph[old], LAMBDA i : ~ StaticAlloca(i))]
      @@ (<<f, "new", 0>> :> Append(SelectSeq(graph[old], StaticAlloca), branch))

\* Every block is cloned, with its branches.
CloneBlocks(graph, f) ==
  graph @@ [n \in {<<f, "head", b>> : b \in Blocks(f)} |->
              Redirect(graph[<<f, "orig", n[3]>>], LAMBDA t : As("head", t))]

\* The values of a clone that are used in other clones: by an instruction
\* there, or by a PHI node for another block than this one.
UsedOutside(graph, f, n, i) ==
  \E m \in {<<f, "head", b>> : b \in Blocks(f)} : \E k \in DOMAIN graph[m] :
    \E a \in DOMAIN graph[m][k].args :
      /\ graph[m][k].args[a] = Value(i)
      /\ IF graph[m][k].op = "phi" THEN graph[m][k].to[a] # n ELSE m # n

\* The instructions that are demoted to the stack.  The scan starts after the
\* PHI nodes, but starts again from the second instruction after each one.
Demoted(graph, f, n) ==
  LET B == graph[n]
      out == {k \in DOMAIN B : UsedOutside(graph, f, n, B[k])}
  IN  IF \E k \in out : k >= getFirstNonPHI(B)
      THEN {B[k] : k \in {k \in out : k >= getFirstNonPHI(B) \/ k > 1}} ELSE {}

Slot(i) == <<"inst", 1000 + i.id, "ptr">>
Reload(i, user) ==
  [Instruction(10000 + 100 * i.id + user, "load", i.type, <<Slot(i)>>, <<>>, <<>>) EXCEPT !.reload = TRUE]
StoreToSlot(i) == Instruction(2000 + i.id, "store", "void", <<Value(i), Slot(i)>>, <<>>, <<>>)

\* DemoteRegToStack: the value is stored after the instruction, and loaded
\* before every use, for a PHI node at the end of the block it comes from.
DemoteRegToStack(B, n, i, phis) ==
  LET Uses(u) == u.op # "phi" /\ Contains(u.args, Value(i))
      comes == \E p \in phis : \E a \in DOMAIN p.args : p.args[a] = Value(i) /\ p.to[a] = n
      Loads(u) == IF Uses(u) THEN <<Reload(i, u.id % 100), [u EXCEPT !.args = [a \in DOMAIN u.args |->
                                      IF u.args[a] = Value(i) THEN Value(Reload(i, u.id % 100)) ELSE u.args[a]]]>>
                  ELSE IF u.op = "phi" THEN <<[u EXCEPT !.args = [a \in DOMAIN u.args |->
                                      IF u.args[a] = Value(i) THEN Value(Reload(i, 90 + u.to[a][3])) ELSE u.args[a]]]>>
                  ELSE <<u>>
      Defined(u) == IF u.id = i.id /\ u.op # "phi" THEN Append(Loads(u), StoreToSlot(i)) ELSE Loads(u)
      flat == FlattenSeq([k \in DOMAIN B |-> Defined(B[k])])
      defines == \E k \in DOMAIN B : B[k].id = i.id /\ B[k].op = "phi"
      stored == IF defines THEN InsertAt(flat, getFirstNonPHI(flat), StoreToSlot(i)) ELSE flat
  IN  IF comes THEN InsertAt(stored, Len(stored), Reload(i, 90 + n[3])) ELSE stored

DemoteAll(graph, f) ==
  LET heads == {<<f, "head", b>> : b \in Blocks(f)}
      Demote(g, i) ==
        LET phis == UNION {ToSet(PHIs(g[n])) : n \in heads}
        IN  [n \in DOMAIN g |->
               IF n \in heads THEN DemoteRegToStack(g[n], n, i, phis)
               ELSE IF n = <<f, "new", 0>>
               THEN <<Instruction(1000 + i.id, "alloca", "ptr", <<Const(1, "i32")>>, <<>>, <<>>)>> \o g[n]
               ELSE g[n]]
  IN  IF opts.doLoopHeaderSwitching /\ opts.compat = "none" THEN graph
      ELSE FoldLeft(Demote, graph, SetToSeq(UNION {Demoted(graph, f, n) : n \in heads}))

\* The decision of a header: counting the block, then the correct or the
\* corrupted copy.
Decision(f, b, bb_index_fdp) ==
  LET Correct == <<f, "good", b>>
      Corrupted == <<f, "bad", b>>
  IN  (IF opts.do_inline_profiling
       THEN <<Instruction(0, "count", "void", <<Const(bb_index_fdp, "i64")>>, <<>>, <<>>)>> ELSE <<>>)
      \o <<IF opts.do_unconditionalize
           THEN createFlagBasedBranchInst(Corrupted, Correct, "inject_bb", bb_index_fdp, bb_index_fdp)
           ELSE IF opts.noDFTs THEN createFlagBasedBranchInst(Correct, Corrupted, "enabled", 0, bb_index_fdp)
           ELSE createFlagBasedBranchInst(Correct, Corrupted, "fdp", 0, bb_index_fdp)>>

\* A PHI node of the clones that only hears of the corrupted copies.
ForTheCorrupted(i) ==
  IF i.op # "phi" THEN i ELSE [i EXCEPT !.to = [t \in DOMAIN i.to |-> <<i.to[t][1], "bad", i.to[t][3]>>]]

\* A PHI node of the clones gets, for the corrupted copy of the block it came
\* from and for the correct one, the value it had.
ForBothCopies(i) ==
  IF i.op # "phi" THEN i
  ELSE [i EXCEPT !.to = [t \in DOMAIN i.to |-> <<i.to[t][1], "bad", i.to[t][3]>>]
                        \o [t \in DOMAIN i.to |-> <<i.to[t][1], "good", i.to[t][3]>>],
                 !.args = i.args \o i.args]

SplitHeaders(graph, f, bb_index) ==
  LET heads == {<<f, "head", b>> : b \in Blocks(f)}
      Whole(n) == graph[<<f, "head", n[3]>>]
      Split(n) == [k \in DOMAIN PHIs(Whole(n)) |-> ForBothCopies(Whole(n)[k])] \o Decision(f, n[3], bb_index + n[3] - 1)
  IN  [n \in DOMAIN graph |-> IF n \in heads THEN Split(n) ELSE graph[n]]
      @@ [n \in {<<f, kind, b>> : kind \in {"good", "bad"}, b \in Blocks(f)} |-> Body(Whole(n))]

\* A loop header of the original blocks tests the flag: in a compatible build
\* for a value that it never has, else to go on in the clones.
LoopHeaderSwitching(graph, f) ==
  LET simulate == opts.compat # "none"
      headers == {b \in Blocks(f) : LoopOf(graph, <<f, "new", 0>>, <<f, "orig", b>>) # {}}
      TailOf(b) == <<f, "tail", b>>
      Test(b) == IF simulate THEN createFlagBasedBranchInst(<<f, "dummy", 0>>, TailOf(b), "enabled", 57005, 0)
                 ELSE createFlagBasedBranchInst(<<f, "head", b>>, TailOf(b), "enabled", 1, 0)
      FromTail(i) == IF i.op = "phi" THEN [i EXCEPT !.to = [t \in DOMAIN i.to |->
                       IF i.to[t][2] = "orig" /\ i.to[t][3] \in headers THEN TailOf(i.to[t][3]) ELSE i.to[t]]] ELSE i
      Renamed(B) == [k \in DOMAIN B |-> FromTail(B[k])]
      split == [n \in DOMAIN graph |->
                  IF n[1] # f THEN graph[n]
                  ELSE IF n[2] = "orig" /\ n[3] \in headers THEN Append(Renamed(PHIs(graph[n])), Test(n[3]))
                  ELSE Renamed(graph[n])]
               @@ [n \in {TailOf(b) : b \in headers} |-> Body(graph[<<f, "orig", n[3]>>])]
  IN  IF ~ (opts.doLoopHeaderSwitching \/ simulate) \/ opts.do_unconditionalize \/ opts.COUNT_ALL_BLOCKS THEN graph
      ELSE IF simulate /\ headers # {}
           THEN split @@ (<<f, "dummy", 0>> :> <<Instruction(0, "ret", "void", <<>>, <<>>, <<"unreachable">>)>>)
           ELSE split

\* UnifyFunctionExitNodes: several returns become branches to one.
UnifyExits(graph, f) ==
  LET Returns(n) == Last(graph[n]).op = "ret" /\ Last(graph[n]).callee = <<>>
      returning == {n \in NodesOf(graph, f) : Returns(n)}
      Exit == <<f, "exit", 0>>
  IN  IF Cardinality(returning) < 2 THEN graph
      ELSE [n \in DOMAIN graph |-> IF n \in returning THEN Append(Front(graph[n]), Branch(Exit)) ELSE graph[n]]
           @@ (Exit :> <<Instruction(0, "ret", "void", <<>>, <<>>, <<>>)>>)

\* The last block of a function.
BackOf(graph, f) ==
  IF <<f, "exit", 0>> \in DOMAIN graph THEN <<f, "exit", 0>>
  ELSE IF <<f, "dummy", 0>> \in DOMAIN graph THEN <<f, "dummy", 0>>
  ELSE IF <<f, "bad", 1>> \in DOMAIN graph THEN <<f, "bad", Len(prog[f].blocks)>>
  ELSE <<f, "orig", Len(prog[f].blocks)>>
FrontOf(graph, f) == IF <<f, "new", 0>> \in DOMAIN graph THEN <<f, "new", 0>> ELSE <<f, "orig", 1>>

\* The flag and its version are saved and the flag is set, and at the end the
\* flag is restored if the version is the same.
getAllocaInfo(B) == SelectInSeq(B, LAMBDA i : i.op # "alloca")
Micro(op, value) == Instruction(0, op, "void", <<Const(value, "i32")>>, <<>>, <<>>)
switchFlag(graph, f) ==
  LET value == FlagOf(prog, opts, f)
      first == FrontOf(graph, f)
      At(B, k, new) == SubSeq(B, 1, k - 1) \o new \o SubSeq(B, k, Len(B))
      saved == [graph EXCEPT ![first] = At(@, getAllocaInfo(@),
                  <<Micro("ldflag", 0), Micro("ldversion", 0), Micro("stflag", value)>>)]
  IN  IF value = Unset \/ prog[f].blocks = <<>> THEN graph
      ELSE [saved EXCEPT ![BackOf(graph, f)] = At(@, Len(@), <<Micro("check", 0), Micro("restore", 0)>>)]

-----------------------------------------------------------------------------
(* The steps of the pass.                                                  *)

InitialCode(p) ==
  [n \in UNION {BlocksOf(p, f) : f \in DOMAIN p} |->
     Redirect(p[n[1]].blocks[n[3]], LAMBDA b : <<n[1], "orig", b>>)]

NoCounts == [ft \in ToSet(FaultTypes(opts)) |-> [candidates |-> 0, injected |-> 0]]

Init ==
  \E case \in Cases :
    /\ prog = case.prog
    /\ opts = case.opts
    /\ phase = "random"
    /\ picked = {}
    /\ fifs = <<>>
    /\ code = InitialCode(case.prog)
    /\ it = [f |-> 1, blocks |-> <<>>, b |-> 1, k |-> 0]
    /\ numbers = [bb_index |-> 1, fault_index |-> 0, selected |-> -1]
    /\ stats = [now |-> NoCounts, per_bb |-> <<>>, bb_total |-> <<>>]
    /\ mapfile = <<>>
    /\ flag = 0
    /\ version = 0
    /\ inject_bb = -1
    /\ stack = <<>>
    /\ executions = [counted |-> <<>>, real |-> <<>>]
    /\ control = [commanded |-> 0, half |-> FALSE, clean |-> TRUE, calls |-> case.calls, commands |-> case.commands]

\* One more of the blocks of -fault-randombb-fif.
PickRandomBlock ==
  /\ phase = "random"
  /\ Cardinality(picked) < opts.random_BB_FIF[1]
  /\ \E n \in AllBasicBlocks(prog, opts) \ DOMAIN fifs :
       /\ picked' = picked \union {n}
       /\ fifs' = fifs @@ (n :> opts.random_BB_FIF[2])
  /\ UNCHANGED <<prog, opts, phase, code, it, numbers, stats, mapfile, runVars>>

\* The blocks of named functions, callers and source files.
AddNamedBlocks ==
  /\ phase = "random"
  /\ Cardinality(picked) = opts.random_BB_FIF[1]
  /\ fifs' = AddModules(prog, opts, AddCallers(prog, opts, AddFunctions(prog, opts, fifs)))
  /\ phase' = "functions"
  /\ UNCHANGED <<prog, opts, picked, code, it, numbers, stats, mapfile, runVars>>

\* A function that is not instrumented; those of the static library switch the
\* flag.
SkipFunction ==
  /\ phase = "functions"
  /\ it.f \in DOMAIN prog
  /\ ~ can_instrument_function(prog, opts, it.f)
  /\ code' = IF is_edfi_section(prog[it.f]) /\ ~ opts.do_unconditionalize THEN switchFlag(code, it.f) ELSE code
  /\ it' = [it EXCEPT !.f = @ + 1]
  /\ UNCHANGED <<prog, opts, phase, picked, fifs, numbers, stats, mapfile, runVars>>

\* The factors follow the blocks to their clones, and to the corrupted copies.
RemapFactors(map, f) ==
  LET Step(m, b) == replace_BB_FIF_key(replace_BB_FIF_key(m, <<f, "orig", b>>, <<f, "head", b>>),
                                       <<f, "head", b>>, <<f, "bad", b>>)
  IN  FoldLeft(Step, map, [b \in Blocks(f) |-> b])

InstrumentFunction ==
  /\ phase = "functions"
  /\ it.f \in DOMAIN prog
  /\ can_instrument_function(prog, opts, it.f)
  /\ LET f == it.f
         cloned == DemoteAll(CloneBlocks(NewFirstBB(code, f), f), f)
         split == LoopHeaderSwitching(SplitHeaders(cloned, f, numbers.bb_index), f)
         unified == UnifyExits(split, f)
     IN  /\ code' = IF opts.do_unconditionalize THEN unified ELSE switchFlag(unified, f)
         /\ fifs' = RemapFactors(fifs, f)
         /\ it' = [it EXCEPT !.blocks = [b \in Blocks(f) |-> <<f, "bad", b>>], !.b = 1, !.k = 0]
         /\ mapfile' = Append(mapfile, [name |-> prog[f].name, path |-> prog[f].path, blocks |-> <<>>])
  /\ numbers' = [numbers EXCEPT !.fault_index = 0]
  /\ phase' = "blocks"
  /\ UNCHANGED <<prog, opts, picked, stats, runVars>>

BB == it.blocks[it.b]

\* The fault types that are applicable to the k-th instruction of a block.
Header(n) == IF isConditional(Last(code[n])) THEN getLoopFor(code, FrontOf(code, n[1]), n) ELSE NoNode
Candidates(n, k) ==
  LET header == Header(n)
  IN  IF code[n][k].reload THEN <<>>
      ELSE SelectSeq(FaultTypes(opts), LAMBDA ft : isApplicable(ft, code[n], k, header))

\* The faults of a block, numbered from fault_index on; with one fault per
\* block, one of them is selected in advance.
ApplicableFaults(n) == FoldLeft(LAMBDA s, k : s + Len(Candidates(n, k)), 0, [k \in DOMAIN code[n] |-> k])
BeginBlock ==
  /\ phase = "blocks"
  /\ it.b \in DOMAIN it.blocks
  /\ it.k = 0
  /\ LET number == IF opts.oneFaultPerBlock THEN ApplicableFaults(BB) ELSE 0
     IN  \E selected \in IF number = 0 THEN {-1} ELSE numbers.fault_index .. numbers.fault_index + number - 1 :
           numbers' = [numbers EXCEPT !.selected = selected]
  /\ mapfile' = [mapfile EXCEPT ![Len(mapfile)].blocks = Append(@, <<>>)]
  /\ it' = [it EXCEPT !.k = 1]
  /\ UNCHANGED <<prog, opts, phase, picked, fifs, code, stats, runVars>>

fif(n) == IF n \in DOMAIN fifs THEN fifs[n] ELSE opts.global_FIF

\* Whether the j-th candidate of an instruction is to be injected: the answers
\* that are possible.
Chosen(ft, j) ==
  IF opts.oneFaultPerBlock THEN {numbers.fault_index + j - 1 = numbers.selected}
  ELSE IF <<prog[it.f].name, numbers.fault_index + j - 1>> \in opts.fault_selector THEN {TRUE}
  ELSE isApplicableWithFIF(opts, ft, fif(BB))

\* The block after a fault, and the PHI nodes that come from it.
Inject(outcome) ==
  LET AfterFault(i, n) ==
        IF i.op # "phi" THEN i
        ELSE LET kept == SelectSeq([t \in DOMAIN i.to |-> t], LAMBDA t : ~ (i.to[t] = BB /\ n = outcome.unlinked))
                 Operand(t) == IF i.to[t] = BB /\ i.args[t] = outcome.old THEN outcome.new ELSE i.args[t]
             IN  [i EXCEPT !.to = [t \in DOMAIN kept |-> i.to[kept[t]]], !.args = [t \in DOMAIN kept |-> Operand(kept[t])]]
  IN  [n \in DOMAIN code |->
         IF n = BB THEN outcome.code
         ELSE IF n[1] # it.f THEN code[n] ELSE [k \in DOMAIN code[n] |-> AfterFault(code[n][k], n)]]

\* The next instruction of the corrupted block.  One of the fault types that
\* are to be injected is applied, and instructions it adds are not visited.
VisitInstruction ==
  /\ phase = "blocks"
  /\ it.b \in DOMAIN it.blocks
  /\ it.k \in DOMAIN code[BB]
  /\ LET candidates == Candidates(BB, it.k)
         mayInject == {j \in DOMAIN candidates : TRUE \in Chosen(candidates[j], j)}
         none == \A j \in DOMAIN candidates : FALSE \in Chosen(candidates[j], j)
         Counted(injected) ==
           [ft \in DOMAIN stats.now |->
              [candidates |-> stats.now[ft].candidates + (IF Contains(candidates, ft) THEN 1 ELSE 0),
               injected |-> stats.now[ft].injected + (IF ft \in injected THEN 1 ELSE 0)]]
         Said(injected) == [candidates |-> candidates, injected |-> injected]
         Tell(injected) ==
           mapfile' = IF code[BB][it.k].reload THEN mapfile
                      ELSE [mapfile EXCEPT ![Len(mapfile)].blocks[it.b] = Append(@, Said(injected))]
     IN  /\ \/ /\ none
               /\ Tell({})
               /\ stats' = [stats EXCEPT !.now = Counted({})]
               /\ it' = [it EXCEPT !.k = @ + 1]
               /\ UNCHANGED code
            \/ \E j \in mayInject :
                 /\ stats' = [stats EXCEPT !.now = Counted({candidates[j]})]
                 /\ \/ /\ opts.statistics_only
                       /\ Tell({})
                       /\ it' = [it EXCEPT !.k = @ + 1]
                       /\ UNCHANGED code
                    \/ /\ ~ opts.statistics_only
                       /\ Tell({candidates[j]})
                       /\ \E outcome \in apply(candidates[j], code[BB], it.k, Header(BB)) :
                            /\ code' = Inject(outcome)
                            /\ it' = [it EXCEPT !.k = @ + 1 + Len(outcome.code) - Len(code[BB])]
         /\ numbers' = [numbers EXCEPT !.fault_index = @ + Len(candidates)]
  /\ UNCHANGED <<prog, opts, phase, picked, fifs, runVars>>

\* The corrupted block gets its call of the fault logger, and its statistics.
FinishBlock ==
  /\ phase = "blocks"
  /\ it.b \in DOMAIN it.blocks
  /\ it.k > Len(code[BB])
  /\ code' = IF opts.noDFLs THEN code
             ELSE [code EXCEPT ![BB] = InsertAt(@, getFirstNonPHI(@),
                     Instruction(0, "log", "void", <<Const(numbers.bb_index, "i32")>>, <<>>, <<>>))]
  /\ stats' = [now |-> NoCounts, per_bb |-> Append(stats.per_bb, stats.now),
               bb_total |-> Append(stats.bb_total,
                              FoldLeft(LAMBDA s, ft : s + stats.now[ft].injected, 0, FaultTypes(opts)))]
  /\ numbers' = [numbers EXCEPT !.bb_index = @ + 1]
  /\ it' = [it EXCEPT !.b = @ + 1, !.k = 0]
  /\ UNCHANGED <<prog, opts, phase, picked, fifs, mapfile, runVars>>

FinishFunction ==
  /\ phase = "blocks"
  /\ it.b \notin DOMAIN it.blocks
  /\ it' = [it EXCEPT !.f = @ + 1]
  /\ phase' = "functions"
  /\ UNCHANGED <<prog, opts, picked, fifs, code, numbers, stats, mapfile, runVars>>

\* The arrays of the context: two more counts than blocks, for the canaries.
NumBbs == Cardinality(AllBasicBlocks(prog, opts))
FinishModule ==
  /\ phase = "functions"
  /\ it.f \notin DOMAIN prog
  /\ phase' = "done"
  /\ executions' = [counted |-> [x \in 0 .. NumBbs + 1 |-> 0],
                    real |-> [n \in AllBasicBlocks(prog, opts) |-> 0]]
  /\ \E bb \in IF opts.do_unconditionalize THEN {-1} \union 1 .. NumBbs ELSE {-1} : inject_bb' = bb
  /\ UNCHANGED <<prog, opts, picked, fifs, code, it, numbers, stats, mapfile, flag, version, stack, control>>

-----------------------------------------------------------------------------
(* The program runs.  An activation is at an instruction of a node; it has *)
(* the flag and the version that it saved, whether it is about to store    *)
(* the flag, and the original block that it executed last.                 *)

Ops == {"test", "br", "ret", "log", "count", "ldflag", "ldversion", "stflag", "check", "restore"}
FunctionsCalled(i) == {f \in DOMAIN prog : i.op = "call" /\ i.callee = <<prog[f].name>> /\ prog[f].blocks # <<>>}
Matters(i) == i.op \in Ops \/ FunctionsCalled(i) # {}

\* The next instruction, from the k-th on, that changes anything here.
NextStop(n, k) == Min({j \in k .. Len(code[n]) : Matters(code[n][j])})

Activation(f) ==
  LET n == FrontOf(code, f)
  IN  [node |-> n, k |-> NextStop(n, 1), saved |-> Unset, version |-> Unset, stores |-> "", from |-> 0]

Here == Last(stack)
Instr == code[Here.node][Here.k]
Replace(frame) == [stack EXCEPT ![Len(stack)] = frame]
Advanced == [Here EXCEPT !.k = NextStop(Here.node, Here.k + 1)]

\* Going to another node.  A copy of a block was executed when it is left.
Executed(n) == n[2] \in {"orig", "tail", "good", "bad"} /\ Last(code[n]).op # "test"
Goto(n) ==
  [Here EXCEPT !.node = n, !.k = NextStop(n, 1), !.from = IF Executed(Here.node) THEN Here.node[3] ELSE @]

\* The program starts anew with one of its functions.
Call ==
  /\ phase = "done"
  /\ stack = <<>>
  /\ control.calls > 0
  /\ \E f \in DOMAIN prog : can_instrument_function(prog, opts, f) /\ stack' = <<Activation(f)>>
  /\ control' = [control EXCEPT !.calls = @ - 1]
  /\ UNCHANGED <<passVars, flag, version, inject_bb, executions>>

Running == phase = "done" /\ stack # <<>>

\* The branches of the program itself: any, in this abstraction.
Jump ==
  /\ Running
  /\ Instr.op = "br"
  /\ \E n \in ToSet(Instr.to) : stack' = Replace(Goto(n))
  /\ UNCHANGED <<passVars, flag, version, inject_bb, executions, control>>

\* The value that a branch of the instrumentation tests.  A decision point may
\* answer 1 only while injection is enabled (edfi_onfdp_default).
TestValues ==
  CASE Instr.callee = <<"enabled">> -> {flag}
    [] Instr.callee = <<"inject_bb">> -> {inject_bb}
    [] Instr.callee = <<"fdp">> -> IF flag = 0 THEN {0} ELSE {0, 1}
Decide ==
  /\ Running
  /\ Instr.op = "test"
  /\ \E value \in TestValues :
       stack' = Replace(Goto(Instr.to[IF value = Instr.args[1][2] THEN 1 ELSE 2]))
  /\ executions' = [executions EXCEPT !.real =
                      IF Here.node[2] = "head" THEN [@ EXCEPT ![<<Here.node[1], "orig", Here.node[3]>>] = @ + 1] ELSE @]
  /\ \A n \in DOMAIN executions.real : executions'.real[n] <= MaxCount
  /\ UNCHANGED <<passVars, flag, version, inject_bb, control>>

CountExecution ==
  /\ Running
  /\ Instr.op = "count"
  /\ executions' = [executions EXCEPT !.counted[Instr.args[1][2]] = @ + 1]
  /\ stack' = Replace(Advanced)
  /\ UNCHANGED <<passVars, flag, version, inject_bb, control>>

\* A call of a function of the module; the fault logger is one of them.
Callee == IF Instr.op = "log" THEN {f \in DOMAIN prog : prog[f].name = "edfi_onfault_default"} ELSE FunctionsCalled(Instr)
CallFunction ==
  /\ Running
  /\ Instr.op \in {"log", "call"}
  /\ \/ \E f \in Callee : Len(stack) < MaxDepth /\ stack' = Append(Replace(Advanced), Activation(f))
     \/ Callee = {} /\ stack' = Replace(Advanced)
  /\ UNCHANGED <<passVars, flag, version, inject_bb, executions, control>>

Return ==
  /\ Running
  /\ Instr.op = "ret"
  /\ stack' = Front(stack)
  /\ UNCHANGED <<passVars, flag, version, inject_bb, executions, control>>

\* The steps that save, set and restore the flag.
SwitchFlag ==
  /\ Running
  /\ \/ Instr.op = "ldflag" /\ stack' = Replace([Advanced EXCEPT !.saved = flag, !.stores = "set"]) /\ UNCHANGED flag
     \/ Instr.op = "ldversion" /\ stack' = Replace([Advanced EXCEPT !.version = version]) /\ UNCHANGED flag
     \/ Instr.op = "stflag" /\ stack' = Replace([Advanced EXCEPT !.stores = ""]) /\ flag' = Instr.args[1][2]
     \/ /\ Instr.op = "check"
        /\ stack' = Replace([Advanced EXCEPT !.stores = IF version = Here.version THEN "saved" ELSE ""])
        /\ UNCHANGED flag
     \/ /\ Instr.op = "restore"
        /\ flag' = IF Here.stores = "saved" THEN Here.saved ELSE flag
        /\ stack' = Replace([Advanced EXCEPT !.stores = "", !.saved = Unset])
  /\ control' = [control EXCEPT !.clean = @ /\ ~ control.half]
  /\ UNCHANGED <<passVars, version, inject_bb, executions>>

\* edfi_start and edfi_stop in the control thread: the flag, then the version.
Quiet == \A a \in DOMAIN stack : stack[a].stores = ""
Command ==
  /\ phase = "done"
  /\ ~ control.half
  /\ control.commands > 0
  /\ \E value \in {0, 1} :
       /\ flag' = value
       /\ control' = [control EXCEPT !.commanded = value, !.half = TRUE, !.commands = @ - 1, !.clean = @ /\ Quiet]
  /\ UNCHANGED <<passVars, version, inject_bb, stack, executions>>

CommandVersion ==
  /\ control.half
  /\ version' = version + 1
  /\ control' = [control EXCEPT !.half = FALSE, !.clean = @ /\ Quiet]
  /\ UNCHANGED <<passVars, flag, inject_bb, stack, executions>>

Next ==
  \/ PickRandomBlock \/ AddNamedBlocks \/ SkipFunction \/ InstrumentFunction
  \/ BeginBlock \/ VisitInstruction \/ FinishBlock \/ FinishFunction \/ FinishModule
  \/ Call \/ Jump \/ Decide \/ CountExecution \/ CallFunction \/ Return
  \/ SwitchFlag \/ Command \/ CommandVersion

-----------------------------------------------------------------------------
(* Properties.                                                             *)

\* Every variable keeps its type.
TypeOK ==
  /\ phase \in {"random", "functions", "blocks", "done"}
  /\ DOMAIN fifs \subseteq DOMAIN code
  /\ it.f \in 1 .. Len(prog) + 1
  /\ flag \in {0, 1} /\ version \in Nat
  /\ inject_bb \in {-1} \union 1 .. NumBbs
  /\ Len(stack) <= MaxDepth
  /\ \A a \in DOMAIN stack : stack[a].k \in DOMAIN code[stack[a].node]

\* The parsers of lists accept what they should, and read what it says.
OptionsAreRead == phase = "random" => \A arg \in Args : SelectorIsRead(arg) /\ RandomIsRead(arg) /\ FactorsAreRead(arg)

\* The values that blocks get from outside: the stack slots of the entry, and
\* PHI nodes.
Given(f) ==
  UNION {{Value(code[n][k]) : k \in {k \in DOMAIN code[n] : n[2] = "new" \/ code[n][k].op = "phi"}} : n \in NodesOf(code, f)}

Predecessors(n) == {m \in NodesOf(code, n[1]) : n \in Successors(code, m)}

\* The clones stay code: a block uses values that reach it, of the types it
\* needs, and a PHI node has one value for each block that branches to it,
\* defined there, whatever was demoted, split, injected and cut off (the
\* comments in runOnModule on dominance and on PHI nodes).
CodeIsWellFormed ==
  phase = "blocks" =>
    LET f == it.f
        given == Given(f)
    IN  \A n \in {m \in NodesOf(code, f) : m[2] \in {"head", "good", "bad"}} :
          /\ WellFormed(code[n], given, opts.size_t)
          /\ \A k \in {j \in DOMAIN code[n] : code[n][j].op = "phi"} :
               LET phi == code[n][k]
               IN  /\ ToSet(phi.to) = Predecessors(n) /\ Cardinality(ToSet(phi.to)) = Len(phi.to)
                   /\ \A a \in DOMAIN phi.args :
                        /\ phi.args[a][3] = phi.type
                        /\ \/ phi.args[a][1] # "inst" \/ phi.args[a] \in given
                           \/ \E j \in DOMAIN code[phi.to[a]] : phi.args[a] = Value(code[phi.to[a]][j])

\* A fault changes its own instruction and what uses its value, no other, and
\* the second version of the operator fault a lot that is never empty
\* ("assert(ops.size() > 0)").
FaultsAreLocal ==
  phase = "blocks" /\ it.b \in DOMAIN it.blocks /\ it.k \in DOMAIN code[BB] =>
    LET header == Header(BB)
    IN  \A ft \in ToSet(Candidates(BB, it.k)) :
          LET outcomes == apply(ft, code[BB], it.k, header)
          IN  outcomes # {} /\ \A o \in outcomes : OthersStay(code[BB], it.k, o.code)

\* The correct copies, and the blocks as they were, are those of the program:
\* the same instructions, but for loads and stores of demoted values.
Skeleton(B) ==
  LET own == SelectSeq(B, LAMBDA i : i.id \in 1 .. 99 /\ i.op \notin {"phi", "alloca"})
  IN  [k \in DOMAIN own |-> <<own[k].op, own[k].id, own[k].callee, Len(own[k].to)>>]
GoldenStaysGolden ==
  phase \in {"blocks", "done"} =>
    \A n \in {m \in DOMAIN code : m[2] \in {"good", "tail"}} :
      LET f == n[1]
          given == SelectSeq(Skeleton(prog[f].blocks[n[3]]), LAMBDA x : x[1] # "ret")
      IN  SelectSeq(Skeleton(code[n]), LAMBDA x : x[1] # "ret") = given

\* The factor that decides about a corrupted block is that of the option that
\* is most specific for the block it is a copy of.
FactorsAreTrue ==
  phase = "blocks" /\ it.b \in DOMAIN it.blocks =>
    fif(BB) = FactorOf(prog, opts, picked, <<BB[1], "orig", BB[3]>>)

\* The blocks in the order of the map file.
MapOrder ==
  LET functions == SelectSeq([f \in DOMAIN prog |-> f], LAMBDA f : can_instrument_function(prog, opts, f))
  IN  FlattenSeq([g \in DOMAIN functions |-> [b \in Blocks(functions[g]) |-> <<functions[g], b>>]])
IndexOf(n) == SelectInSeq(MapOrder, LAMBDA x : x = <<n[1], n[3]>>)

Arguments(B, op) == {B[k].args[Len(B[k].args)][2] : k \in {j \in DOMAIN B : B[j].op = op}}

\* The decision, the count, the logger, the statistics and the map file number
\* a block alike, from 1 to NumBbs, though each counts for itself.
NumbersAgree ==
  phase = "done" =>
    /\ Len(MapOrder) = NumBbs
    /\ Len(stats.per_bb) = NumBbs /\ Len(stats.bb_total) = NumBbs
    /\ FlattenSeq([f \in DOMAIN mapfile |-> [b \in DOMAIN mapfile[f].blocks |-> mapfile[f].name]])
         = [x \in DOMAIN MapOrder |-> prog[MapOrder[x][1]].name]
    /\ \A n \in {m \in DOMAIN code : m[2] = "head"} :
         Arguments(code[n], "test") \union Arguments(code[n], "count") = {IndexOf(n)}
    /\ \A n \in {m \in DOMAIN code : m[2] = "bad"} : Arguments(code[n], "log") \subseteq {IndexOf(n)}

\* The statistics of a block are what the map file says about it, and with one
\* fault per block exactly one is injected wherever one can be.
SaidOf(x) == FlattenSeq([f \in DOMAIN mapfile |-> mapfile[f].blocks])[x]
StatisticsAreTrue ==
  phase = "done" =>
    \A x \in 1 .. NumBbs :
      LET said == SaidOf(x)
          Times(ft) == Cardinality({k \in DOMAIN said : Contains(said[k].candidates, ft)})
          Injected(ft) == Cardinality({k \in DOMAIN said : ft \in said[k].injected})
      IN  /\ \A ft \in ToSet(FaultTypes(opts)) :
               /\ stats.per_bb[x][ft].candidates = Times(ft)
               /\ ~ opts.statistics_only => stats.per_bb[x][ft].injected = Injected(ft)
          /\ opts.oneFaultPerBlock =>
               stats.bb_total[x] = IF \E k \in DOMAIN said : said[k].candidates # <<>> THEN 1 ELSE 0

\* However activations change between the blocks as they were, the correct and
\* the corrupted copies, they follow the control flow of the function.
RunsFollowTheProgram ==
  \A a \in DOMAIN stack :
    LET n == stack[a].node
        f == n[1]
    IN  (can_instrument_function(prog, opts, f) /\ n[2] \in {"orig", "head"}) =>
          IF stack[a].from = 0 THEN n[3] = 1 ELSE Contains(Last(prog[f].blocks[stack[a].from]).to, n[3])

\* Without a command that falls between a load and a store of the flag, the
\* flag is what the last command made it when no function has it switched, and
\* a function that switches it off calls no faults until the next command, or
\* until a function that it calls switches it on
\* ("temporarily start/stop fault injection when entering particular functions").
SwitchedTo(a, value) == stack[a].saved # Unset /\ FlagOf(prog, opts, stack[a].node[1]) = value
FlagIsKept ==
  control.clean =>
    /\ (~ control.half /\ \A a \in DOMAIN stack : stack[a].saved = Unset) => flag = control.commanded
    /\ \A a \in DOMAIN stack : \A c \in a + 1 .. Len(stack) :
         /\ SwitchedTo(a, 0) /\ stack[a].version = version /\ ~ control.half
         /\ \A b \in a + 1 .. c : ~ SwitchedTo(b, 1)
         => stack[c].node[2] # "bad"

\* A program that is unconditionalized runs no corrupted block but the one that
\* was asked for, and its counts are those of the executions.
OnlyTheChosenBlock ==
  /\ opts.do_unconditionalize => \A a \in DOMAIN stack : stack[a].node[2] = "bad" => IndexOf(stack[a].node) = inject_bb
  /\ (phase = "done" /\ opts.do_inline_profiling) =>
       \A n \in DOMAIN executions.real :
         LET pending == {a \in DOMAIN stack : /\ stack[a].node = <<n[1], "head", n[3]>>
                                              /\ code[stack[a].node][stack[a].k].op = "test"}
         IN  executions.counted[IndexOf(n)] = executions.real[n] + Cardinality(pending)

\* All of these: what runOnModule writes, and how the program it leaves runs.
InjectionIsTrue ==
  /\ OptionsAreRead /\ CodeIsWellFormed /\ FaultsAreLocal /\ GoldenStaysGolden /\ FactorsAreTrue
  /\ NumbersAgree /\ StatisticsAreTrue /\ RunsFollowTheProgram /\ FlagIsKept /\ OnlyTheChosenBlock
=============================================================================
