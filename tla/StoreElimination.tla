--------------------------- MODULE StoreElimination ---------------------------
(***************************************************************************)
(* The checkpoint instrumentation passes (src/llvm/passes/ltckpt): which   *)
(* stores and memory intrinsics of a module get a hook that saves what     *)
(* they overwrite, which lose it again because another store saves the     *)
(* same, and how the instrumented program then writes between checkpoints. *)
(*                                                                         *)
(* A function has blocks of instructions, and pointer values: a global or  *)
(* a stack object, what an instruction defines ("any" of some objects), a  *)
(* PHI node, and addresses and casts computed from others.  A position is  *)
(* <<block, index>>.  Memory is a set of cells <<object, offset>>; of each *)
(* it matters only whether it was written since the last checkpoint        *)
(* (dirty), and whether its value then was saved (logged).                 *)
(***************************************************************************)
EXTENDS Integers, FiniteSets, SequencesExt

CONSTANTS
  Cases, \* modules with the options of the pass: records with funcs, the
         \* objects that outlive calls, tol (the names of -tol) and options
  Unit   \* the cells that a store hook saves, as many as a store can write

VARIABLES
  funcs,    \* the module
  opts,     \* the pass ("basic", "heap", "wc"), the options and the build
  tol,      \* the functions that are the top of the loop
  survives, \* the objects that outlive a call
  at,       \* the next function of the pass
  hooks,    \* for each function, the hooks: where, of which value, which cells
  chains,   \* for each function, the chains of aggregated stores
  first,    \* for each function, the hooks before its first instruction
  late,     \* for each function, the calls that the late set-up hook follows
  stack,    \* the activations of the program
  dirty, logged,
  ran,      \* the hooks "conf", "late" and "tol" that have run
  spanned   \* a caller of the last checkpoint has stores without their hooks

vars == <<funcs, opts, tol, survives, at, hooks, chains, first, late,
          stack, dirty, logged, ran, spanned>>
passVars == <<funcs, opts, tol, survives, at, hooks, chains, first, late>>

-----------------------------------------------------------------------------
(* Values and control flow (LLVM).                                         *)

RECURSIVE Strip(_, _, _)
Strip(F, v, through) == IF v \in through THEN Strip(F, F.values[v].of, through) ELSE v

isCast(x) == x.kind \in {"cast", "alias"}
Casts(F) == {v \in DOMAIN F.values : isCast(F.values[v])}
Geps(F) == {v \in DOMAIN F.values : F.values[v].kind = "gep"}

stripCasts(F, v) == Strip(F, v, Casts(F))
stripPointerCasts(F, v) ==
  Strip(F, v, Casts(F) \union {w \in Geps(F) : F.values[w].constant /\ F.values[w].off = 0})
stripInBoundsOffsets(F, v) == Strip(F, v, Casts(F) \union {w \in Geps(F) : F.values[w].inbounds})

Instr(F, p) == F.blocks[p[1]][p[2]]
Positions(F, op) == {p \in UNION {{b} \X DOMAIN F.blocks[b] : b \in DOMAIN F.blocks} : Instr(F, p).op = op}

RECURSIVE ReachedFrom(_, _, _)
ReachedFrom(F, seen, without) ==
  LET next == seen \union (UNION {ToSet(Last(F.blocks[b]).to) : b \in seen} \ without)
  IN  IF next = seen THEN seen ELSE ReachedFrom(F, next, without)

\* Whether a block dominates a block, and an instruction an instruction; what
\* is unreachable is dominated by everything.
dominatesBlock(F, a, b) ==
  \/ b \notin ReachedFrom(F, {1}, {})
  \/ a \in ReachedFrom(F, {1}, {}) /\ (a = b \/ b \notin ReachedFrom(F, {1} \ {a}, {a}))
dominates(F, p, q) == IF p[1] = q[1] THEN p[2] < q[2] ELSE dominatesBlock(F, p[1], q[1])

-----------------------------------------------------------------------------
(* The instructions that are to be instrumented.                           *)

\* The object that a pointer is computed from.
RECURSIVE UnderlyingObject(_, _)
UnderlyingObject(F, v) ==
  LET V == stripInBoundsOffsets(F, v)
  IN  IF F.values[V].kind = "gep" THEN UnderlyingObject(F, F.values[V].of) ELSE V

\* The PHI nodes that a PHI node gets its values from, and these values.
Incoming(F, P) == {stripInBoundsOffsets(F, v) : v \in {F.values[P].from[x] : x \in DOMAIN F.values[P].from}}
RECURSIVE PhiNodes(_, _)
PhiNodes(F, nodes) ==
  LET next == nodes \union {v \in UNION {Incoming(F, P) : P \in nodes} : F.values[v].kind = "phi"}
  IN  IF next = nodes THEN nodes ELSE PhiNodes(F, next)
getValuesForPhiNode(F, P) == {v \in UNION {Incoming(F, Q) : Q \in PhiNodes(F, {P})} : F.values[v].kind # "phi"}

isAlloca(F, v) == F.values[v].kind = "alloca"

\* The data structure analysis knows a node of it, complete and not global.
NotEscaping(F, V) == opts.LLVM_HAS_DSA /\ F.values[V].local

basic_storeToBeInstrumented(F, p) ==
  LET V == UnderlyingObject(F, Instr(F, p).ptr)
      all_alloca == F.values[V].kind = "phi" /\ \A v \in getValuesForPhiNode(F, V) : isAlloca(F, v)
  IN  /\ ~ (opts.skip_alloca /\ (all_alloca \/ isAlloca(F, V)))
      /\ ~ NotEscaping(F, V)

basic_memIntrinsicToBeInstrumented(F, p) == ~ (opts.skip_alloca /\ isAlloca(F, UnderlyingObject(F, Instr(F, p).ptr)))

\* A store before it, in a block that dominates its own, through the same
\* pointer.
doubleCheckStore(F, p) ==
  ~ \E q \in Positions(F, "store") :
      /\ dominatesBlock(F, q[1], p[1])
      /\ q[1] = p[1] => q[2] < p[2]
      /\ Instr(F, q).ptr = Instr(F, p).ptr

storeToBeInstrumented(F, p) ==
  CASE opts.pass = "wc" -> TRUE
    [] opts.pass = "basic" -> basic_storeToBeInstrumented(F, p)
    [] opts.pass = "heap" -> basic_storeToBeInstrumented(F, p) /\ doubleCheckStore(F, p)

memIntrinsicToBeInstrumented(F, p) == opts.pass = "basic" => basic_memIntrinsicToBeInstrumented(F, p)

-----------------------------------------------------------------------------
(* Hooks that others make superfluous.                                     *)


\* The stores through casts of the pointer of a store that dominates them.
recusercheck(F, S) ==
  {ss \in Positions(F, "store") : /\ dominates(F, S, ss)
                                  /\ stripCasts(F, Instr(F, ss).ptr) = stripPointerCasts(F, Instr(F, S).ptr)}

eliminateDoubleStores(F, IL) ==
  IF opts.LLVM_HAS_DSA THEN IL \ UNION {recusercheck(F, S) : S \in IL \intersect Positions(F, "store")} ELSE IL

\* The base of a pointer, and the constant offset from it.
RECURSIVE BaseAndOffset(_, _, _)
BaseAndOffset(F, v, Offset) ==
  LET x == F.values[v]
  IN  IF isCast(x) THEN BaseAndOffset(F, x.of, Offset)
      ELSE IF x.kind = "gep" /\ x.inbounds /\ x.constant THEN BaseAndOffset(F, x.of, Offset + x.off)
      ELSE <<v, Offset>>

\* A store joins the first chain of its base whose leader it is dominated by,
\* or dominates, and leads it then; else it starts one.
addStore(F, dcl, entry) ==
  LET Leader(d) == Head(dcl[d].stores).at
      fits == {d \in DOMAIN dcl : /\ dcl[d].base = entry.base
                                  /\ dominates(F, Leader(d), entry.at) \/ dominates(F, entry.at, Leader(d))}
      d == Min(fits)
  IN  IF fits = {} THEN Append(dcl, [base |-> entry.base, stores |-> <<entry>>])
      ELSE [dcl EXCEPT ![d].stores = IF dominates(F, Leader(d), entry.at) THEN Append(@, entry) ELSE <<entry>> \o @]

\* The chains, in the order in which the set of stores is walked.
Chains(F, order) ==
  LET Entry(p) == LET b == BaseAndOffset(F, Instr(F, p).ptr, 0) IN [at |-> p, base |-> b[1], off |-> b[2]]
      Add(dcl, p) == addStore(F, dcl, Entry(p))
  IN  SelectSeq(FoldLeft(Add, <<>>, order), LAMBDA dc : Len(dc.stores) > 1)

instrumentRange(ptr, from, size, inst) == [at |-> inst, value |-> ptr, from |-> from, size |-> size]

\* One hook at the leader for all stores of a chain, from the least offset on;
\* the size is the greatest offset.
dump(dc) ==
  LET offsets == {dc.stores[x].off : x \in DOMAIN dc.stores}
  IN  instrumentRange(dc.base, Min(offsets), Max(offsets), Head(dc.stores).at)

instrumentStore(F, p) == [at |-> p, value |-> Instr(F, p).ptr, from |-> 0, size |-> Unit]
instrumentMemIntrinsic(F, p) == [at |-> p, value |-> Instr(F, p).ptr, from |-> 0, size |-> Instr(F, p).width]

-----------------------------------------------------------------------------
(* The pass.                                                               *)

isInLtckptSection(F) == F.section = "ltckpt_functions"
Uninstrumented(F) == isInLtckptSection(F) \/ F.prefix \in {"__libc", "dl", "hypermem"}

\* The hooks before the first instruction, and the special case of the VM: a
\* hook after each call of init_vm in main.
instrumentConfSetup(F) == IF F.name = "ltckpt_conf_setup" THEN {"conf"} ELSE {}
instrumentTopOfTheLoop(F) == IF F.name \in tol /\ ~ Uninstrumented(F) THEN {"tol"} ELSE {}
LateInit(F) == IF opts.vm /\ F.name = "main" THEN {p \in Positions(F, "call") : Instr(F, p).callee = "init_vm"} ELSE {}

Init ==
  \E case \in Cases :
    /\ funcs = case.funcs /\ opts = case.opts /\ tol = case.tol /\ survives = case.survives
    /\ at = 1
    /\ hooks = [f \in DOMAIN case.funcs |-> {}]
    /\ chains = [f \in DOMAIN case.funcs |-> <<>>]
    /\ first = [f \in DOMAIN case.funcs |-> {}]
    /\ late = [f \in DOMAIN case.funcs |-> {}]
    /\ stack = <<>>
    /\ dirty = {} /\ logged = {}
    /\ ran = {}
    /\ spanned = FALSE

onFunction ==
  /\ at \in DOMAIN funcs
  /\ at' = at + 1
  /\ LET F == funcs[at]
         stores == {p \in Positions(F, "store") : storeToBeInstrumented(F, p)}
         intrinsics == {p \in Positions(F, "mem") : memIntrinsicToBeInstrumented(F, p)}
         left == eliminateDoubleStores(F, stores)
     IN  /\ first' = [first EXCEPT ![at] = instrumentConfSetup(F) \union instrumentTopOfTheLoop(F)]
         /\ late' = [late EXCEPT ![at] = LateInit(F)]
         /\ \/ Uninstrumented(F) /\ UNCHANGED <<hooks, chains>>
            \/ /\ ~ Uninstrumented(F)
               /\ \E order \in IF opts.aggregate THEN SetToSeqs(left) ELSE {<<>>} :
                    LET dcl == Chains(F, order)
                        toDelSet == UNION {{dcl[d].stores[x].at : x \in DOMAIN dcl[d].stores} : d \in DOMAIN dcl}
                    IN  /\ chains' = [chains EXCEPT ![at] = dcl]
                        /\ hooks' = [hooks EXCEPT ![at] = {dump(dcl[d]) : d \in DOMAIN dcl}
                                    \union {instrumentStore(F, p) : p \in left \ toDelSet}
                                    \union {instrumentMemIntrinsic(F, p) : p \in intrinsics}]
  /\ UNCHANGED <<funcs, opts, tol, survives, stack, dirty, logged, ran, spanned>>

-----------------------------------------------------------------------------
(* The program.  An activation has its function, its position and the      *)
(* addresses of the values defined so far.                                 *)

Running == at \notin DOMAIN funcs
Here == Last(stack)
F0 == funcs[Here.f]
I0 == Instr(F0, Here.pos)
Top(frame) == [stack EXCEPT ![Len(stack)] = frame]
Next1 == [Here EXCEPT !.pos = <<Here.pos[1], Here.pos[2] + 1>>]

RECURSIVE Address(_, _, _)
Address(F, env, v) ==
  LET x == F.values[v]
  IN  CASE x.kind \in {"global", "alloca"} -> <<x.obj, 0>>
        [] x.kind \in {"any", "phi"} -> env[v]
        [] isCast(x) -> Address(F, env, x.of)
        [] x.kind = "gep" -> <<Address(F, env, x.of)[1], Address(F, env, x.of)[2] + x.off>>
Cells(v, from, size) ==
  LET a == Address(F0, Here.env, v) IN {<<a[1], a[2] + from + n>> : n \in 0 .. size - 1}

\* A function has a store that needs a hook and has none of its own.
Removes(f) == \E p \in Positions(funcs[f], "store") :
                /\ opts.pass = "wc" \/ basic_storeToBeInstrumented(funcs[f], p)
                /\ \A h \in hooks[f] : h.at # p

\* Entering a function, and the hooks before its first instruction: the top of
\* the loop takes a checkpoint.
Enter(f, callers) ==
  /\ stack' = Append(callers, [f |-> f, pos |-> <<1, 1>>, env |-> [v \in DOMAIN funcs[f].values |-> <<>>]])
  /\ ran' = ran \union first[f]
  /\ \/ /\ "tol" \in first[f]
        /\ dirty' = {} /\ logged' = {}
        /\ spanned' = \E a \in DOMAIN callers : Removes(callers[a].f)
     \/ "tol" \notin first[f] /\ UNCHANGED <<dirty, logged, spanned>>

Start == Running /\ stack = <<>> /\ Enter(1, <<>>) /\ UNCHANGED passVars

Call ==
  /\ Running /\ stack # <<>> /\ I0.op = "call"
  /\ \E f \in DOMAIN funcs : funcs[f].name = I0.callee /\ Enter(f, Top(Next1))
  /\ UNCHANGED passVars

\* A store or a memory intrinsic, after the hooks in front of it.
Write ==
  /\ Running /\ stack # <<>> /\ I0.op \in {"store", "mem"}
  /\ logged' = logged \union (UNION {Cells(h.value, h.from, h.size) : h \in {g \in hooks[Here.f] : g.at = Here.pos}} \ dirty)
  /\ dirty' = dirty \union Cells(I0.ptr, 0, I0.width)
  /\ stack' = Top(Next1)
  /\ UNCHANGED <<passVars, ran, spanned>>

Define ==
  /\ Running /\ stack # <<>> /\ I0.op = "def"
  /\ \E obj \in F0.values[I0.ptr].objs : stack' = Top([Next1 EXCEPT !.env[I0.ptr] = <<obj, 0>>])
  /\ UNCHANGED <<passVars, dirty, logged, ran, spanned>>

Jump ==
  /\ Running /\ stack # <<>> /\ I0.op = "br"
  /\ \E b \in ToSet(I0.to) :
       LET phis == {v \in DOMAIN F0.values : F0.values[v].kind = "phi" /\ F0.values[v].block = b}
       IN  stack' = Top([Here EXCEPT !.pos = <<b, 1>>,
                          !.env = [v \in DOMAIN @ |-> IF v \in phis THEN Address(F0, @, F0.values[v].from[Here.pos[1]]) ELSE @[v]]])
  /\ UNCHANGED <<passVars, dirty, logged, ran, spanned>>

Return ==
  /\ Running /\ stack # <<>> /\ I0.op = "ret"
  /\ stack' = Front(stack)
  /\ LET caller == stack[Len(stack) - 1]
         called == <<caller.pos[1], caller.pos[2] - 1>>
     IN  ran' = IF Len(stack) > 1 /\ called \in late[caller.f] THEN ran \union {"late"} ELSE ran
  /\ UNCHANGED <<passVars, dirty, logged, spanned>>

Next == onFunction \/ Start \/ Call \/ Write \/ Define \/ Jump \/ Return

-----------------------------------------------------------------------------
(* Properties.                                                             *)

\* Every variable keeps its type.
TypeOK ==
  /\ at \in 1 .. Len(funcs) + 1
  /\ \A f \in DOMAIN funcs : \A h \in hooks[f] : Instr(funcs[f], h.at).op \in {"store", "mem"} /\ h.from \in Nat
  /\ \A a \in DOMAIN stack : stack[a].pos[2] \in DOMAIN funcs[stack[a].f].blocks[stack[a].pos[1]]
  /\ spanned \in BOOLEAN

\* However the passes skip and eliminate hooks, what is overwritten since the
\* last checkpoint was saved before, wherever it outlives the call, as long as
\* no function that was left without a hook is in the middle of its stores at
\* the checkpoint (storeToBeInstrumented, eliminateDoubleStores,
\* doubleCheckStore).
WritesAreSaved ==
  ~ opts.aggregate /\ ~ spanned => {c \in dirty : c[1] \in survives} \subseteq logged

\* Whatever the order in which the stores are walked, the one hook of a chain
\* is at a store that dominates all others of it (ObjectStoreDomationMap).
ChainsAreLed ==
  \A f \in DOMAIN funcs : \A d \in DOMAIN chains[f] :
    LET stores == chains[f][d].stores
    IN  \A x \in 2 .. Len(stores) : dominates(funcs[f], stores[1].at, stores[x].at)

\* No checkpoint is taken before the method was set up, in the VM after
\* init_vm, though the set-up function is itself one that is left alone
\* (instrumentConfSetup, vmLateInitHook).
CheckpointsAreSetUp == "tol" \in ran => "conf" \in ran /\ (opts.vm => "late" \in ran)
=============================================================================
