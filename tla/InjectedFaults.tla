--------------------------- MODULE InjectedFaults ---------------------------
(***************************************************************************)
(* The types of faults that the EDFI pass can inject (Fault.cpp, Fault.h): *)
(* for each class, the instructions it is applicable to and the code that  *)
(* applying it leaves.                                                     *)
(*                                                                         *)
(* A basic block is a sequence of instructions.  An instruction has an id, *)
(* an opcode, the type of its value, operands, the blocks it branches to   *)
(* (or, in a PHI node, the blocks its operands come from), the function it *)
(* calls, and whether its name has ".reload" in it.  A value is a triple   *)
(* of a kind, a number and a type.  Applying a fault gives the new block,  *)
(* the value whose uses are replaced in the PHI nodes of other blocks too, *)
(* and the block that is no longer branched to.  rand() is a choice: apply *)
(* is the set of what it may leave.                                        *)
(***************************************************************************)
EXTENDS Integers, FiniteSets, SequencesExt, TLC

ArithmeticOps == {"add", "sub", "mul", "udiv", "sdiv", "urem", "srem", "and", "or", "xor"}
ShiftOps == {"shl", "lshr", "ashr"}
FloatOps == {"fadd", "fsub", "fmul", "fdiv"}
BinaryOps == ArithmeticOps \union ShiftOps \union FloatOps \union {"frem"}
isCommutative(i) == i.op \in {"add", "mul", "and", "or", "xor", "fadd", "fmul"}

IntegerTypes == {"i1", "i8", "i32", "i64", "i80", "i144"}

Const(n, type) == <<"const", n, type>>
Value(i) == <<"inst", i.id, i.type>>
NoValue == <<"none", 0, "void">>
NoNode == <<0, "none", 0>>

Instruction(id, op, type, args, to, callee) ==
  [id |-> id, op |-> op, type |-> type, args |-> args, to |-> to, callee |-> callee, reload |-> FALSE]

\* The n-th new instruction in a block.
New(B, n, op, type, args, callee) ==
  Instruction(Max({B[k].id : k \in DOMAIN B} \union {100}) + n, op, type, args, <<>>, callee)

\* The first instruction that is not a PHI node.
getFirstNonPHI(B) == SelectInSeq(B, LAMBDA i : i.op # "phi")

replaceAllUsesWith(B, i, v) ==
  [k \in DOMAIN B |-> [B[k] EXCEPT !.args = [a \in DOMAIN B[k].args |->
                         IF B[k].args[a] = Value(i) THEN v ELSE B[k].args[a]]]]

\* What applying a fault leaves, when it replaces the uses of no value, or
\* those of an instruction.
Left(B) == [code |-> B, old |-> NoValue, new |-> NoValue, unlinked |-> NoNode]
Replaced(B, i, v) == [Left(B) EXCEPT !.old = Value(i), !.new = v]

\* The instruction is followed by one that changes its value for its users.
ChangedBy(B, k, op) ==
  LET Change == New(B, 1, op, B[k].type, <<Value(B[k]), Const(1, B[k].type)>>, <<>>)
  IN  Replaced(InsertAt(replaceAllUsesWith(B, B[k], Value(Change)), k + 1, Change), B[k], Value(Change))

\* The instruction is replaced by others, the last of which has its users.
ReplacedBy(B, k, new) ==
  LET uses == replaceAllUsesWith(B, B[k], Value(Last(new)))
  IN  Replaced(SubSeq(uses, 1, k - 1) \o new \o SubSeq(uses, k + 1, Len(B)), B[k], Value(Last(new)))

isConditional(i) == i.op = "br" /\ Len(i.to) = 2

\* Only the s-th successor is left; the other forgets this predecessor.
StuckAt(B, k, s) ==
  [Left([B EXCEPT ![k].to = <<B[k].to[s]>>, ![k].args = <<>>]) EXCEPT !.unlinked = B[k].to[3 - s]]

-----------------------------------------------------------------------------
(* Operands and values.                                                    *)

SwapFault_isApplicable(i) == i.op \in BinaryOps
SwapFault_apply(B, k) == {Left([B EXCEPT ![k].args = <<B[k].args[2], B[k].args[1]>>])}

SwapFaultV2_isApplicable(i) == ~ isCommutative(i) /\ i.op \in BinaryOps
SwapFaultV2_apply(B, k) == {Left([B EXCEPT ![k].args = <<B[k].args[2], B[k].args[1]>>])}

NoLoadFault_isApplicable(i) == i.op = "load" /\ i.type \in IntegerTypes
NoLoadFault_apply(B, k) ==
  LET newValue == Const(0, B[k].type)
  IN  {Replaced(RemoveAt(replaceAllUsesWith(B, B[k], newValue), k), B[k], newValue)}

RndLoadFault_isApplicable(i) == i.op = "load" /\ i.type = "i32"
RndLoadFault_apply(B, k) == {ReplacedBy(B, k, <<New(B, 1, "call", "i32", <<>>, <<"edfi_rand">>)>>)}

NoStoreFault_isApplicable(i) == i.op = "store"
NoStoreFault_apply(B, k) == {Left(RemoveAt(B, k))}

FlipBoolFault_isApplicable(i) == i.type = "i1"
FlipBoolFault_apply(B, k) == {ChangedBy(B, k, "xor")}

CorruptPointerFault_isApplicable(i) == i.type = "ptr"
CorruptPointerFault_apply(B, k) ==
  LET PtrRandFuncCall == New(B, 1, "call", "i32", <<>>, <<"edfi_rand">>)
      rand64 == New(B, 2, "sext", "i64", <<Value(PtrRandFuncCall)>>, <<>>)
      rnd_ptr == New(B, 3, "inttoptr", "ptr", <<Value(rand64)>>, <<>>)
  IN  {ReplacedBy(B, k, <<PtrRandFuncCall, rand64, rnd_ptr>>)}

NullPointerFault_isApplicable(B, k) == k = getFirstNonPHI(B)
NullPointerFault_apply(B, k) ==
  {Left(InsertAt(B, getFirstNonPHI(B), New(B, 1, "store", "void", <<Const(0, "i32"), Const(0, "ptr")>>, <<>>)))}

CorruptIndexFault_isApplicable(B, k) ==
  B[k].type = "i32" /\ \E u \in DOMAIN B : B[u].op = "gep" /\ Contains(B[u].args, Value(B[k]))
CorruptIndexFault_apply(B, k) == {ChangedBy(B, k, op) : op \in {"add", "sub"}}

CorruptIntegerFault_isApplicable(i) == i.type = "i32"
CorruptIntegerFault_apply(B, k) == {ChangedBy(B, k, op) : op \in {"add", "sub"}}

\* Another operator takes the operands and the users.
WithOperator(B, k, op) == ReplacedBy(B, k, <<New(B, 1, op, B[k].type, B[k].args, <<>>)>>)

CorruptOperatorFault_isApplicable(i) == i.op \in BinaryOps
CorruptOperatorFault_apply(B, k) ==
  LET ops == IF B[k].type \in IntegerTypes THEN ArithmeticOps \union ShiftOps ELSE FloatOps
  IN  {WithOperator(B, k, op) : op \in ops}

CorruptOperatorFaultV2_isApplicable(i) == i.op \in BinaryOps /\ i.type \notin {"i80", "i144"}

\* The operators of the class of an operator, but not itself; none can become
\* the remainder of floating point numbers.
addOp(op) ==
  CASE op \in ArithmeticOps -> ArithmeticOps \ {op}
    [] op \in ShiftOps -> ShiftOps \ {op}
    [] op \in FloatOps \union {"frem"} -> FloatOps \ {op}
CorruptOperatorFaultV2_apply(B, k) == {WithOperator(B, k, op) : op \in addOp(B[k].op)}

-----------------------------------------------------------------------------
(* Branches.  The header of the innermost loop of the block, if it is in   *)
(* one, comes from LLVM.                                                   *)

FlipBranchFault_isApplicable(i) == isConditional(i)
FlipBranchFault_apply(B, k) == {Left([B EXCEPT ![k].to = <<B[k].to[2], B[k].to[1]>>])}

StuckAtBranchFault_isApplicable(i) == isConditional(i)
StuckAtBranchFault_apply(B, k) == {StuckAt(B, k, prevailing_succ) : prevailing_succ \in 1 .. 2}

StuckAtLoopFault_isApplicable(i, header) == isConditional(i) /\ header # NoNode /\ Contains(i.to, header)
StuckAtLoopFault_apply(B, k, header) == {StuckAt(B, k, SelectInSeq(B[k].to, LAMBDA n : n = header))}

-----------------------------------------------------------------------------
(* Calls that get a wrapper.  The intrinsics of LLVM end in the width of   *)
(* the length; a wrapper is named after the function it replaces.          *)

EdfiWrapper(name, suffix) == <<"edfi", name, suffix>>
WrapperName == [wrapMemCpy |-> "memcpy", wrapMemMove |-> "memmove", wrapMemSet |-> "memset"]

\* An entry of function_wrappers_map: the first one for a function counts.
init_wrapper(map, entry) == IF entry[1] \in DOMAIN map THEN map ELSE map @@ (entry[1] :> entry[2])
init_wrappers(entries) == FoldLeft(init_wrapper, <<>>, entries)

Intrinsics == [memcpy |-> <<"wrapMemCpy", "wrapMemMove", "wrapMemSet">>,
               memmove |-> <<"wrapMemMove", "wrapMemSet">>, memset |-> <<"wrapMemSet">>]
IntrinsicsOf(width) ==
  FlattenSeq([n \in 1 .. 3 |->
    LET name == <<"memcpy", "memmove", "memset">>[n]
    IN  [w \in DOMAIN Intrinsics[name] |-> <<<<"llvm", name, width>>, Intrinsics[name][w]>>]])
BufferOverflowFault_init_wrappers ==
  init_wrappers(IntrinsicsOf("i32") \o IntrinsicsOf("i64")
    \o [n \in 1 .. 5 |-> <<<<<<"memcpy", "memmove", "memset", "strcpy", "strncpy">>[n]>>, "defaultWrap">>])
MemLeakFault_init_wrappers == init_wrappers(<<<<<<"free">>, "defaultWrap">>, <<<<"munmap">>, "defaultWrap">>>>)
DanglingPointerFault_init_wrappers == init_wrappers(<<<<<<"malloc">>, "defaultWrap">>>>)

function_wrappers_map(ft) ==
  CASE ft = "BufferOverflowFault" -> BufferOverflowFault_init_wrappers
    [] ft = "MemLeakFault" -> MemLeakFault_init_wrappers
    [] ft = "DanglingPointerFault" -> DanglingPointerFault_init_wrappers

WrapperFaultType_isApplicable(ft, i) == i.op = "call" /\ i.callee \in DOMAIN function_wrappers_map(ft)

defaultWrap(B, k) == Left([B EXCEPT ![k].callee = EdfiWrapper(B[k].callee[1], "")])

\* The wrapper of an intrinsic is called with its first three arguments, for
\* memset with the byte extended to an int.
wrapMem(B, k, wrapper) ==
  LET args == SubSeq(B[k].args, 1, 3)
      callee == EdfiWrapper(WrapperName[wrapper], IF args[3][3] = "i64" THEN "64" ELSE "")
      extended == New(B, 1, "sext", "i32", <<args[2]>>, <<>>)
  IN  IF wrapper = "wrapMemSet"
      THEN ReplacedBy(B, k, <<extended, New(B, 2, "call", "ptr", <<args[1], Value(extended), args[3]>>, callee)>>)
      ELSE ReplacedBy(B, k, <<New(B, 1, "call", "ptr", args, callee)>>)

WrapperFaultType_apply(ft, B, k) ==
  LET wrapper == function_wrappers_map(ft)[B[k].callee]
  IN  {IF wrapper = "defaultWrap" THEN defaultWrap(B, k) ELSE wrapMem(B, k, wrapper)}

-----------------------------------------------------------------------------
(* The interface of a fault type.                                          *)

WrapperFaultTypes == {"BufferOverflowFault", "MemLeakFault", "DanglingPointerFault"}

isApplicable(ft, B, k, header) ==
  LET i == B[k]
  IN  CASE ft = "SwapFault" -> SwapFault_isApplicable(i)
        [] ft = "SwapFaultV2" -> SwapFaultV2_isApplicable(i)
        [] ft = "NoLoadFault" -> NoLoadFault_isApplicable(i)
        [] ft = "RndLoadFault" -> RndLoadFault_isApplicable(i)
        [] ft = "NoStoreFault" -> NoStoreFault_isApplicable(i)
        [] ft = "FlipBranchFault" -> FlipBranchFault_isApplicable(i)
        [] ft = "FlipBoolFault" -> FlipBoolFault_isApplicable(i)
        [] ft = "CorruptPointerFault" -> CorruptPointerFault_isApplicable(i)
        [] ft = "CorruptIndexFault" -> CorruptIndexFault_isApplicable(B, k)
        [] ft = "CorruptIntegerFault" -> CorruptIntegerFault_isApplicable(i)
        [] ft = "CorruptOperatorFault" -> CorruptOperatorFault_isApplicable(i)
        [] ft = "CorruptOperatorFaultV2" -> CorruptOperatorFaultV2_isApplicable(i)
        [] ft = "StuckAtBranchFault" -> StuckAtBranchFault_isApplicable(i)
        [] ft = "StuckAtLoopFault" -> StuckAtLoopFault_isApplicable(i, header)
        [] ft \in WrapperFaultTypes -> WrapperFaultType_isApplicable(ft, i)
        [] ft = "NullPointerFault" -> NullPointerFault_isApplicable(B, k)

apply(ft, B, k, header) ==
  CASE ft = "SwapFault" -> SwapFault_apply(B, k)
    [] ft = "SwapFaultV2" -> SwapFaultV2_apply(B, k)
    [] ft = "NoLoadFault" -> NoLoadFault_apply(B, k)
    [] ft = "RndLoadFault" -> RndLoadFault_apply(B, k)
    [] ft = "NoStoreFault" -> NoStoreFault_apply(B, k)
    [] ft = "FlipBranchFault" -> FlipBranchFault_apply(B, k)
    [] ft = "FlipBoolFault" -> FlipBoolFault_apply(B, k)
    [] ft = "CorruptPointerFault" -> CorruptPointerFault_apply(B, k)
    [] ft = "CorruptIndexFault" -> CorruptIndexFault_apply(B, k)
    [] ft = "CorruptIntegerFault" -> CorruptIntegerFault_apply(B, k)
    [] ft = "CorruptOperatorFault" -> CorruptOperatorFault_apply(B, k)
    [] ft = "CorruptOperatorFaultV2" -> CorruptOperatorFaultV2_apply(B, k)
    [] ft = "StuckAtBranchFault" -> StuckAtBranchFault_apply(B, k)
    [] ft = "StuckAtLoopFault" -> StuckAtLoopFault_apply(B, k, header)
    [] ft \in WrapperFaultTypes -> WrapperFaultType_apply(ft, B, k)
    [] ft = "NullPointerFault" -> NullPointerFault_apply(B, k)

-----------------------------------------------------------------------------
(* What code must be like, before and after.                               *)

\* The parameters and the result of a function that is called; size_t has the
\* width of the build.
Signature(callee, size_t) ==
  CASE callee[1] = "edfi_rand" -> <<<<>>, "i32">>
    [] callee[1] = "llvm" -> <<<<"ptr", IF callee[2] = "memset" THEN "i8" ELSE "ptr", callee[3]>>, "void">>
    [] callee[1] = "edfi" ->
         LET n == IF callee[3] = "64" THEN "i64" ELSE size_t
         IN  CASE callee[2] \in {"memcpy", "memmove"} -> <<<<"ptr", "ptr", n>>, "ptr">>
               [] callee[2] = "memset" -> <<<<"ptr", "i32", n>>, "ptr">>
               [] callee[2] = "strncpy" -> <<<<"ptr", "ptr", n>>, "ptr">>
               [] callee[2] = "strcpy" -> <<<<"ptr", "ptr">>, "ptr">>
               [] callee[2] = "malloc" -> <<<<n>>, "ptr">>
               [] callee[2] = "free" -> <<<<"ptr">>, "void">>
               [] callee[2] = "munmap" -> <<<<"ptr", n>>, "i32">>

\* The operands and the value of an instruction have the types it needs.
WellTyped(i, size_t) ==
  LET types == [a \in DOMAIN i.args |-> i.args[a][3]]
  IN  CASE i.op \in BinaryOps -> types = <<i.type, i.type>>
        [] i.op = "load" -> types = <<"ptr">>
        [] i.op = "store" -> Len(types) = 2 /\ types[2] = "ptr" /\ types[1] # "void"
        [] i.op = "icmp" -> i.type = "i1" /\ Len(types) = 2 /\ types[1] = types[2]
        [] i.op = "gep" -> i.type = "ptr" /\ types[1] = "ptr" /\ \A a \in 2 .. Len(types) : types[a] \in IntegerTypes
        [] i.op = "sext" -> <<types, i.type>> \in {<<<<"i8">>, "i32">>, <<<<"i32">>, "i64">>}
        [] i.op = "inttoptr" -> types = <<"i64">> /\ i.type = "ptr"
        [] i.op = "br" -> <<types, Len(i.to)>> \in {<<<<>>, 1>>, <<<<"i1">>, 2>>}
        [] i.op = "call" /\ i.callee[1] \in {"edfi", "edfi_rand", "llvm"} -> <<types, i.type>> = Signature(i.callee, size_t)
        [] OTHER -> TRUE

Terminators == {"br", "ret", "test"}

\* A block uses only values that it has by then, or gets from the outside, and
\* ends with its only terminator.
WellFormed(B, given, size_t) ==
  /\ Len(B) > 0
  /\ \A k \in DOMAIN B :
       /\ (B[k].op \in Terminators) <=> (k = Len(B))
       /\ B[k].op = "phi" \/ (/\ WellTyped(B[k], size_t)
                              /\ \A a \in DOMAIN B[k].args :
                                   \/ B[k].args[a][1] # "inst"
                                   \/ B[k].args[a] \in given
                                   \/ \E j \in 1 .. k - 1 : B[k].args[a] = Value(B[j]))

\* What a fault leaves of the other instructions: all of them, in their order,
\* with no operand changed that is not the value of the faulty one.
OthersStay(B, k, new) ==
  LET others == SelectSeq(B, LAMBDA i : i.id # B[k].id)
      kept == SelectSeq(new, LAMBDA i : \E j \in DOMAIN others : others[j].id = i.id)
  IN  /\ Len(kept) = Len(others)
      /\ \A j \in DOMAIN others :
           /\ [kept[j] EXCEPT !.args = <<>>] = [others[j] EXCEPT !.args = <<>>]
           /\ \A a \in DOMAIN others[j].args : others[j].args[a] # Value(B[k]) => kept[j].args[a] = others[j].args[a]
=============================================================================
