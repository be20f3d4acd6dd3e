-------------------------- MODULE InjectionOptions --------------------------
(***************************************************************************)
(* What the command line of the EDFI pass asks for (FaultInjector.cpp):    *)
(* the options and their parsers, the functions that may be instrumented,  *)
(* the fault impact factors (fif) of their blocks, the types of faults,    *)
(* and the functions that switch the injection flag.                       *)
(*                                                                         *)
(* A module is a sequence of functions, each with its name, its section,   *)
(* its source path (<<>> without debug information) and its blocks; a      *)
(* function without blocks is a declaration.  Block b of function f is the *)
(* node <<f, "orig", b>>.  Probabilities and factors are counted in        *)
(* halves, 2 being 1.0, and rand() in quarters.  A regular expression is   *)
(* the set of strings it matches.                                          *)
(***************************************************************************)
EXTENDS InjectedFaults

CONSTANTS
  Wrappers, \* the names that match .*_wrapper
  Onfdps    \* the names that match .*_onfdp.*

-----------------------------------------------------------------------------
(* The options.                                                            *)

\* An option that is not given where that makes a difference.
Unset == -1

\* The command line with no option.  The compatibility mode is "dsn", "atc" or
\* "none"; functions_FIF, functioncallers_FIF and the probabilities are
\* functions on what they name, modules_FIF is in the order of its keys.
Default ==
  [func_min |-> 0, func_max |-> 100, random_BB_FIF |-> <<0, 0>>,
   functions_FIF |-> <<>>, functioncallers_FIF |-> <<>>, modules_FIF |-> <<>>, global_FIF |-> 2,
   FunctionNames |-> {}, SkipFunctionNames |-> {}, ModuleNames |-> <<>>, FaultTypeNames |-> {},
   prob |-> <<>>, prob_default |-> Unset, do_unconditionalize |-> FALSE, do_inline_profiling |-> FALSE,
   fault_selector |-> {}, statistics_only |-> FALSE, noDFTs |-> FALSE, noDFLs |-> FALSE,
   compat |-> "none", oneFaultPerBlock |-> FALSE, doLoopHeaderSwitching |-> FALSE, switchFlagMap |-> <<>>,
   COUNT_ALL_BLOCKS |-> FALSE, size_t |-> "i64"]

Digits == <<"0", "1", "2", "3", "4", "5", "6", "7", "8", "9">>
isdigit(char) == \E d \in DOMAIN Digits : Digits[d] = char
Number(chars) == FoldLeft(LAMBDA n, char : 10 * n + SelectInSeq(Digits, LAMBDA d : d = char) - 1, 0, chars)

\* The first position from s on at which a condition does not hold.
SkipWhile(arg, s, Holds(_)) == Min({p \in s .. Len(arg) + 1 : p > Len(arg) \/ ~ Holds(arg[p])})

\* The end of the pass: an error of an option, or an assertion that fails.
Error == [ok |-> FALSE]

\* function:index pairs, separated by commas.
RECURSIVE SelectorsFrom(_, _, _)
SelectorsFrom(arg, s, val) ==
  LET func_end == SkipWhile(arg, s, LAMBDA char : char \notin {":", ","})
      index_end == SkipWhile(arg, func_end + 1, isdigit)
      selector == <<SubSeq(arg, s, func_end - 1), Number(SubSeq(arg, func_end + 1, index_end - 1))>>
  IN  IF s >= func_end \/ func_end > Len(arg) \/ arg[func_end] # ":" \/ func_end + 1 >= index_end
      THEN Error
      ELSE IF index_end > Len(arg) THEN [ok |-> TRUE, val |-> val \union {selector}]
      ELSE IF arg[index_end] # "," THEN Error
      ELSE SelectorsFrom(arg, index_end + 1, val \union {selector})
Fault_Selector_Parser(arg) == SelectorsFrom(arg, 1, {})

\* R/fif.  A number that is missing is 0, and a factor is at most 1 (numbers
\* are read here as digits only).
Random_BB_FIF_Parser(arg) ==
  LET FirstEnd == SkipWhile(arg, 1, isdigit)
      SecondEnd == SkipWhile(arg, FirstEnd + 1, isdigit)
  IN  IF FirstEnd > Len(arg) \/ arg[FirstEnd] # "/" \/ SecondEnd # Len(arg) + 1
         \/ Number(SubSeq(arg, FirstEnd + 1, Len(arg))) > 1 THEN Error
      ELSE [ok |-> TRUE, val |-> <<Number(SubSeq(arg, 1, FirstEnd - 1)),
                                   Number(SubSeq(arg, FirstEnd + 1, Len(arg)))>>]

\* name/fif pairs, separated by colons; the first pair of a name counts.
RECURSIVE NamesFrom(_, _)
NamesFrom(Pos, val) ==
  LET slash == SkipWhile(Pos, 1, LAMBDA char : char # "/")
      end == SkipWhile(Pos, slash + 1, isdigit)
      fif == Number(SubSeq(Pos, slash + 1, end - 1))
      known == val @@ (SubSeq(Pos, 1, slash - 1) :> fif)
  IN  IF Pos = <<>> THEN [ok |-> TRUE, val |-> val]
      ELSE IF slash > Len(Pos) \/ slash = 1 \/ end = slash + 1 \/ fif > 1 THEN Error
      ELSE IF end > Len(Pos) THEN [ok |-> TRUE, val |-> known]
      ELSE IF Pos[end] # ":" THEN Error
      ELSE NamesFrom(SubSeq(Pos, end + 1, Len(Pos)), known)
Name_FIF_Parser(arg) == NamesFrom(arg, <<>>)

\* rand() may be below a product of a probability and a factor, or not.
Draw(product) == {r < product : r \in 0 .. 3}

getProbability(o, ft) ==
  IF ft \notin DOMAIN o.prob /\ o.prob_default # Unset THEN o.prob_default
  ELSE IF ft \in DOMAIN o.prob THEN o.prob[ft] ELSE 0

\* The answers isApplicableWithFIF may give for a fault that is applicable.
isApplicableWithFIF(o, ft, fif) == Draw(getProbability(o, ft) * fif)

-----------------------------------------------------------------------------
(* Functions and blocks.                                                   *)

EDFI_STATIC_FUNCTIONS_SECTION == "edfi_functions"
is_edfi_section(F) == F.section = EDFI_STATIC_FUNCTIONS_SECTION

\* The first of some expressions that matches a path, 0 when none does.
matchesRegex(path, regexes) == SelectInSeq(regexes, LAMBDA regex : path \in regex)

can_instrument_function(prog, o, f) ==
  LET F == prog[f]
  IN  /\ F.blocks # <<>>
      /\ ~ is_edfi_section(F)
      /\ o.FunctionNames = {} \/ F.name \in o.FunctionNames
      /\ F.name \notin o.SkipFunctionNames
      /\ o.ModuleNames # <<>> =>
           IF F.path # <<>> THEN matchesRegex(F.path, o.ModuleNames) # 0 ELSE o.compat = "dsn"
      /\ F.name # "ha_key_cmp"
      /\ f - 1 \in o.func_min .. o.func_max

BlocksOf(prog, f) == {<<f, "orig", b>> : b \in DOMAIN prog[f].blocks}
AllBasicBlocks(prog, o) == UNION {BlocksOf(prog, f) : f \in {g \in DOMAIN prog : can_instrument_function(prog, o, g)}}

\* Blocks that have no factor yet get that of the option, for their function,
AddFunctions(prog, o, map) ==
  LET named == {n \in AllBasicBlocks(prog, o) : prog[n[1]].name \in DOMAIN o.functions_FIF}
  IN  map @@ [n \in named |-> o.functions_FIF[prog[n[1]].name]]

\* for the first function of the module that they call and that has one,
Calls(prog, n) == {i.callee : i \in {prog[n[1]].blocks[n[3]][k] : k \in DOMAIN prog[n[1]].blocks[n[3]]}}
CalledWithFIF(prog, o, n) ==
  {f \in DOMAIN prog : prog[f].name \in DOMAIN o.functioncallers_FIF /\ <<prog[f].name>> \in Calls(prog, n)}
AddCallers(prog, o, map) ==
  LET callers == {n \in AllBasicBlocks(prog, o) : CalledWithFIF(prog, o, n) # {}}
  IN  map @@ [n \in callers |-> o.functioncallers_FIF[prog[Min(CalledWithFIF(prog, o, n))].name]]

\* and for the first expression that matches the source path.
AddModules(prog, o, map) ==
  LET regexes == [r \in DOMAIN o.modules_FIF |-> o.modules_FIF[r][1]]
      Match(n) == IF prog[n[1]].path = <<>> THEN 0 ELSE matchesRegex(prog[n[1]].path, regexes)
  IN  map @@ [n \in {n \in AllBasicBlocks(prog, o) : Match(n) # 0} |-> o.modules_FIF[Match(n)][2]]

replace_BB_FIF_key(map, old_key, new_key) ==
  [n \in (DOMAIN map \ {old_key}) \union {new_key : k \in DOMAIN map \intersect {old_key}} |->
     IF n = new_key /\ n \notin DOMAIN map THEN map[old_key] ELSE map[n]]

-----------------------------------------------------------------------------
(* Fault types and the injection flag.                                     *)

getName ==
  [SwapFault |-> "swap", SwapFaultV2 |-> "swap", NoLoadFault |-> "no-load", RndLoadFault |-> "rnd-load",
   NoStoreFault |-> "no-store", FlipBranchFault |-> "flip-branch", FlipBoolFault |-> "flip-bool",
   CorruptPointerFault |-> "corrupt-pointer", CorruptIndexFault |-> "corrupt-index",
   CorruptIntegerFault |-> "corrupt-integer", CorruptOperatorFault |-> "corrupt-operator",
   CorruptOperatorFaultV2 |-> "corrupt-operator-v2", StuckAtBranchFault |-> "stuck-at-branch",
   StuckAtLoopFault |-> "stuck-at-loop", BufferOverflowFault |-> "buffer-overflow",
   MemLeakFault |-> "mem-leak", DanglingPointerFault |-> "dangling-pointer", NullPointerFault |-> "null-pointer"]

addFaultType(o, types) == SelectSeq(types, LAMBDA ft : o.FaultTypeNames = {} \/ getName[ft] \in o.FaultTypeNames)

FaultTypes(o) ==
  LET old == o.compat # "none"
  IN  addFaultType(o,
        <<IF old THEN "SwapFault" ELSE "SwapFaultV2", "NoLoadFault", "RndLoadFault", "NoStoreFault",
          "FlipBranchFault", "FlipBoolFault", "CorruptPointerFault", "CorruptIndexFault", "CorruptIntegerFault",
          IF old THEN "CorruptOperatorFault" ELSE "CorruptOperatorFaultV2">>
        \o (IF o.compat = "dsn" THEN <<>>
            ELSE <<"StuckAtBranchFault", "StuckAtLoopFault", "BufferOverflowFault", "MemLeakFault",
                   "DanglingPointerFault", "NullPointerFault">>))

\* The entries that are added after those of -fault-switch-flag-map.
switchFlagMapDefaultOptions(names) ==
  LET edfi == {EDFI_STATIC_FUNCTIONS_SECTION}
  IN  <<<<edfi, Wrappers, -1>>, <<edfi, Onfdps, -1>>, <<edfi, names, 0>>>>

\* The value that a function sets the flag to, Unset (-1) when it leaves it
\* alone: the first entry that matches decides.
FlagOf(prog, o, f) ==
  LET map == o.switchFlagMap \o switchFlagMapDefaultOptions({prog[g].name : g \in DOMAIN prog})
      first == SelectInSeq(map, LAMBDA entry : prog[f].section \in entry[1] /\ prog[f].name \in entry[2])
  IN  IF first = 0 THEN Unset ELSE map[first][3]

-----------------------------------------------------------------------------
(* What the options say.                                                   *)

\* The pieces of a string between the occurrences of a character.
Pieces(arg, char) ==
  LET ends == {0, Len(arg) + 1} \union {p \in DOMAIN arg : arg[p] = char}
      starts == {p \in ends : p # Len(arg) + 1}
  IN  {SubSeq(arg, p + 1, Min({q \in ends : q > p}) - 1) : p \in starts}

AllDigits(chars) == chars # <<>> /\ \A d \in DOMAIN chars : isdigit(chars[d])

\* A list of locations is accepted exactly when every piece of it is a name and
\* an index, and then these are the locations (Fault_Selector_Parser).
SelectorIsRead(arg) ==
  LET pieces == Pieces(arg, ",")
      Split(piece) == SelectInSeq(piece, LAMBDA char : char = ":")
      Good(piece) == Split(piece) > 1 /\ AllDigits(SubSeq(piece, Split(piece) + 1, Len(piece)))
      parsed == Fault_Selector_Parser(arg)
  IN  /\ parsed.ok <=> \A piece \in pieces : Good(piece)
      /\ parsed.ok => parsed.val = {<<SubSeq(piece, 1, Split(piece) - 1),
                                      Number(SubSeq(piece, Split(piece) + 1, Len(piece)))>> : piece \in pieces}

\* R/fif is accepted exactly when it has one slash and digits around it, no
\* factor above 1 (Random_BB_FIF_Parser).
RandomIsRead(arg) ==
  Random_BB_FIF_Parser(arg).ok <=>
    \E p \in DOMAIN arg : /\ arg[p] = "/" /\ \A q \in DOMAIN arg \ {p} : isdigit(arg[q])
                          /\ Number(SubSeq(arg, p + 1, Len(arg))) \in {0, 1}

\* Whatever is accepted of a list of factors, each name in it has the first
\* factor that is given for it (Name_FIF_Parser).
FactorsAreRead(arg) ==
  LET parsed == Name_FIF_Parser(arg)
      At(name, p) == p + Len(name) <= Len(arg) /\ SubSeq(arg, p, p + Len(name)) = name \o <<"/">>
                     /\ (p = 1 \/ arg[p - 1] = ":")
  IN  parsed.ok =>
        /\ Cardinality({p \in DOMAIN arg : arg[p] = "/"}) >= Cardinality(DOMAIN parsed.val)
        /\ \A name \in DOMAIN parsed.val :
             LET places == {p \in DOMAIN arg : At(name, p)}
                 first == Min(places) + Len(name) + 1
                 digits == {e \in first .. Len(arg) : AllDigits(SubSeq(arg, first, e))}
             IN  places # {} /\ digits # {} /\ parsed.val[name] = Number(SubSeq(arg, first, Max(digits)))

\* The factor of a block: of the blocks chosen at random, of its function, of a
\* function it calls, of its source file, or the global one, the first of these
\* that there is ("Default fault impact factor for all basic blocks that are not
\* assigned a FIF otherwise").
FactorOf(prog, o, picked, n) ==
  LET F == prog[n[1]]
      sources == SelectSeq(o.modules_FIF, LAMBDA entry : F.path # <<>> /\ F.path \in entry[1])
  IN  CASE n \in picked -> o.random_BB_FIF[2]
        [] n \notin picked /\ F.name \in DOMAIN o.functions_FIF -> o.functions_FIF[F.name]
        [] OTHER -> IF CalledWithFIF(prog, o, n) # {}
                    THEN o.functioncallers_FIF[prog[Min(CalledWithFIF(prog, o, n))].name]
                    ELSE IF sources # <<>> THEN sources[1][2] ELSE o.global_FIF
=============================================================================
