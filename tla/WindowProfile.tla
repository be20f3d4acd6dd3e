---------------------------- MODULE WindowProfile ---------------------------
(***************************************************************************)
(* The profile of recovery windows: a hook in every basic block follows    *)
(* the window under three policies (pessimistic, data-flow, optimistic),   *)
(* counts the instructions inside and outside of each, for the server and  *)
(* for each function, and blames the function that closed the window.      *)
(***************************************************************************)
EXTENDS Naturals, FiniteSets

CONSTANTS
  Funcs,                   \* functions with their callers
  Sends,                   \* function |-> "s", "n", "k" or "no" for none of names[]
  BlockSizes,              \* numbers of instructions of a basic block
  MAXFUNCS,
  MaxBlocks                \* bound on executed basic blocks

ASSUME ProfileConstants ==
  BlockSizes \subseteq Nat /\ MAXFUNCS \in Nat /\ MaxBlocks \in Nat /\ "free" \notin Funcs

VARIABLES
  have_handled_message,    \* the server's window, set by SEF
  last_have_handled_message, pes_have_handled_message, dfa_have_handled_message,
  sa_window__is_open,
  wprof_enable_stats, suicide_on_window_close,
  glo, funcs,              \* wprof: the totals, the slots of the functions
  wprof_next_free,         \* and the number of used slots
  pes_closer, opt_closer,  \* slots, 0 for NULL
  status,                  \* "run", "crash", planned, or "abort", out of slots
  blocks                   \* history: executed basic blocks

windowVars == <<last_have_handled_message, pes_have_handled_message,
                dfa_have_handled_message, sa_window__is_open>>
profVars == <<glo, funcs, wprof_next_free, pes_closer, opt_closer>>
profileVars == <<have_handled_message, windowVars, wprof_enable_stats,
          suicide_on_window_close, profVars, status, blocks>>

Policies == {"pes", "dfa", "opt", "rwindow"}
Counters == {"bb_in", "bb_out", "end", "end_k", "end_s", "end_n", "ended_cumulative"}
NoSet == [pol \in Policies |-> [field \in Counters |-> 0]]
Free == "free"

NoFuncs == [i \in 1 .. MAXFUNCS |-> [name |-> Free, stats |-> NoSet]]

ProfileInit ==
  /\ have_handled_message = FALSE /\ last_have_handled_message = FALSE
  /\ pes_have_handled_message = FALSE /\ dfa_have_handled_message = FALSE
  /\ sa_window__is_open = FALSE
  /\ wprof_enable_stats = FALSE /\ suicide_on_window_close \in BOOLEAN
  /\ glo = NoSet /\ funcs = NoFuncs /\ wprof_next_free = 0
  /\ pes_closer = 0 /\ opt_closer = 0
  /\ status = "run" /\ blocks = 0

\* Outside the profile: SEF opens and closes the window, the recovery library
\* opens its own with it and may close that earlier.
Message ==
  /\ status = "run"
  /\ \/ /\ have_handled_message' = ~ have_handled_message
        /\ sa_window__is_open' = have_handled_message'
     \/ /\ sa_window__is_open /\ sa_window__is_open' = FALSE
        /\ UNCHANGED have_handled_message
  /\ UNCHANGED <<last_have_handled_message, pes_have_handled_message,
                 dfa_have_handled_message, wprof_enable_stats,
                 suicide_on_window_close, profVars, status, blocks>>

-----------------------------------------------------------------------------
(* The hook, in the order of its steps.                                    *)

\* lt_wprof_func_stats: the slot of a function, the next free one for a new one.
SlotOf(f) == IF \E i \in DOMAIN funcs : funcs[i].name = f
             THEN CHOOSE i \in DOMAIN funcs : funcs[i].name = f
             ELSE wprof_next_free + 1

OutOfSlots(f) == wprof_enable_stats /\ SlotOf(f) > MAXFUNCS

Add(set, pol, field, n) == [set EXCEPT ![pol][field] = @ + n]

\* A function whose name starts like a send, a notification or a kernel call
\* leaves the pessimistic window in its first block.
LeavesPes(f, first) == first /\ pes_have_handled_message /\ Sends[f] # "no"

EndField(f) == CASE Sends[f] = "s" -> "end_s" [] Sends[f] = "n" -> "end_n" [] OTHER -> "end_k"

CountPesEnd(f, set) == Add(Add(set, "pes", "end", 1), "pes", EndField(f), 1)

Enters == have_handled_message /\ ~ last_have_handled_message
LeavesOpt == ~ have_handled_message /\ last_have_handled_message

\* The windows once the hook has looked at the two changes.
PesIgnoresReply(f, first) == Enters \/ (pes_have_handled_message /\ ~ LeavesPes(f, first))
PesNow(f, first) ==
  Enters \/ (pes_have_handled_message /\ ~ LeavesPes(f, first) /\ ~ LeavesOpt)
DfaNow == Enters \/ (dfa_have_handled_message /\ ~ LeavesOpt)
SaNow == sa_window__is_open /\ ~ LeavesOpt

PesCloser(f, first) ==
  IF Enters THEN 0
  ELSE IF LeavesPes(f, first) /\ wprof_enable_stats THEN SlotOf(f) ELSE pes_closer
OptCloser(f) ==
  IF Enters THEN 0
  ELSE IF LeavesOpt /\ wprof_enable_stats THEN SlotOf(f) ELSE opt_closer

InOut(b) == IF b THEN "bb_in" ELSE "bb_out"

\* Basic block accounting of the three policies, for a function or in total.
CountBlock(set, f, first, n) ==
  Add(Add(Add(set, "opt", InOut(have_handled_message), n),
          "pes", InOut(PesNow(f, first)), n),
      "dfa", InOut(DfaNow), n)

Times(b, n) == IF b THEN n ELSE 0

\* The counts of the totals.  Both ends also count for the function, under
\* opt.
GloNow(f, first, n) ==
  LET ends == IF LeavesPes(f, first) THEN CountPesEnd(f, glo) ELSE glo
      both == Add(Add(ends, "opt", "end", Times(LeavesOpt, 1)), "opt", "end_k", Times(LeavesOpt, 1))
  IN Add(CountBlock(both, f, first, n), "rwindow", InOut(SaNow), n)

Blame(slots, i, pol, n) ==
  IF i = 0 THEN slots
  ELSE [slots EXCEPT ![i].stats = Add(@, pol, "ended_cumulative", n)]

FuncsNow(f, first, n) ==
  LET ends == Times(LeavesPes(f, first), 1) + Times(LeavesOpt, 1)
      counted == [funcs EXCEPT ![SlotOf(f)] = [name |-> f, stats |->
                    CountBlock(Add(@.stats, "opt", "end", ends), f, first, n)]]
  IN Blame(Blame(counted, OptCloser(f), "opt", n), PesCloser(f, first), "pes", n)

ltckpt_aop_hook_wprof(f, first, n) ==
  IF OutOfSlots(f)
  THEN status' = "abort" /\ UNCHANGED <<windowVars, suicide_on_window_close, profVars>>
  ELSE LET crashes == suicide_on_window_close /\ (LeavesPes(f, first) \/ LeavesOpt)
       IN /\ status' = IF crashes THEN "crash" ELSE "run"
          /\ suicide_on_window_close' = (suicide_on_window_close /\ ~ crashes)
          /\ IF crashes
             THEN UNCHANGED <<windowVars, profVars>>
             ELSE /\ last_have_handled_message' = have_handled_message
                  /\ pes_have_handled_message' = PesNow(f, first)
                  /\ dfa_have_handled_message' = DfaNow
                  /\ sa_window__is_open' = SaNow
                  /\ pes_closer' = PesCloser(f, first) /\ opt_closer' = OptCloser(f)
                  /\ IF wprof_enable_stats
                     THEN /\ glo' = GloNow(f, first, n) /\ funcs' = FuncsNow(f, first, n)
                          /\ wprof_next_free' = wprof_next_free
                               + Times(SlotOf(f) > wprof_next_free, 1)
                     ELSE UNCHANGED <<glo, funcs, wprof_next_free>>

Block ==
  /\ status = "run" /\ blocks < MaxBlocks /\ blocks' = blocks + 1
  /\ \E f \in Funcs, first \in BOOLEAN, n \in BlockSizes : ltckpt_aop_hook_wprof(f, first, n)
  /\ UNCHANGED <<have_handled_message, wprof_enable_stats>>

-----------------------------------------------------------------------------
(* Signals: SIGUSR1 switches statistics, SIGUSR2 clears them.              *)

Sigusr1 ==
  /\ status = "run" /\ wprof_enable_stats' = ~ wprof_enable_stats
  /\ UNCHANGED <<have_handled_message, windowVars, suicide_on_window_close, profVars,
                 status, blocks>>

Sigusr2 ==
  /\ status = "run"
  /\ glo' = NoSet /\ funcs' = NoFuncs /\ wprof_next_free' = 0
  /\ UNCHANGED <<have_handled_message, windowVars, wprof_enable_stats,
                 suicide_on_window_close, pes_closer, opt_closer, status, blocks>>

Stopped == status # "run" /\ UNCHANGED profileVars

ProfileNext == Message \/ Block \/ Sigusr1 \/ Sigusr2 \/ Stopped

ProfileSpec == ProfileInit /\ [][ProfileNext]_profileVars

-----------------------------------------------------------------------------
(* Properties.                                                             *)

\* Every variable keeps its type; a function has one slot, and the used slots
\* come first.
Sets == [Policies -> [Counters -> Nat]]
ProfileTypeOK ==
  /\ have_handled_message \in BOOLEAN /\ last_have_handled_message \in BOOLEAN
  /\ pes_have_handled_message \in BOOLEAN /\ dfa_have_handled_message \in BOOLEAN
  /\ sa_window__is_open \in BOOLEAN /\ wprof_enable_stats \in BOOLEAN
  /\ suicide_on_window_close \in BOOLEAN /\ glo \in Sets
  /\ funcs \in [1 .. MAXFUNCS -> [name : Funcs \cup {Free}, stats : Sets]]
  /\ wprof_next_free \in 0 .. MAXFUNCS
  /\ \A i \in 1 .. MAXFUNCS : funcs[i].name = Free <=> i > wprof_next_free
  /\ \A i, j \in 1 .. MAXFUNCS : funcs[i].name = funcs[j].name => i = j \/ funcs[i].name = Free
  /\ pes_closer \in 0 .. MAXFUNCS /\ opt_closer \in 0 .. MAXFUNCS
  /\ status \in {"run", "crash", "abort"} /\ blocks \in 0 .. MaxBlocks

\* The sum of a counter over the slots.
SumOf(pol, field) == Cardinality(UNION {{i} \X (1 .. funcs[i].stats[pol][field]) : i \in 1 .. MAXFUNCS})

\* What the functions count adds up to the totals, for every policy, also when
\* statistics are switched or cleared in between.
FunctionsAddUp ==
  \A pol \in {"pes", "dfa", "opt"}, field \in {"bb_in", "bb_out"} :
    SumOf(pol, field) = glo[pol][field]

\* The policies are ordered: the pessimistic window is never open while the
\* optimistic one is closed, so that it never counts more instructions inside.
PessimisticIsShorter ==
  /\ pes_have_handled_message => last_have_handled_message
  /\ glo.pes.bb_in <= glo.opt.bb_in
  /\ glo.pes.bb_in + glo.pes.bb_out = glo.opt.bb_in + glo.opt.bb_out

\* The printed "end(T:k+s+n)" is a sum.
EndsAddUp == \A pol \in {"pes", "opt"} :
  glo[pol].end = glo[pol].end_k + glo[pol].end_s + glo[pol].end_n

\* Instructions are blamed on a closer only while its window is closed.
BlameIsOutside ==
  /\ pes_closer # 0 => ~ pes_have_handled_message
  /\ opt_closer # 0 => ~ last_have_handled_message
  /\ \A pol \in {"pes", "opt"} : SumOf(pol, "ended_cumulative") <= glo[pol].bb_out

\* The counts of the profile agree, also when statistics are switched or
\* cleared in between: the functions add up to the totals, the printed
\* "end(T:k+s+n)" is a sum, the pessimistic window never counts more
\* instructions inside than the optimistic one, and instructions are blamed
\* on a closer only while its window is closed (ltckpt_aop.c).
ProfilesAgree ==
  ProfileTypeOK /\ FunctionsAddUp /\ EndsAddUp /\ PessimisticIsShorter /\ BlameIsOutside
=============================================================================
