----------------------------- MODULE FaultProofs ----------------------------
(***************************************************************************)
(* TLAPS proofs about FaultSites: planned crashes are few, and each hits a *)
(* request that recovery aborts.                                           *)
(***************************************************************************)
EXTENDS FaultSites, TLAPS

\* With LTRC_SUICIDE_ONLY_ONCE an enabled crash is owed to a command.
CommandInv ==
  LTRC_SUICIDE_ONLY_ONCE => g_num_suicides + suicide_on_window_close <= commands

\* A site that has crashed the server is disarmed.
SiteInv ==
  ~ LTRC_SUICIDE_PERIODICALLY => \A s \in Sites : crashes[s] + do_suicide[s] <= 1

Max1(n) == IF n < 1 THEN 1 ELSE n

\* A slot of the board: n crashes, n * n passes before them, and a period of
\* at least 2 * n + 1 to go.
Slot(n, t, p, k) ==
  /\ n * n + t <= k
  /\ 2 * n + 1 <= Max1(p)
  /\ t < Max1(p)

PeriodInv ==
  LTRC_SUICIDE_PERIODICALLY =>
    \A s \in Sites : s < BEN_BOARD =>
      Slot(crashes[s], transits[s], period[s], passes[s])

\* Outside the trusted code every call made is in the policy.
Recorded ==
  /\ "fail_stop" \in effects => "FAIL_STOP" \in g_recovery_bitmask
  /\ "process_local" \in effects => "PROCESS_SPECIFIC" \in g_recovery_bitmask

Announced ==
  /\ PolicyOf[site] = "fail_stop" => "FAIL_STOP" \in g_recovery_bitmask
  /\ PolicyOf[site] = "process_local" => "PROCESS_SPECIFIC" \in g_recovery_bitmask

PolicyInv ==
  /\ pc = "closing" => have_handled_message = 0
  /\ inside_trusted_compute_base = 0 => Recorded
  /\ inside_trusted_compute_base = 0 /\ pc = "call" => Announced

PlannedInv ==
  /\ from_rs = 0 => msg.fi_ctl = 0
  /\ pc \in {"crashed", "dispatch"} /\ crash = "planned" =>
       /\ g_recovery_bitmask = {"IDEMPOTENT"} /\ Recorded
       /\ have_handled_message = 1 /\ from_rs = 0
       /\ LTRC_SUICIDE_WHEN_RECOVERABLE => msg.replyable = 1

IInv == TypeOK /\ CommandInv /\ SiteInv /\ PeriodInv /\ PolicyInv /\ PlannedInv

-----------------------------------------------------------------------------
(* Types.                                                                  *)

\* A fresh server, with the board the pass has filled.
LEMMA InitTypes == Init => TypeOK
BY SitesAssumption
   DEF Init, TypeOK, GlobalsInit, GlobalsTypeOK, Flag, Bits, NaiveModes, Pcs

\* The loop, the hook at its returns and the commands of RS.
LEMMA LoopTypes ==
  ASSUME TypeOK, SefInitDone \/ SefHandleMessage \/ StartOfWindow
                 \/ sef_fi_custom \/ HandlerReturns \/ ReachSite
  PROVE  TypeOK'
<1>1. CASE SefInitDone
  BY <1>1 DEF SefInitDone, TypeOK, GlobalsTypeOK, Flag, globals, hookVars,
              boardVars, ghostVars
<1>2. CASE SefHandleMessage
  <2>1. msg' \in Messages /\ from_rs' \in Flag
    BY <1>2, SitesAssumption
       DEF SefHandleMessage, TypeOK, Flag, RsMessages, Messages
  <2> QED BY <1>2, <2>1 DEF SefHandleMessage, TypeOK, GlobalsTypeOK, Flag,
                 hookVars, boardVars, ghostVars, Pcs
<1>3. CASE StartOfWindow
  <2>1. GlobalsTypeOK'
    BY Zenon, <1>3, NaiveAssumption
       DEF StartOfWindow, TypeOK, GlobalsTypeOK, Flag, Bits,
           ltckpt_detect_start_of_window_hook, ltckpt_set_naive_recovery
  <2> QED BY Zenon, <1>3, <2>1 DEF StartOfWindow, TypeOK, boardVars, Pcs
<1>4. CASE sef_fi_custom
  BY <1>4 DEF sef_fi_custom, TypeOK, GlobalsTypeOK, Flag, globals, hookVars,
              boardVars
<1>5. CASE HandlerReturns
  BY Zenon, <1>5 DEF HandlerReturns, TypeOK, GlobalsTypeOK, globals, hookVars,
              boardVars, ghostVars, Pcs
<1>6. CASE ReachSite
  BY Zenon, <1>6 DEF ReachSite, TypeOK, GlobalsTypeOK, globals, hookVars,
              boardVars, ghostVars, Pcs
<1> QED BY Zenon, <1>1, <1>2, <1>3, <1>4, <1>5, <1>6

\* What a planned crash writes.
LEMMA SuicideTypes ==
  ASSUME TypeOK, ltckpt_do_suicide
  PROVE  /\ suicide_on_window_close' \in Flag /\ pc' \in Pcs
         /\ crash' \in {"planned", "genuine"} /\ g_num_suicides' \in Nat
         /\ crashes' \in [Sites -> Nat]
BY DEF TypeOK, ltckpt_do_suicide, Flag, Pcs

\* The period only grows, by two at least.
LEMMA PeriodGrows ==
  \A p \in Nat \ {0} : NextPeriod(p) \in Nat /\ NextPeriod(p) >= p + 2
BY DEF NextPeriod

\* The fault hook and what follows it.
LEMMA SiteTypes ==
  ASSUME TypeOK, HookPasses \/ HookTrusts \/ SuicideOnce \/ TransitSkips
                 \/ SuicidePeriodically \/ SuicideBeyondBoard
  PROVE  TypeOK'
<1>1. CASE HookPasses
  BY Zenon, <1>1 DEF HookPasses, HookStep, TypeOK, GlobalsTypeOK, hookVars, boardVars, Pcs
<1>2. CASE HookTrusts
  BY Zenon, <1>2 DEF HookTrusts, HookStep, TypeOK, GlobalsTypeOK, Flag, hookVars,
              boardVars, Pcs
<1>3. CASE SuicideOnce
  <2>1. do_suicide' \in [Sites -> Flag]
    BY Zenon, <1>3 DEF SuicideOnce, Disarm, TypeOK, Flag
  <2>2. ltckpt_do_suicide
    BY Zenon, <1>3 DEF SuicideOnce
  <2> QED BY Zenon, <1>3, <2>1, <2>2, SuicideTypes
          DEF SuicideOnce, Disarm, HookStep, TypeOK, GlobalsTypeOK, hookVars
<1>4. Period \in Nat \ {0}
  BY DEF Period, TypeOK
<1>5. CASE TransitSkips
  <2>1. /\ transits' \in [Sites -> Nat] /\ period' \in [Sites -> Nat]
        /\ passes' \in [Sites -> Nat]
    BY <1>4, <1>5 DEF TransitSkips, Transit, TypeOK
  <2> QED BY Zenon, <1>5, <2>1 DEF TransitSkips, Transit, HookStep, TypeOK,
                 GlobalsTypeOK, hookVars, Pcs
<1>6. CASE SuicidePeriodically
  <2>1. /\ transits' \in [Sites -> Nat] /\ period' \in [Sites -> Nat]
        /\ passes' \in [Sites -> Nat]
    BY <1>4, <1>6, PeriodGrows DEF SuicidePeriodically, Transit, TypeOK
  <2>2. ltckpt_do_suicide
    BY Zenon, <1>6 DEF SuicidePeriodically
  <2> QED BY Zenon, <1>6, <2>1, <2>2, SuicideTypes
          DEF SuicidePeriodically, Transit, HookStep, TypeOK, GlobalsTypeOK,
              hookVars
<1>7. CASE SuicideBeyondBoard
  <2>1. ltckpt_do_suicide
    BY Zenon, <1>7 DEF SuicideBeyondBoard
  <2> QED BY Zenon, <1>7, <2>1, SuicideTypes
          DEF SuicideBeyondBoard, HookStep, TypeOK, GlobalsTypeOK, hookVars,
              boardVars
<1> QED BY Zenon, <1>1, <1>2, <1>3, <1>5, <1>6, <1>7

\* Policy hook, call, crash and recovery.
LEMMA RecoveryTypes ==
  ASSUME TypeOK, PolicyHook \/ Call \/ GenuineCrash \/ Restart \/ Dispatch \/ Stopped
  PROVE  TypeOK'
<1>1. CASE PolicyHook
  <2>1. sa_window__is_open' \in Flag /\ g_recovery_bitmask' \in SUBSET Bits
    BY Zenon, <1>1 DEF PolicyHook, policy_hook, ltckpt_set_idempotent_recovery,
       ltckpt_set_request_specific_recovery, ltckpt_set_process_local_recovery,
       ltckpt_set_fail_stop_recovery, ltckpt_close_r_window, SetPolicy, TypeOK,
       GlobalsTypeOK, Flag, Bits
  <2> QED BY Zenon, <1>1, <2>1 DEF PolicyHook, TypeOK, GlobalsTypeOK, hookVars,
                 boardVars, ghostVars, Pcs
<1>2. CASE Call
  BY Zenon, <1>2, SitesAssumption DEF Call, TypeOK, GlobalsTypeOK, globals, hookVars,
              boardVars, Pcs
<1>3. CASE GenuineCrash
  BY Zenon, <1>3 DEF GenuineCrash, TypeOK, GlobalsTypeOK, globals, hookVars,
              boardVars, Pcs
<1>4. CASE Restart
  BY <1>4 DEF Restart, TypeOK, GlobalsTypeOK, hookVars, Flag, boardVars,
              ghostVars, Pcs
<1>5. CASE Dispatch
  <2>1. g_recovery_bitmask' \in SUBSET Bits /\ pc' \in Pcs
    BY Zenon, <1>5 DEF Dispatch, TypeOK, GlobalsTypeOK, Bits, Pcs
  <2> QED BY <1>5, <2>1 DEF Dispatch, TypeOK, GlobalsTypeOK, hookVars, Flag,
                 boardVars, ghostVars
<1>6. CASE Stopped
  BY Zenon, <1>6 DEF Stopped, vars, TypeOK, GlobalsTypeOK, globals, hookVars,
              boardVars, ghostVars
<1> QED BY Zenon, <1>1, <1>2, <1>3, <1>4, <1>5, <1>6

\* Every step keeps the types.
LEMMA NextTypes == TypeOK /\ [Next]_vars => TypeOK'
<1> SUFFICES ASSUME TypeOK, [Next]_vars PROVE TypeOK'
  OBVIOUS
<1>1. CASE Next
  BY <1>1, LoopTypes, SiteTypes, RecoveryTypes, Zenon DEF Next
<1>2. CASE UNCHANGED vars
  BY Zenon, <1>2 DEF vars, TypeOK, GlobalsTypeOK, globals, hookVars, boardVars, ghostVars
<1> QED BY Zenon, <1>1, <1>2
-----------------------------------------------------------------------------
(* Few crashes.                                                            *)

Quiet ==
  \/ SefInitDone \/ SefHandleMessage \/ StartOfWindow \/ HandlerReturns
  \/ ReachSite \/ HookPasses \/ HookTrusts \/ PolicyHook \/ Call
  \/ GenuineCrash \/ Restart \/ Dispatch \/ Stopped \/ UNCHANGED vars

\* All but the command of RS and the fault hook leave the counters alone.
LEMMA QuietFrame ==
  Quiet => UNCHANGED <<suicide_on_window_close, do_suicide, transits, period,
                       passes, g_num_suicides, commands, crashes>>
<1> DEFINE F == UNCHANGED <<suicide_on_window_close, do_suicide, transits,
                            period, passes, g_num_suicides, commands, crashes>>
<1>1. SefInitDone => F
  BY Zenon DEF SefInitDone, boardVars, ghostVars
<1>2. SefHandleMessage => F
  BY Zenon DEF SefHandleMessage, boardVars, ghostVars
<1>3. StartOfWindow => F
  BY Zenon DEF StartOfWindow, boardVars
<1>4. HandlerReturns => F
  BY Zenon DEF HandlerReturns, boardVars, ghostVars
<1>5. ReachSite => F
  BY Zenon DEF ReachSite, boardVars, ghostVars
<1>6. HookPasses \/ HookTrusts => F
  BY Zenon DEF HookPasses, HookTrusts, HookStep, boardVars
<1>7. PolicyHook => F
  BY Zenon DEF PolicyHook, boardVars, ghostVars
<1>8. Call => F
  BY Zenon DEF Call, boardVars
<1>9. GenuineCrash => F
  BY Zenon DEF GenuineCrash, boardVars
<1>10. Restart => F
  BY Zenon DEF Restart, boardVars, ghostVars
<1>11. Dispatch => F
  BY Zenon DEF Dispatch, boardVars, ghostVars
<1>12. Stopped \/ UNCHANGED vars => F
  BY Zenon DEF Stopped, vars, boardVars, ghostVars
<1> HIDE DEF F
<1>13. Quiet => F
  BY Zenon, <1>1, <1>2, <1>3, <1>4, <1>5, <1>6, <1>7, <1>8, <1>9, <1>10, <1>11,
     <1>12, Zenon DEF Quiet
<1> QED BY Zenon, <1>13 DEF F

\* The actions that touch the counters, and the others.
LEMMA CounterCases ==
  [Next]_vars => \/ Quiet \/ sef_fi_custom \/ SuicideOnce \/ TransitSkips
                 \/ SuicidePeriodically \/ SuicideBeyondBoard
BY Zenon DEF Next, Quiet

\* A planned crash uses up the command that enabled it.
LEMMA SuicideKeepsCommand ==
  ASSUME TypeOK, CommandInv, Allowed, ltckpt_do_suicide, commands' = commands
  PROVE  CommandInv'
BY DEF TypeOK, CommandInv, Allowed, Wanted, ltckpt_do_suicide, Flag

\* Every step keeps the balance of commands and crashes.
LEMMA NextCommand == TypeOK /\ CommandInv /\ [Next]_vars => CommandInv'
<1> SUFFICES ASSUME TypeOK, CommandInv, [Next]_vars PROVE CommandInv'
  OBVIOUS
<1>1. CASE Quiet
  BY Zenon, <1>1, QuietFrame DEF CommandInv
<1>2. CASE sef_fi_custom
  BY <1>2 DEF sef_fi_custom, CommandInv, TypeOK, Flag
<1>3. CASE SuicideOnce
  BY Zenon, <1>3, SuicideKeepsCommand DEF SuicideOnce, HookStep
<1>4. CASE TransitSkips
  BY Zenon, <1>4 DEF TransitSkips, Transit, HookStep, CommandInv
<1>5. CASE SuicidePeriodically
  BY Zenon, <1>5, SuicideKeepsCommand DEF SuicidePeriodically, Transit, HookStep
<1>6. CASE SuicideBeyondBoard
  BY Zenon, <1>6, SuicideKeepsCommand DEF SuicideBeyondBoard, HookStep
<1> QED BY Zenon, <1>1, <1>2, <1>3, <1>4, <1>5, <1>6, CounterCases

\* Every step keeps crashed sites disarmed.
LEMMA NextSite == TypeOK /\ SiteInv /\ [Next]_vars => SiteInv'
<1> SUFFICES ASSUME TypeOK, SiteInv, [Next]_vars, ~ LTRC_SUICIDE_PERIODICALLY,
                    NEW s \in Sites
             PROVE  crashes'[s] + do_suicide'[s] <= 1
  BY Zenon DEF SiteInv
<1>0. crashes[s] + do_suicide[s] <= 1
  BY Zenon DEF SiteInv
<1>1. CASE Quiet
  BY Zenon, <1>0, <1>1, QuietFrame
<1>2. CASE sef_fi_custom
  BY Zenon, <1>0, <1>2 DEF sef_fi_custom, boardVars
<1>3. CASE SuicideOnce
  <2>1. do_suicide[site] = 1
    BY <1>3 DEF SuicideOnce, Allowed, Wanted, TypeOK, Flag
  <2>2. /\ do_suicide' = [do_suicide EXCEPT ![site] = 0]
        /\ crashes' = crashes \/ crashes' = [crashes EXCEPT ![site] = @ + 1]
    BY Zenon, <1>3 DEF SuicideOnce, Disarm, ltckpt_do_suicide
  <2> QED BY <1>0, <2>1, <2>2 DEF TypeOK, Flag
<1>4. CASE TransitSkips \/ SuicidePeriodically \/ SuicideBeyondBoard
  BY Zenon, <1>4 DEF TransitSkips, SuicidePeriodically, SuicideBeyondBoard, Transit
<1> QED BY Zenon, <1>1, <1>2, <1>3, <1>4, CounterCases

\* A counter below the period is a multiple of it only at the period.
LEMMA DueIsFull ==
  \A p \in Nat \ {0}, t \in Nat : t < p => ((t + 1) % p = 0 <=> t + 1 = p)
<1> SUFFICES ASSUME NEW p \in Nat \ {0}, NEW t \in Nat, t < p
             PROVE  (t + 1) % p = 0 <=> t + 1 = p
  OBVIOUS
<1>1. CASE t + 1 = p
  BY <1>1
<1>2. CASE t + 1 < p
  <2>1. (t + 1) % p = t + 1
    BY <1>2
  <2> QED BY <1>2, <2>1
<1> QED BY <1>1, <1>2

\* A pass that does not crash counts.
LEMMA SlotSkips ==
  \A n, t, p, k \in Nat :
    Slot(n, t, p, k) /\ t + 1 # Max1(p) => Slot(n, t + 1, Max1(p), k + 1)
BY DEF Slot, Max1

\* A full period pays for the next crash, whether it happens or is skipped.
LEMMA SlotCrashes ==
  \A n, t, p, k \in Nat :
    Slot(n, t, p, k) /\ t + 1 = Max1(p) =>
      /\ Slot(n, 0, NextPeriod(Max1(p)), k + 1)
      /\ Slot(n + 1, 0, NextPeriod(Max1(p)), k + 1)
<1> SUFFICES ASSUME NEW n \in Nat, NEW t \in Nat, NEW p \in Nat, NEW k \in Nat,
                    Slot(n, t, p, k), t + 1 = Max1(p)
             PROVE  /\ Slot(n, 0, NextPeriod(Max1(p)), k + 1)
                    /\ Slot(n + 1, 0, NextPeriod(Max1(p)), k + 1)
  OBVIOUS
<1>1. Max1(p) \in Nat \ {0}
  BY DEF Max1
<1>2. PICK q \in Nat : q = NextPeriod(Max1(p)) /\ q >= Max1(p) + 2
  BY Zenon, <1>1, PeriodGrows
<1>3. PICK m \in Nat : m = n * n
  OBVIOUS
<1>4. (n + 1) * (n + 1) = m + 2 * n + 1
  BY <1>3
<1>5. Max1(q) = q
  BY <1>1, <1>2 DEF Max1
<1>6. m + t <= k /\ 2 * n + 1 <= Max1(p)
  BY Zenon, <1>3 DEF Slot
<1>7. /\ m + 0 <= k + 1 /\ 2 * n + 1 <= q /\ 0 < q
      /\ (m + 2 * n + 1) + 0 <= k + 1 /\ 2 * (n + 1) + 1 <= q
  BY <1>1, <1>2, <1>6
<1> QED BY Zenon, <1>2, <1>3, <1>4, <1>5, <1>7 DEF Slot

\* Every step keeps the account of every slot.
LEMMA NextPeriods == TypeOK /\ PeriodInv /\ [Next]_vars => PeriodInv'
<1> SUFFICES ASSUME TypeOK, PeriodInv, [Next]_vars, LTRC_SUICIDE_PERIODICALLY,
                    NEW s \in Sites, s < BEN_BOARD
             PROVE  Slot(crashes'[s], transits'[s], period'[s], passes'[s])
  BY Zenon DEF PeriodInv
<1>0. Slot(crashes[s], transits[s], period[s], passes[s])
  BY Zenon DEF PeriodInv
<1>1. CASE Quiet
  BY Zenon, <1>0, <1>1, QuietFrame
<1>2. CASE sef_fi_custom
  BY Zenon, <1>0, <1>2 DEF sef_fi_custom, boardVars
<1>3. CASE SuicideOnce
  BY Zenon, <1>3 DEF SuicideOnce
<1>4. /\ crashes[s] \in Nat /\ transits[s] \in Nat /\ period[s] \in Nat
      /\ passes[s] \in Nat /\ Max1(period[s]) \in Nat \ {0}
      /\ transits[s] < Max1(period[s])
  BY <1>0 DEF TypeOK, Slot, Max1
<1>5. site = s => (Period = Max1(period[s])
                   /\ (Due <=> transits[s] + 1 = Max1(period[s])))
  BY Zenon, <1>4, DueIsFull DEF Period, Max1, Due
<1>6. CASE TransitSkips
  <2>1. CASE site = s
    <3>1. /\ crashes'[s] = crashes[s] /\ transits'[s] = transits[s] + 1
          /\ period'[s] = Max1(period[s]) /\ passes'[s] = passes[s] + 1
      BY Zenon, <1>5, <1>6, <2>1 DEF TransitSkips, Transit, TypeOK
    <3>2. ~ Due
      BY Zenon, <1>6 DEF TransitSkips
    <3> QED BY Zenon, <1>0, <1>4, <1>5, <2>1, <3>1, <3>2, SlotSkips
  <2>2. CASE site # s
    BY Zenon, <1>0, <1>6, <2>2 DEF TransitSkips, Transit, TypeOK
  <2> QED BY Zenon, <2>1, <2>2
<1>7. CASE SuicidePeriodically
  <2>1. CASE site = s
    <3>1. /\ transits'[s] = 0 /\ period'[s] = NextPeriod(Max1(period[s]))
          /\ passes'[s] = passes[s] + 1
      BY Zenon, <1>5, <1>7, <2>1 DEF SuicidePeriodically, Transit, TypeOK
    <3>2. crashes'[s] \in {crashes[s], crashes[s] + 1}
      BY Zenon, <1>7, <2>1 DEF SuicidePeriodically, ltckpt_do_suicide, TypeOK
    <3>3. Due
      BY Zenon, <1>7 DEF SuicidePeriodically
    <3> QED BY <1>0, <1>4, <1>5, <2>1, <3>1, <3>2, <3>3, SlotCrashes
  <2>2. CASE site # s
    BY Zenon, <1>0, <1>7, <2>2
       DEF SuicidePeriodically, Transit, ltckpt_do_suicide, TypeOK
  <2> QED BY Zenon, <2>1, <2>2
<1>8. CASE SuicideBeyondBoard
  <2>1. site # s
    BY <1>8, SitesAssumption DEF SuicideBeyondBoard, TypeOK
  <2> QED BY Zenon, <1>0, <1>8, <2>1
          DEF SuicideBeyondBoard, boardVars, ltckpt_do_suicide, TypeOK
<1> QED BY Zenon, <1>1, <1>2, <1>3, <1>6, <1>7, <1>8, CounterCases
-----------------------------------------------------------------------------
(* The policy knows the calls.                                             *)

\* Recorded depends on two variables, and only in one direction on each.
LEMMA RecordedGrows ==
  ASSUME Recorded, effects' = effects, g_recovery_bitmask \subseteq g_recovery_bitmask'
  PROVE  Recorded'
BY Zenon DEF Recorded

\* The policy hook records its call before the call is made.
LEMMA HookAnnounces ==
  ASSUME TypeOK, PolicyHook, inside_trusted_compute_base = 0
  PROVE  Announced' /\ g_recovery_bitmask \subseteq g_recovery_bitmask'
BY DEF PolicyHook, policy_hook, ltckpt_set_idempotent_recovery,
   ltckpt_set_request_specific_recovery, ltckpt_set_process_local_recovery,
   ltckpt_set_fail_stop_recovery, SetPolicy, Announced

\* Steps that leave the policy alone and do not lead to a call.
Silent ==
  /\ pc' \notin {"closing", "call"}
  /\ UNCHANGED <<effects, g_recovery_bitmask, inside_trusted_compute_base>>

\* They keep what the policy knows.
LEMMA SilentKeepsPolicy ==
  ASSUME PolicyInv, Silent
  PROVE  PolicyInv'
BY Zenon DEF PolicyInv, Silent, Recorded

\* Every step keeps the policy ahead of the calls.
LEMMA NextPolicy == TypeOK /\ PolicyInv /\ [Next]_vars => PolicyInv'
<1> SUFFICES ASSUME TypeOK, PolicyInv, [Next]_vars PROVE PolicyInv'
  OBVIOUS
<1>1. CASE SefInitDone
  BY Zenon, <1>1 DEF SefInitDone, globals, ghostVars, PolicyInv, Recorded
<1>2. CASE SefHandleMessage
  BY Zenon, <1>2 DEF SefHandleMessage, ghostVars, PolicyInv, Recorded
<1>3. CASE StartOfWindow
  <2>1. pc' \notin {"closing", "call"}
    BY Zenon, <1>3 DEF StartOfWindow
  <2>2. CASE pc = "opening"
    BY Zenon, <1>3, <2>1, <2>2 DEF StartOfWindow, PolicyInv, Recorded
  <2>3. CASE pc = "closing"
    <3>1. have_handled_message = 0
      BY Zenon, <2>3 DEF PolicyInv
    <3>2. Silent
      BY <1>3, <2>1, <2>3, <3>1
         DEF StartOfWindow, Silent, ltckpt_detect_start_of_window_hook
    <3> QED BY Zenon, <3>2, SilentKeepsPolicy
  <2> QED BY Zenon, <1>3, <2>2, <2>3 DEF StartOfWindow
<1>4. CASE sef_fi_custom
  BY Zenon, <1>4, SilentKeepsPolicy DEF sef_fi_custom, Silent, globals
<1>5. CASE HandlerReturns
  BY Zenon, <1>5, SilentKeepsPolicy DEF HandlerReturns, Silent, globals, ghostVars
<1>6. CASE ReachSite
  BY Zenon, <1>6, SilentKeepsPolicy DEF ReachSite, Silent, globals, ghostVars
<1>7. CASE HookPasses
  BY Zenon, <1>7, SilentKeepsPolicy DEF HookPasses, HookStep, Silent
<1>8. CASE HookTrusts
  BY <1>8 DEF HookTrusts, HookStep, PolicyInv
<1>9. CASE SuicideOnce
  BY Zenon, <1>9, SilentKeepsPolicy DEF SuicideOnce, HookStep, ltckpt_do_suicide, Silent
<1>10. CASE TransitSkips
  BY Zenon, <1>10, SilentKeepsPolicy DEF TransitSkips, Transit, HookStep, Silent
<1>11. CASE SuicidePeriodically
  BY Zenon, <1>11, SilentKeepsPolicy
     DEF SuicidePeriodically, Transit, HookStep, ltckpt_do_suicide, Silent
<1>12. CASE SuicideBeyondBoard
  BY Zenon, <1>12, SilentKeepsPolicy
     DEF SuicideBeyondBoard, HookStep, ltckpt_do_suicide, Silent
<1>13. CASE PolicyHook
  <2>1. /\ pc' = "call" /\ effects' = effects
        /\ inside_trusted_compute_base' = inside_trusted_compute_base
    BY Zenon, <1>13 DEF PolicyHook, ghostVars
  <2>2. inside_trusted_compute_base = 0 => Recorded' /\ Announced'
    BY Zenon, <1>13, <2>1, HookAnnounces, RecordedGrows DEF PolicyInv
  <2> QED BY Zenon, <2>1, <2>2 DEF PolicyInv
<1>14. CASE Call
  <2>1. /\ pc = "call" /\ pc' \in {"loop", "idle", "handler"}
        /\ effects' = effects \cup {PolicyOf[site]}
        /\ UNCHANGED <<inside_trusted_compute_base, g_recovery_bitmask>>
    BY Zenon, <1>14 DEF Call, TypeOK, globals
  <2>2. inside_trusted_compute_base = 0 => Recorded'
    BY Zenon, <2>1 DEF PolicyInv, Recorded, Announced
  <2> QED BY Zenon, <2>1, <2>2 DEF PolicyInv
<1>15. CASE GenuineCrash
  BY Zenon, <1>15, SilentKeepsPolicy DEF GenuineCrash, Silent, globals
<1>16. CASE Restart
  BY <1>16 DEF Restart, PolicyInv
<1>17. CASE Dispatch
  BY <1>17 DEF Dispatch, PolicyInv
<1>18. CASE Stopped \/ UNCHANGED vars
  BY Zenon, <1>18 DEF Stopped, vars, globals, ghostVars, PolicyInv, Recorded, Announced
<1> QED
  BY Zenon, <1>1, <1>2, <1>3, <1>4, <1>5, <1>6, <1>7, <1>8, <1>9, <1>10, <1>11,
           <1>12, <1>13, <1>14, <1>15, <1>16, <1>17, <1>18, Zenon DEF Next

-----------------------------------------------------------------------------
(* Planned crashes.                                                        *)

\* Steps that do not lead into a crash and keep the message.
Calm == pc' \notin {"crashed", "dispatch"} /\ UNCHANGED <<msg, from_rs>>

\* They keep the claim about planned crashes.
LEMMA CalmKeepsPlanned ==
  ASSUME PlannedInv, Calm
  PROVE  PlannedInv'
BY Zenon DEF PlannedInv, Calm

\* The hook crashes the server only where the request can be aborted.
LEMMA SuicideIsPlanned ==
  ASSUME TypeOK, PolicyInv, PlannedInv, Allowed, HookStep, ltckpt_do_suicide
  PROVE  PlannedInv'
<1>1. UNCHANGED <<g_recovery_bitmask, effects, have_handled_message, msg, from_rs>>
  BY Zenon DEF HookStep
<1>2. CASE pc' = "crashed"
  <2>1. inside_trusted_compute_base = 0 /\ g_recovery_bitmask = {"IDEMPOTENT"}
    BY Zenon, <1>2 DEF ltckpt_do_suicide
  <2>2. Recorded'
    BY Zenon, <1>1, <2>1 DEF PolicyInv, Recorded
  <2>3. /\ have_handled_message = 1 /\ from_rs = 0
        /\ LTRC_SUICIDE_WHEN_RECOVERABLE => msg.replyable = 1
    BY Zenon DEF Allowed, HaveMessage, ltckpt_is_message_replyable
  <2> QED BY Zenon, <1>1, <2>1, <2>2, <2>3 DEF PlannedInv
<1>3. CASE pc' = "policy"
  BY Zenon, <1>1, <1>3 DEF PlannedInv
<1> QED BY Zenon, <1>2, <1>3 DEF ltckpt_do_suicide
\* Every step keeps the claim about planned crashes.
LEMMA NextPlanned ==
  TypeOK /\ PolicyInv /\ PlannedInv /\ [Next]_vars => PlannedInv'
<1> SUFFICES ASSUME TypeOK, PolicyInv, PlannedInv, [Next]_vars PROVE PlannedInv'
  OBVIOUS
<1>1. CASE SefInitDone
  BY Zenon, <1>1, CalmKeepsPlanned DEF SefInitDone, Calm
<1>2. CASE SefHandleMessage
  <2>1. pc' \notin {"crashed", "dispatch"} /\ (from_rs' = 0 => msg'.fi_ctl = 0)
    BY <1>2, SitesAssumption DEF SefHandleMessage, PlannedInv
  <2> QED BY Zenon, <2>1 DEF PlannedInv
<1>3. CASE StartOfWindow
  BY Zenon, <1>3, CalmKeepsPlanned DEF StartOfWindow, Calm
<1>4. CASE sef_fi_custom
  BY Zenon, <1>4, CalmKeepsPlanned DEF sef_fi_custom, Calm
<1>5. CASE HandlerReturns
  BY Zenon, <1>5, CalmKeepsPlanned DEF HandlerReturns, Calm
<1>6. CASE ReachSite
  BY Zenon, <1>6, CalmKeepsPlanned DEF ReachSite, Calm
<1>7. CASE HookPasses
  BY Zenon, <1>7, CalmKeepsPlanned DEF HookPasses, HookStep, Calm
<1>8. CASE HookTrusts
  BY Zenon, <1>8, CalmKeepsPlanned DEF HookTrusts, HookStep, Calm
<1>9. CASE SuicideOnce
  BY Zenon, <1>9, SuicideIsPlanned DEF SuicideOnce
<1>10. CASE TransitSkips
  BY Zenon, <1>10, CalmKeepsPlanned DEF TransitSkips, Transit, HookStep, Calm
<1>11. CASE SuicidePeriodically
  BY Zenon, <1>11, SuicideIsPlanned DEF SuicidePeriodically, Transit
<1>12. CASE SuicideBeyondBoard
  BY Zenon, <1>12, SuicideIsPlanned DEF SuicideBeyondBoard
<1>13. CASE PolicyHook
  BY Zenon, <1>13, CalmKeepsPlanned DEF PolicyHook, Calm
<1>14. CASE Call
  BY Zenon, <1>14, CalmKeepsPlanned DEF Call, TypeOK, Calm
<1>15. CASE GenuineCrash
  BY Zenon, <1>15 DEF GenuineCrash, PlannedInv
<1>16. CASE Restart
  BY Zenon, <1>16 DEF Restart, ghostVars, PlannedInv, Recorded
<1>17. CASE Dispatch
  BY Zenon, <1>17, CalmKeepsPlanned DEF Dispatch, Calm
<1>18. CASE Stopped \/ UNCHANGED vars
  BY Zenon, <1>18 DEF Stopped, vars, globals, ghostVars, PlannedInv, Recorded
<1> QED
  BY Zenon, <1>1, <1>2, <1>3, <1>4, <1>5, <1>6, <1>7, <1>8, <1>9, <1>10, <1>11,
           <1>12, <1>13, <1>14, <1>15, <1>16, <1>17, <1>18, Zenon DEF Next

\* What the dispatcher does with an answerable request of which only
\* idempotent calls are known.
LEMMA IdempotentIsAnswered ==
  ASSUME TypeOK, HaveMessage, msg.replyable = 1, msg.fi_ctl = 0,
         g_recovery_bitmask = {"IDEMPOTENT"}, g_recovery_naive_mode = "DEFAULT"
  PROVE  /\ \E o \in ltckpt_recovery_dispatcher : o.r = SUCCESS
         /\ \A o \in ltckpt_recovery_dispatcher :
              o.r = SUCCESS => o.did \in {"error_reply", "rehandle"}
<1>1. ltckpt_recovery_dispatcher =
        UNION {AbortOnFailure(NaiveOverride(o)) : o \in ltckpt_recovery_idempotent}
  BY DEF ltckpt_recovery_dispatcher, rs_fi_flag, Replyable, HaveMessage,
         ltckpt_is_message_replyable, PolicyOutcomes
<1>2. \A o : NaiveOverride(o) = o
  BY Zenon DEF NaiveOverride
<1>3. CASE LTRC_REHANDLE_REQUEST
  <2>1. ltckpt_recovery_idempotent = {[r |-> SUCCESS, did |-> "rehandle"]}
    BY <1>3 DEF ltckpt_recovery_idempotent, rs_fi_flag
  <2> QED BY <1>1, <1>2, <2>1 DEF AbortOnFailure, SUCCESS, FAILURE
<1>4. CASE ~ LTRC_REHANDLE_REQUEST
  <2>1. ltckpt_recovery_idempotent = {[r |-> SUCCESS, did |-> "error_reply"], Failed}
    BY <1>4 DEF ltckpt_recovery_idempotent, ltckpt_send_reply
  <2> QED BY <1>1, <1>2, <2>1 DEF AbortOnFailure, SUCCESS, FAILURE, Failed
<1> QED BY Zenon, <1>3, <1>4

-----------------------------------------------------------------------------
(* The theorems.                                                           *)

\* The invariant holds of the freshly started server.
LEMMA InitInvariant == Init => IInv
<1> SUFFICES ASSUME Init PROVE IInv
  OBVIOUS
<1>1. TypeOK
  BY Zenon, InitTypes
<1>2. CommandInv /\ SiteInv
  BY SitesAssumption DEF Init, CommandInv, SiteInv, Flag
<1>3. PeriodInv
  BY DEF Init, PeriodInv, Slot, Max1
<1>4. PolicyInv /\ PlannedInv
  BY SitesAssumption DEF Init, GlobalsInit, PolicyInv, PlannedInv
<1> QED BY Zenon, <1>1, <1>2, <1>3, <1>4 DEF IInv

\* In every state of every run with planned crashes the invariant holds,
\* whatever the sites, their policies and the options of the build are.
THEOREM FaultInvariantHolds == Spec => []IInv
<1>1. IInv /\ [Next]_vars => IInv'
  BY NextTypes, NextCommand, NextSite, NextPeriods, NextPolicy, NextPlanned, Zenon
     DEF IInv
<1> QED BY <1>1, InitInvariant, PTL DEF Spec

\* A planned crash hits a request that recovery can abort.
THEOREM PlannedCrashesAreAborted == Spec => []PlannedCrashIsAborted
<1>1. IInv => PlannedCrashIsAborted
  <2> SUFFICES ASSUME IInv, pc = "dispatch", crash = "planned"
               PROVE  /\ effects \cap {"fail_stop", "process_local"} = {}
                      /\ HaveMessage /\ from_rs = 0
                      /\ LTRC_SUICIDE_WHEN_RECOVERABLE
                           /\ g_recovery_naive_mode = "DEFAULT" =>
                         /\ \E o \in ltckpt_recovery_dispatcher : o.r = SUCCESS
                         /\ \A o \in ltckpt_recovery_dispatcher :
                              o.r = SUCCESS => o.did \in {"error_reply", "rehandle"}
    BY Zenon DEF PlannedCrashIsAborted
  <2>1. /\ g_recovery_bitmask = {"IDEMPOTENT"} /\ Recorded
        /\ have_handled_message = 1 /\ from_rs = 0 /\ msg.fi_ctl = 0
        /\ LTRC_SUICIDE_WHEN_RECOVERABLE => msg.replyable = 1
    BY Zenon DEF IInv, PlannedInv
  <2>2. effects \cap {"fail_stop", "process_local"} = {}
    BY Zenon, <2>1 DEF Recorded
  <2>3. TypeOK /\ HaveMessage
    BY Zenon, <2>1 DEF IInv, HaveMessage
  <2> QED BY <2>1, <2>2, <2>3, IdempotentIsAnswered, Zenon
<1> QED BY <1>1, FaultInvariantHolds, PTL

\* A command of RS crashes the server at most once, for any number of
\* crashes and recoveries in between.
THEOREM OneCrashEachCommand == Spec => []OneCrashPerCommand
<1>1. IInv => OneCrashPerCommand
  BY DEF IInv, CommandInv, OneCrashPerCommand, TypeOK, Flag
<1> QED BY <1>1, FaultInvariantHolds, PTL

\* In a build without periods a site crashes the server at most once.
THEOREM OneCrashEachSite == Spec => []OneCrashPerSite
<1>1. IInv => OneCrashPerSite
  BY DEF IInv, SiteInv, OneCrashPerSite, TypeOK, Flag
<1> QED BY <1>1, FaultInvariantHolds, PTL

\* The variables of the fault hook keep their types.
THEOREM FaultTypesHold == Spec => []TypeOK
<1>1. IInv => TypeOK
  BY Zenon DEF IInv
<1> QED BY <1>1, FaultInvariantHolds, PTL

\* With periods n crashes of a site take at least n * n passes.
THEOREM PlannedCrashesGetRarer == Spec => []CrashesGetRarer
<1>1. IInv => CrashesGetRarer
  <2> SUFFICES ASSUME IInv, LTRC_SUICIDE_PERIODICALLY,
                      NEW s \in Sites, s < BEN_BOARD
               PROVE  crashes[s] * crashes[s] <= passes[s]
    BY Zenon DEF CrashesGetRarer
  <2>1. Slot(crashes[s], transits[s], period[s], passes[s])
    BY Zenon DEF IInv, PeriodInv
  <2>2. /\ crashes[s] \in Nat /\ transits[s] \in Nat /\ passes[s] \in Nat
    BY Zenon DEF IInv, TypeOK
  <2> QED BY <2>1, <2>2 DEF Slot
<1> QED BY <1>1, FaultInvariantHolds, PTL
=============================================================================
