----------------------------- MODULE FaultSites -----------------------------
(***************************************************************************)
(* Planned crashes.  In a build with deterministic fault injection every   *)
(* call site has a second hook, in front of its policy hook, that crashes  *)
(* the server on purpose: once per command of RS, once per site, or ever   *)
(* more rarely.  The module composes that hook with the recovery window,   *)
(* the policy hooks, a crash and the dispatcher.  Library functions and    *)
(* data have sections of their own, so the undo log leaves them alone and  *)
(* what the hooks wrote before a crash is there after it.                  *)
(***************************************************************************)
EXTENDS Recovery

CONSTANTS
  Sites,                          \* site ids that hooks are planted with
  PolicyOf,                       \* the policy hook of each
  Armed,                          \* g_shutter_board[s].do_suicide at start-up
  g_num_window_shutters,
  g_num_kernelcall_shutters,
  LTCKPT_SHUTTER_BOARD_IPC_END,
  BEN_BOARD,                      \* entries of the array board
  LTRC_SUICIDE_PERIODICALLY, LTRC_SUICIDE_ONLY_ONCE,
  LTRC_SUICIDE_WHEN_RECOVERABLE,  \* compile-time options of the library
  Requests,                       \* messages of other processes than RS
  MaxPasses, MaxCommands          \* bounds

ASSUME SitesAssumption ==
  /\ Sites \subseteq Nat
  /\ PolicyOf \in [Sites -> SiteKinds] /\ Armed \in [Sites -> Flag]
  /\ BEN_BOARD \in Nat
  /\ LTRC_SUICIDE_PERIODICALLY \in BOOLEAN
  /\ LTRC_SUICIDE_ONLY_ONCE \in BOOLEAN
  /\ LTRC_SUICIDE_WHEN_RECOVERABLE \in BOOLEAN
  /\ Requests \subseteq {m \in Messages : m.fi_ctl = 0}

VARIABLES
  pc,
  from_rs,                  \* the current message is one of RS
  sef_init_done,            \* external: SEF has finished initialising
  suicide_on_window_close,  \* planned crashes are enabled
  do_suicide,               \* g_shutter_board[s].do_suicide
  transits, period,         \* board[s]
  site, back,               \* the site being passed; where it belongs to
  g_num_suicides,
  commands,                 \* ghost: calls of sef_fi_custom
  passes, crashes,          \* ghost: per site, transits counted and crashes
  effects,                  \* ghost: kinds of the calls since the window opened
  crash                     \* ghost: the last crash was "planned" or "genuine"

boardVars == <<do_suicide, transits, period, passes>>
ghostVars == <<commands, crashes, effects, crash>>
vars == <<globals, hookVars, msg, pc, from_rs, sef_init_done,
          suicide_on_window_close, boardVars, site, back, g_num_suicides,
          ghostVars>>

\* From RS: the command to inject faults, and any other message.
RsMessages == {[user |-> 0, replyable |-> r, fi_ctl |-> f] : r \in Flag, f \in Flag}

Init ==
  /\ GlobalsInit
  /\ msg \in Requests /\ from_rs = 0
  /\ pc = "loop" /\ sef_init_done = 0
  /\ suicide_on_window_close = 0 /\ do_suicide = Armed
  /\ transits = [s \in Sites |-> 0] /\ period = [s \in Sites |-> 0]
  /\ site \in Sites /\ back = "loop" /\ g_num_suicides = 0
  /\ commands = 0 /\ effects = {} /\ crash = "genuine"
  /\ passes = [s \in Sites |-> 0] /\ crashes = [s \in Sites |-> 0]

-----------------------------------------------------------------------------
(* The message loop (SEF, external) with the hook at its returns.          *)

SefInitDone ==
  /\ pc = "loop" /\ sef_init_done = 0 /\ sef_init_done' = 1
  /\ UNCHANGED <<globals, hookVars, msg, pc, from_rs, suicide_on_window_close,
                 boardVars, site, back, g_num_suicides, ghostVars>>

SefHandleMessage ==
  /\ \/ /\ pc = "loop" /\ pc' = "closing" /\ have_handled_message' = 0
        /\ UNCHANGED <<msg, from_rs>>
     \/ /\ pc = "idle" /\ pc' = "opening" /\ have_handled_message' = 1
        /\ IF "REPROCESSING" \in g_recovery_bitmask THEN UNCHANGED <<msg, from_rs>>
           ELSE \/ msg' \in Requests /\ from_rs' = 0
                \/ msg' \in RsMessages /\ from_rs' = 1
  /\ UNCHANGED <<sa_window__is_open, g_recovery_bitmask,
                 inside_trusted_compute_base, hookVars, sef_init_done,
                 suicide_on_window_close, boardVars, site, back,
                 g_num_suicides, ghostVars>>

StartOfWindow ==
  /\ pc \in {"closing", "opening"}
  /\ pc' = IF pc = "opening" THEN "handler" ELSE "idle"
  /\ effects' = IF pc = "opening" THEN {} ELSE effects
  /\ ltckpt_detect_start_of_window_hook
  /\ ltckpt_set_naive_recovery
  /\ UNCHANGED <<msg, from_rs, sef_init_done, suicide_on_window_close,
                 boardVars, site, back, g_num_suicides, commands, crashes, crash>>

\* Planned crashes are switched on by a command of RS.
sef_fi_custom ==
  /\ pc = "handler" /\ msg.fi_ctl = 1
  /\ commands < MaxCommands /\ commands' = commands + 1
  /\ suicide_on_window_close' =
       IF LTRC_SUICIDE_PERIODICALLY \/ LTRC_SUICIDE_ONLY_ONCE
       THEN 1 ELSE suicide_on_window_close
  /\ UNCHANGED <<globals, hookVars, msg, pc, from_rs, sef_init_done, boardVars,
                 site, back, g_num_suicides, crashes, effects, crash>>

HandlerReturns ==
  /\ pc = "handler" /\ pc' = "loop"
  /\ UNCHANGED <<globals, hookVars, msg, from_rs, sef_init_done,
                 suicide_on_window_close, boardVars, site, back,
                 g_num_suicides, ghostVars>>

-----------------------------------------------------------------------------
(* Passing a call site: fault hook, policy hook, call.  Sites are passed   *)
(* by handlers and by the code around them.                                *)

ReachSite ==
  /\ pc \in {"loop", "idle", "handler"} /\ pc' = "site"
  /\ back' = pc /\ site' \in Sites
  /\ UNCHANGED <<globals, hookVars, msg, from_rs, sef_init_done,
                 suicide_on_window_close, boardVars, g_num_suicides, ghostVars>>

CHECK_SHUTTER_BOARD_SIZE(i) ==
  IF i <= LTCKPT_SHUTTER_BOARD_IPC_END THEN i < g_num_window_shutters
  ELSE i <= LTCKPT_SHUTTER_BOARD_IPC_END + g_num_kernelcall_shutters

\* The hook goes on to look at the board.
HookActive ==
  /\ CHECK_SHUTTER_BOARD_SIZE(site)
  /\ inside_trusted_compute_base = 0

Wanted ==
  /\ HookActive /\ sef_init_done = 1
  /\ sa_window__is_open = 1 /\ do_suicide[site] > 0
  /\ suicide_on_window_close = 1

\* RS itself must be up to restart the server (sys_privctl_get_rs_ready, a
\* kernel call): a wanted crash may always be refused for that.
Allowed ==
  /\ Wanted /\ HaveMessage /\ from_rs = 0
  /\ LTRC_SUICIDE_WHEN_RECOVERABLE => ltckpt_is_message_replyable = 1

HookStep ==
  /\ pc = "site"
  /\ UNCHANGED <<sa_window__is_open, g_recovery_bitmask, have_handled_message,
                 hookVars, msg, from_rs, sef_init_done, site, back, commands,
                 effects>>

\* The hook returns without a trace.
HookPasses ==
  /\ HookActive => sef_init_done = 1
  /\ HookStep /\ pc' = "policy"
  /\ UNCHANGED <<inside_trusted_compute_base, suicide_on_window_close,
                 boardVars, g_num_suicides, crashes, crash>>

\* Before SEF is initialised the hook makes everything trusted.
HookTrusts ==
  /\ HookActive /\ sef_init_done = 0
  /\ HookStep /\ pc' = "policy"
  /\ inside_trusted_compute_base' = 1
  /\ UNCHANGED <<suicide_on_window_close, boardVars, g_num_suicides, crashes,
                 crash>>

DoSuicideUnchecked ==
  /\ suicide_on_window_close' =
       IF LTRC_SUICIDE_ONLY_ONCE THEN 0 ELSE suicide_on_window_close
  /\ pc' = "crashed" /\ crash' = "planned"
  /\ g_num_suicides' = g_num_suicides + 1
  /\ crashes' = [crashes EXCEPT ![site] = @ + 1]

DoSuicideStaysEnabled ==
  /\ UNCHANGED suicide_on_window_close
  /\ IF inside_trusted_compute_base = 0 /\ g_recovery_bitmask = {"IDEMPOTENT"}
     THEN /\ pc' = "crashed" /\ crash' = "planned"
          /\ g_num_suicides' = g_num_suicides + 1
          /\ crashes' = [crashes EXCEPT ![site] = @ + 1]
     ELSE pc' = "policy" /\ UNCHANGED <<crash, g_num_suicides, crashes>>

\* Crash, unless a call that cannot be undone may have been made.
ltckpt_do_suicide ==
  /\ suicide_on_window_close' =
       IF LTRC_SUICIDE_ONLY_ONCE THEN 0 ELSE suicide_on_window_close
  /\ IF inside_trusted_compute_base = 0 /\ g_recovery_bitmask = {"IDEMPOTENT"}
     THEN /\ pc' = "crashed" /\ crash' = "planned"
          /\ g_num_suicides' = g_num_suicides + 1
          /\ crashes' = [crashes EXCEPT ![site] = @ + 1]
     ELSE pc' = "policy" /\ UNCHANGED <<crash, g_num_suicides, crashes>>

NoDisarm == UNCHANGED boardVars

\* In a build without periods a site is used up.
Disarm ==
  /\ do_suicide' = [do_suicide EXCEPT ![site] = 0]
  /\ UNCHANGED <<transits, period, passes>>

SuicideOnce ==
  /\ ~ LTRC_SUICIDE_PERIODICALLY
  /\ Allowed /\ HookStep
  /\ Disarm
  /\ ltckpt_do_suicide
  /\ UNCHANGED inside_trusted_compute_base

\* period++, *= 3, /= 2
SamePeriod(p) == p
NextPeriod(p) == ((p + 1) * 3) \div 2

Period == IF period[site] < 1 THEN 1 ELSE period[site]

Due == (transits[site] + 1) % Period = 0

Transit ==
  /\ LTRC_SUICIDE_PERIODICALLY /\ site < BEN_BOARD
  /\ Allowed /\ HookStep
  /\ passes[site] < MaxPasses
  /\ passes' = [passes EXCEPT ![site] = @ + 1]
  /\ UNCHANGED <<do_suicide, inside_trusted_compute_base>>

TransitSkips ==
  /\ Transit /\ ~ Due /\ pc' = "policy"
  /\ transits' = [transits EXCEPT ![site] = @ + 1]
  /\ period' = [period EXCEPT ![site] = Period]
  /\ UNCHANGED <<suicide_on_window_close, g_num_suicides, crashes, crash>>

SuicidePeriodically ==
  /\ Transit /\ Due
  /\ transits' = [transits EXCEPT ![site] = 0]
  /\ period' = [period EXCEPT ![site] = NextPeriod(Period)]
  /\ ltckpt_do_suicide

\* Beyond the array board the counters are whatever is stored there.
SuicideBeyondBoard ==
  /\ LTRC_SUICIDE_PERIODICALLY /\ site >= BEN_BOARD
  /\ Allowed /\ HookStep
  /\ crashes[site] < MaxPasses
  /\ ltckpt_do_suicide
  /\ UNCHANGED <<boardVars, inside_trusted_compute_base>>

PolicyHook ==
  /\ pc = "policy" /\ pc' = "call"
  /\ policy_hook(PolicyOf[site])
  /\ UNCHANGED <<inside_trusted_compute_base, have_handled_message, hookVars,
                 msg, from_rs, sef_init_done, suicide_on_window_close,
                 boardVars, site, back, g_num_suicides, ghostVars>>

Call ==
  /\ pc = "call" /\ pc' = back
  /\ effects' = effects \cup {PolicyOf[site]}
  /\ UNCHANGED <<globals, hookVars, msg, from_rs, sef_init_done,
                 suicide_on_window_close, boardVars, site, back,
                 g_num_suicides, commands, crashes, crash>>

-----------------------------------------------------------------------------
(* Crashes and recovery (the restart in detail is in OsirisServer).        *)

GenuineCrash ==
  /\ pc \in {"handler", "policy", "call", "loop"} /\ pc' = "crashed"
  /\ crash' = "genuine"
  /\ UNCHANGED <<globals, hookVars, msg, from_rs, sef_init_done,
                 suicide_on_window_close, boardVars, site, back,
                 g_num_suicides, commands, crashes, effects>>

\* State transfer brings back the library's variables; it may fail.
Restart ==
  /\ pc = "crashed" /\ pc' \in {"dispatch", "down"}
  /\ inside_trusted_compute_base' = 1
  /\ UNCHANGED <<sa_window__is_open, g_recovery_bitmask, have_handled_message,
                 hookVars, msg, from_rs, sef_init_done,
                 suicide_on_window_close, boardVars, site, back,
                 g_num_suicides, ghostVars>>

Dispatch ==
  /\ pc = "dispatch"
  /\ inside_trusted_compute_base' = 1
  /\ \E o \in ltckpt_recovery_dispatcher :
       /\ pc' = IF o.did = "shutdown" \/ o.r = FAILURE THEN "down" ELSE "loop"
       /\ g_recovery_bitmask' = g_recovery_bitmask \cup
            IF o.did = "rehandle" THEN {"REPROCESSING"} ELSE {}
  /\ UNCHANGED <<sa_window__is_open, have_handled_message, hookVars, msg,
                 from_rs, sef_init_done, suicide_on_window_close, boardVars,
                 site, back, g_num_suicides, ghostVars>>

Stopped == pc = "down" /\ UNCHANGED vars

Next ==
  \/ SefInitDone \/ SefHandleMessage \/ StartOfWindow \/ sef_fi_custom
  \/ HandlerReturns \/ ReachSite \/ HookPasses \/ HookTrusts \/ SuicideOnce
  \/ TransitSkips \/ SuicidePeriodically \/ SuicideBeyondBoard
  \/ PolicyHook \/ Call \/ GenuineCrash \/ Restart \/ Dispatch \/ Stopped

Spec == Init /\ [][Next]_vars

-----------------------------------------------------------------------------
(* Properties.                                                             *)

Pcs == {"loop", "closing", "idle", "opening", "handler", "site", "policy",
        "call", "crashed", "dispatch", "down"}

\* Every variable keeps its type.
TypeOK ==
  /\ GlobalsTypeOK
  /\ msg \in Messages /\ from_rs \in Flag /\ sef_init_done \in Flag
  /\ pc \in Pcs /\ back \in {"loop", "idle", "handler"}
  /\ suicide_on_window_close \in Flag
  /\ do_suicide \in [Sites -> Flag]
  /\ transits \in [Sites -> Nat] /\ period \in [Sites -> Nat]
  /\ site \in Sites
  /\ g_num_suicides \in Nat /\ commands \in Nat
  /\ passes \in [Sites -> Nat] /\ crashes \in [Sites -> Nat]
  /\ effects \in SUBSET SiteKinds /\ crash \in {"planned", "genuine"}

\* A planned crash hits a request that recovery can abort: no call that
\* outlives the request was made, the request is not one of RS, which has to
\* restart the server, and in a build that crashes only when recoverable the
\* dispatcher answers it with ERESTART or handles it again unless a kernel
\* call fails (ltckpt_do_suicide_per_site, ltckpt_do_suicide).
PlannedCrashIsAborted ==
  pc = "dispatch" /\ crash = "planned" =>
    /\ effects \cap {"fail_stop", "process_local"} = {}
    /\ HaveMessage /\ from_rs = 0
    /\ LTRC_SUICIDE_WHEN_RECOVERABLE /\ g_recovery_naive_mode = "DEFAULT" =>
         /\ \E o \in ltckpt_recovery_dispatcher : o.r = SUCCESS
         /\ \A o \in ltckpt_recovery_dispatcher :
              o.r = SUCCESS => o.did \in {"error_reply", "rehandle"}

\* With LTRC_SUICIDE_ONLY_ONCE a command of RS crashes the server at most
\* once, whatever crashes and recoveries come in between.
OneCrashPerCommand ==
  LTRC_SUICIDE_ONLY_ONCE => g_num_suicides <= commands

\* Without LTRC_SUICIDE_PERIODICALLY no site crashes the server twice, also
\* when the aborted request is repeated: the board survives the crash.
OneCrashPerSite ==
  ~ LTRC_SUICIDE_PERIODICALLY => \A s \in Sites : crashes[s] <= 1

\* With LTRC_SUICIDE_PERIODICALLY the crashes of a site get ever rarer: n of
\* them take at least n * n passes of the site, so that a request that is
\* repeated often enough gets past it.
CrashesGetRarer ==
  LTRC_SUICIDE_PERIODICALLY =>
    \A s \in Sites : s < BEN_BOARD => crashes[s] * crashes[s] <= passes[s]

\* The site ids that pass the size check ("outside the shutter_board") are
\* entries of the array that the hook counts in.
CheckedSitesAreOnBoard ==
  LTRC_SUICIDE_PERIODICALLY /\ pc = "site" /\ Allowed => site < BEN_BOARD
=============================================================================
