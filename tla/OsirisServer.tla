---------------------------- MODULE OsirisServer ----------------------------
(***************************************************************************)
(* One instrumented MINIX server: its message loop, its handlers with the  *)
(* hooks that instrumentation puts around stores and call sites, a crash   *)
(* at any point of a handler, and the restart of the server: identity      *)
(* state transfer, rollback of the undo log and the recovery dispatcher.   *)
(*                                                                         *)
(* The message loop calls sef_handle_message twice per request, with       *)
(* delivering = 0 on the way into receive and delivering = 1 with the      *)
(* message that arrived.  Its entry runs the top-of-the-loop hook, its     *)
(* return the start-of-window hook.  SEF itself, the kernel and RS are     *)
(* outside this repository.                                                *)
(***************************************************************************)
EXTENDS WriteLog

CONSTANTS
  Stores,         \* the <<address, size>> that single stores write
  Copies,         \* the <<address, size>> that memcpy and memset write
  ResumeStores,   \* stores of the start-up code between recovery and receive
  StackByte,      \* where a system-call stub builds its request
  Sites,          \* the kinds of call sites in the handlers
  Requests        \* the messages that arrive

Range(w) == w[1] .. (w[1] + w[2] - 1)

\* A store has its natural alignment, so it stays inside one region.
ASSUME AccessAssumption ==
  /\ \A w \in Stores \cup Copies \cup ResumeStores :
       w[1] \in Nat /\ w[2] \in Nat \ {0} /\ Range(w) \subseteq Bytes
  /\ \A w \in Stores : \A b \in Range(w) : RegionBase(b) = RegionBase(w[1])
  /\ StackByte \in Bytes /\ StackByte > datamax
  /\ Requests \subseteq Messages /\ Sites \subseteq SiteKinds

VARIABLES
  pc, delivering,
  access, reg,              \* <<address, size, value>> being logged; the loop
  site,                     \* the call site being passed
  old, old_wl,              \* globals and log of the crashed instance
  stub_ret,                 \* where a system-call stub returns to
  num_entries, walked,      \* the restart hook's num_entries and i
  snap,                     \* ghost: memory when the window was opened
  effects,                  \* ghost: kinds of the calls made since then
  recoveries,               \* ghost: recoveries since then, at most 2
  did                       \* ghost: what the last recovery did

opVars == <<access, reg, site>>
restartVars == <<old, old_wl, stub_ret, num_entries, walked>>
ghostVars == <<snap, effects, recoveries, did>>
vars == <<globals, hookVars, msg, writelogVars, pc,
          delivering, opVars, restartVars, ghostVars>>

NoAccess == <<0, 0>>

OldInstance ==
  [window |-> sa_window__is_open, mask |-> g_recovery_bitmask,
   tcb |-> inside_trusted_compute_base, have |-> have_handled_message,
   prior |-> prior_have_handled_message, position |-> wl_position,
   enabled |-> ltckpt_writelog_enabled]

NoInstance ==
  [window |-> 0, mask |-> {}, tcb |-> 0, have |-> 0, prior |-> 0,
   position |-> 0, enabled |-> 0]

Init ==
  /\ GlobalsInit /\ WriteLogInit
  /\ msg \in Requests
  /\ \E v \in Vals : mem = [b \in Bytes |-> v]
  /\ pc = "tol" /\ delivering = 0
  /\ access = NoAccess /\ reg = 0 /\ site = "idempotent"
  /\ old = NoInstance /\ old_wl = << >> /\ stub_ret = "r_addr" /\ num_entries = 0 /\ walked = 0
  /\ snap = mem /\ effects = {} /\ recoveries = 0 /\ did = "nothing"

-----------------------------------------------------------------------------
(* The message loop.                                                       *)

\* Entry of sef_handle_message.
TopOfTheLoop ==
  /\ pc = "tol" /\ pc' = "sef"
  /\ top_of_the_loop
  /\ UNCHANGED <<globals, hookVars, msg, mem, delivering,
                 opVars, restartVars, ghostVars>>

\* Body of sef_handle_message (external).  A request marked for reprocessing
\* is handed out again.
SefHandleMessage ==
  /\ pc = "sef" /\ pc' = "start"
  /\ have_handled_message' = delivering
  /\ IF delivering = 1 /\ "REPROCESSING" \notin g_recovery_bitmask
     THEN msg' \in Requests
     ELSE UNCHANGED msg
  /\ UNCHANGED <<sa_window__is_open, g_recovery_bitmask,
                 inside_trusted_compute_base, hookVars,
                 writelogVars, delivering, opVars, restartVars, ghostVars>>

\* Return of sef_handle_message.
StartOfWindow ==
  /\ pc = "start"
  /\ ltckpt_detect_start_of_window_hook
  /\ ltckpt_set_naive_recovery
  /\ IF delivering = 0
     THEN pc' = "tol" /\ delivering' = 1 /\ UNCHANGED ghostVars
     ELSE /\ pc' = "handler" /\ UNCHANGED delivering
          /\ snap' = mem /\ effects' = {} /\ recoveries' = 0 /\ did' = "nothing"
  /\ UNCHANGED <<msg, writelogVars, opVars, restartVars>>

-----------------------------------------------------------------------------
(* A handler: hook, then store; hook, then call.                           *)

HandlerStep(from, to) ==
  /\ pc = from /\ pc' = to
  /\ UNCHANGED <<hookVars, msg, delivering, restartVars,
                 have_handled_message, inside_trusted_compute_base,
                 ltckpt_writelog_enabled, num_tols, snap, recoveries, did>>

BeginStore(w, v) ==
  /\ HandlerStep("handler", "store_hook")
  /\ access' = <<w[1], w[2], v>>
  /\ UNCHANGED <<reg, site, mem, logVars, sa_window__is_open,
                 g_recovery_bitmask, effects>>

StoreHook ==
  /\ HandlerStep("store_hook", "write")
  /\ store_hook(access[1])
  /\ UNCHANGED <<opVars, mem, effects>>

BeginCopy(w, v) ==
  /\ HandlerStep("handler", "copy_hook")
  /\ access' = <<w[1], w[2], v>> /\ reg' = MemcpyFirst(w[1])
  /\ UNCHANGED <<site, mem, logVars, sa_window__is_open,
                 g_recovery_bitmask, effects>>

\* One iteration of the memcpy hook.
CopyHook ==
  /\ reg < access[1] + access[2]
  /\ HandlerStep("copy_hook", "copy_hook")
  /\ store_hook(reg)
  /\ reg' = MemcpyNext(reg)
  /\ UNCHANGED <<access, site, mem, effects>>

CopyHookDone ==
  /\ reg >= access[1] + access[2]
  /\ HandlerStep("copy_hook", "write")
  /\ UNCHANGED <<opVars, mem, logVars, sa_window__is_open,
                 g_recovery_bitmask, effects>>

\* The store or copy itself.
Write ==
  /\ HandlerStep("write", "handler")
  /\ mem' = [b \in Bytes |-> IF b \in Range(access) THEN access[3] ELSE mem[b]]
  /\ access' = NoAccess /\ reg' = 0
  /\ UNCHANGED <<site, logVars, sa_window__is_open, g_recovery_bitmask,
                 effects>>

\* The policy hook in front of a call site, then the call.
PolicyHook(k) ==
  /\ HandlerStep("handler", "call")
  /\ policy_hook(k)
  /\ site' = k
  /\ UNCHANGED <<access, reg, mem, logVars, effects>>

Call ==
  /\ HandlerStep("call", "handler")
  /\ effects' = effects \cup {site}
  /\ site' = "idempotent"
  /\ UNCHANGED <<access, reg, mem, logVars, sa_window__is_open, g_recovery_bitmask>>

HandlerReturns ==
  /\ pc = "handler" /\ pc' = "tol" /\ delivering' = 0
  /\ UNCHANGED <<globals, hookVars, msg, writelogVars,
                 opVars, restartVars, ghostVars>>

-----------------------------------------------------------------------------
(* Crash and restart.  The recovery library and SEF are trusted: a crash   *)
(* hits a handler, a hook's caller, or the loop around the handlers.       *)

CrashPoints == {"handler", "store_hook", "copy_hook", "write", "call", "tol",
                "resume"}

\* RS replaces the crashed server by a fresh instance (external).  What the
\* restart code does not read before the state transfer brings it over, the
\* naive mode and the server's memory, is left in place.
Crash ==
  /\ pc \in CrashPoints /\ pc' = "r_disable"
  /\ old' = OldInstance /\ old_wl' = wl_data
  /\ sa_window__is_open' = 0 /\ g_recovery_bitmask' = {"IDEMPOTENT"}
  /\ inside_trusted_compute_base' = 1 /\ have_handled_message' = 0
  /\ prior_have_handled_message' = 0
  /\ wl_position' = 0 /\ ltckpt_writelog_enabled' = 0
  /\ access' = NoAccess /\ reg' = 0 /\ site' = "idempotent"
  /\ UNCHANGED <<g_recovery_naive_mode, msg, mem, wl_data, num_tols, delivering,
                 stub_ret, num_entries, walked, ghostVars>>

\* A kernel call of the restart hook fails: the hook returns its error and
\* the new instance does not come up.
RestartFails ==
  /\ pc \in {"r_disable", "r_transfer", "r_addr", "r_region"} /\ pc' = "failed"
  /\ UNCHANGED <<globals, hookVars, msg, writelogVars,
                 delivering, opVars, restartVars, ghostVars>>

\* The log of the crashed instance is switched off before its state is taken.
DisableOldLog ==
  /\ pc = "r_disable" /\ pc' = "r_transfer"
  /\ inside_trusted_compute_base' = 1
  /\ ltckpt_writelog_enabled' = 0
  /\ old' = [old EXCEPT !.enabled = 0]
  /\ UNCHANGED <<sa_window__is_open, g_recovery_bitmask, have_handled_message,
                 hookVars, msg, mem, logVars, num_tols,
                 delivering, opVars, old_wl, stub_ret, num_entries, walked,
                 ghostVars>>

\* Identity state transfer (external) copies the globals of the crashed
\* instance, the library's own included, over those of the new one.
StateTransfer ==
  /\ pc = "r_transfer" /\ pc' = "r_loop"
  /\ sa_window__is_open' = old.window
  /\ g_recovery_bitmask' = old.mask
  /\ inside_trusted_compute_base' = old.tcb
  /\ have_handled_message' = old.have
  /\ prior_have_handled_message' = old.prior
  /\ wl_position' = old.position
  /\ ltckpt_writelog_enabled' = old.enabled
  /\ num_entries' = old.position /\ walked' = 0
  /\ UNCHANGED <<g_recovery_naive_mode, msg, mem, wl_data, num_tols, delivering,
                 opVars, old, old_wl, stub_ret, ghostVars>>

RestartStep(from, to) ==
  /\ pc = from /\ pc' = to
  /\ UNCHANGED <<have_handled_message, hookVars, msg,
                 ltckpt_writelog_enabled, num_tols, delivering, opVars, old,
                 old_wl, num_entries, ghostVars>>

RollbackKeepsTcb ==
  /\ wl_position >= 1
  /\ RestartStep("r_loop", "r_stub")
  /\ wl_position' = wl_position - 1
  /\ walked' = walked + 1
  /\ stub_ret' = "r_addr"
  /\ UNCHANGED <<mem, wl_data, sa_window__is_open, g_recovery_bitmask,
                 inside_trusted_compute_base>>

\* One turn of the rollback loop starts by fetching an entry's address.
RollbackNext ==
  /\ wl_position >= 1
  /\ RestartStep("r_loop", "r_stub")
  /\ wl_position' = wl_position - 1
  /\ walked' = walked + 1
  /\ inside_trusted_compute_base' = 1
  /\ stub_ret' = "r_addr"
  /\ UNCHANGED <<mem, wl_data, sa_window__is_open, g_recovery_bitmask>>

\* Stubs of system calls are instrumented code: building the request is a
\* store, the trap is a call site.
StubStore ==
  /\ RestartStep("r_stub", "r_trap")
  /\ store_hook(StackByte)
  /\ UNCHANGED <<mem, inside_trusted_compute_base, stub_ret, walked>>

StubTrap ==
  /\ RestartStep("r_trap", stub_ret)
  /\ policy_hook("fail_stop")
  /\ UNCHANGED <<mem, logVars, inside_trusted_compute_base, stub_ret, walked>>

\* The slot that the loop has reached: the log is walked backwards.
SlotForward == walked
Slot == wl_position + 1

\* The log is read from the crashed instance; a slot never written is zero.
OldAddr(n) == IF n \in DOMAIN old_wl THEN old_wl[n].addr ELSE 0

SkipRetries ==
  /\ ~ Restored(OldAddr(Slot))
  /\ RestartStep("r_addr", "r_loop")
  /\ wl_position' = wl_position + 1 /\ walked' = walked - 1
  /\ UNCHANGED <<mem, wl_data, sa_window__is_open, g_recovery_bitmask,
                 inside_trusted_compute_base, stub_ret>>

RollbackSkip ==
  /\ ~ Restored(OldAddr(Slot))
  /\ RestartStep("r_addr", "r_loop")
  /\ UNCHANGED <<mem, logVars, sa_window__is_open, g_recovery_bitmask,
                 inside_trusted_compute_base, stub_ret, walked>>

RollbackFetch ==
  /\ Restored(OldAddr(Slot))
  /\ RestartStep("r_addr", "r_stub")
  /\ inside_trusted_compute_base' = 1
  /\ stub_ret' = "r_region"
  /\ UNCHANGED <<mem, logVars, sa_window__is_open, g_recovery_bitmask, walked>>

RollbackRegion ==
  /\ RestartStep("r_region", "r_loop")
  /\ mem' = Overwrite(mem, old_wl[Slot].data)
  /\ UNCHANGED <<logVars, sa_window__is_open, g_recovery_bitmask,
                 inside_trusted_compute_base, stub_ret, walked>>

RollbackDone ==
  /\ wl_position = 0
  /\ RestartStep("r_loop", "dispatch")
  /\ inside_trusted_compute_base' = 1
  /\ UNCHANGED <<mem, logVars, sa_window__is_open, g_recovery_bitmask,
                 stub_ret, walked>>

Dispatch ==
  /\ pc = "dispatch"
  /\ inside_trusted_compute_base' = 1
  /\ \E o \in ltckpt_recovery_dispatcher :
       /\ did' = o.did
       /\ pc' = IF o.did = "shutdown" THEN "halted"
                ELSE IF o.r = FAILURE THEN "failed" ELSE "resume"
       /\ g_recovery_bitmask' = g_recovery_bitmask \cup
            IF o.did = "rehandle" THEN {"REPROCESSING"} ELSE {}
  /\ recoveries' = IF recoveries = 0 THEN 1 ELSE 2
  /\ old' = NoInstance /\ old_wl' = << >>
  /\ num_entries' = 0 /\ walked' = 0
  /\ UNCHANGED <<sa_window__is_open, have_handled_message,
                 hookVars, msg, writelogVars, delivering,
                 opVars, stub_ret, snap, effects>>

\* Start-up code of the recovered server, up to its message loop (external).
ResumeStore(w, v) ==
  /\ pc = "resume"
  /\ mem' = [b \in Bytes |-> IF b \in Range(w) THEN v ELSE mem[b]]
  /\ UNCHANGED <<pc, globals, hookVars, msg, wl_data,
                 wl_position, ltckpt_writelog_enabled, num_tols, delivering,
                 opVars, restartVars, ghostVars>>

Resume ==
  /\ pc = "resume" /\ pc' = "tol" /\ delivering' = 0
  /\ UNCHANGED <<globals, hookVars, msg, writelogVars,
                 opVars, restartVars, ghostVars>>

\* The machine is down, or the server is.
Stopped == pc \in {"halted", "failed"} /\ UNCHANGED vars

-----------------------------------------------------------------------------

Loop == TopOfTheLoop \/ SefHandleMessage \/ StartOfWindow \/ HandlerReturns

Handler ==
  \/ \E w \in Stores, v \in Vals : BeginStore(w, v)
  \/ \E w \in Copies, v \in Vals : BeginCopy(w, v)
  \/ StoreHook \/ CopyHook \/ CopyHookDone \/ Write
  \/ \E k \in Sites : PolicyHook(k)
  \/ Call

Recovery ==
  \/ RestartFails \/ DisableOldLog \/ StateTransfer
  \/ RollbackNext \/ StubStore \/ StubTrap \/ RollbackSkip \/ RollbackFetch
  \/ RollbackRegion \/ RollbackDone \/ Dispatch

Next ==
  \/ Loop \/ Handler \/ Crash \/ Recovery
  \/ \E w \in ResumeStores, v \in Vals : ResumeStore(w, v)
  \/ Resume \/ Stopped

\* The restarted instance runs its restart code to the end.
Spec == Init /\ [][Next]_vars /\ WF_vars(Recovery)

-----------------------------------------------------------------------------
(* Properties.                                                             *)

Pcs == {"tol", "sef", "start", "handler", "store_hook", "copy_hook", "write",
        "call", "r_disable", "r_transfer", "r_loop", "r_stub", "r_trap",
        "r_addr", "r_region", "dispatch", "resume", "halted", "failed"}

Accesses == {<<w[1], w[2], v>> : w \in Stores \cup Copies, v \in Vals}

LogOK(wl, n) ==
  /\ 1 .. n \subseteq DOMAIN wl
  /\ \A k \in DOMAIN wl :
       /\ k \in Nat \ {0}
       /\ wl[k].addr \in Bytes
       /\ wl[k].addr % WRITELOG_GRANULARITY = 0
       /\ wl[k].data \in [Region(wl[k].addr) -> Vals]

\* Every variable keeps its type; both logs hold whole, aligned regions.
TypeOK ==
  /\ GlobalsTypeOK
  /\ mem \in [Bytes -> Vals] /\ snap \in [Bytes -> Vals]
  /\ wl_position \in Nat /\ num_tols \in Nat
  /\ ltckpt_writelog_enabled \in Flag
  /\ LogOK(wl_data, wl_position)
  /\ msg \in Messages
  /\ pc \in Pcs /\ delivering \in Flag
  /\ access = NoAccess \/ access \in Accesses
  /\ reg \in Nat /\ site \in SiteKinds
  /\ old \in [window : Flag, mask : SUBSET Bits, tcb : Flag, have : Flag,
             prior : Flag, position : Nat, enabled : Flag]
  /\ LogOK(old_wl, old.position)
  /\ stub_ret \in {"r_addr", "r_region"}
  /\ num_entries \in Nat /\ walked \in Nat
  /\ effects \in SUBSET SiteKinds /\ recoveries \in 0 .. 2
  /\ did \in Deeds

\* Whenever the dispatcher of a server that crashed on a request finds a
\* policy other than fail-stop, rollback has brought every byte of the
\* server's state back to its value when the recovery window opened: no
\* store, copy, log overflow, crash point or skipped entry escapes the log
\* (ltckpt_write_wl, the hooks and the loop of the restart hook).
RollbackReachesCheckpoint ==
  pc = "dispatch" /\ recoveries = 0 /\ have_handled_message = 1
    /\ "FAIL_STOP" \notin g_recovery_bitmask
  => \A b \in StateBytes : mem[b] = snap[b]

\* A requester that gets the ERESTART reply, or whose request is handled
\* again, never saw an effect of the crashed attempt: no fail-stop call was
\* made, and a process-local one only for a requester that is not a user
\* process; a user process whose own state was changed is killed
\* (ltckpt_recovery_dispatcher after the hooks of the sites).
AbortedRequestHadNoEffect ==
  pc = "resume" /\ recoveries = 1 =>
    /\ did \in {"error_reply", "rehandle"} =>
         /\ "fail_stop" \notin effects
         /\ "process_local" \in effects => did = "error_reply" /\ msg.user = 0
    /\ did = "kill" => "fail_stop" \notin effects /\ msg.user = 1

\* Recovery does not disturb what it works from: the instrumented stubs the
\* restart hook calls add nothing to the log and no policy, so the
\* dispatcher sees the crashed instance's bitmask and the assertions at the
\* end of the restart hook hold.
RecoveryKeepsPolicy ==
  pc = "dispatch" =>
    /\ g_recovery_bitmask = old.mask /\ sa_window__is_open = old.window
    /\ walked = num_entries /\ wl_position = 0

\* The log never grows beyond the area mapped for it (WRITELOG_BYTES).
LogStaysInBounds == wl_position <= WRITELOG_MAXLEN

\* A restart always ends: the server is back in its loop, or the machine or
\* the server is down (the loop of the restart hook terminates).
RecoveryTerminates ==
  pc = "r_disable" ~> pc \in {"resume", "halted", "failed"}

\* In a build for the naive baselines every IPC site is idempotent, and the
\* dispatcher overrides whatever goes wrong: once the mode has been set, only
\* a full log or a kernel call that changes global state still makes a crash
\* take the machine down.
NaiveRecoveryCarriesOn ==
  g_recovery_naive_mode # "DEFAULT" /\ pc = "halted"
  => "FAIL_STOP" \in g_recovery_bitmask

-----------------------------------------------------------------------------
(* The server implements AtomicServer.  A request is in progress from the  *)
(* moment its window opens until the top-of-the-loop hook empties the log  *)
(* after it; while it is, the committed state is the checkpoint.           *)

RestartPcs == {"r_disable", "r_transfer", "r_loop", "r_stub", "r_trap",
               "r_addr", "r_region", "dispatch"}

InRequest ==
  /\ recoveries = 0
  /\ \/ pc \in {"handler", "store_hook", "copy_hook", "write", "call"}
     \/ pc = "tol" /\ delivering = 0 /\ have_handled_message = 1
     \/ pc \in RestartPcs /\ old.have = 1

State(m) == [b \in StateBytes |-> m[b]]

Status ==
  IF pc \in {"halted", "failed"} THEN "down"
  ELSE IF InRequest THEN IF "fail_stop" \in effects THEN "exposed" ELSE "busy"
  ELSE IF recoveries = 0 THEN "idle" ELSE "aborted"

Committed == State(IF InRequest THEN snap ELSE mem)

Atomic ==
  INSTANCE AtomicServer WITH
    States <- [StateBytes -> Vals], committed <- Committed, status <- Status

\* Requests are atomic: every step of the server, the crashes and the
\* restart included, is a step AtomicServer allows.
RequestsAreAtomic == Atomic!Spec
=============================================================================
