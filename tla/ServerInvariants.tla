-------------------------- MODULE ServerInvariants --------------------------
(***************************************************************************)
(* TLAPS proofs about OsirisServer, for every size of memory and of the    *)
(* log, every set of accesses, call sites and requests. First part: the    *)
(* inductive invariant behind the safety properties, and its conjuncts     *)
(* about the running server: the message loop, the bound of the log, the   *)
(* log that leads back to the checkpoint, and the hooks that stay ahead of *)
(* the writes and calls they guard.                                        *)
(***************************************************************************)
EXTENDS OsirisServer, TLAPS

\* What the theorems assume of a configuration: one checkpoint per call of
\* sef_handle_message (the default of CP_INTERVAL), and copies that start in
\* the first half of a region, for which the memcpy hook is complete.
EveryTol == checkpoint_interval = 1
CopiesAligned == \A w \in Copies : w[1] % WRITELOG_GRANULARITY < 4

\* What the refinement of AtomicServer assumes in addition: the builds that
\* recover or stop (no naive baseline, no fault control request that is let
\* through), and start-up code that leaves the server's state alone.
RecoversOrStops ==
  /\ NaiveMode = "DEFAULT"
  /\ LTRC_NO_RECOVERY_ON_SVC_FI => \A m \in Requests : m.fi_ctl = 0
StartupIsQuiet == \A w \in ResumeStores : Range(w) \cap StateBytes = {}

HandlerPcs == {"handler", "store_hook", "copy_hook", "write", "call"}
AfterTransfer == {"r_loop", "r_stub", "r_trap", "r_addr", "r_region", "dispatch"}
InRollbackTurn == {"r_stub", "r_trap", "r_addr", "r_region"}

Covered(b, wl, n) == \E k \in 1 .. n : b \in Region(wl[k].addr)

\* The oldest saved copy of a byte is its value at the checkpoint, and a byte
\* without one still has that value: undoing the first n entries, last to
\* first, leads back to the checkpoint.
LogExact(m, s, wl, n) ==
  \A b \in StateBytes :
    /\ ~ Covered(b, wl, n) => m[b] = s[b]
    /\ \A k \in 1 .. n :
         b \in Region(wl[k].addr) /\ ~ Covered(b, wl, k - 1)
         => wl[k].data[b] = s[b]

\* Where the message loop is, and what SEF and the hooks have set up there.
LoopInv ==
  /\ num_tols = 0
  /\ pc \in {"sef", "start"} => ltckpt_writelog_enabled = 1 /\ wl_position = 0
  /\ pc \in {"tol", "sef"} /\ delivering = 1 => have_handled_message = 0
  /\ pc \in {"tol", "sef", "start"} /\ delivering = 1
       => prior_have_handled_message = 0
  /\ pc = "start" => have_handled_message = delivering
  /\ pc \in HandlerPcs => /\ have_handled_message = 1 /\ delivering = 1
                          /\ inside_trusted_compute_base = 0 /\ recoveries = 0
  /\ pc = "resume" => recoveries # 0

\* An open window never meets a full log.
BoundInv ==
  /\ wl_position <= WRITELOG_MAXLEN
  /\ sa_window__is_open = 1 => wl_position < WRITELOG_MAXLEN
  /\ old.position <= WRITELOG_MAXLEN
  /\ old.window = 1 => old.position < WRITELOG_MAXLEN

\* While a request can still be undone its log is exact.
Undoable ==
  /\ recoveries = 0
  /\ have_handled_message = 1
  /\ pc \in HandlerPcs \/ (pc = "tol" /\ delivering = 0)
  /\ "FAIL_STOP" \notin g_recovery_bitmask

LoggingInv ==
  Undoable => /\ sa_window__is_open = 1 /\ ltckpt_writelog_enabled = 1
              /\ LogExact(mem, snap, wl_data, wl_position)

\* The hooks are ahead of the store they guard.
HookInv ==
  /\ pc = "store_hook" =>
       /\ access \in Accesses
       /\ \A b \in Range(access) : RegionBase(b) = RegionBase(access[1])
  /\ pc = "copy_hook" =>
       /\ access \in Accesses
       /\ reg % WRITELOG_GRANULARITY = 0 /\ reg >= WRITELOG_GRANULARITY
       /\ Undoable => \A b \in Range(access) \cap StateBytes :
                        b < reg => Covered(b, wl_data, wl_position)
  /\ pc = "write" =>
       /\ access \in Accesses
       /\ Undoable => \A b \in Range(access) \cap StateBytes :
                        Covered(b, wl_data, wl_position)

\* Rollback, turn by turn.
RestartInv ==
  /\ pc \in {"r_disable", "r_transfer"} => wl_data = old_wl
  /\ pc = "r_transfer" => old.enabled = 0
  /\ pc \in AfterTransfer =>
       /\ ltckpt_writelog_enabled = 0
       /\ g_recovery_bitmask = old.mask /\ sa_window__is_open = old.window
       /\ have_handled_message = old.have
       /\ walked + wl_position = num_entries
       /\ wl_position <= old.position
  /\ pc \in InRollbackTurn =>
       inside_trusted_compute_base = 1 /\ wl_position + 1 <= old.position
  /\ pc = "dispatch" => wl_position = 0
  /\ recoveries = 0 /\ old.have = 1 /\ "FAIL_STOP" \notin old.mask =>
       /\ pc \in {"r_disable", "r_transfer"} => LogExact(mem, snap, old_wl, old.position)
       /\ pc \in {"r_loop", "dispatch"} => LogExact(mem, snap, old_wl, wl_position)
       /\ pc \in InRollbackTurn => LogExact(mem, snap, old_wl, wl_position + 1)

\* Calls that were made are in the policy; a call is in it before it is made.
Recorded(mask) ==
  /\ "fail_stop" \in effects => "FAIL_STOP" \in mask
  /\ "process_local" \in effects => "PROCESS_SPECIFIC" \in mask

PolicyInv ==
  /\ recoveries = 0 /\ (pc \in HandlerPcs \/ (pc = "tol" /\ delivering = 0))
       /\ have_handled_message = 1
     => Recorded(g_recovery_bitmask)
  /\ pc = "call" /\ site = "fail_stop" => "FAIL_STOP" \in g_recovery_bitmask
  /\ pc = "call" /\ site = "process_local"
     => "PROCESS_SPECIFIC" \in g_recovery_bitmask
  /\ pc \in RestartPcs /\ recoveries = 0 /\ old.have = 1 => Recorded(old.mask)

\* Between requests the log is empty, so that a crash there undoes nothing.
IdleInv ==
  /\ msg \in Requests
  /\ g_recovery_naive_mode \in {"DEFAULT", NaiveMode}
  /\ pc = "tol" /\ (delivering = 1 \/ have_handled_message = 0 \/ recoveries # 0)
     => wl_position = 0
  /\ pc = "resume" => wl_position = 0
  /\ pc \in RestartPcs /\ (recoveries # 0 \/ old.have = 0) => old.position = 0

\* A system-call stub returns into the rollback loop, not to where a machine
\* that is down would be.
NaiveInv == NaiveRecoveryCarriesOn /\ stub_ret \in {"r_addr", "r_region"}

IInv ==
  /\ TypeOK /\ LoopInv /\ BoundInv /\ LoggingInv /\ HookInv /\ RestartInv
  /\ PolicyInv

\* The types of what a handler or a rollback changes, and of what both leave.
WorkTypes ==
  /\ sa_window__is_open \in Flag /\ g_recovery_bitmask \in SUBSET Bits
  /\ inside_trusted_compute_base \in Flag
  /\ mem \in [Bytes -> Vals]
  /\ wl_position \in Nat /\ LogOK(wl_data, wl_position)
  /\ pc \in Pcs
  /\ access = NoAccess \/ access \in Accesses
  /\ reg \in Nat /\ site \in SiteKinds
  /\ stub_ret \in {"r_addr", "r_region"} /\ walked \in Nat
  /\ effects \in SUBSET SiteKinds

FrameTypes ==
  /\ have_handled_message \in Flag /\ prior_have_handled_message \in Flag
  /\ g_recovery_naive_mode \in NaiveModes
  /\ snap \in [Bytes -> Vals]
  /\ num_tols \in Nat /\ ltckpt_writelog_enabled \in Flag
  /\ msg \in Messages /\ delivering \in Flag
  /\ old \in [window : Flag, mask : SUBSET Bits, tcb : Flag, have : Flag,
             prior : Flag, position : Nat, enabled : Flag]
  /\ LogOK(old_wl, old.position)
  /\ num_entries \in Nat /\ recoveries \in 0 .. 2 /\ did \in Deeds

\* How the log and the window move in either.
WindowStep ==
  \/ \E a : store_hook(a)
  \/ /\ wl_position' = wl_position \/ (wl_position >= 1 /\ wl_position' = wl_position - 1)
     /\ sa_window__is_open' \in {sa_window__is_open, 0}

\* What the steps of a handler have in common, and those of a rollback.
HandlerFrame ==
  /\ pc \in HandlerPcs /\ pc' \in HandlerPcs
  /\ UNCHANGED <<hookVars, msg, delivering, restartVars, have_handled_message,
                 inside_trusted_compute_base, ltckpt_writelog_enabled, num_tols,
                 snap, recoveries, did>>
  /\ effects' = effects \/ Call
  /\ WindowStep

Rollback ==
  \/ RollbackNext \/ StubStore \/ StubTrap \/ RollbackSkip \/ RollbackFetch
  \/ RollbackRegion \/ RollbackDone

\* The steps that leave the handler and the top of the loop, or stay away.
Outside ==
  \/ TopOfTheLoop \/ SefHandleMessage \/ Crash \/ RestartFails \/ DisableOldLog
  \/ StateTransfer \/ Rollback \/ Dispatch
  \/ \E w \in ResumeStores, v \in Vals : ResumeStore(w, v)

RollbackFrame ==
  /\ pc \in AfterTransfer \ {"dispatch"} /\ pc' \in AfterTransfer
  /\ UNCHANGED <<have_handled_message, hookVars, msg, ltckpt_writelog_enabled,
                 num_tols, delivering, opVars, old, old_wl, num_entries, ghostVars>>
  /\ stub_ret' \in {"r_addr", "r_region"}
  /\ mem' = mem \/ RollbackRegion
  /\ WindowStep

-----------------------------------------------------------------------------
(* Regions.                                                                *)

\* Undoing a log entry leaves memory with a value in every byte
\* (the restart hook of ltckpt_writelog.c writes back a saved region).
LEMMA OverwriteType ==
  ASSUME NEW m \in [Bytes -> Vals], NEW D, NEW data \in [D -> Vals]
  PROVE  Overwrite(m, data) \in [Bytes -> Vals]
BY Zenon DEF Overwrite

\* Rounding an address down to its region, as ltckpt_write_wl does, gives the
\* start of a region of the memory that contains the address.
LEMMA RegionOfByte ==
  ASSUME NEW b \in Bytes
  PROVE  /\ RegionBase(b) \in Bytes
         /\ RegionBase(b) % WRITELOG_GRANULARITY = 0
         /\ b \in Region(RegionBase(b))
         /\ Region(RegionBase(b)) \subseteq Bytes
BY LogAssumption DEF RegionBase, Region, Bytes, WRITELOG_GRANULARITY

\* A byte of an aligned region has that region's address as its base.
LEMMA BaseInRegion ==
  ASSUME NEW x \in Nat, x % WRITELOG_GRANULARITY = 0, NEW b \in Region(x)
  PROVE  RegionBase(b) = x
BY DEF RegionBase, Region, WRITELOG_GRANULARITY

\* The bytes of an aligned region that starts in memory are in memory.
LEMMA RegionInBytes ==
  ASSUME NEW x \in Bytes, x % WRITELOG_GRANULARITY = 0
  PROVE  Region(x) \subseteq Bytes
BY LogAssumption DEF Region, Bytes, WRITELOG_GRANULARITY

\* For an address in the first half of a region, rounding down to a multiple
\* of four, as the memcpy hook does, and then to the region is the same.
LEMMA FirstRegion ==
  ASSUME NEW a \in Nat, a >= 8, a % 8 < 4
  PROVE  LET f == a - (a % 4) IN f % 8 = 0 /\ f >= 8 /\ f <= a
OBVIOUS

\* What an access of a handler writes lies in memory.
LEMMA AccessInBytes ==
  ASSUME access \in Accesses
  PROVE  /\ access[1] \in Nat /\ access[2] \in Nat \ {0} /\ access[3] \in Vals
         /\ access[1] \in Bytes /\ Range(access) \subseteq Bytes
<1>1. PICK w \in Stores \cup Copies, v \in Vals : access = <<w[1], w[2], v>>
  BY DEF Accesses
<1>2. w[1] \in Nat /\ w[2] \in Nat \ {0} /\ Range(w) \subseteq Bytes
  BY Zenon, AccessAssumption
<1>3. access[1] = w[1] /\ access[2] = w[2] /\ access[3] = v
  BY Zenon, <1>1
<1>4. w[1] \in Range(w)
  BY <1>2 DEF Range
<1> QED
  BY Zenon, <1>2, <1>3, <1>4 DEF Range

-----------------------------------------------------------------------------
(* The store hook.                                                         *)

\* Logging a byte of memory keeps the log well-formed.
LEMMA StoreHookType ==
  ASSUME WorkTypes, NEW a \in Bytes, store_hook(a)
  PROVE  /\ LogOK(wl_data', wl_position') /\ wl_position' \in Nat
         /\ sa_window__is_open' \in Flag /\ g_recovery_bitmask' \in SUBSET Bits
<1> DEFINE e == Entry(RegionBase(a))
<1>1. /\ e.addr \in Bytes /\ e.addr % WRITELOG_GRANULARITY = 0
      /\ e.data \in [Region(e.addr) -> Vals]
  BY Zenon, RegionOfByte DEF Entry, WorkTypes
<1>2. CASE ltckpt_writelog_enabled = 1 /\ sa_window__is_open # 0
  <2>1. wl_position \in Nat /\ LogOK(wl_data, wl_position)
    BY Zenon DEF WorkTypes
  <2>2. /\ wl_data' = [k \in {j \in DOMAIN wl_data : j <= wl_position}
                               \cup {wl_position + 1} |->
                         IF k = wl_position + 1 THEN e ELSE wl_data[k]]
        /\ wl_position' = wl_position + 1
    BY Zenon, <1>2 DEF store_hook, write_wl
  <2>3. \A k \in DOMAIN wl_data' :
          /\ k \in Nat \ {0}
          /\ wl_data'[k] = e \/ (k \in DOMAIN wl_data /\ wl_data'[k] = wl_data[k])
    BY <2>1, <2>2 DEF LogOK
  <2>4. 1 .. wl_position' \subseteq DOMAIN wl_data'
    BY <2>1, <2>2 DEF LogOK
  <2>5. LogOK(wl_data', wl_position')
    BY Zenon, <1>1, <2>1, <2>3, <2>4 DEF LogOK
  <2>6. sa_window__is_open' \in Flag /\ g_recovery_bitmask' \in SUBSET Bits
    BY Zenon, <1>2
      DEF store_hook, write_wl, WorkTypes, NaiveModes, Flag, Bits
  <2> QED BY <2>1, <2>2, <2>5, <2>6
<1>3. CASE ~ (ltckpt_writelog_enabled = 1 /\ sa_window__is_open # 0)
  BY Zenon, <1>3 DEF store_hook, write_wl, logVars, WorkTypes
<1> QED BY Zenon, <1>2, <1>3

\* A prefix of a well-formed log is well-formed.
LEMMA LogPrefix ==
  ASSUME NEW wl, NEW n \in Nat, NEW m \in Nat, m <= n, LogOK(wl, n)
  PROVE  LogOK(wl, m)
BY DEF LogOK

\* The log after a top-of-the-loop call is well-formed.
LEMMA EmptyLog == LogOK(<< >>, 0)
BY DEF LogOK

-----------------------------------------------------------------------------
(* The dispatcher.                                                         *)

\* What a recovery action can do, by the policy it is chosen for.
LEMMA PolicyCases ==
  \A p \in PolicyOutcomes :
    /\ p.did \in Deeds
    /\ p.did \in {"error_reply", "rehandle", "kill"}
         => "FAIL_STOP" \notin g_recovery_bitmask
    /\ p.did \in {"error_reply", "rehandle", "kill"} => HaveMessage
    /\ p.did = "kill" => msg.user = 1
    /\ "PROCESS_SPECIFIC" \in g_recovery_bitmask
         => /\ p.did # "rehandle"
            /\ p.did = "error_reply" => msg.user # 1 /\ msg.user # -1
BY DEF PolicyOutcomes, Failed, Deeds, ltckpt_recovery_fail_stop,
   ltckpt_recovery_process_specific, ltckpt_recovery_request_specific,
   ltckpt_recovery_idempotent, ltckpt_send_reply

\* A recovery action returns SUCCESS or FAILURE and does one thing.
LEMMA PolicyRecords ==
  PolicyOutcomes \subseteq [r : {SUCCESS, FAILURE}, did : Deeds]
BY DEF PolicyOutcomes, Failed, Deeds, ltckpt_recovery_fail_stop,
   ltckpt_recovery_process_specific, ltckpt_recovery_request_specific,
   ltckpt_recovery_idempotent, ltckpt_send_reply

\* The dispatcher does what its policy did, nothing, or a shutdown.
LEMMA DispatcherCases ==
  \A o \in ltckpt_recovery_dispatcher :
    \/ o.did \in {"nothing", "shutdown"}
    \/ \E p \in PolicyOutcomes : o.did = p.did
<1> SUFFICES ASSUME NEW o \in ltckpt_recovery_dispatcher
             PROVE  \/ o.did \in {"nothing", "shutdown"}
                    \/ \E p \in PolicyOutcomes : o.did = p.did
  OBVIOUS
<1>1. CASE LTRC_NO_RECOVERY_ON_SVC_FI /\ rs_fi_flag
  BY <1>1 DEF ltckpt_recovery_dispatcher
<1>2. CASE ~ (LTRC_NO_RECOVERY_ON_SVC_FI /\ rs_fi_flag)
  <2>1. PICK p \in IF Replyable = 1 THEN PolicyOutcomes ELSE {Failed} :
          o \in AbortOnFailure(NaiveOverride(p))
    BY Zenon, <1>2 DEF ltckpt_recovery_dispatcher
  <2>2. p \in PolicyOutcomes \/ p = Failed
    BY Zenon, <2>1
  <2>3. p \in [r : {SUCCESS, FAILURE}, did : Deeds]
    BY <2>2, PolicyRecords DEF Failed, Deeds
  <2>4. o.did = p.did \/ o.did = "shutdown"
    BY Zenon, <2>1, <2>3 DEF AbortOnFailure, NaiveOverride
  <2> QED BY <2>2, <2>4 DEF Failed
<1> QED BY Zenon, <1>1, <1>2

-----------------------------------------------------------------------------
(* Frames.                                                                 *)

\* The hook of a call site leaves the window as it is or closes it.
LEMMA PolicyHookWindow ==
  ASSUME NEW k, policy_hook(k)
  PROVE  sa_window__is_open' \in {sa_window__is_open, 0}
BY Zenon DEF policy_hook, ltckpt_set_idempotent_recovery, SetPolicy,
   ltckpt_set_request_specific_recovery, ltckpt_set_process_local_recovery,
   ltckpt_set_fail_stop_recovery, ltckpt_close_r_window

\* Every step of a handler stays in it, and only a call has an effect.
LEMMA HandlerSteps ==
  ASSUME Handler PROVE HandlerFrame
<1> USE DEF HandlerStep, HandlerFrame, HandlerPcs, opVars, WindowStep, logVars,
       writelogVars
<1>1. ASSUME NEW w \in Stores, NEW v \in Vals, BeginStore(w, v) PROVE HandlerFrame
  BY Zenon, <1>1 DEF BeginStore
<1>2. ASSUME NEW w \in Copies, NEW v \in Vals, BeginCopy(w, v) PROVE HandlerFrame
  BY Zenon, <1>2 DEF BeginCopy
<1>3. CASE StoreHook
  BY Zenon, <1>3 DEF StoreHook
<1>4. CASE CopyHook
  BY Zenon, <1>4 DEF CopyHook
<1>5. CASE CopyHookDone
  BY Zenon, <1>5 DEF CopyHookDone
<1>6. CASE Write
  BY Zenon, <1>6 DEF Write
<1>7. ASSUME NEW k \in Sites, PolicyHook(k) PROVE HandlerFrame
  BY Zenon, <1>7, PolicyHookWindow DEF PolicyHook
<1>8. CASE Call
  BY Zenon, <1>8 DEF Call
<1> QED
  BY Zenon, <1>1, <1>2, <1>3, <1>4, <1>5, <1>6, <1>7, <1>8 DEF Handler

\* Every step of a rollback stays in it or ends it, and only writing a region
\* back changes memory.
LEMMA RollbackSteps ==
  ASSUME Rollback, stub_ret \in {"r_addr", "r_region"} PROVE RollbackFrame
<1> USE DEF RestartStep, RollbackFrame, AfterTransfer, WindowStep, logVars,
       writelogVars
<1>1. CASE RollbackNext
  BY Zenon, <1>1 DEF RollbackNext
<1>2. CASE StubStore
  BY Zenon, <1>2 DEF StubStore
<1>3. CASE StubTrap
  BY Zenon, <1>3, PolicyHookWindow DEF StubTrap
<1>4. CASE RollbackSkip
  BY Zenon, <1>4 DEF RollbackSkip
<1>5. CASE RollbackFetch
  BY Zenon, <1>5 DEF RollbackFetch
<1>6. CASE RollbackRegion
  BY Zenon, <1>6 DEF RollbackRegion
<1>7. CASE RollbackDone
  BY Zenon, <1>7 DEF RollbackDone
<1> QED
  BY Zenon, <1>1, <1>2, <1>3, <1>4, <1>5, <1>6, <1>7 DEF Rollback

\* A step outside the handler does not lead into it, nor to the top of the loop.
LEMMA OutsideSteps ==
  ASSUME Outside, stub_ret \in {"r_addr", "r_region"}
  PROVE  pc' \notin HandlerPcs \cup {"tol"}
<1> USE DEF HandlerPcs
<1>1. CASE TopOfTheLoop
  BY Zenon, <1>1 DEF TopOfTheLoop
<1>2. CASE SefHandleMessage
  BY Zenon, <1>2 DEF SefHandleMessage
<1>3. CASE Crash
  BY Zenon, <1>3 DEF Crash
<1>4. CASE RestartFails
  BY Zenon, <1>4 DEF RestartFails
<1>5. CASE DisableOldLog
  BY Zenon, <1>5 DEF DisableOldLog
<1>6. CASE StateTransfer
  BY Zenon, <1>6 DEF StateTransfer
<1>7. CASE Rollback
  BY Zenon, <1>7, RollbackSteps DEF RollbackFrame, AfterTransfer
<1>8. CASE Dispatch
  BY Zenon, <1>8 DEF Dispatch
<1>9. ASSUME NEW w \in ResumeStores, NEW v \in Vals, ResumeStore(w, v)
      PROVE  pc' \notin HandlerPcs \cup {"tol"}
  BY Zenon, <1>9 DEF ResumeStore
<1> QED
  BY Zenon, <1>1, <1>2, <1>3, <1>4, <1>5, <1>6, <1>7, <1>8, <1>9 DEF Outside

-----------------------------------------------------------------------------
(* The log leads back to the checkpoint.                                   *)

\* Two logs that agree on their first n entries cover the same bytes there.
LEMMA CoveredSame ==
  ASSUME NEW wl, NEW wm, NEW n \in Nat, NEW b,
         \A k \in 1 .. n : wm[k] = wl[k]
  PROVE  Covered(b, wm, n) <=> Covered(b, wl, n)
BY Zenon DEF Covered

\* Appending the present bytes of a region keeps the log exact.
LEMMA ExactAppend ==
  ASSUME NEW m, NEW s, NEW wl, NEW wm, NEW n \in Nat, NEW e,
         LogExact(m, s, wl, n),
         \A k \in 1 .. n : wm[k] = wl[k],
         wm[n + 1] = e,
         \A b \in Region(e.addr) : e.data[b] = m[b]
  PROVE  LogExact(m, s, wm, n + 1)
<1> SUFFICES ASSUME NEW b \in StateBytes
             PROVE  /\ ~ Covered(b, wm, n + 1) => m[b] = s[b]
                    /\ \A k \in 1 .. n + 1 :
                         b \in Region(wm[k].addr) /\ ~ Covered(b, wm, k - 1)
                         => wm[k].data[b] = s[b]
  BY Zenon DEF LogExact
<1>1. Covered(b, wl, n) => Covered(b, wm, n + 1)
  BY DEF Covered
<1>2. ~ Covered(b, wm, n + 1) => m[b] = s[b]
  BY Zenon, <1>1 DEF LogExact
<1>3. ASSUME NEW k \in 1 .. n + 1, b \in Region(wm[k].addr),
             ~ Covered(b, wm, k - 1)
      PROVE  wm[k].data[b] = s[b]
  <2>1. k - 1 \in Nat /\ \A j \in 1 .. k - 1 : wm[j] = wl[j]
    OBVIOUS
  <2>2. ~ Covered(b, wl, k - 1)
    BY Zenon, <1>3, <2>1, CoveredSame
  <2>3. CASE k \in 1 .. n
    BY Zenon, <1>3, <2>2, <2>3 DEF LogExact
  <2>4. CASE k = n + 1
    <3>1. ~ Covered(b, wl, n)
      BY <2>2, <2>4
    <3>2. m[b] = s[b]
      BY Zenon, <3>1 DEF LogExact
    <3> QED BY Zenon, <1>3, <2>4, <3>2
  <2> QED BY <2>3, <2>4
<1> QED BY Zenon, <1>2, <1>3

\* A write to bytes that are in the log keeps it exact.
LEMMA ExactWrite ==
  ASSUME NEW m, NEW m2, NEW s, NEW wl, NEW n,
         LogExact(m, s, wl, n),
         \A b \in StateBytes : Covered(b, wl, n) \/ m2[b] = m[b]
  PROVE  LogExact(m2, s, wl, n)
BY Zenon DEF LogExact

\* Undoing the last entry keeps the rest of the log exact.
LEMMA ExactUndo ==
  ASSUME NEW m, NEW s, NEW wl, NEW n \in Nat,
         LogExact(m, s, wl, n + 1),
         wl[n + 1].data \in [Region(wl[n + 1].addr) -> Vals]
  PROVE  LogExact(Overwrite(m, wl[n + 1].data), s, wl, n)
<1> DEFINE m2 == Overwrite(m, wl[n + 1].data)
<1> SUFFICES ASSUME NEW b \in StateBytes
             PROVE  /\ ~ Covered(b, wl, n) => m2[b] = s[b]
                    /\ \A k \in 1 .. n :
                         b \in Region(wl[k].addr) /\ ~ Covered(b, wl, k - 1)
                         => wl[k].data[b] = s[b]
  BY Zenon DEF LogExact
<1>1. b \in Bytes
  BY Zenon DEF StateBytes
<1>2. ASSUME ~ Covered(b, wl, n) PROVE m2[b] = s[b]
  <2>1. CASE b \in Region(wl[n + 1].addr)
    <3>1. wl[n + 1].data[b] = s[b]
      <4>1. n + 1 \in 1 .. n + 1 /\ (n + 1) - 1 = n
        OBVIOUS
      <4> QED BY Zenon, <1>2, <2>1, <4>1 DEF LogExact
    <3> QED BY Zenon, <1>1, <2>1, <3>1 DEF Overwrite
  <2>2. CASE b \notin Region(wl[n + 1].addr)
    <3>1. ~ Covered(b, wl, n + 1)
      BY <1>2, <2>2 DEF Covered
    <3>2. m[b] = s[b]
      BY Zenon, <3>1 DEF LogExact
    <3> QED BY Zenon, <1>1, <2>2, <3>2 DEF Overwrite
  <2> QED BY Zenon, <2>1, <2>2
<1>3. ASSUME NEW k \in 1 .. n, b \in Region(wl[k].addr),
             ~ Covered(b, wl, k - 1)
      PROVE  wl[k].data[b] = s[b]
  BY <1>3 DEF LogExact
<1> QED BY Zenon, <1>2, <1>3

\* Skipping an entry for a region that is not restored loses nothing.
LEMMA ExactSkip ==
  ASSUME NEW m, NEW s, NEW wl, NEW n \in Nat,
         LogExact(m, s, wl, n + 1),
         wl[n + 1].addr \in Nat, wl[n + 1].addr % WRITELOG_GRANULARITY = 0,
         ~ Restored(wl[n + 1].addr)
  PROVE  LogExact(m, s, wl, n)
<1>1. \A b \in StateBytes : b \notin Region(wl[n + 1].addr)
  BY Zenon, BaseInRegion DEF StateBytes
<1>2. \A b \in StateBytes : Covered(b, wl, n + 1) => Covered(b, wl, n)
  BY <1>1 DEF Covered
<1> QED BY <1>2 DEF LogExact

\* An empty log is exact when the checkpoint is taken.
LEMMA ExactEmpty ==
  ASSUME NEW m, NEW wl
  PROVE  LogExact(m, m, wl, 0)
BY DEF LogExact

\* With the window open the store hook saves the region of the address; if
\* that fills the log, the request can no longer be undone.
LEMMA HookLogs ==
  ASSUME TypeOK, NEW a \in Bytes, store_hook(a),
         ltckpt_writelog_enabled = 1, sa_window__is_open = 1,
         LogExact(mem, snap, wl_data, wl_position)
  PROVE  /\ LogExact(mem, snap, wl_data', wl_position')
         /\ \A b : Covered(b, wl_data, wl_position)
                  => Covered(b, wl_data', wl_position')
         /\ \A b \in Region(RegionBase(a)) : Covered(b, wl_data', wl_position')
         /\ "FAIL_STOP" \notin g_recovery_bitmask' => sa_window__is_open' = 1
         /\ "FAIL_STOP" \in g_recovery_bitmask
              => "FAIL_STOP" \in g_recovery_bitmask'
<1> DEFINE e == Entry(RegionBase(a))
<1>1. wl_position \in Nat /\ LogOK(wl_data, wl_position)
  BY Zenon DEF TypeOK
<1>2. /\ wl_data' = [k \in {j \in DOMAIN wl_data : j <= wl_position}
                             \cup {wl_position + 1} |->
                       IF k = wl_position + 1 THEN e ELSE wl_data[k]]
      /\ wl_position' = wl_position + 1
  BY DEF store_hook, write_wl
<1>3. /\ \A k \in 1 .. wl_position : wl_data'[k] = wl_data[k]
      /\ wl_data'[wl_position + 1] = e
  <2> HIDE DEF e
  <2> QED BY <1>1, <1>2 DEF LogOK
<1>4. e.addr = RegionBase(a) /\ \A b \in Region(e.addr) : e.data[b] = mem[b]
  BY Zenon DEF Entry
<1>5. LogExact(mem, snap, wl_data', wl_position')
  <2> HIDE DEF e
  <2> QED BY Zenon, <1>1, <1>2, <1>3, <1>4, ExactAppend
<1>6. \A b : Covered(b, wl_data, wl_position)
            => Covered(b, wl_data', wl_position')
  <2> HIDE DEF e
  <2> QED BY <1>1, <1>2, <1>3 DEF Covered
<1>7. \A b \in Region(RegionBase(a)) : Covered(b, wl_data', wl_position')
  <2>1. wl_data'[wl_position'].addr = RegionBase(a)
    BY Zenon, <1>2, <1>3, <1>4
  <2>2. wl_position' \in 1 .. wl_position'
    BY <1>1, <1>2
  <2> QED BY Zenon, <2>1, <2>2 DEF Covered
<1>8. /\ "FAIL_STOP" \notin g_recovery_bitmask' => sa_window__is_open' = 1
      /\ "FAIL_STOP" \in g_recovery_bitmask => "FAIL_STOP" \in g_recovery_bitmask'
  BY Zenon DEF store_hook, write_wl
<1> QED BY Zenon, <1>5, <1>6, <1>7, <1>8

\* The policy survives a store hook.
LEMMA HookKeepsFailStop ==
  ASSUME NEW a, store_hook(a), "FAIL_STOP" \in g_recovery_bitmask
  PROVE  "FAIL_STOP" \in g_recovery_bitmask'
BY Zenon DEF store_hook, write_wl

\* The addresses that hooks log are in memory.
LEMMA HookAddress ==
  ASSUME TypeOK, HookInv
  PROVE  /\ pc = "store_hook" => access[1] \in Bytes
         /\ pc = "copy_hook" /\ reg < access[1] + access[2] => reg \in Bytes
<1>1. pc = "store_hook" => access[1] \in Bytes
  BY Zenon, AccessInBytes DEF HookInv
<1>2. ASSUME pc = "copy_hook", reg < access[1] + access[2] PROVE reg \in Bytes
  <2>1. access \in Accesses /\ reg \in Nat /\ reg >= 8
    BY Zenon, <1>2 DEF HookInv, TypeOK, WRITELOG_GRANULARITY
  <2>2. access[1] + access[2] - 1 \in Range(access)
    BY <2>1, AccessInBytes DEF Range
  <2> QED
    BY <1>2, <2>1, <2>2, AccessInBytes, LogAssumption
       DEF Bytes, WRITELOG_GRANULARITY
<1> QED BY Zenon, <1>1, <1>2

\* While a request can be undone its log is exact.
LEMMA NextLogging ==
  ASSUME IInv, [Next]_vars
  PROVE  LoggingInv'
<1>0. TypeOK /\ LoopInv /\ LoggingInv /\ HookInv
  BY Zenon DEF IInv
<1> USE DEF globals, hookVars, logVars, writelogVars, opVars, restartVars, ghostVars
<1>1. CASE Outside
  BY Zenon, <1>0, <1>1, OutsideSteps DEF TypeOK, LoggingInv, Undoable
<1>2. CASE StartOfWindow
  <2>1. CASE delivering = 0
    BY <1>2, <2>1 DEF StartOfWindow, LoggingInv, Undoable, HandlerPcs
  <2>2. CASE delivering # 0
    <3>1. /\ have_handled_message = 1 /\ prior_have_handled_message = 0
          /\ ltckpt_writelog_enabled = 1 /\ wl_position = 0
      BY Zenon, <1>0, <1>2, <2>2 DEF StartOfWindow, LoopInv, TypeOK, Flag
    <3>2. /\ sa_window__is_open' = 1 /\ ltckpt_writelog_enabled' = 1
          /\ wl_position' = 0 /\ snap' = mem /\ mem' = mem
      BY <1>2, <2>2, <3>1 DEF StartOfWindow, ltckpt_detect_start_of_window_hook
    <3> QED BY Zenon, <3>2, ExactEmpty DEF LoggingInv
  <2> QED BY Zenon, <2>1, <2>2
<1>3. CASE HandlerReturns
  BY Zenon, <1>0, <1>3 DEF HandlerReturns, LoggingInv, Undoable, HandlerPcs
<1>4. ASSUME NEW w \in Stores, NEW v \in Vals, BeginStore(w, v)
      PROVE  LoggingInv'
  BY Zenon, <1>0, <1>4 DEF BeginStore, HandlerStep, LoggingInv, Undoable, HandlerPcs
<1>5. ASSUME NEW w \in Copies, NEW v \in Vals, BeginCopy(w, v)
      PROVE  LoggingInv'
  BY Zenon, <1>0, <1>5 DEF BeginCopy, HandlerStep, LoggingInv, Undoable, HandlerPcs
<1>6. CASE StoreHook
  <2>1. access[1] \in Bytes
    BY Zenon, <1>0, <1>6, HookAddress DEF StoreHook, HandlerStep
  <2> SUFFICES ASSUME Undoable' PROVE LoggingInv'
    BY Zenon DEF LoggingInv
  <2>2. Undoable
    BY Zenon, <1>6, HookKeepsFailStop DEF StoreHook, HandlerStep, Undoable, HandlerPcs
  <2>3. /\ sa_window__is_open = 1 /\ ltckpt_writelog_enabled = 1
        /\ LogExact(mem, snap, wl_data, wl_position)
    BY Zenon, <1>0, <2>2 DEF LoggingInv
  <2>4. store_hook(access[1]) /\ mem' = mem /\ snap' = snap
          /\ ltckpt_writelog_enabled' = ltckpt_writelog_enabled
    BY Zenon, <1>6 DEF StoreHook, HandlerStep
  <2>5. /\ LogExact(mem, snap, wl_data', wl_position')
        /\ sa_window__is_open' = 1
    BY Zenon, <1>0, <2>1, <2>3, <2>4, HookLogs DEF Undoable
  <2> QED BY Zenon, <2>3, <2>4, <2>5 DEF LoggingInv
<1>7. CASE CopyHook
  <2>1. reg \in Bytes
    BY Zenon, <1>0, <1>7, HookAddress DEF CopyHook, HandlerStep
  <2> SUFFICES ASSUME Undoable' PROVE LoggingInv'
    BY Zenon DEF LoggingInv
  <2>2. Undoable
    BY Zenon, <1>7, HookKeepsFailStop DEF CopyHook, HandlerStep, Undoable, HandlerPcs
  <2>3. /\ sa_window__is_open = 1 /\ ltckpt_writelog_enabled = 1
        /\ LogExact(mem, snap, wl_data, wl_position)
    BY Zenon, <1>0, <2>2 DEF LoggingInv
  <2>4. store_hook(reg) /\ mem' = mem /\ snap' = snap
          /\ ltckpt_writelog_enabled' = ltckpt_writelog_enabled
    BY Zenon, <1>7 DEF CopyHook, HandlerStep
  <2>5. /\ LogExact(mem, snap, wl_data', wl_position')
        /\ sa_window__is_open' = 1
    BY Zenon, <1>0, <2>1, <2>3, <2>4, HookLogs DEF Undoable
  <2> QED BY Zenon, <2>3, <2>4, <2>5 DEF LoggingInv
<1>8. CASE CopyHookDone
  BY Zenon, <1>0, <1>8 DEF CopyHookDone, HandlerStep, LoggingInv, Undoable, HandlerPcs
<1>9. CASE Write
  <2> SUFFICES ASSUME Undoable' PROVE LoggingInv'
    BY Zenon DEF LoggingInv
  <2>1. Undoable
    BY Zenon, <1>9 DEF Write, HandlerStep, Undoable, HandlerPcs
  <2>2. \A b \in StateBytes :
          Covered(b, wl_data, wl_position) \/ mem'[b] = mem[b]
    BY Zenon, <1>0, <1>9, <2>1 DEF Write, HandlerStep, HookInv, StateBytes
  <2>3. LogExact(mem', snap, wl_data, wl_position)
    BY Zenon, <1>0, <2>1, <2>2, ExactWrite DEF LoggingInv
  <2> QED BY Zenon, <1>0, <1>9, <2>1, <2>3 DEF Write, HandlerStep, LoggingInv
<1>10. ASSUME NEW k \in Sites, PolicyHook(k)
      PROVE  LoggingInv'
  BY Zenon, <1>0, <1>10 DEF PolicyHook, HandlerStep, LoggingInv, Undoable, HandlerPcs,
     policy_hook, ltckpt_set_idempotent_recovery,
     ltckpt_set_request_specific_recovery, ltckpt_set_process_local_recovery,
     ltckpt_set_fail_stop_recovery, SetPolicy, ltckpt_close_r_window
<1>11. CASE Call
  BY Zenon, <1>0, <1>11 DEF Call, HandlerStep, LoggingInv, Undoable, HandlerPcs
<1>12. CASE Resume
  BY Zenon, <1>0, <1>12 DEF Resume, LoggingInv, Undoable, HandlerPcs, LoopInv
<1>13. CASE UNCHANGED vars
  BY Zenon, <1>0, <1>13 DEF vars, LoggingInv, Undoable, HandlerPcs
<1> QED
  BY Zenon, <1>1, <1>2, <1>3, <1>4, <1>5, <1>6, <1>7, <1>8, <1>9, <1>10, <1>11, <1>12,
      <1>13
     DEF Next, Loop, Handler, Recovery, Stopped, Rollback, Outside

-----------------------------------------------------------------------------
(* The hooks are ahead of the writes and calls they guard.                 *)

\* The hooks stay ahead of the stores they guard.
LEMMA NextHook ==
  ASSUME IInv, [Next]_vars, CopiesAligned
  PROVE  HookInv'
<1>0. TypeOK /\ LoopInv /\ LoggingInv /\ HookInv
  BY Zenon DEF IInv
<1>a. pc' \notin {"store_hook", "copy_hook", "write"} => HookInv'
  BY Zenon DEF HookInv
<1> USE DEF globals, hookVars, logVars, writelogVars, opVars, restartVars, ghostVars
<1>1. CASE Outside
  BY Zenon, <1>0, <1>1, <1>a, OutsideSteps DEF TypeOK, HandlerPcs
<1>2. CASE StartOfWindow
  BY Zenon, <1>2, <1>a DEF StartOfWindow
<1>3. CASE HandlerReturns
  BY Zenon, <1>3, <1>a DEF HandlerReturns
<1>4. ASSUME NEW w \in Stores, NEW v \in Vals, BeginStore(w, v)
      PROVE  HookInv'
  <2>1. /\ pc' = "store_hook" /\ access' = <<w[1], w[2], v>>
    BY Zenon, <1>4 DEF BeginStore, HandlerStep
  <2>2. access' \in Accesses
    BY <2>1 DEF Accesses
  <2>3. Range(access') = Range(w) /\ access'[1] = w[1]
    BY Zenon, <2>1 DEF Range
  <2> QED BY Zenon, <2>1, <2>2, <2>3, AccessAssumption DEF HookInv
<1>5. ASSUME NEW w \in Copies, NEW v \in Vals, BeginCopy(w, v)
      PROVE  HookInv'
  <2>1. /\ pc' = "copy_hook" /\ access' = <<w[1], w[2], v>>
        /\ reg' = w[1] - (w[1] % 4)
    BY Zenon, <1>5 DEF BeginCopy, HandlerStep, MemcpyFirst
  <2>2. access' \in Accesses
    BY <2>1 DEF Accesses
  <2>3. w[1] \in Bytes /\ w[2] \in Nat \ {0}
    <3>1. w[1] \in Nat /\ w[2] \in Nat \ {0} /\ Range(w) \subseteq Bytes
      BY Zenon, AccessAssumption
    <3>2. w[1] \in Range(w)
      BY <3>1 DEF Range
    <3> QED BY Zenon, <3>1, <3>2
  <2>4. w[1] % 8 < 4
    BY Zenon DEF CopiesAligned, WRITELOG_GRANULARITY
  <2>5. reg' % 8 = 0 /\ reg' >= 8 /\ reg' <= w[1]
    <3>1. w[1] \in Nat /\ w[1] >= 8
      BY <2>3, LogAssumption DEF Bytes, WRITELOG_GRANULARITY
    <3> QED BY Zenon, <2>1, <2>4, <3>1, FirstRegion
  <2>6. \A b \in Range(access') : ~ (b < reg')
    BY <2>1, <2>3, <2>5 DEF Range, Bytes, WRITELOG_GRANULARITY
  <2> QED BY Zenon, <2>1, <2>2, <2>5, <2>6 DEF HookInv, WRITELOG_GRANULARITY
<1>6. CASE StoreHook
  <2>1. /\ pc' = "write" /\ access' = access /\ access \in Accesses
        /\ \A b \in Range(access) : RegionBase(b) = RegionBase(access[1])
        /\ access[1] \in Bytes
    BY Zenon, <1>0, <1>6, HookAddress DEF StoreHook, HandlerStep, HookInv
  <2> SUFFICES ASSUME Undoable', NEW b \in Range(access) \cap StateBytes
               PROVE  Covered(b, wl_data', wl_position')
    BY Zenon, <2>1 DEF HookInv
  <2>2. Undoable
    BY Zenon, <1>6, HookKeepsFailStop DEF StoreHook, HandlerStep, Undoable, HandlerPcs
  <2>3. b \in Region(RegionBase(access[1]))
    BY Zenon, <2>1, RegionOfByte DEF StateBytes
  <2> QED
    BY Zenon, <1>0, <1>6, <2>1, <2>2, <2>3, HookLogs DEF StoreHook, LoggingInv
<1>7. CASE CopyHook
  <2>1. /\ pc' = "copy_hook" /\ access' = access /\ access \in Accesses
        /\ reg \in Nat /\ reg % 8 = 0 /\ reg >= 8 /\ reg' = reg + 8
        /\ reg \in Bytes
    BY Zenon, <1>0, <1>7, HookAddress DEF CopyHook, HandlerStep, HookInv, TypeOK, MemcpyNext,
       WRITELOG_GRANULARITY
  <2>2. reg' % 8 = 0 /\ reg' >= 8
    BY <2>1
  <2>3. ASSUME Undoable', NEW b \in Range(access) \cap StateBytes, b < reg'
        PROVE  Covered(b, wl_data', wl_position')
    <3>1. Undoable
      BY Zenon, <1>7, <2>3, HookKeepsFailStop
        DEF CopyHook, HandlerStep, Undoable, HandlerPcs
    <3>2. /\ \A c : Covered(c, wl_data, wl_position)
                   => Covered(c, wl_data', wl_position')
          /\ \A c \in Region(RegionBase(reg)) : Covered(c, wl_data', wl_position')
      BY Zenon, <1>0, <1>7, <2>1, <3>1, HookLogs DEF CopyHook, LoggingInv
    <3>3. CASE b < reg
      BY Zenon, <1>0, <1>7, <2>3, <3>1, <3>2, <3>3 DEF CopyHook, HandlerStep, HookInv
    <3>4. CASE ~ (b < reg)
      <4>1. b \in Int /\ RegionBase(reg) = reg
        BY <2>1, <2>3 DEF StateBytes, Bytes, RegionBase, WRITELOG_GRANULARITY
      <4>2. b \in Region(RegionBase(reg))
        BY <2>1, <2>3, <3>4, <4>1 DEF Region, WRITELOG_GRANULARITY
      <4> QED BY Zenon, <3>2, <4>2
    <3> QED BY Zenon, <3>3, <3>4
  <2> QED BY Zenon, <2>1, <2>2, <2>3 DEF HookInv, WRITELOG_GRANULARITY
<1>8. CASE CopyHookDone
  <2>1. /\ pc' = "write" /\ access' = access /\ access \in Accesses
        /\ reg >= access[1] + access[2] /\ reg \in Nat
        /\ wl_data' = wl_data /\ wl_position' = wl_position
    BY Zenon, <1>0, <1>8 DEF CopyHookDone, HandlerStep, HookInv, TypeOK
  <2>2. \A b \in Range(access) : b < reg
    BY <2>1, AccessInBytes DEF Range
  <2>3. Undoable' => Undoable
    BY Zenon, <1>8 DEF CopyHookDone, HandlerStep, Undoable, HandlerPcs
  <2> QED BY Zenon, <1>0, <1>8, <2>1, <2>2, <2>3 DEF CopyHookDone, HandlerStep, HookInv
<1>9. CASE Write
  BY Zenon, <1>9, <1>a DEF Write, HandlerStep
<1>10. ASSUME NEW k \in Sites, PolicyHook(k)
      PROVE  HookInv'
  BY Zenon, <1>10, <1>a DEF PolicyHook, HandlerStep
<1>11. CASE Call
  BY Zenon, <1>11, <1>a DEF Call, HandlerStep
<1>12. CASE Resume
  BY Zenon, <1>12, <1>a DEF Resume
<1>13. CASE UNCHANGED vars
  BY Zenon, <1>0, <1>13 DEF vars, HookInv, Undoable
<1> QED
  BY Zenon, <1>1, <1>2, <1>3, <1>4, <1>5, <1>6, <1>7, <1>8, <1>9, <1>10, <1>11, <1>12,
      <1>13
     DEF Next, Loop, Handler, Recovery, Stopped, Rollback, Outside

-----------------------------------------------------------------------------
(* The main loop and the bound of the log.                                *)

\* The message loop keeps its part of the invariant.
LEMMA NextLoop ==
  ASSUME IInv, [Next]_vars, EveryTol
  PROVE  LoopInv'
<1>0. TypeOK /\ LoopInv
  BY Zenon DEF IInv
<1> USE DEF globals, hookVars, logVars, writelogVars, opVars, restartVars, ghostVars
<1>1. CASE TopOfTheLoop
  BY <1>0, <1>1 DEF TopOfTheLoop, top_of_the_loop, NextTol, LoopInv, HandlerPcs,
     EveryTol
<1>2. CASE SefHandleMessage
  BY Zenon, <1>0, <1>2 DEF SefHandleMessage, LoopInv, HandlerPcs, TypeOK, Flag
<1>3. CASE StartOfWindow
  BY Zenon, <1>0, <1>3 DEF StartOfWindow, ltckpt_detect_start_of_window_hook, LoopInv,
     HandlerPcs, TypeOK, GlobalsTypeOK, Flag
<1>4. CASE HandlerReturns
  BY <1>0, <1>4 DEF HandlerReturns, LoopInv, HandlerPcs
<1>5. CASE Handler
  BY Zenon, <1>5, HandlerSteps, <1>0 DEF HandlerFrame, LoopInv, HandlerPcs
<1>6. CASE Crash
  BY Zenon, <1>0, <1>6 DEF Crash, OldInstance, CrashPoints, LoopInv, HandlerPcs
<1>7. CASE RestartFails
  BY Zenon, <1>0, <1>7 DEF RestartFails, LoopInv, HandlerPcs
<1>8. CASE DisableOldLog
  BY Zenon, <1>0, <1>8 DEF DisableOldLog, LoopInv, HandlerPcs
<1>9. CASE StateTransfer
  BY Zenon, <1>0, <1>9 DEF StateTransfer, LoopInv, HandlerPcs
<1>10. CASE Rollback
  <2>1. RollbackFrame
    BY Zenon, <1>10, <1>0, RollbackSteps DEF TypeOK
  <2> QED BY Zenon, <1>0, <2>1 DEF RollbackFrame, AfterTransfer, LoopInv, HandlerPcs
<1>11. CASE Dispatch
  BY <1>0, <1>11 DEF Dispatch, NoInstance, LoopInv, HandlerPcs
<1>12. ASSUME NEW w \in ResumeStores, NEW v \in Vals, ResumeStore(w, v)
      PROVE  LoopInv'
  BY Zenon, <1>0, <1>12 DEF ResumeStore, LoopInv, HandlerPcs
<1>13. CASE Resume
  BY <1>0, <1>13 DEF Resume, LoopInv, HandlerPcs
<1>14. CASE UNCHANGED vars
  BY Zenon, <1>0, <1>14 DEF vars, LoopInv, HandlerPcs
<1> QED
  BY Zenon, <1>1, <1>2, <1>3, <1>4, <1>5, <1>6, <1>7, <1>8, <1>9, <1>10, <1>11,
     <1>12, <1>13, <1>14 DEF Next, Loop, Recovery, Stopped, Rollback

\* The store hook and the rollback keep the log in its bound, and a full log
\* closes the window.
LEMMA StepInBounds ==
  ASSUME WindowStep, wl_position \in Nat, WRITELOG_MAXLEN \in Nat,
         sa_window__is_open \in Flag, wl_position <= WRITELOG_MAXLEN,
         sa_window__is_open = 1 => wl_position < WRITELOG_MAXLEN
  PROVE  /\ wl_position' <= WRITELOG_MAXLEN
         /\ sa_window__is_open' = 1 => wl_position' < WRITELOG_MAXLEN
<1>1. ASSUME NEW a, store_hook(a)
      PROVE  /\ wl_position' <= WRITELOG_MAXLEN
             /\ sa_window__is_open' = 1 => wl_position' < WRITELOG_MAXLEN
  BY <1>1 DEF store_hook, write_wl, LogFull, Flag, logVars, writelogVars
<1> QED BY <1>1 DEF WindowStep

\* An open window never meets a full log.
LEMMA NextBound ==
  ASSUME IInv, [Next]_vars
  PROVE  BoundInv'
<1>0. TypeOK /\ BoundInv /\ LoopInv /\ RestartInv
  BY Zenon DEF IInv
<1>a. /\ wl_position \in Nat /\ WRITELOG_MAXLEN \in Nat \ {0}
      /\ sa_window__is_open \in Flag /\ old.position \in Nat
  BY Zenon, <1>0, LogAssumption DEF TypeOK, GlobalsTypeOK
<1>b. (Handler \/ Rollback) /\ UNCHANGED old => BoundInv'
  <2>1. (Handler \/ Rollback) => WindowStep
    BY Zenon, <1>0, HandlerSteps, RollbackSteps DEF TypeOK, HandlerFrame, RollbackFrame
  <2> QED BY Zenon, <1>0, <1>a, <2>1, StepInBounds DEF BoundInv
<1> USE DEF globals, hookVars, logVars, writelogVars, opVars, restartVars, ghostVars
<1>1. CASE TopOfTheLoop
  BY <1>0, <1>a, <1>1 DEF TopOfTheLoop, top_of_the_loop, NextTol, BoundInv
<1>2. CASE SefHandleMessage
  BY Zenon, <1>0, <1>a, <1>2 DEF SefHandleMessage, BoundInv
<1>3. CASE StartOfWindow
  BY <1>0, <1>a, <1>3 DEF StartOfWindow, ltckpt_detect_start_of_window_hook, BoundInv,
     LoopInv
<1>4. CASE HandlerReturns
  BY Zenon, <1>0, <1>a, <1>4 DEF HandlerReturns, BoundInv
<1>5. CASE Handler
  BY Zenon, <1>5, <1>b, HandlerSteps DEF HandlerFrame
<1>6. CASE Crash
  BY <1>0, <1>a, <1>6 DEF Crash, OldInstance, CrashPoints, BoundInv
<1>7. CASE RestartFails
  BY Zenon, <1>0, <1>a, <1>7 DEF RestartFails, BoundInv
<1>8. CASE DisableOldLog
  BY Zenon, <1>0, <1>a, <1>8 DEF DisableOldLog, BoundInv, TypeOK
<1>9. CASE StateTransfer
  BY Zenon, <1>0, <1>a, <1>9 DEF StateTransfer, BoundInv
<1>10. CASE Rollback
  BY Zenon, <1>0, <1>10, <1>b, RollbackSteps DEF TypeOK, RollbackFrame
<1>11. CASE Dispatch
  BY <1>0, <1>a, <1>11 DEF Dispatch, NoInstance, BoundInv
<1>12. ASSUME NEW w \in ResumeStores, NEW v \in Vals, ResumeStore(w, v)
      PROVE  BoundInv'
  BY Zenon, <1>0, <1>a, <1>12 DEF ResumeStore, BoundInv
<1>13. CASE Resume
  BY Zenon, <1>0, <1>a, <1>13 DEF Resume, BoundInv
<1>14. CASE UNCHANGED vars
  BY Zenon, <1>0, <1>a, <1>14 DEF vars, BoundInv
<1> QED
  BY Zenon, <1>1, <1>2, <1>3, <1>4, <1>5, <1>6, <1>7, <1>8, <1>9, <1>10, <1>11, <1>12,
      <1>13, <1>14
     DEF Next, Loop, Recovery, Rollback, Stopped

-----------------------------------------------------------------------------
(* The policy in force is the one the calls so far recorded.               *)

\* The policy records every call before it is made.
LEMMA NextPolicy ==
  ASSUME IInv, [Next]_vars
  PROVE  PolicyInv'
<1>0. TypeOK /\ LoopInv /\ PolicyInv
  BY Zenon DEF IInv
<1> USE DEF globals, hookVars, logVars, writelogVars, opVars, restartVars, ghostVars
<1>1. CASE TopOfTheLoop
  BY Zenon, <1>1 DEF TopOfTheLoop, top_of_the_loop, NextTol, PolicyInv, Recorded,
     HandlerPcs, RestartPcs
<1>2. CASE SefHandleMessage
  BY Zenon, <1>2
    DEF SefHandleMessage, PolicyInv, Recorded, HandlerPcs, RestartPcs
<1>3. CASE StartOfWindow
  BY SMTT(20), <1>3
    DEF StartOfWindow, ltckpt_detect_start_of_window_hook, PolicyInv,
     Recorded, HandlerPcs, RestartPcs, ltckpt_detect_start_of_window_hook
<1>4. CASE HandlerReturns
  BY Zenon, <1>0, <1>4
    DEF HandlerReturns, PolicyInv, Recorded, HandlerPcs, RestartPcs
<1>5. ASSUME NEW w \in Stores, NEW v \in Vals, BeginStore(w, v)
      PROVE  PolicyInv'
  BY Zenon, <1>0, <1>5
    DEF BeginStore, HandlerStep, PolicyInv, Recorded, HandlerPcs,
     RestartPcs
<1>6. ASSUME NEW w \in Copies, NEW v \in Vals, BeginCopy(w, v)
      PROVE  PolicyInv'
  BY Zenon, <1>0, <1>6 DEF BeginCopy, HandlerStep, PolicyInv, Recorded, HandlerPcs,
     RestartPcs
<1>7. CASE StoreHook
  BY Zenon, <1>0, <1>7 DEF StoreHook, HandlerStep, PolicyInv, Recorded, HandlerPcs,
     RestartPcs, store_hook, write_wl
<1>8. CASE CopyHook
  BY Zenon, <1>0, <1>8 DEF CopyHook, HandlerStep, PolicyInv, Recorded, HandlerPcs,
     RestartPcs, store_hook, write_wl
<1>9. CASE CopyHookDone
  BY Zenon, <1>0, <1>9
    DEF CopyHookDone, HandlerStep, PolicyInv, Recorded, HandlerPcs,
     RestartPcs
<1>10. CASE Write
  BY Zenon, <1>0, <1>10
    DEF Write, HandlerStep, PolicyInv, Recorded, HandlerPcs, RestartPcs
<1>11. ASSUME NEW k \in Sites, PolicyHook(k)
      PROVE  PolicyInv'
  BY SMTT(20), <1>0, <1>11
    DEF PolicyHook, HandlerStep, PolicyInv, Recorded, HandlerPcs,
     RestartPcs, policy_hook, ltckpt_set_idempotent_recovery,
     ltckpt_set_request_specific_recovery, ltckpt_set_process_local_recovery,
     ltckpt_set_fail_stop_recovery, SetPolicy, ltckpt_close_r_window, LoopInv
<1>12. CASE Call
  BY Zenon, <1>0, <1>12 DEF Call, HandlerStep, PolicyInv, Recorded, HandlerPcs, RestartPcs
<1>13. CASE Crash
  <2>1. /\ pc' = "r_disable" /\ recoveries' = recoveries /\ effects' = effects
        /\ old'.mask = g_recovery_bitmask /\ old'.have = have_handled_message
        /\ pc \in HandlerPcs \cup {"tol", "resume"}
    BY Zenon, <1>13 DEF Crash, OldInstance, CrashPoints, HandlerPcs
  <2>2. delivering = 0 \/ delivering = 1
    BY Zenon, <1>0 DEF TypeOK, Flag
  <2> QED BY Zenon, <1>0, <2>1, <2>2 DEF PolicyInv, Recorded, LoopInv, HandlerPcs
<1>14. CASE RestartFails
  BY Zenon, <1>14 DEF RestartFails, PolicyInv, Recorded, HandlerPcs, RestartPcs
<1>15. CASE DisableOldLog
  BY Zenon, <1>0, <1>15 DEF DisableOldLog, PolicyInv, Recorded, HandlerPcs, RestartPcs,
     TypeOK
<1>16. CASE StateTransfer
  BY Zenon, <1>0, <1>16 DEF StateTransfer, PolicyInv, Recorded, HandlerPcs, RestartPcs
<1>17. CASE Rollback
  <2>1. RollbackFrame
    BY Zenon, <1>17, <1>0, RollbackSteps DEF TypeOK
  <2> QED BY Zenon, <1>0, <2>1
    DEF RollbackFrame, AfterTransfer, PolicyInv, Recorded, HandlerPcs, RestartPcs
<1>18. CASE Dispatch
  BY Zenon, <1>18 DEF Dispatch, NoInstance, PolicyInv, Recorded, HandlerPcs,
     RestartPcs
<1>19. ASSUME NEW w \in ResumeStores, NEW v \in Vals, ResumeStore(w, v)
      PROVE  PolicyInv'
  BY Zenon, <1>19
    DEF ResumeStore, PolicyInv, Recorded, HandlerPcs, RestartPcs
<1>20. CASE Resume
  BY Zenon, <1>0, <1>20
    DEF Resume, PolicyInv, Recorded, HandlerPcs, RestartPcs, LoopInv
<1>21. CASE UNCHANGED vars
  BY Zenon, <1>0, <1>21 DEF vars, PolicyInv, Recorded, HandlerPcs, RestartPcs
<1> QED
  BY Zenon, <1>1, <1>2, <1>3, <1>4, <1>5, <1>6, <1>7, <1>8, <1>9, <1>10, <1>11,
     <1>12, <1>13, <1>14, <1>15, <1>16, <1>17, <1>18, <1>19, <1>20, <1>21 DEF
     Next, Loop, Handler, Recovery, Stopped, Rollback
=============================================================================
