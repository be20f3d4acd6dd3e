---------------------------- MODULE ServerProofs ----------------------------
(***************************************************************************)
(* TLAPS proofs about OsirisServer, second part: type correctness, the     *)
(* conjuncts about crash and rollback, the theorems about the invariants,  *)
(* and the implementation of AtomicServer.                                 *)
(***************************************************************************)
EXTENDS ServerInvariants

-----------------------------------------------------------------------------
(* Type correctness.                                                       *)

\* The entry that a turn of the rollback loop looks at is in the log.
LEMMA TurnEntry ==
  ASSUME TypeOK, RestartInv, pc \in InRollbackTurn
  PROVE  /\ wl_position \in Nat /\ old.position \in Nat
         /\ wl_position + 1 <= old.position
         /\ wl_position + 1 \in DOMAIN old_wl
         /\ old_wl[wl_position + 1].addr \in Nat
         /\ old_wl[wl_position + 1].addr % WRITELOG_GRANULARITY = 0
         /\ old_wl[wl_position + 1].data
              \in [Region(old_wl[wl_position + 1].addr) -> Vals]
<1>1. wl_position \in Nat /\ old.position \in Nat /\ LogOK(old_wl, old.position)
  BY Zenon DEF TypeOK
<1>2. wl_position + 1 <= old.position
  BY Zenon DEF RestartInv
<1>3. wl_position + 1 \in DOMAIN old_wl
  BY <1>1, <1>2 DEF LogOK
<1>4. Bytes \subseteq Nat
  BY LogAssumption DEF Bytes, WRITELOG_GRANULARITY
<1> QED BY Zenon, <1>1, <1>2, <1>3, <1>4 DEF LogOK

\* The two parts of the type invariant.
LEMMA TypeParts ==
  /\ TypeOK <=> WorkTypes /\ FrameTypes
  /\ TypeOK' <=> WorkTypes' /\ FrameTypes'
BY Zenon DEF TypeOK, GlobalsTypeOK, WorkTypes, FrameTypes

\* Every step of a handler or of a rollback keeps the types.
LEMMA WorkType ==
  ASSUME IInv, Handler \/ Rollback
  PROVE  TypeOK'
<1>0. TypeOK /\ WorkTypes /\ FrameTypes /\ HookInv /\ RestartInv
  BY Zenon, TypeParts DEF IInv
<1> USE DEF hookVars, logVars, writelogVars, opVars, restartVars, ghostVars
<1>a. FrameTypes'
  <2>1. HandlerFrame \/ RollbackFrame
    BY Zenon, <1>0, HandlerSteps, RollbackSteps DEF WorkTypes
  <2> QED BY Zenon, <1>0, <2>1 DEF HandlerFrame, RollbackFrame, FrameTypes
<1> SUFFICES WorkTypes'
  BY Zenon, <1>a, TypeParts
<1>1. ASSUME NEW w \in Stores, NEW v \in Vals, BeginStore(w, v) PROVE WorkTypes'
  BY <1>0, <1>1 DEF BeginStore, HandlerStep, WorkTypes, Pcs, Accesses
<1>2. ASSUME NEW w \in Copies, NEW v \in Vals, BeginCopy(w, v) PROVE WorkTypes'
  <2>1. MemcpyFirst(w[1]) \in Nat
    BY AccessAssumption DEF MemcpyFirst
  <2> QED
    BY <1>0, <1>2, <2>1 DEF BeginCopy, HandlerStep, WorkTypes, Pcs, Accesses
<1>3. CASE StoreHook
  <2>1. access[1] \in Bytes
    BY Zenon, <1>0, <1>3, AccessInBytes DEF StoreHook, HandlerStep, HookInv
  <2> QED
    BY Zenon, <1>0, <1>3, <2>1, StoreHookType DEF StoreHook, HandlerStep, WorkTypes, Pcs
<1>4. CASE CopyHook
  <2>1. access \in Accesses /\ reg \in Nat /\ reg >= 8
    BY Zenon, <1>0, <1>4
      DEF CopyHook, HandlerStep, HookInv, WorkTypes, WRITELOG_GRANULARITY
  <2>2. access[1] + access[2] - 1 \in Range(access)
    BY <2>1, AccessInBytes DEF Range
  <2>3. reg \in Bytes /\ MemcpyNext(reg) \in Nat
    BY <1>4, <2>1, <2>2, AccessInBytes, LogAssumption
       DEF CopyHook, Bytes, MemcpyNext, WRITELOG_GRANULARITY
  <2> QED
    BY Zenon, <1>0, <1>4, <2>3, StoreHookType DEF CopyHook, HandlerStep, WorkTypes, Pcs
<1>5. CASE CopyHookDone
  BY Zenon, <1>0, <1>5 DEF CopyHookDone, HandlerStep, WorkTypes, Pcs
<1>6. CASE Write
  <2>1. access[3] \in Vals
    BY <1>0, <1>6, AccessInBytes, Zenon DEF Write, HandlerStep, HookInv
  <2>2. mem' \in [Bytes -> Vals]
    BY Zenon, <1>0, <1>6, <2>1 DEF Write, WorkTypes
  <2> QED
    BY Zenon, <1>0, <1>6, <2>2 DEF Write, HandlerStep, WorkTypes, Pcs
<1>7. ASSUME NEW k \in Sites, PolicyHook(k) PROVE WorkTypes'
  <2>1. sa_window__is_open' \in Flag /\ g_recovery_bitmask' \in SUBSET Bits
    BY <1>0, <1>7, Zenon
      DEF PolicyHook, policy_hook, ltckpt_set_idempotent_recovery,
       ltckpt_set_request_specific_recovery, ltckpt_set_process_local_recovery,
       ltckpt_set_fail_stop_recovery, SetPolicy, ltckpt_close_r_window,
       WorkTypes, Flag, Bits
  <2> QED
    BY Zenon, <1>0, <1>7, <2>1, AccessAssumption
      DEF PolicyHook, HandlerStep, WorkTypes, Pcs
<1>8. CASE Call
  BY Zenon, <1>0, <1>8 DEF Call, HandlerStep, WorkTypes, Pcs, SiteKinds
<1>9. CASE RollbackNext
  <2>1. wl_position - 1 \in Nat /\ LogOK(wl_data, wl_position - 1)
    BY SMTT(20), <1>0, <1>9, LogPrefix DEF RollbackNext, WorkTypes
  <2> QED
    BY <1>0, <1>9, <2>1 DEF RollbackNext, RestartStep, WorkTypes, Pcs, Flag
<1>10. CASE StubStore
  BY Zenon, <1>0, <1>10, AccessAssumption, StoreHookType
    DEF StubStore, RestartStep, WorkTypes, Pcs
<1>11. CASE StubTrap
  <2>1. sa_window__is_open' \in Flag /\ g_recovery_bitmask' \in SUBSET Bits
    BY <1>0, <1>11, Zenon
      DEF StubTrap, policy_hook, ltckpt_set_fail_stop_recovery,
       ltckpt_close_r_window, WorkTypes, Flag, Bits
  <2> QED
    BY Zenon, <1>0, <1>11, <2>1 DEF StubTrap, RestartStep, WorkTypes, Pcs
<1>12. CASE RollbackSkip
  BY Zenon, <1>0, <1>12 DEF RollbackSkip, RestartStep, WorkTypes, Pcs
<1>13. CASE RollbackFetch
  BY Zenon, <1>0, <1>13 DEF RollbackFetch, RestartStep, WorkTypes, Pcs, Flag
<1>14. CASE RollbackRegion
  <2>1. mem \in [Bytes -> Vals]
        /\ old_wl[Slot].data \in [Region(old_wl[Slot].addr) -> Vals]
    BY Zenon, <1>0, <1>14, TurnEntry
       DEF RollbackRegion, RestartStep, InRollbackTurn, Slot, WorkTypes
  <2>2. mem' \in [Bytes -> Vals]
    BY Zenon, <1>14, <2>1, OverwriteType DEF RollbackRegion
  <2> QED
    BY Zenon, <1>0, <1>14, <2>2 DEF RollbackRegion, RestartStep, WorkTypes, Pcs
<1>15. CASE RollbackDone
  BY Zenon, <1>0, <1>15 DEF RollbackDone, RestartStep, WorkTypes, Pcs, Flag
<1> QED
  BY Zenon, <1>1, <1>2, <1>3, <1>4, <1>5, <1>6, <1>7, <1>8, <1>9, <1>10, <1>11, <1>12,
      <1>13, <1>14, <1>15
     DEF Handler, Rollback

\* A freshly started server is well-typed.
LEMMA InitType == Init => TypeOK
<1> SUFFICES ASSUME Init PROVE TypeOK
  OBVIOUS
<1>1. LogOK(wl_data, wl_position) /\ LogOK(old_wl, old.position)
  BY Zenon, EmptyLog DEF Init, WriteLogInit, NoInstance
<1>2. mem \in [Bytes -> Vals] /\ snap \in [Bytes -> Vals]
  BY Zenon DEF Init
<1>3. msg \in Messages
  BY Zenon, AccessAssumption DEF Init
<1> QED
  BY <1>1, <1>2, <1>3 DEF Init, WriteLogInit, NoInstance, TypeOK, GlobalsInit,
     GlobalsTypeOK, NaiveModes, Flag, Bits, Pcs, SiteKinds, Deeds

\* Every step of the server, its hooks and its restart keeps the types.
LEMMA NextType == IInv /\ [Next]_vars => TypeOK'
<1> SUFFICES ASSUME IInv, [Next]_vars PROVE TypeOK'
  OBVIOUS
<1>0. TypeOK /\ RestartInv
  BY Zenon DEF IInv
<1> USE DEF globals, hookVars, logVars, writelogVars, opVars, restartVars, ghostVars
<1>1. CASE TopOfTheLoop
  <2>1. LogOK(wl_data', wl_position') /\ wl_position' \in Nat
    BY <1>0, <1>1, EmptyLog DEF TopOfTheLoop, top_of_the_loop, TypeOK
  <2> QED
    BY <1>0, <1>1, <2>1, LogAssumption DEF TopOfTheLoop, top_of_the_loop, NextTol,
       TypeOK, GlobalsTypeOK, Flag, Pcs
<1>2. CASE SefHandleMessage
  BY Zenon, <1>0, <1>2, AccessAssumption DEF SefHandleMessage, TypeOK, GlobalsTypeOK, Pcs
<1>3. CASE StartOfWindow
  <2>1. GlobalsTypeOK'
    <3>1. g_recovery_naive_mode' \in NaiveModes
      BY Zenon, <1>3, NaiveAssumption DEF StartOfWindow, ltckpt_set_naive_recovery
    <3> QED
      BY <1>0, <1>3, <3>1, Zenon
        DEF StartOfWindow, ltckpt_detect_start_of_window_hook,
         TypeOK, GlobalsTypeOK, Flag, Bits
  <2>2. /\ snap' \in [Bytes -> Vals] /\ effects' \in SUBSET SiteKinds
        /\ recoveries' \in 0 .. 2 /\ delivering' \in Flag /\ pc' \in Pcs
        /\ did' \in Deeds
    BY <1>0, <1>3 DEF StartOfWindow, TypeOK, Pcs, Flag, Deeds
  <2> QED
    BY Zenon, <1>0, <1>3, <2>1, <2>2 DEF StartOfWindow, TypeOK
<1>4. CASE HandlerReturns
  BY <1>0, <1>4 DEF HandlerReturns, TypeOK, GlobalsTypeOK, Pcs, Flag
<1>5. CASE Handler \/ Rollback
  BY Zenon, <1>5, WorkType
<1>6. CASE Crash
  <2>1. LogOK(wl_data, 0)
    BY <1>0, LogPrefix DEF TypeOK
  <2> QED
    BY <1>0, <1>6, <2>1 DEF Crash, OldInstance, TypeOK, GlobalsTypeOK, Pcs, Flag,
       Bits, SiteKinds
<1>7. CASE RestartFails
  BY Zenon, <1>0, <1>7 DEF RestartFails, TypeOK, GlobalsTypeOK, Pcs
<1>8. CASE DisableOldLog
  BY Zenon, <1>0, <1>8 DEF DisableOldLog, TypeOK, GlobalsTypeOK, Pcs, Flag
<1>9. CASE StateTransfer
  BY Zenon, <1>0, <1>9 DEF StateTransfer, TypeOK, GlobalsTypeOK, Pcs, RestartInv
<1>10. CASE Dispatch
  <2>1. PICK o \in ltckpt_recovery_dispatcher :
          /\ did' = o.did
          /\ pc' \in Pcs
          /\ g_recovery_bitmask' \in SUBSET Bits
    BY Zenon, <1>0, <1>10 DEF Dispatch, TypeOK, GlobalsTypeOK, Pcs, Bits
  <2>3. did' \in Deeds
    BY Zenon, <2>1, DispatcherCases, PolicyCases DEF Deeds
  <2>2. LogOK(old_wl', old'.position)
    BY Zenon, <1>10, EmptyLog DEF Dispatch, NoInstance
  <2> QED
    BY SMTT(20), <1>0, <1>10, <2>1, <2>2, <2>3 DEF Dispatch, NoInstance, TypeOK, GlobalsTypeOK,
       Flag
<1>11. ASSUME NEW w \in ResumeStores, NEW v \in Vals, ResumeStore(w, v)
       PROVE  TypeOK'
  BY Zenon, <1>0, <1>11 DEF ResumeStore, TypeOK, GlobalsTypeOK
<1>12. CASE Resume
  BY <1>0, <1>12 DEF Resume, TypeOK, GlobalsTypeOK, Pcs, Flag
<1>13. CASE UNCHANGED vars
  BY Zenon, <1>0, <1>13 DEF vars, TypeOK, GlobalsTypeOK
<1> QED
  BY Zenon, <1>1, <1>2, <1>3, <1>4, <1>5, <1>6, <1>7, <1>8, <1>9, <1>10, <1>11, <1>12,
      <1>13
     DEF Next, Loop, Recovery, Rollback, Stopped

-----------------------------------------------------------------------------
(* Rollback.                                                               *)

\* An entry outside the state is dropped from the log and not restored.
LEMMA SkipKeepsExact ==
  ASSUME TypeOK, RestartInv, RollbackSkip,
         recoveries = 0, old.have = 1, "FAIL_STOP" \notin old.mask
  PROVE  LogExact(mem, snap, old_wl, wl_position)
<1>1. pc \in InRollbackTurn /\ ~ Restored(OldAddr(wl_position + 1))
  BY Zenon DEF RollbackSkip, RestartStep, InRollbackTurn, Slot
<1>2. LogExact(mem, snap, old_wl, wl_position + 1)
  BY Zenon, <1>1 DEF RestartInv
<1>3. ~ Restored(old_wl[wl_position + 1].addr)
  BY Zenon, <1>1, TurnEntry DEF OldAddr
<1> QED BY Zenon, <1>1, <1>2, <1>3, TurnEntry, ExactSkip

\* Restoring the region of an entry undoes the stores it was logged for.
LEMMA UndoKeepsExact ==
  ASSUME TypeOK, RestartInv, RollbackRegion,
         recoveries = 0, old.have = 1, "FAIL_STOP" \notin old.mask
  PROVE  LogExact(mem', snap, old_wl, wl_position)
<1>1. pc \in InRollbackTurn /\ mem' = Overwrite(mem, old_wl[wl_position + 1].data)
  BY Zenon DEF RollbackRegion, RestartStep, InRollbackTurn, Slot
<1>2. LogExact(mem, snap, old_wl, wl_position + 1)
  BY Zenon, <1>1 DEF RestartInv
<1> QED BY Zenon, <1>1, <1>2, TurnEntry, ExactUndo

\* Every turn of the rollback loop undoes one entry of the log, and the
\* restart hook keeps its working state.
LEMMA NextRestart ==
  ASSUME IInv, [Next]_vars
  PROVE  RestartInv'
<1>0. TypeOK /\ LoopInv /\ LoggingInv /\ RestartInv
  BY Zenon DEF IInv
<1> USE DEF globals, hookVars, logVars, writelogVars, opVars, restartVars, ghostVars
<1>1. CASE TopOfTheLoop
  BY Zenon, <1>1 DEF TopOfTheLoop, top_of_the_loop, NextTol, RestartInv,
     AfterTransfer, InRollbackTurn
<1>2. CASE SefHandleMessage
  BY Zenon, <1>2 DEF SefHandleMessage, RestartInv, AfterTransfer, InRollbackTurn
<1>3. CASE StartOfWindow
  BY Zenon, <1>3 DEF StartOfWindow, ltckpt_detect_start_of_window_hook, RestartInv,
     AfterTransfer, InRollbackTurn, ltckpt_detect_start_of_window_hook
<1>4. CASE HandlerReturns
  BY Zenon, <1>4 DEF HandlerReturns, RestartInv, AfterTransfer, InRollbackTurn,
     LoopInv
<1>5. CASE Handler
  BY Zenon, <1>5, HandlerSteps DEF HandlerFrame, HandlerPcs, RestartInv, AfterTransfer,
     InRollbackTurn
<1>6. CASE Crash
  <2>1. /\ pc' = "r_disable" /\ recoveries' = recoveries /\ old_wl' = wl_data
        /\ wl_data' = wl_data /\ mem' = mem /\ snap' = snap
        /\ old'.mask = g_recovery_bitmask /\ old'.have = have_handled_message
        /\ old'.position = wl_position
        /\ pc \in HandlerPcs \cup {"tol", "resume"}
    BY Zenon, <1>6 DEF Crash, OldInstance, CrashPoints, HandlerPcs
  <2>2. delivering = 0 \/ delivering = 1
    BY Zenon, <1>0 DEF TypeOK, Flag
  <2>3. recoveries = 0 /\ old'.have = 1 /\ "FAIL_STOP" \notin old'.mask => Undoable
    BY Zenon, <1>0, <2>1, <2>2 DEF LoopInv, Undoable
  <2> QED BY Zenon, <1>0, <2>1, <2>3
    DEF RestartInv, LoggingInv, AfterTransfer, InRollbackTurn
<1>7. CASE RestartFails
  BY Zenon, <1>7 DEF RestartFails, RestartInv, AfterTransfer, InRollbackTurn
<1>8. CASE DisableOldLog
  <2>1. /\ old' = [old EXCEPT !.enabled = 0]
        /\ old'.enabled = 0 /\ old'.have = old.have /\ old'.mask = old.mask
        /\ old'.position = old.position
    BY <1>8 DEF DisableOldLog, TypeOK
  <2> QED BY Zenon, <1>0, <1>8, <2>1
    DEF DisableOldLog, RestartInv, AfterTransfer, InRollbackTurn
<1>9. CASE StateTransfer
  <2>1. old.position \in Nat
    BY Zenon, <1>0 DEF TypeOK
  <2> QED
    BY <1>0, <1>9, <2>1 DEF StateTransfer, RestartInv, AfterTransfer, InRollbackTurn
<1>10. CASE RollbackNext
  BY <1>0, <1>10 DEF RollbackNext, RestartStep, RestartInv, AfterTransfer,
     InRollbackTurn, TypeOK
<1>11. CASE StubStore
  <2>1. ltckpt_writelog_enabled = 0
    BY Zenon, <1>0, <1>11 DEF StubStore, RestartStep, RestartInv, AfterTransfer
  <2>2. UNCHANGED <<wl_data, wl_position, g_recovery_bitmask, sa_window__is_open>>
    BY <1>11, <2>1 DEF StubStore, store_hook, write_wl, RestartStep, TypeOK, Flag
  <2> QED BY Zenon, <1>0, <1>11, <2>2 DEF StubStore, RestartStep, RestartInv, AfterTransfer,
             InRollbackTurn
<1>12. CASE StubTrap
  <2>1. inside_trusted_compute_base = 1
    BY Zenon, <1>0, <1>12 DEF StubTrap, RestartStep, RestartInv, InRollbackTurn
  <2>2. UNCHANGED <<g_recovery_bitmask, sa_window__is_open>>
    BY Zenon, <1>12, <2>1
      DEF StubTrap, policy_hook, ltckpt_set_fail_stop_recovery, SetPolicy
  <2> QED BY Zenon, <1>0, <1>12, <2>2 DEF StubTrap, RestartStep, RestartInv, AfterTransfer,
             InRollbackTurn, TypeOK
<1>13. CASE RollbackSkip
  <2>1. recoveries = 0 /\ old.have = 1 /\ "FAIL_STOP" \notin old.mask
          => LogExact(mem, snap, old_wl, wl_position)
    BY Zenon, <1>0, <1>13, SkipKeepsExact
  <2>2. /\ pc = "r_addr" /\ pc' = "r_loop"
        /\ UNCHANGED <<mem, snap, old, old_wl, wl_position, walked,
                       num_entries, ltckpt_writelog_enabled,
                       g_recovery_bitmask, sa_window__is_open,
                       have_handled_message, recoveries>>
    BY Zenon, <1>13 DEF RollbackSkip, RestartStep
  <2>3. /\ ltckpt_writelog_enabled = 0
        /\ g_recovery_bitmask = old.mask /\ sa_window__is_open = old.window
        /\ have_handled_message = old.have
        /\ walked + wl_position = num_entries
        /\ wl_position <= old.position
    BY Zenon, <1>0, <2>2 DEF RestartInv, AfterTransfer
  <2>4. /\ pc' = "r_loop"
        /\ recoveries' = 0 /\ old'.have = 1 /\ "FAIL_STOP" \notin old'.mask
             => LogExact(mem', snap', old_wl', wl_position')
    BY Zenon, <2>1, <2>2
  <2> QED BY Zenon, <2>2, <2>3, <2>4 DEF RestartInv, AfterTransfer, InRollbackTurn
<1>14. CASE RollbackFetch
  BY Zenon, <1>0, <1>14 DEF RollbackFetch, RestartStep, RestartInv, AfterTransfer,
     InRollbackTurn
<1>15. CASE RollbackRegion
  <2>1. recoveries = 0 /\ old.have = 1 /\ "FAIL_STOP" \notin old.mask
          => LogExact(mem', snap, old_wl, wl_position)
    BY Zenon, <1>0, <1>15, UndoKeepsExact
  <2>2. /\ pc = "r_region" /\ pc' = "r_loop"
        /\ UNCHANGED <<snap, old, old_wl, wl_position, walked,
                       num_entries, ltckpt_writelog_enabled,
                       g_recovery_bitmask, sa_window__is_open,
                       have_handled_message, recoveries>>
    BY Zenon, <1>15 DEF RollbackRegion, RestartStep
  <2>3. /\ ltckpt_writelog_enabled = 0
        /\ g_recovery_bitmask = old.mask /\ sa_window__is_open = old.window
        /\ have_handled_message = old.have
        /\ walked + wl_position = num_entries
        /\ wl_position <= old.position
    BY Zenon, <1>0, <2>2 DEF RestartInv, AfterTransfer
  <2>4. /\ pc' = "r_loop"
        /\ recoveries' = 0 /\ old'.have = 1 /\ "FAIL_STOP" \notin old'.mask
             => LogExact(mem', snap', old_wl', wl_position')
    BY Zenon, <2>1, <2>2
  <2> QED BY Zenon, <2>2, <2>3, <2>4 DEF RestartInv, AfterTransfer, InRollbackTurn
<1>16. CASE RollbackDone
  BY Zenon, <1>0, <1>16 DEF RollbackDone, RestartStep, RestartInv, AfterTransfer,
     InRollbackTurn
<1>17. CASE Dispatch
  BY Zenon, <1>17 DEF Dispatch, NoInstance, RestartInv, AfterTransfer, InRollbackTurn,
     TypeOK
<1>18. ASSUME NEW w \in ResumeStores, NEW v \in Vals, ResumeStore(w, v)
      PROVE  RestartInv'
  BY Zenon, <1>18 DEF ResumeStore, RestartInv, AfterTransfer, InRollbackTurn
<1>19. CASE Resume
  BY Zenon, <1>19 DEF Resume, RestartInv, AfterTransfer, InRollbackTurn
<1>20. CASE UNCHANGED vars
  BY Zenon, <1>0, <1>20 DEF vars, RestartInv, AfterTransfer, InRollbackTurn
<1> QED
  BY Zenon, <1>1, <1>2, <1>3, <1>4, <1>5, <1>6, <1>7, <1>8, <1>9, <1>10, <1>11,
     <1>12, <1>13, <1>14, <1>15, <1>16, <1>17, <1>18, <1>19, <1>20 DEF Next,
     Loop, Recovery, Stopped

-----------------------------------------------------------------------------
(* Aborted requests.                                                       *)

\* A server that comes back from recovery has aborted its request only if
\* no effect of it was visible: the dispatcher acts on a policy that records
\* every call made.
LEMMA NextAbort ==
  ASSUME IInv, AbortedRequestHadNoEffect, [Next]_vars
  PROVE  AbortedRequestHadNoEffect'
<1>0. TypeOK /\ RestartInv /\ PolicyInv
  BY Zenon DEF IInv
<1> USE DEF globals, hookVars, logVars, writelogVars, opVars, restartVars, ghostVars
<1>1. CASE TopOfTheLoop
  BY Zenon, <1>1 DEF TopOfTheLoop, top_of_the_loop, NextTol, AbortedRequestHadNoEffect
<1>2. CASE SefHandleMessage
  BY Zenon, <1>2 DEF SefHandleMessage, AbortedRequestHadNoEffect
<1>3. CASE StartOfWindow
  BY Zenon, <1>3 DEF StartOfWindow, ltckpt_detect_start_of_window_hook,
     AbortedRequestHadNoEffect
<1>4. CASE HandlerReturns
  BY Zenon, <1>4 DEF HandlerReturns, AbortedRequestHadNoEffect
<1>5. CASE Handler
  BY Zenon, <1>5, HandlerSteps DEF HandlerFrame, HandlerPcs, AbortedRequestHadNoEffect
<1>6. CASE Crash
  BY Zenon, <1>6 DEF Crash, OldInstance, CrashPoints, AbortedRequestHadNoEffect
<1>7. CASE RestartFails
  BY Zenon, <1>7 DEF RestartFails, AbortedRequestHadNoEffect
<1>8. CASE DisableOldLog
  BY Zenon, <1>8 DEF DisableOldLog, AbortedRequestHadNoEffect
<1>9. CASE StateTransfer
  BY Zenon, <1>9 DEF StateTransfer, AbortedRequestHadNoEffect
<1>10. CASE Rollback
  <2>1. RollbackFrame
    BY Zenon, <1>10, <1>0, RollbackSteps DEF TypeOK
  <2> QED BY Zenon, <2>1 DEF RollbackFrame, AfterTransfer, AbortedRequestHadNoEffect
<1>11. CASE Dispatch
  <2> SUFFICES ASSUME pc' = "resume", recoveries' = 1
               PROVE  AbortedRequestHadNoEffect'
    BY Zenon DEF AbortedRequestHadNoEffect
  <2>1. PICK o \in ltckpt_recovery_dispatcher : did' = o.did
    BY Zenon, <1>11 DEF Dispatch
  <2>2. recoveries = 0 /\ msg' = msg /\ effects' = effects /\ pc = "dispatch"
    BY SMTT(20), <1>11 DEF Dispatch, TypeOK
  <2>3. ASSUME HaveMessage PROVE Recorded(g_recovery_bitmask)
    BY Zenon, <1>0, <2>2, <2>3
      DEF PolicyInv, RestartInv, AfterTransfer, RestartPcs, HaveMessage
  <2>4. msg.user \in {-1, 0, 1}
    BY Zenon, <1>0 DEF TypeOK, Messages
  <2>5. CASE did' \in {"nothing", "shutdown"}
    BY Zenon, <2>5 DEF AbortedRequestHadNoEffect
  <2>6. CASE \E p \in PolicyOutcomes : did' = p.did
    <3>1. PICK p \in PolicyOutcomes : did' = p.did
      BY Zenon, <2>6
    <3>2. did' = "kill" \/ did' \in {"error_reply", "rehandle"} => HaveMessage
      BY Zenon, <3>1, PolicyCases
    <3>3. CASE did' = "kill" \/ did' \in {"error_reply", "rehandle"}
      <4>1. "fail_stop" \notin effects
        BY Zenon, <2>3, <3>1, <3>2, <3>3, PolicyCases DEF Recorded
      <4>2. did' = "kill" => msg.user = 1
        BY Zenon, <3>1, PolicyCases
      <4>3. "process_local" \in effects => did' # "rehandle"
                                         /\ (did' = "error_reply" => msg.user = 0)
        BY Zenon, <2>3, <2>4, <3>1, <3>2, <3>3, PolicyCases DEF Recorded
      <4> QED BY Zenon, <2>2, <4>1, <4>2, <4>3 DEF AbortedRequestHadNoEffect
    <3>4. CASE ~ (did' = "kill" \/ did' \in {"error_reply", "rehandle"})
      BY Zenon, <3>4 DEF AbortedRequestHadNoEffect
    <3> QED BY Zenon, <3>3, <3>4
  <2> QED BY Zenon, <2>1, <2>5, <2>6, DispatcherCases
<1>12. ASSUME NEW w \in ResumeStores, NEW v \in Vals, ResumeStore(w, v)
      PROVE  AbortedRequestHadNoEffect'
  BY Zenon, <1>12 DEF ResumeStore, AbortedRequestHadNoEffect
<1>13. CASE Resume
  BY Zenon, <1>13 DEF Resume, AbortedRequestHadNoEffect
<1>14. CASE UNCHANGED vars
  BY Zenon, <1>14 DEF vars, AbortedRequestHadNoEffect
<1> QED
  BY Zenon, <1>1, <1>2, <1>3, <1>4, <1>5, <1>6, <1>7, <1>8, <1>9, <1>10, <1>11,
     <1>12, <1>13, <1>14 DEF Next, Loop, Recovery, Stopped, Rollback

-----------------------------------------------------------------------------
(* The naive baselines.                                                    *)

\* In a naive mode the dispatcher shuts the machine down only on a fail-stop
\* policy: every other failure is overridden.
LEMMA NaiveDispatcher ==
  ASSUME g_recovery_naive_mode # "DEFAULT",
         NEW o \in ltckpt_recovery_dispatcher, o.did = "shutdown"
  PROVE  "FAIL_STOP" \in g_recovery_bitmask
<1>1. ~ (LTRC_NO_RECOVERY_ON_SVC_FI /\ rs_fi_flag)
  BY DEF ltckpt_recovery_dispatcher
<1>2. PICK p \in IF Replyable = 1 THEN PolicyOutcomes ELSE {Failed} :
        o \in AbortOnFailure(NaiveOverride(p))
  BY Zenon, <1>1 DEF ltckpt_recovery_dispatcher
<1>3. p \in PolicyOutcomes \/ p = Failed
  BY Zenon, <1>2
<1>4. p \in [r : {SUCCESS, FAILURE}, did : Deeds]
  BY <1>3, PolicyRecords DEF Failed, Deeds
<1>5. o.did = p.did
  BY <1>2, <1>4 DEF AbortOnFailure, NaiveOverride, SUCCESS, FAILURE
<1>6. p \in PolicyOutcomes
  BY <1>3, <1>5 DEF Failed
<1> QED
  BY <1>5, <1>6 DEF PolicyOutcomes, Failed, ltckpt_recovery_fail_stop,
     ltckpt_recovery_process_specific, ltckpt_recovery_request_specific,
     ltckpt_recovery_idempotent, ltckpt_send_reply

\* No step of a naive baseline takes the machine down without a fail-stop
\* policy.
LEMMA NextNaive ==
  ASSUME NaiveInv, [Next]_vars
  PROVE  NaiveInv'
<1> USE DEF globals, hookVars, logVars, writelogVars, opVars, restartVars, ghostVars
<1>1. CASE TopOfTheLoop
  BY Zenon, <1>1 DEF TopOfTheLoop, top_of_the_loop, NaiveInv, NaiveRecoveryCarriesOn
<1>2. CASE SefHandleMessage
  BY Zenon, <1>2 DEF SefHandleMessage, NaiveInv, NaiveRecoveryCarriesOn
<1>3. CASE StartOfWindow
  BY Zenon, <1>3 DEF StartOfWindow, NaiveInv, NaiveRecoveryCarriesOn
<1>4. CASE HandlerReturns
  BY Zenon, <1>4 DEF HandlerReturns, NaiveInv, NaiveRecoveryCarriesOn
<1>5. CASE Handler
  BY Zenon, <1>5, HandlerSteps DEF HandlerFrame, HandlerPcs, NaiveInv,
     NaiveRecoveryCarriesOn
<1>6. CASE Crash
  BY Zenon, <1>6 DEF Crash, NaiveInv, NaiveRecoveryCarriesOn
<1>7. CASE RestartFails
  BY Zenon, <1>7 DEF RestartFails, NaiveInv, NaiveRecoveryCarriesOn
<1>8. CASE DisableOldLog
  BY Zenon, <1>8 DEF DisableOldLog, NaiveInv, NaiveRecoveryCarriesOn
<1>9. CASE StateTransfer
  BY Zenon, <1>9 DEF StateTransfer, NaiveInv, NaiveRecoveryCarriesOn
<1>10. CASE Rollback
  <2>1. RollbackFrame
    BY Zenon, <1>10, RollbackSteps DEF NaiveInv
  <2> QED BY Zenon, <2>1
    DEF RollbackFrame, AfterTransfer, NaiveInv, NaiveRecoveryCarriesOn
<1>11. CASE Dispatch
  <2> SUFFICES ASSUME g_recovery_naive_mode' # "DEFAULT", pc' = "halted"
               PROVE  "FAIL_STOP" \in g_recovery_bitmask'
    BY Zenon, <1>11 DEF Dispatch, NaiveInv, NaiveRecoveryCarriesOn
  <2>1. PICK o \in ltckpt_recovery_dispatcher :
          /\ pc' = IF o.did = "shutdown" THEN "halted"
                   ELSE IF o.r = FAILURE THEN "failed" ELSE "resume"
          /\ g_recovery_bitmask \subseteq g_recovery_bitmask'
    BY Zenon, <1>11 DEF Dispatch
  <2>2. g_recovery_naive_mode # "DEFAULT"
    BY Zenon, <1>11 DEF Dispatch
  <2>3. o.did = "shutdown"
    BY Zenon, <2>1
  <2> QED BY Zenon, <2>1, <2>2, <2>3, NaiveDispatcher
<1>12. ASSUME NEW w \in ResumeStores, NEW v \in Vals, ResumeStore(w, v)
       PROVE  NaiveInv'
  BY Zenon, <1>12 DEF ResumeStore, NaiveInv, NaiveRecoveryCarriesOn
<1>13. CASE Resume
  BY Zenon, <1>13 DEF Resume, NaiveInv, NaiveRecoveryCarriesOn
<1>14. CASE UNCHANGED vars
  BY Zenon, <1>14 DEF vars, NaiveInv, NaiveRecoveryCarriesOn
<1> QED
  BY Zenon, <1>1, <1>2, <1>3, <1>4, <1>5, <1>6, <1>7, <1>8, <1>9, <1>10, <1>11,
     <1>12, <1>13, <1>14 DEF Next, Loop, Recovery, Stopped, Rollback

-----------------------------------------------------------------------------
(* The theorems.                                                           *)

\* A freshly started server satisfies the inductive invariant.
LEMMA InitInv == Init => IInv
<1> SUFFICES ASSUME Init PROVE IInv
  OBVIOUS
<1>1. TypeOK
  BY Zenon, InitType
<1>2. /\ pc = "tol" /\ delivering = 0 /\ have_handled_message = 0
      /\ num_tols = 0 /\ wl_position = 0 /\ sa_window__is_open = 0
      /\ old.position = 0 /\ old.window = 0
  BY Zenon DEF Init, GlobalsInit, WriteLogInit, NoInstance
<1>3. LoopInv /\ BoundInv
  BY <1>2, LogAssumption DEF LoopInv, BoundInv, HandlerPcs
<1>4. LoggingInv /\ HookInv
  BY <1>2 DEF LoggingInv, Undoable, HookInv
<1>5. RestartInv /\ PolicyInv
  BY <1>2 DEF RestartInv, AfterTransfer, InRollbackTurn, PolicyInv, HandlerPcs,
     RestartPcs
<1> QED BY Zenon, <1>1, <1>3, <1>4, <1>5 DEF IInv

\* Every step of the server keeps the inductive invariant.
LEMMA NextInv ==
  ASSUME EveryTol, CopiesAligned, IInv, [Next]_vars
  PROVE  IInv'
BY Zenon, NextType, NextLoop, NextBound, NextLogging, NextHook, NextRestart,
   NextPolicy DEF IInv

\* The inductive invariant holds in every state of the server, through any
\* number of requests, crashes and recoveries.
THEOREM InvariantHolds ==
  ASSUME EveryTol, CopiesAligned
  PROVE  Spec => []IInv
<1>1. IInv /\ [Next]_vars => IInv'
  BY Zenon, NextInv
<1> QED BY <1>1, InitInv, PTL DEF Spec

\* The variables of the server keep their types and both logs hold whole
\* regions (ltckpt_write_wl, the hooks and the restart hook).
THEOREM TypesHold ==
  ASSUME EveryTol, CopiesAligned
  PROVE  Spec => []TypeOK
<1>1. IInv => TypeOK
  BY Zenon DEF IInv
<1> QED BY <1>1, InvariantHolds, PTL

\* Rollback restores the state of the checkpoint whenever the dispatcher is
\* going to treat the request as one that can be undone.
THEOREM RollbackIsExact ==
  ASSUME EveryTol, CopiesAligned
  PROVE  Spec => []RollbackReachesCheckpoint
<1>1. IInv => RollbackReachesCheckpoint
  <2> SUFFICES ASSUME IInv, pc = "dispatch", recoveries = 0,
                      have_handled_message = 1,
                      "FAIL_STOP" \notin g_recovery_bitmask,
                      NEW b \in StateBytes
               PROVE  mem[b] = snap[b]
    BY Zenon DEF RollbackReachesCheckpoint
  <2>1. wl_position = 0 /\ LogExact(mem, snap, old_wl, 0)
    BY Zenon DEF IInv, RestartInv, AfterTransfer
  <2>2. ~ Covered(b, old_wl, 0)
    BY DEF Covered
  <2> QED BY Zenon, <2>1, <2>2 DEF LogExact
<1> QED BY <1>1, InvariantHolds, PTL

\* The restart hook hands the policy, the window and the position of the
\* crashed instance's log to the dispatcher as it found them.
THEOREM PolicyIsKept ==
  ASSUME EveryTol, CopiesAligned
  PROVE  Spec => []RecoveryKeepsPolicy
<1>1. IInv => RecoveryKeepsPolicy
  BY DEF IInv, RestartInv, AfterTransfer, RecoveryKeepsPolicy, TypeOK
<1> QED BY <1>1, InvariantHolds, PTL

\* ltckpt_write_wl never writes beyond the area of the log: the entry that
\* fills it also closes the window.
THEOREM LogIsBounded ==
  ASSUME EveryTol, CopiesAligned
  PROVE  Spec => []LogStaysInBounds
<1>1. IInv => LogStaysInBounds
  BY Zenon DEF IInv, BoundInv, LogStaysInBounds
<1> QED BY <1>1, InvariantHolds, PTL

\* A request that is answered with ERESTART, handled again or ends with its
\* requester killed left no effect outside the server that this would hide.
THEOREM AbortIsClean ==
  ASSUME EveryTol, CopiesAligned
  PROVE  Spec => []AbortedRequestHadNoEffect
<1>1. Init => AbortedRequestHadNoEffect
  BY Zenon DEF Init, AbortedRequestHadNoEffect
<1>2. IInv /\ AbortedRequestHadNoEffect /\ [Next]_vars => AbortedRequestHadNoEffect'
  BY Zenon, NextAbort
<1> QED BY <1>1, <1>2, InvariantHolds, PTL DEF Spec

\* Once a naive mode is set, a crash takes the machine down only when a call
\* changed global state or the log was full: for every configuration, with no
\* assumption on checkpoints, copies or start-up code.
THEOREM NaiveCarriesOn == Spec => []NaiveRecoveryCarriesOn
<1>1. Init => NaiveInv
  BY Zenon DEF Init, NaiveInv, NaiveRecoveryCarriesOn
<1>2. NaiveInv /\ [Next]_vars => NaiveInv'
  BY Zenon, NextNaive
<1>3. NaiveInv => NaiveRecoveryCarriesOn
  BY Zenon DEF NaiveInv
<1> QED BY <1>1, <1>2, <1>3, PTL DEF Spec

-----------------------------------------------------------------------------
(* Between requests the log is empty.                                      *)

\* The loop and the restart hook keep the log empty between requests.
LEMMA NextIdle ==
  ASSUME EveryTol, IInv, IdleInv, [Next]_vars
  PROVE  IdleInv'
<1>0. TypeOK /\ LoopInv /\ RestartInv
  BY Zenon DEF IInv
<1>a. /\ delivering \in {0, 1} /\ have_handled_message \in {0, 1}
      /\ wl_position \in Nat /\ recoveries \in 0 .. 2
      /\ stub_ret \in {"r_addr", "r_region"}
  BY Zenon, <1>0 DEF TypeOK, GlobalsTypeOK, Flag
<1> USE DEF globals, hookVars, logVars, writelogVars, opVars, restartVars, ghostVars
<1>1. CASE TopOfTheLoop
  BY Zenon, <1>1 DEF TopOfTheLoop, top_of_the_loop, NextTol, IdleInv, RestartPcs
<1>2. CASE SefHandleMessage
  BY Zenon, <1>2 DEF SefHandleMessage, IdleInv, RestartPcs
<1>3. CASE StartOfWindow
  BY Zenon, <1>3, <1>0 DEF StartOfWindow, ltckpt_detect_start_of_window_hook,
     ltckpt_set_naive_recovery, LoopInv, IdleInv, RestartPcs
<1>4. CASE HandlerReturns
  BY <1>4, <1>0, <1>a DEF HandlerReturns, LoopInv, HandlerPcs, IdleInv, RestartPcs
<1>5. CASE Handler
  BY Zenon, <1>5, HandlerSteps DEF HandlerFrame, HandlerPcs, IdleInv, RestartPcs
<1>6. CASE Crash
  <2>1. /\ pc' = "r_disable" /\ recoveries' = recoveries /\ msg' = msg
        /\ old'.have = have_handled_message /\ old'.position = wl_position
        /\ g_recovery_naive_mode' = g_recovery_naive_mode
        /\ pc \in HandlerPcs \cup {"tol", "resume"}
    BY Zenon, <1>6 DEF Crash, OldInstance, CrashPoints, HandlerPcs
  <2>2. recoveries # 0 \/ have_handled_message = 0 => pc \in {"tol", "resume"}
    BY <1>0, <2>1 DEF LoopInv
  <2> QED BY Zenon, <2>1, <2>2 DEF IdleInv, RestartPcs
<1>7. CASE RestartFails
  BY Zenon, <1>7 DEF RestartFails, IdleInv, RestartPcs
<1>8. CASE DisableOldLog
  <2>1. old'.have = old.have /\ old'.position = old.position
    BY Zenon, <1>8, <1>0 DEF DisableOldLog, TypeOK
  <2> QED BY Zenon, <1>8, <2>1 DEF DisableOldLog, IdleInv, RestartPcs
<1>9. CASE StateTransfer
  BY Zenon, <1>9 DEF StateTransfer, IdleInv, RestartPcs
<1>10. CASE Rollback
  <2>1. RollbackFrame
    BY Zenon, <1>10, <1>a, RollbackSteps
  <2> QED BY Zenon, <2>1 DEF RollbackFrame, AfterTransfer, IdleInv, RestartPcs
<1>11. CASE Dispatch
  <2>1. /\ wl_position' = wl_position /\ msg' = msg
        /\ g_recovery_naive_mode' = g_recovery_naive_mode
        /\ pc' \in {"halted", "failed", "resume"} /\ pc = "dispatch"
    BY Zenon, <1>11 DEF Dispatch
  <2>2. wl_position = 0
    BY Zenon, <1>0, <2>1 DEF RestartInv
  <2> QED BY Zenon, <2>1, <2>2 DEF IdleInv, RestartPcs
<1>12. ASSUME NEW w \in ResumeStores, NEW v \in Vals, ResumeStore(w, v)
       PROVE  IdleInv'
  BY Zenon, <1>12 DEF ResumeStore, IdleInv, RestartPcs
<1>13. CASE Resume
  BY Zenon, <1>13 DEF Resume, IdleInv, RestartPcs
<1>14. CASE UNCHANGED vars
  BY Zenon, <1>14 DEF vars, IdleInv
<1> QED
  BY Zenon, <1>1, <1>2, <1>3, <1>4, <1>5, <1>6, <1>7, <1>8, <1>9, <1>10, <1>11,
     <1>12, <1>13, <1>14 DEF Next, Loop, Recovery, Stopped, Rollback

-----------------------------------------------------------------------------
(* The steps.                                                              *)

\* The dispatcher lets the server go on only for a request that SEF still
\* holds and whose policy is not fail-stop.
LEMMA DispatcherResumes ==
  ASSUME RecoversOrStops, IdleInv,
         NEW o \in ltckpt_recovery_dispatcher,
         o.did # "shutdown", o.r # FAILURE
  PROVE  have_handled_message = 1 /\ "FAIL_STOP" \notin g_recovery_bitmask
<1>1. g_recovery_naive_mode = "DEFAULT" /\ ~ (LTRC_NO_RECOVERY_ON_SVC_FI /\ rs_fi_flag)
  BY DEF RecoversOrStops, IdleInv, rs_fi_flag
<1>2. PICK p \in IF Replyable = 1 THEN PolicyOutcomes ELSE {Failed} :
        o \in AbortOnFailure(p)
  BY Zenon, <1>1 DEF ltckpt_recovery_dispatcher, NaiveOverride
<1>3. p \in PolicyOutcomes \/ p = Failed
  BY Zenon, <1>2
<1>4. p \in [r : {SUCCESS, FAILURE}, did : Deeds]
  BY <1>3, PolicyRecords DEF Failed, Deeds
<1>5. o = p
  BY Zenon, <1>2, <1>4 DEF AbortOnFailure
<1>6. p # Failed
  BY <1>5 DEF Failed
<1>7. Replyable = 1 /\ p \in PolicyOutcomes
  BY Zenon, <1>2, <1>6
<1>8. HaveMessage
  BY <1>1, <1>7 DEF Replyable, ltckpt_is_message_replyable
<1>9. "FAIL_STOP" \notin g_recovery_bitmask
  BY <1>5, <1>7 DEF PolicyOutcomes, ltckpt_recovery_fail_stop, Failed
<1> QED BY Zenon, <1>8, <1>9 DEF HaveMessage

\* A step that neither begins nor ends a request, and makes no call, is not
\* seen outside as long as it leaves the checkpoint of the request, or the
\* state between requests, alone.
LEMMA Unseen ==
  ASSUME InRequest' <=> InRequest,
         InRequest => snap' = snap,
         ~ InRequest => \A b \in StateBytes : mem'[b] = mem[b],
         pc \notin {"halted", "failed"}, pc' \notin {"halted", "failed"},
         effects' = effects, recoveries' = recoveries
  PROVE  UNCHANGED <<Committed, Status>>
<1>1. Status' = Status
  BY Zenon DEF Status
<1>2. Committed' = Committed
  BY Zenon DEF Committed, State
<1> QED BY Zenon, <1>1, <1>2

\* The state part of a memory is a state.
LEMMA StateType ==
  ASSUME NEW m \in [Bytes -> Vals] PROVE State(m) \in [StateBytes -> Vals]
<1>1. StateBytes \subseteq Bytes
  BY Zenon DEF StateBytes
<1> QED BY Zenon, <1>1 DEF State

\* Whatever the server has committed is a state.
LEMMA CommittedType ==
  /\ TypeOK => Committed \in [StateBytes -> Vals]
  /\ TypeOK' => Committed' \in [StateBytes -> Vals]
<1>1. ASSUME TypeOK PROVE Committed \in [StateBytes -> Vals]
  <2>1. mem \in [Bytes -> Vals] /\ snap \in [Bytes -> Vals]
    BY Zenon, <1>1 DEF TypeOK
  <2> QED BY Zenon, <2>1, StateType DEF Committed
<1>2. ASSUME TypeOK' PROVE Committed' \in [StateBytes -> Vals]
  <2>1. mem' \in [Bytes -> Vals] /\ snap' \in [Bytes -> Vals]
    BY Zenon, <1>2 DEF TypeOK
  <2>2. Committed' = [b \in StateBytes |-> IF InRequest' THEN snap'[b] ELSE mem'[b]]
    BY Zenon DEF Committed, State
  <2>3. StateBytes \subseteq Bytes
    BY Zenon DEF StateBytes
  <2> QED BY Zenon, <2>1, <2>2, <2>3
<1> QED BY Zenon, <1>1, <1>2

\* A step after which the server or the machine is down commits nothing that
\* could still be asked for, and is final.
LEMMA GoesDown ==
  ASSUME TypeOK', pc \notin {"halted", "failed"}, pc' \in {"halted", "failed"}
  PROVE  Atomic!Next
<1>1. Status # "down" /\ Status' = "down"
  BY Zenon DEF Status
<1>2. Committed' \in [StateBytes -> Vals]
  BY Zenon, CommittedType
<1> QED BY Zenon, <1>1, <1>2 DEF Atomic!Next, Atomic!GoDown

\* At the dispatcher an undone request has left memory at its checkpoint.
LEMMA DispatchAtCheckpoint ==
  ASSUME IInv, pc = "dispatch", recoveries = 0, have_handled_message = 1,
         "FAIL_STOP" \notin g_recovery_bitmask
  PROVE  \A b \in StateBytes : mem[b] = snap[b]
<1>1. wl_position = 0 /\ LogExact(mem, snap, old_wl, 0)
  BY Zenon DEF IInv, RestartInv, AfterTransfer
<1> QED BY <1>1 DEF LogExact, Covered

\* Every step of the server, of a crash and of a restart is a step of
\* AtomicServer or is not seen outside.
LEMMA NextAtomic ==
  ASSUME EveryTol, RecoversOrStops, StartupIsQuiet, IInv, IInv', IdleInv, [Next]_vars
  PROVE  [Atomic!Next]_<<Committed, Status>>
<1>0. TypeOK /\ TypeOK' /\ LoopInv /\ RestartInv /\ PolicyInv
  BY Zenon DEF IInv
<1>a. /\ delivering \in {0, 1} /\ have_handled_message \in {0, 1}
      /\ wl_position \in Nat /\ recoveries \in 0 .. 2
      /\ stub_ret \in {"r_addr", "r_region"}
  BY Zenon, <1>0 DEF TypeOK, GlobalsTypeOK, Flag
<1> USE DEF globals, hookVars, logVars, writelogVars, opVars, restartVars, ghostVars
<1>1. CASE TopOfTheLoop
  <2>1. /\ pc = "tol" /\ pc' = "sef" /\ mem' = mem
        /\ snap' = snap /\ effects' = effects /\ recoveries' = recoveries
    BY Zenon, <1>1 DEF TopOfTheLoop, top_of_the_loop
  <2>2. CASE InRequest
    <3>1. recoveries = 0 /\ ~ InRequest'
      BY Zenon, <2>1, <2>2 DEF InRequest, RestartPcs
    <3>2. Status \in {"busy", "exposed"} /\ Status' = "idle"
      BY Zenon, <2>1, <2>2, <3>1 DEF Status
    <3>3. Committed' \in [StateBytes -> Vals]
      BY Zenon, <1>0, CommittedType
    <3> QED BY Zenon, <3>2, <3>3 DEF Atomic!Next, Atomic!Finish
  <2>3. CASE ~ InRequest
    <3>1. ~ InRequest'
      BY Zenon, <2>1 DEF InRequest, RestartPcs
    <3> QED BY Zenon, <2>1, <2>3, <3>1, Unseen
  <2> QED BY Zenon, <2>2, <2>3
<1>2. CASE SefHandleMessage
  <2>1. /\ InRequest' <=> InRequest
        /\ snap' = snap /\ effects' = effects /\ recoveries' = recoveries
        /\ pc \notin {"halted", "failed"} /\ pc' \notin {"halted", "failed"}
    BY Zenon, <1>2 DEF SefHandleMessage, InRequest, RestartPcs
  <2>2. ~ InRequest => mem' = mem
    BY Zenon, <1>2 DEF SefHandleMessage, InRequest, RestartPcs
  <2> QED BY <2>1, <2>2, Unseen, Zenon
<1>3. CASE StartOfWindow
  <2>1. pc = "start" /\ mem' = mem /\ ~ InRequest
    BY Zenon, <1>3 DEF StartOfWindow, InRequest, RestartPcs
  <2>2. CASE delivering = 0
    <3>1. /\ pc' = "tol" /\ delivering' = 1 /\ effects' = effects
          /\ recoveries' = recoveries
      BY Zenon, <1>3, <2>2 DEF StartOfWindow
    <3>2. ~ InRequest'
      BY <3>1 DEF InRequest, RestartPcs
    <3> QED BY Zenon, <2>1, <3>1, <3>2, Unseen
  <2>3. CASE delivering # 0
    <3>1. pc' = "handler" /\ snap' = mem /\ effects' = {} /\ recoveries' = 0
      BY Zenon, <1>3, <2>3 DEF StartOfWindow
    <3>2. InRequest'
      BY Zenon, <3>1 DEF InRequest
    <3>3. Status \in {"idle", "aborted"} /\ Status' = "busy"
      BY Zenon, <2>1, <3>1, <3>2 DEF Status
    <3>4. Committed' = Committed
      BY Zenon, <2>1, <3>1, <3>2 DEF Committed
    <3> QED BY Zenon, <3>3, <3>4 DEF Atomic!Next, Atomic!Accept
  <2> QED BY Zenon, <2>2, <2>3
<1>4. CASE HandlerReturns
  <2>1. /\ InRequest' <=> InRequest
        /\ snap' = snap /\ effects' = effects /\ recoveries' = recoveries
        /\ pc \notin {"halted", "failed"} /\ pc' \notin {"halted", "failed"}
    BY Zenon, <1>4, <1>0 DEF HandlerReturns, InRequest, RestartPcs, LoopInv, HandlerPcs
  <2>2. ~ InRequest => mem' = mem
    BY Zenon, <1>4, <1>0 DEF HandlerReturns, InRequest, RestartPcs, LoopInv, HandlerPcs
  <2> QED BY <2>1, <2>2, Unseen, Zenon
<1>5. CASE Handler /\ effects' = effects
  <2>1. HandlerFrame
    BY Zenon, <1>5, HandlerSteps
  <2>2. InRequest /\ InRequest'
    BY Zenon, <1>0, <2>1 DEF HandlerFrame, InRequest, LoopInv, HandlerPcs
  <2>3. /\ snap' = snap /\ recoveries' = recoveries
        /\ pc \notin {"halted", "failed"} /\ pc' \notin {"halted", "failed"}
    BY Zenon, <2>1 DEF HandlerFrame, HandlerPcs
  <2> QED BY Zenon, <1>5, <2>2, <2>3, Unseen
<1>6. CASE Call
  <2>1. /\ InRequest /\ InRequest' /\ snap' = snap
        /\ effects' = effects \cup {site}
        /\ recoveries' = recoveries /\ pc = "call" /\ pc' = "handler"
    BY Zenon, <1>6, <1>0 DEF Call, HandlerStep, InRequest, LoopInv, HandlerPcs
  <2>2. Committed' = Committed
    BY Zenon, <2>1 DEF Committed
  <2>3. CASE site = "fail_stop" /\ "fail_stop" \notin effects
    <3>1. Status = "busy" /\ Status' = "exposed"
      BY Zenon, <2>1, <2>3 DEF Status
    <3> QED BY Zenon, <2>2, <3>1 DEF Atomic!Next, Atomic!Expose
  <2>4. CASE ~ (site = "fail_stop" /\ "fail_stop" \notin effects)
    <3>1. Status' = Status
      BY Zenon, <2>1, <2>4 DEF Status
    <3> QED BY Zenon, <2>2, <3>1
  <2> QED BY Zenon, <2>3, <2>4
<1>7. CASE Crash
  <2>1. /\ pc \in HandlerPcs \cup {"tol", "resume"} /\ pc' = "r_disable"
        /\ old'.have = have_handled_message
        /\ snap' = snap /\ effects' = effects /\ recoveries' = recoveries
        /\ mem' = mem
    BY Zenon, <1>7 DEF Crash, OldInstance, CrashPoints, HandlerPcs
  <2>2. InRequest' <=> InRequest
    <3>1. CASE pc \in HandlerPcs
      BY Zenon, <1>0, <2>1, <3>1 DEF InRequest, RestartPcs, LoopInv, HandlerPcs
    <3>2. CASE pc = "tol"
      BY Zenon, <1>0, <1>a, <2>1, <3>2 DEF InRequest, RestartPcs, LoopInv
    <3>3. CASE pc = "resume"
      BY Zenon, <1>0, <2>1, <3>3 DEF InRequest, RestartPcs, LoopInv
    <3> QED BY Zenon, <2>1, <3>1, <3>2, <3>3
  <2> QED BY Zenon, <2>1, <2>2, Unseen DEF HandlerPcs
<1>8. CASE RestartFails
  <2>1. /\ pc \in RestartPcs /\ pc' = "failed" /\ mem' = mem
        /\ ~ InRequest'
    BY Zenon, <1>8 DEF RestartFails, RestartPcs, InRequest
  <2> QED BY Zenon, <1>0, <2>1, GoesDown DEF RestartPcs
<1>9. CASE DisableOldLog
  <2>0. old'.have = old.have
    BY Zenon, <1>9, <1>0 DEF DisableOldLog, TypeOK
  <2>1. /\ InRequest' <=> InRequest
        /\ snap' = snap /\ effects' = effects /\ recoveries' = recoveries
        /\ pc \notin {"halted", "failed"} /\ pc' \notin {"halted", "failed"}
        /\ mem' = mem
    BY Zenon, <1>9, <2>0 DEF DisableOldLog, InRequest, RestartPcs
  <2> QED BY <2>1, Unseen, Zenon
<1>10. CASE StateTransfer
  <2>1. /\ InRequest' <=> InRequest
        /\ snap' = snap /\ effects' = effects /\ recoveries' = recoveries
        /\ pc \notin {"halted", "failed"} /\ pc' \notin {"halted", "failed"}
    BY Zenon, <1>10 DEF StateTransfer, InRequest, RestartPcs
  <2>2. ~ InRequest => mem' = mem
    BY Zenon, <1>10 DEF StateTransfer, InRequest, RestartPcs
  <2> QED BY <2>1, <2>2, Unseen, Zenon
<1>11. CASE Rollback /\ mem' = mem
  <2>1. RollbackFrame
    BY Zenon, <1>11, <1>a, RollbackSteps
  <2>2. /\ InRequest' <=> InRequest
        /\ snap' = snap /\ effects' = effects /\ recoveries' = recoveries
        /\ pc \notin {"halted", "failed"} /\ pc' \notin {"halted", "failed"}
    BY Zenon, <2>1 DEF RollbackFrame, AfterTransfer, InRequest, RestartPcs
  <2> QED BY Zenon, <1>11, <2>2, Unseen
<1>12. CASE RollbackRegion
  <2>1. /\ InRequest' <=> InRequest
        /\ snap' = snap /\ effects' = effects /\ recoveries' = recoveries
        /\ pc = "r_region" /\ pc' = "r_loop"
    BY Zenon, <1>12 DEF RollbackRegion, RestartStep, InRequest, RestartPcs
  <2>2. old.position # 0
    BY <1>0, <2>1, TurnEntry DEF InRollbackTurn
  <2>3. InRequest
    BY Zenon, <1>0, <2>1, <2>2 DEF IdleInv, InRequest, RestartPcs, TypeOK, Flag
  <2> QED BY Zenon, <2>1, <2>3, Unseen
<1>13. CASE Dispatch
  <2>1. PICK o \in ltckpt_recovery_dispatcher :
          pc' = IF o.did = "shutdown" THEN "halted"
                ELSE IF o.r = FAILURE THEN "failed" ELSE "resume"
    BY Zenon, <1>13 DEF Dispatch
  <2>2. /\ pc = "dispatch" /\ mem' = mem /\ recoveries' # 0
        /\ snap' = snap /\ effects' = effects
        /\ (recoveries # 0 => recoveries' # 0)
        /\ ~ InRequest'
    BY <1>13, <1>a DEF Dispatch, InRequest
  <2>3. CASE pc' \in {"halted", "failed"}
    BY Zenon, <1>0, <2>2, <2>3, GoesDown
  <2>4. CASE pc' = "resume"
    <3>1. have_handled_message = 1 /\ "FAIL_STOP" \notin g_recovery_bitmask
      BY Zenon, <2>1, <2>4, DispatcherResumes
    <3>2. old.have = 1 /\ old.mask = g_recovery_bitmask
      BY Zenon, <1>0, <2>2, <3>1 DEF RestartInv, AfterTransfer
    <3>3. Status' = "aborted"
      BY Zenon, <2>2, <2>4 DEF Status
    <3>4. CASE recoveries = 0
      <4>1. InRequest
        BY Zenon, <2>2, <3>2, <3>4 DEF InRequest, RestartPcs
      <4>2. "fail_stop" \notin effects
        BY Zenon, <1>0, <2>2, <3>1, <3>2, <3>4 DEF PolicyInv, RestartPcs, Recorded
      <4>3. Status = "busy"
        BY Zenon, <2>2, <4>1, <4>2 DEF Status
      <4>4. \A b \in StateBytes : mem[b] = snap[b]
        BY Zenon, <2>2, <3>1, <3>4, DispatchAtCheckpoint
      <4>5. Committed' = Committed
        BY Zenon, <2>2, <4>1, <4>4 DEF Committed, State
      <4> QED BY Zenon, <3>3, <4>3, <4>5 DEF Atomic!Next, Atomic!Abort
    <3>5. CASE recoveries # 0
      <4>1. ~ InRequest
        BY Zenon, <3>5 DEF InRequest
      <4>2. Status = "aborted"
        BY Zenon, <2>2, <3>5, <4>1 DEF Status
      <4>3. Committed' = Committed
        BY Zenon, <2>2, <4>1 DEF Committed
      <4> QED BY Zenon, <3>3, <4>2, <4>3
    <3> QED BY Zenon, <3>4, <3>5
  <2> QED BY Zenon, <2>1, <2>3, <2>4
<1>14. ASSUME NEW w \in ResumeStores, NEW v \in Vals, ResumeStore(w, v)
       PROVE  [Atomic!Next]_<<Committed, Status>>
  <2>1. /\ ~ InRequest /\ ~ InRequest'
        /\ effects' = effects /\ recoveries' = recoveries
        /\ pc = "resume" /\ pc' = "resume"
        /\ mem' = [b \in Bytes |-> IF b \in Range(w) THEN v ELSE mem[b]]
    BY Zenon, <1>14 DEF ResumeStore, InRequest, RestartPcs
  <2>2. Range(w) \cap StateBytes = {} /\ StateBytes \subseteq Bytes
    BY Zenon, <1>14 DEF StartupIsQuiet, StateBytes
  <2>3. \A b \in StateBytes : mem'[b] = mem[b]
    BY Zenon, <2>1, <2>2
  <2> QED BY Zenon, <2>1, <2>3, Unseen
<1>15. CASE Resume
  <2>1. /\ InRequest' <=> InRequest
        /\ snap' = snap /\ effects' = effects /\ recoveries' = recoveries
        /\ pc \notin {"halted", "failed"} /\ pc' \notin {"halted", "failed"}
    BY Zenon, <1>15, <1>0 DEF Resume, InRequest, RestartPcs, LoopInv
  <2>2. ~ InRequest => mem' = mem
    BY Zenon, <1>15, <1>0 DEF Resume, InRequest, RestartPcs, LoopInv
  <2> QED BY <2>1, <2>2, Unseen, Zenon
<1>16. CASE UNCHANGED vars
  <2>1. UNCHANGED <<Committed, Status>>
    BY Zenon, <1>16 DEF vars, Committed, State, Status, InRequest
  <2> QED BY Zenon, <2>1
<1>17. Handler => (Handler /\ effects' = effects) \/ Call
  BY Zenon, HandlerSteps DEF HandlerFrame
<1>18. Rollback => (Rollback /\ mem' = mem) \/ RollbackRegion
  BY Zenon, <1>a, RollbackSteps DEF RollbackFrame
<1> QED
  BY Zenon, <1>1, <1>2, <1>3, <1>4, <1>5, <1>6, <1>7, <1>8, <1>9, <1>10, <1>11,
     <1>12, <1>13, <1>14, <1>15, <1>16, <1>17, <1>18
     DEF Next, Loop, Recovery, Stopped, Rollback

-----------------------------------------------------------------------------
(* The theorem.                                                            *)

\* A freshly started server is an atomic server that is idle.
LEMMA InitAtomic == Init => IdleInv /\ Atomic!Init
<1> SUFFICES ASSUME Init PROVE IdleInv /\ Atomic!Init
  OBVIOUS
<1>1. /\ pc = "tol" /\ recoveries = 0 /\ have_handled_message = 0
      /\ wl_position = 0 /\ g_recovery_naive_mode = "DEFAULT"
      /\ msg \in Requests
  BY Zenon DEF Init, GlobalsInit, WriteLogInit
<1>2. IdleInv
  BY Zenon, <1>1 DEF IdleInv, RestartPcs
<1>3. Status = "idle"
  BY <1>1 DEF Status, InRequest, RestartPcs
<1>4. Committed \in [StateBytes -> Vals]
  BY Zenon, CommittedType, InitType
<1> QED BY Zenon, <1>2, <1>3, <1>4 DEF Atomic!Init

\* Requests are atomic, for every memory, log size, set of accesses, call
\* sites and requests: the hooks, the log, the crash, the restart hook and
\* the dispatcher together implement a server whose requests are finished,
\* aborted without a trace, or end with the machine down.
THEOREM ServerIsAtomic ==
  ASSUME EveryTol, CopiesAligned, RecoversOrStops, StartupIsQuiet
  PROVE  Spec => RequestsAreAtomic
<1>1. Init => IInv /\ IdleInv /\ Atomic!Init
  BY Zenon, InitInv, InitAtomic
<1>2. IInv /\ IdleInv /\ [Next]_vars => IInv' /\ IdleInv'
  BY Zenon, NextInv, NextIdle
<1>3. IInv /\ IInv' /\ IdleInv /\ [Next]_vars => [Atomic!Next]_<<Committed, Status>>
  BY Zenon, NextAtomic
<1> QED BY <1>1, <1>2, <1>3, PTL DEF Spec, RequestsAreAtomic, Atomic!Spec, Atomic!vars
=============================================================================
