------------------------------ MODULE Recovery ------------------------------
(***************************************************************************)
(* The recovery code of the library: the globals that its parts share, the *)
(* window and policy hooks that instrumentation plants, and the dispatcher *)
(* that the restarted server runs.                                         *)
(***************************************************************************)
EXTENDS Integers

-----------------------------------------------------------------------------
(* The globals: the recovery window, the policy gathered so far, the flag  *)
(* that tells the hooks that recovery code itself is running, and the flag *)
(* by which SEF (the MINIX server framework, outside this repository) says *)
(* that a message is being handled.  C ints used as flags are 0 or 1.      *)

VARIABLES
  sa_window__is_open,           \* 1 while stores are logged for rollback
  g_recovery_bitmask,           \* the set of LTCKPT_RECOVERY_* bits
  inside_trusted_compute_base,  \* 1: policy and fault hooks do nothing
  have_handled_message,         \* external: set by sef_handle_message
  prior_have_handled_message,   \* its value at the last start-of-window hook
  g_recovery_naive_mode         \* LTCKPT_RECOVERY_NAIVE_MODE_*

globals == <<sa_window__is_open, g_recovery_bitmask,
             inside_trusted_compute_base, have_handled_message>>

hookVars == <<prior_have_handled_message, g_recovery_naive_mode>>

NaiveModes == {"DEFAULT", "NEVER_REPLY", "CONDITIONAL_REPLY", "ALWAYS_REPLY"}

Bits == {"IDEMPOTENT", "REQUEST_SPECIFIC", "PROCESS_SPECIFIC", "FAIL_STOP",
         "REPROCESSING"}

Flag == {0, 1}

GlobalsTypeOK ==
  /\ sa_window__is_open \in Flag
  /\ g_recovery_bitmask \in SUBSET Bits
  /\ inside_trusted_compute_base \in Flag
  /\ have_handled_message \in Flag
  /\ prior_have_handled_message \in Flag
  /\ g_recovery_naive_mode \in NaiveModes

\* The values the C initialisers give a freshly started process.
GlobalsInit ==
  /\ sa_window__is_open = 0
  /\ g_recovery_bitmask = {"IDEMPOTENT"}
  /\ inside_trusted_compute_base = 1
  /\ have_handled_message = 0
  /\ prior_have_handled_message = 0
  /\ g_recovery_naive_mode = "DEFAULT"

-----------------------------------------------------------------------------
(* The recovery window and the policy hooks: the code that runs when       *)
(* sef_handle_message returns (it opens and closes the window) and in      *)
(* front of every IPC and kernel call site (it records what the call means *)
(* for recovery, and closes the window when the call cannot be undone).    *)
(* Site profiling (ltckpt_transit_window, the call-site list and the       *)
(* reason strings) only feeds logs and is left out.                        *)

CONSTANT NaiveMode   \* the mode that the build plants behind the window hook

ASSUME NaiveAssumption == NaiveMode \in NaiveModes

\* Which recovery policy the static decision gives to a call site.
SiteKinds == {"idempotent", "request_specific", "process_local", "fail_stop"}

\* Runs before sef_handle_message returns.
ltckpt_detect_start_of_window_hook ==
  /\ \/ /\ prior_have_handled_message = 0 /\ have_handled_message = 1
        /\ sa_window__is_open' = 1
        /\ g_recovery_bitmask' = {"IDEMPOTENT"}
        /\ inside_trusted_compute_base' = 0
     \/ /\ prior_have_handled_message = 1 /\ have_handled_message = 0
        /\ sa_window__is_open' = 0
        /\ UNCHANGED <<g_recovery_bitmask, inside_trusted_compute_base>>
     \/ /\ prior_have_handled_message = have_handled_message
        /\ UNCHANGED <<sa_window__is_open, g_recovery_bitmask,
                       inside_trusted_compute_base>>
  /\ prior_have_handled_message' = have_handled_message
  /\ UNCHANGED have_handled_message

\* Planted behind the window hook in the builds of the naive baselines; in
\* the others the mode stays what it is, "DEFAULT".
ltckpt_set_naive_recovery == g_recovery_naive_mode' = NaiveMode

ltckpt_close_r_window ==
  sa_window__is_open' =
    IF have_handled_message = 1 /\ sa_window__is_open = 1
    THEN 0 ELSE sa_window__is_open

SetPolicy(bit) ==
  /\ g_recovery_bitmask' = g_recovery_bitmask \cup {bit}
  /\ UNCHANGED sa_window__is_open

ltckpt_set_idempotent_recovery == SetPolicy("IDEMPOTENT")

\* As in the code, this sets the idempotent bit.
ltckpt_set_request_specific_recovery == SetPolicy("IDEMPOTENT")

ltckpt_set_process_local_recovery == SetPolicy("PROCESS_SPECIFIC")

ltckpt_set_fail_stop_recovery ==
  /\ ltckpt_close_r_window
  /\ g_recovery_bitmask' = g_recovery_bitmask \cup {"FAIL_STOP"}

\* The hook in front of a call site of kind k.
policy_hook(k) ==
  IF inside_trusted_compute_base = 1
  THEN UNCHANGED <<sa_window__is_open, g_recovery_bitmask>>
  ELSE \/ k = "idempotent" /\ ltckpt_set_idempotent_recovery
       \/ k = "request_specific" /\ ltckpt_set_request_specific_recovery
       \/ k = "process_local" /\ ltckpt_set_process_local_recovery
       \/ k = "fail_stop" /\ ltckpt_set_fail_stop_recovery

-----------------------------------------------------------------------------
(* What the restarted server does with the request it crashed on:          *)
(* ltckpt_recovery_dispatcher and the recovery actions it chooses from.    *)
(* An action is the set of outcomes it can have, [r, did]: its return      *)
(* value and what it did to the outside world.  Kernel calls (asynsend,    *)
(* sys_kill, sys_abort) may fail.                                          *)

CONSTANTS
  LTRC_NO_RECOVERY_ON_SVC_FI,   \* compile-time options of the library
  LTRC_REHANDLE_REQUEST

ASSUME DispatcherAssumption ==
  /\ LTRC_NO_RECOVERY_ON_SVC_FI \in BOOLEAN
  /\ LTRC_REHANDLE_REQUEST \in BOOLEAN

VARIABLE msg    \* external: the message SEF holds for sef_get_current_message

\* user: 1, 0, or -1 when sef_llvm_is_user_endpoint cannot tell; fi_ctl: a
\* COMMON_REQ_FI_CTL request of RS.
Messages == [user : {-1, 0, 1}, replyable : Flag, fi_ctl : Flag]

SUCCESS == 0
FAILURE == -1

Deeds == {"nothing", "error_reply", "rehandle", "kill", "shutdown"}

Failed == [r |-> FAILURE, did |-> "nothing"]

\* sef_get_current_message: there is a current message (external).
HaveMessage == have_handled_message = 1

ltckpt_is_message_replyable == IF HaveMessage THEN msg.replyable ELSE -1

rs_fi_flag == HaveMessage /\ msg.fi_ctl = 1

\* The ERESTART reply is sent, or asynsend fails.
ltckpt_send_reply == {[r |-> SUCCESS, did |-> "error_reply"], Failed}

ltckpt_recovery_idempotent ==
  IF ~ HaveMessage THEN {Failed}
  ELSE IF LTRC_REHANDLE_REQUEST
  THEN {[r |-> SUCCESS, did |-> IF rs_fi_flag THEN "nothing" ELSE "rehandle"]}
  ELSE IF msg.replyable = 0 /\ g_recovery_naive_mode # "ALWAYS_REPLY"
  THEN {Failed}
  ELSE ltckpt_send_reply

ltckpt_recovery_request_specific == ltckpt_recovery_idempotent

\* sys_kill returning EINVAL means that the requester is already gone.
ltckpt_recovery_process_specific ==
  IF ~ HaveMessage \/ msg.user = -1 THEN {Failed}
  ELSE IF msg.user = 1
  THEN {[r |-> SUCCESS, did |-> "kill"], Failed}
  ELSE ltckpt_send_reply

ltckpt_recovery_fail_stop == {[r |-> SUCCESS, did |-> "shutdown"], Failed}

Replyable ==
  CASE g_recovery_naive_mode = "NEVER_REPLY"  -> 0
    [] g_recovery_naive_mode = "ALWAYS_REPLY" -> 1
    [] OTHER -> ltckpt_is_message_replyable

WeakestPolicyFirst ==
  IF "IDEMPOTENT" \in g_recovery_bitmask THEN ltckpt_recovery_idempotent
  ELSE IF "PROCESS_SPECIFIC" \in g_recovery_bitmask
  THEN ltckpt_recovery_process_specific
  ELSE ltckpt_recovery_fail_stop

\* The strongest policy gathered since the window opened decides.
PolicyOutcomes ==
  IF "FAIL_STOP" \in g_recovery_bitmask THEN ltckpt_recovery_fail_stop
  ELSE IF "PROCESS_SPECIFIC" \in g_recovery_bitmask
  THEN ltckpt_recovery_process_specific
  ELSE IF "REQUEST_SPECIFIC" \in g_recovery_bitmask
  THEN ltckpt_recovery_request_specific
  ELSE IF "IDEMPOTENT" \in g_recovery_bitmask THEN ltckpt_recovery_idempotent
  ELSE {Failed}

NoOverride(o) == o

\* The naive baselines carry on whatever the recovery action returned.
NaiveOverride(o) ==
  IF g_recovery_naive_mode # "DEFAULT" THEN [o EXCEPT !.r = SUCCESS] ELSE o

\* A failed recovery resets the machine (sys_abort may fail as well).
AbortOnFailure(o) ==
  IF o.r = FAILURE THEN {[o EXCEPT !.did = "shutdown"], o} ELSE {o}

ltckpt_recovery_dispatcher ==
  IF LTRC_NO_RECOVERY_ON_SVC_FI /\ rs_fi_flag
  THEN {[r |-> SUCCESS, did |-> "nothing"]}
  ELSE UNION {AbortOnFailure(NaiveOverride(o)) :
                o \in IF Replyable = 1 THEN PolicyOutcomes ELSE {Failed}}
=============================================================================
