------------------------------- MODULE CondVar ------------------------------
(***************************************************************************)
(* The condition variable of the utility library: a value under a mutex;   *)
(* threads wait for the value to become theirs, with or without a time     *)
(* limit, and others set it and signal or broadcast.                       *)
(***************************************************************************)
EXTENDS Naturals, FiniteSets

CONSTANTS
  Waiters, Setters,        \* threads
  Values,                  \* values of the variable, with the initial 0
  Broadcasts               \* setters call util_cond_var_broadcast, not _signal

VARIABLES
  var, mutex,              \* the value, and the thread that holds the mutex
  asleep,                  \* threads blocked in pthread_cond_wait
  pc,
  wants, timed,            \* what a waiter waits for, and whether for a limited time
  ret                      \* what a waiter returned: "none", "ok", "timeout"

vars == <<var, mutex, asleep, pc, wants, timed, ret>>
Threads == Waiters \cup Setters
Nobody == "nobody"

Init ==
  /\ var = 0 /\ mutex = Nobody /\ asleep = {}
  /\ pc = [t \in Threads |-> "start"]
  /\ wants \in [Waiters -> Values]
  /\ timed \in [Waiters -> BOOLEAN]
  /\ ret = [t \in Waiters |-> "none"]

Goto(t, to) == pc' = [pc EXCEPT ![t] = to]

Lock(t) ==
  /\ pc[t] \in {"start", "relock"} /\ mutex = Nobody
  /\ mutex' = t /\ Goto(t, "locked")
  /\ UNCHANGED <<var, asleep, wants, timed, ret>>

TestVar(t) ==
  /\ pc[t] = "locked"
  /\ \/ /\ ret[t] = "timeout" \/ var = wants[t]
        /\ mutex' = Nobody /\ Goto(t, "done")
        /\ ret' = [ret EXCEPT ![t] = IF @ = "timeout" THEN @ ELSE "ok"]
     \/ /\ ret[t] # "timeout" /\ var # wants[t]
        /\ Goto(t, "wait") /\ UNCHANGED <<mutex, ret>>
  /\ UNCHANGED <<asleep, var, wants, timed>>

CondWait(t) ==
  /\ pc[t] = "wait" /\ Goto(t, "sleep")
  /\ asleep' = asleep \cup {t} /\ mutex' = Nobody
  /\ UNCHANGED <<var, wants, timed, ret>>

\* pthread_cond_wait returns without a signal, or the time is up.
WakeUp(t) ==
  /\ t \in asleep /\ asleep' = asleep \ {t} /\ Goto(t, "relock")
  /\ \/ UNCHANGED ret
     \/ timed[t] /\ ret' = [ret EXCEPT ![t] = "timeout"]
  /\ UNCHANGED <<var, mutex, wants, timed>>

SetVar(t) ==
  /\ pc[t] = "locked"
  /\ var' \in Values /\ Goto(t, "wake")
  /\ UNCHANGED <<mutex, asleep, wants, timed, ret>>

WakesOne(t) ==
  /\ pc[t] = "wake"
  /\ \E S \in {{w} : w \in asleep} \cup {{}} :
       /\ asleep # {} => S # {}
       /\ asleep' = asleep \ S
       /\ pc' = [x \in Threads |-> IF x \in S THEN "relock" ELSE IF x = t THEN "unlock" ELSE pc[x]]
  /\ UNCHANGED <<var, mutex, wants, timed, ret>>

Wake(t) ==
  /\ pc[t] = "wake"
  /\ \E S \in SUBSET asleep :
       /\ IF Broadcasts THEN S = asleep
          ELSE Cardinality(S) = IF asleep = {} THEN 0 ELSE 1
       /\ asleep' = asleep \ S
       /\ pc' = [x \in Threads |-> IF x \in S THEN "relock" ELSE IF x = t THEN "unlock" ELSE pc[x]]
  /\ UNCHANGED <<var, mutex, wants, timed, ret>>

Unlock(t) ==
  /\ pc[t] = "unlock" /\ mutex' = Nobody /\ Goto(t, "done")
  /\ UNCHANGED <<var, asleep, wants, timed, ret>>

Step(t) ==
  \/ Lock(t)
  \/ t \in Waiters /\ (TestVar(t) \/ CondWait(t))
  \/ t \in Setters /\ (SetVar(t) \/ Wake(t) \/ Unlock(t))
Next == \E t \in Threads : Step(t) \/ (t \in Waiters /\ WakeUp(t))
Spec == Init /\ [][Next]_vars

-----------------------------------------------------------------------------
(* Properties.                                                             *)

\* Every variable keeps its type.
TypeOK ==
  /\ var \in Values /\ mutex \in Threads \cup {Nobody} /\ asleep \subseteq Waiters
  /\ pc \in [Threads -> {"start", "locked", "wait", "sleep", "relock", "wake", "unlock", "done"}]
  /\ ret \in [Waiters -> {"none", "ok", "timeout"}]

=============================================================================
