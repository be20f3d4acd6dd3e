------------------------------ MODULE MCFault -------------------------------
(* Small instances of FaultSites.  The board has IPC slots 0 .. 2, two of   *)
(* them in use, and kernel-call slots from 3 on.                            *)
EXTENDS FaultSites, TLC

\* Site 2 is an id beyond the number of IPC sites.
FaultSiteIds == {0, 1, 2, 3}
FaultPolicies == (0 :> "idempotent") @@ (1 :> "process_local")
                 @@ (2 :> "fail_stop") @@ (3 :> "fail_stop")
AllArmed == [s \in FaultSiteIds |-> 1]
OneSpared == [AllArmed EXCEPT ![1] = 0]

TwoRequests == {[user |-> 0, replyable |-> 1, fi_ctl |-> 0],
                [user |-> 1, replyable |-> 0, fi_ctl |-> 0]}
OneRequest == {[user |-> 1, replyable |-> 1, fi_ctl |-> 0]}
=============================================================================
