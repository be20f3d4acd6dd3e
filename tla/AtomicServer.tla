---------------------------- MODULE AtomicServer ----------------------------
(***************************************************************************)
(* What recovery promises the rest of the system: a server handles one     *)
(* request at a time, and a request either takes effect or is aborted      *)
(* without a trace.  Once an effect of the request has been seen outside   *)
(* ("exposed") it can no longer be aborted: it finishes, or everything     *)
(* goes down.                                                              *)
(***************************************************************************)
CONSTANT States

VARIABLES committed,  \* the server's state as the last finished request left it
          status      \* "idle", "aborted" (idle after a request that was
                      \* aborted), "busy", "exposed" or "down"

vars == <<committed, status>>

Init == committed \in States /\ status = "idle"

Accept == status \in {"idle", "aborted"} /\ status' = "busy" /\ UNCHANGED committed

Expose == status = "busy" /\ status' = "exposed" /\ UNCHANGED committed

Finish ==
  /\ status \in {"busy", "exposed"} /\ status' = "idle"
  /\ committed' \in States

\* The requester gets an error, or is killed; the server has forgotten it.
Abort == status = "busy" /\ status' = "aborted" /\ UNCHANGED committed

GoDown == status # "down" /\ status' = "down" /\ committed' \in States

Next == Accept \/ Expose \/ Finish \/ Abort \/ GoDown

Spec == Init /\ [][Next]_vars
=============================================================================
