---------------------------- MODULE RequestService ----------------------------
(***************************************************************************)
(* What the transport chain promises to the callers of request() and       *)
(* asyncRequest(): a request is accepted while the service accepts         *)
(* requests, and it ends once, in an answer, an error or a withdrawal, for *)
(* good.  A service that has stopped accepting never accepts again.        *)
(* ResponseCorrelator is shown to implement it.                            *)
(***************************************************************************)
CONSTANTS Ids

VARIABLES
    status,     \* of each request
    accepting   \* are requests accepted

vars == <<status, accepting>>

Init ==
    /\ status = [i \in Ids |-> "unused"]
    /\ accepting = TRUE

\* A request is accepted,
Accept(i) ==
    /\ accepting /\ status[i] = "unused"
    /\ status' = [status EXCEPT ![i] = "pending"]
    /\ UNCHANGED accepting

\* answered or failed,
Complete(i, r) ==
    /\ status[i] = "pending"
    /\ status' = [status EXCEPT ![i] = r]
    /\ UNCHANGED accepting

\* or given up by its caller.
Withdraw(i) ==
    /\ status[i] = "pending"
    /\ status' = [status EXCEPT ![i] = "withdrawn"]
    /\ UNCHANGED accepting

\* A request that comes too late is refused.
Refuse(i) ==
    /\ ~accepting /\ status[i] = "unused"
    /\ \E r \in {"error", "withdrawn"} : status' = [status EXCEPT ![i] = r]
    /\ UNCHANGED accepting

StopAccepting ==
    /\ accepting
    /\ accepting' = FALSE
    /\ UNCHANGED status

Next ==
    \/ \E i \in Ids : Accept(i) \/ Withdraw(i) \/ Refuse(i)
    \/ \E i \in Ids : \E r \in {"ok", "error"} : Complete(i, r)
    \/ StopAccepting

Spec == Init /\ [][Next]_vars
=============================================================================
