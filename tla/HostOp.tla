------------------------------- MODULE HostOp -------------------------------
(***************************************************************************)
(* What an operation on one bare metal host promises its caller, whatever  *)
(* BMC is behind it: remoteifc.Client as the inventory uses it.  The host  *)
(* drifts while nobody operates it.  An operation may bring it into the    *)
(* state asked for and out of it again; it succeeds only with the host in  *)
(* that state, and never after the deadline of its context.                *)
(***************************************************************************)
VARIABLES
    status,    \* of the last operation: "idle", "running", "ok" or "failed"
    goal,      \* the host is in the state that operation asks for
    expired    \* the deadline of the context has passed

vars == <<status, goal, expired>>

Init == status = "idle" /\ goal \in BOOLEAN /\ expired \in BOOLEAN

Begin ==
    /\ status # "running" /\ status' = "running"
    /\ goal' \in BOOLEAN /\ expired' \in BOOLEAN

Work ==
    /\ status = "running" /\ status' = "running"
    /\ goal' \in BOOLEAN /\ expired' \in BOOLEAN /\ expired => expired'

Succeed ==
    /\ status = "running" /\ ~expired
    /\ status' = "ok" /\ goal' = TRUE /\ expired' = expired

Fail ==
    /\ status = "running" /\ status' = "failed"
    /\ goal' \in BOOLEAN /\ expired' = expired

Rest ==
    /\ status # "running" /\ status' = status
    /\ goal' \in BOOLEAN /\ expired' \in BOOLEAN

Next == Begin \/ Work \/ Succeed \/ Fail \/ Rest

Spec == Init /\ [][Next]_vars
=============================================================================
