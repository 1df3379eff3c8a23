----------------------------- MODULE FailoverCall -----------------------------
(***************************************************************************)
(* What NodeClient::call promises its callers, with health tracking, time, *)
(* backoff and the order of the nodes left out: a call makes whole passes  *)
(* over the node list, one attempt per node and pass; it succeeds with     *)
(* some node's answer, and it fails only when every attempt of every pass  *)
(* has failed.                                                             *)
(***************************************************************************)
EXTENDS Naturals

CONSTANTS Callers, Nodes, Passes

VARIABLES
    status,     \* what each caller sees
    failed      \* the failed attempts of its current call, per node

vars == <<status, failed>>

NoFailures == [n \in Nodes |-> 0]

Init ==
    /\ status = [c \in Callers |-> "idle"]
    /\ failed = [c \in Callers |-> NoFailures]

Call(c) ==
    /\ status[c] = "idle"
    /\ status' = [status EXCEPT ![c] = "pending"]
    /\ UNCHANGED failed

(* No node is tried again before every node has been tried as often. *)
AttemptFails(c, n) ==
    /\ status[c] = "pending"
    /\ failed[c][n] < Passes
    /\ \A k \in Nodes : failed[c][n] <= failed[c][k]
    /\ failed' = [failed EXCEPT ![c][n] = @ + 1]
    /\ UNCHANGED status

AttemptSucceeds(c) ==
    /\ status[c] = "pending"
    /\ \E n \in Nodes : failed[c][n] < Passes
    /\ status' = [status EXCEPT ![c] = "ok"]
    /\ UNCHANGED failed

GiveUp(c) ==
    /\ status[c] = "pending"
    /\ \A n \in Nodes : failed[c][n] = Passes
    /\ status' = [status EXCEPT ![c] = "err"]
    /\ UNCHANGED failed

Return(c) ==
    /\ status[c] \in {"ok", "err"}
    /\ status' = [status EXCEPT ![c] = "idle"]
    /\ failed' = [failed EXCEPT ![c] = NoFailures]

Next ==
    \E c \in Callers :
        \/ Call(c)
        \/ \E n \in Nodes : AttemptFails(c, n)
        \/ AttemptSucceeds(c)
        \/ GiveUp(c)
        \/ Return(c)

(* A call that was made returns, whatever the nodes do. *)
Fairness ==
    \A c \in Callers :
        WF_vars((\E n \in Nodes : AttemptFails(c, n)) \/ AttemptSucceeds(c) \/ GiveUp(c))

Spec == Init /\ [][Next]_vars /\ Fairness
=============================================================================
