----------------------------- MODULE NodeClient -----------------------------
(***************************************************************************)
(* NodeClient::call and AsyncNodeClient::call (hivecomb/src/rpc/client.rs, *)
(* async_client.rs): several callers share one client, walk its node list  *)
(* with failover, retry in passes with backoff, and feed and consult one   *)
(* HealthTracker.                                                          *)
(*                                                                         *)
(* The nodes and the network are the environment.  A node serves the head  *)
(* of the chain, lag[n] blocks late; its answer reflects the moment it     *)
(* served the request, which may be any time before the answer arrives.    *)
(* The transport honours `timeout'.  A step of the client between two      *)
(* network events takes no time on this clock, so a Tick waits for it.     *)
(***************************************************************************)
EXTENDS HealthTracker

CONSTANTS
    Callers,            \* threads or tasks sharing the client
    HealthTracking,     \* whether with_health_tracking was called
    HeadMethod,         \* the method whose answer carries head_block_number
    timeout,            \* per node
    passes,             \* with_retries
    initial_backoff,
    BackoffCap,         \* Duration::from_secs(30)
    Reachable,          \* nodes no request to which fails in transit
    Lags,               \* ways the nodes may lag: blocks behind the chain, per node
    GenesisHead,        \* the head when the clock starts
    MaxCalls            \* bound: calls each caller makes

ASSUME ClientAssumption ==
    /\ HealthTracking \in BOOLEAN
    /\ timeout \in Nat /\ passes \in Nat \ {0}
    /\ initial_backoff \in Nat /\ BackoffCap \in Nat
    /\ block_interval \in Nat \ {0}
    /\ Callers # {} /\ HeadMethod \in Methods /\ Reachable \subseteq Nodes
    /\ GenesisHead \in Nat
    /\ Lags \subseteq [Nodes -> 0 .. GenesisHead]
    /\ MaxCalls \in Nat

VARIABLES
    caller,         \* the locals of each caller's running call
    calls,          \* calls made so far, per caller
    chain_head,     \* the chain's head block number
    lag,            \* how many blocks behind each node serves
    since_block     \* ticks since that block was produced

client_vars == <<now, state, caller, calls, lag, chain_head, since_block>>

IdleCaller ==
    [ pc       |-> "idle",
      method   |-> HeadMethod,
      pass     |-> 0,                           \* `pass' of the retry loop
      tiers    |-> [n \in Nodes |-> 0],         \* call_order, as of this pass
      left     |-> {},                          \* nodes of it not tried yet
      node     |-> 0,                           \* the node being tried
      head     |-> 0,                           \* head the node served
      since    |-> 0,                           \* when it was sent to, or wakes
      started  |-> 0,                           \* when the call began
      failures |-> [n \in Nodes |-> 0] ]        \* `failures', per node

InFlight == {"waiting", "served"}
LocalSteps == {"choosing", "answered", "noted", "failed"}

-----------------------------------------------------------------------------
(* call_order: the configured order unless health is tracked. *)
call_order(m) == IF HealthTracking THEN order(m, now) ELSE [n \in Nodes |-> 0]

(* Blocks produced while an answer is on its way for d ticks. *)
Delayed(d) == (d + block_interval - 1) \div block_interval

AtMost(a, b) == IF a <= b THEN a ELSE b

(* 1u32 << k, for the k up to 6 that it is computed for. *)
shifted(k) == <<1, 2, 4, 8, 16, 32, 64>>[k + 1]

(* Seeded bug: the cap on a single sleep is left out. *)
backoff_uncapped(p) == initial_backoff * shifted(AtMost(p - 1, 6))

(* The sleep before pass p > 0. *)
backoff(p) == AtMost(initial_backoff * shifted(AtMost(p - 1, 6)), BackoffCap)

(* The longest a call should take. *)
Budget == passes * NodeCount * timeout + (passes - 1) * BackoffCap

served_head(n) == chain_head - lag[n]

Update(c, r) == caller' = [caller EXCEPT ![c] = r]

(* Seeded bug: a pass leaves out the nodes that are cooling down. *)
BeginPass_excluding(r, p) ==
    [r EXCEPT !.pc = "choosing", !.pass = p, !.since = 0,
              !.tiers = call_order(r.method),
              !.left = {n \in Nodes : call_order(r.method)[n] < 2}]

BeginPass(r, p) ==
    [r EXCEPT !.pc = "choosing", !.pass = p, !.since = 0,
              !.tiers = call_order(r.method), !.left = Nodes]

-----------------------------------------------------------------------------
(* One call *)

(* MaxCalls bounds the model. *)
Call(c, m) ==
    /\ caller[c].pc = "idle"
    /\ calls[c] < MaxCalls
    /\ calls' = [calls EXCEPT ![c] = @ + 1]
    /\ Update(c, BeginPass([IdleCaller EXCEPT !.method = m, !.started = now], 0))
    /\ UNCHANGED <<now, state, lag, chain_head, since_block>>

Send(c) ==
    /\ caller[c].pc = "choosing"
    /\ \E n \in Nodes :
         /\ FirstInOrder(caller[c].tiers, n, caller[c].left)
         /\ Update(c, [caller[c] EXCEPT !.pc = "waiting", !.node = n,
                                        !.left = @ \ {n}, !.since = now])
    /\ UNCHANGED <<now, state, calls, lag, chain_head, since_block>>

(* The node reads its head and produces an answer. *)
Serve(c) ==
    /\ caller[c].pc = "waiting"
    /\ Update(c, [caller[c] EXCEPT !.pc = "served",
                                   !.head = served_head(caller[c].node)])
    /\ UNCHANGED <<now, state, calls, lag, chain_head, since_block>>

(* into_result: the answer arrives and carries a result ... *)
Answer(c) ==
    /\ caller[c].pc = "served"
    /\ Update(c, [caller[c] EXCEPT !.pc = "answered"])
    /\ UNCHANGED <<now, state, calls, lag, chain_head, since_block>>

(* ... or a JSON-RPC error, which try_node reports like a failure. *)
AnswerError(c) ==
    /\ caller[c].pc = "served"
    /\ Update(c, [caller[c] EXCEPT !.pc = "failed", !.head = 0])
    /\ UNCHANGED <<now, state, calls, lag, chain_head, since_block>>

(* Refused, unreadable, or out of time: before or after the node served it.*)
TransportFails(c) ==
    /\ caller[c].pc \in InFlight /\ caller[c].node \notin Reachable
    /\ Update(c, [caller[c] EXCEPT !.pc = "failed", !.head = 0])
    /\ UNCHANGED <<now, state, calls, lag, chain_head, since_block>>

NoteSuccess(c) ==
    /\ caller[c].pc = "answered"
    /\ IF HealthTracking
       THEN record_success(caller[c].node, caller[c].method)
       ELSE UNCHANGED state
    /\ Update(c, [caller[c] EXCEPT !.pc = "noted"])
    /\ UNCHANGED <<now, calls, lag, chain_head, since_block>>

(* The head is stamped under a lock of its own, after record_success. *)
NoteHead(c) ==
    /\ caller[c].pc = "noted"
    /\ IF HealthTracking /\ caller[c].method = HeadMethod
       THEN observe_head_block(caller[c].node, caller[c].head, now)
       ELSE UNCHANGED state
    /\ Update(c, [caller[c] EXCEPT !.pc = "ok"])
    /\ UNCHANGED <<now, calls, lag, chain_head, since_block>>

NoteFailure(c) ==
    /\ caller[c].pc = "failed"
    /\ IF HealthTracking
       THEN record_failure(caller[c].node, caller[c].method, now)
       ELSE UNCHANGED state
    /\ Update(c, [caller[c] EXCEPT !.pc = "choosing", !.since = 0,
                                   !.failures[caller[c].node] = @ + 1])
    /\ UNCHANGED <<now, calls, lag, chain_head, since_block>>

(* Seeded bug: one pass more than was asked for. *)
Backoff_once_more(c) ==
    /\ caller[c].pc = "choosing" /\ caller[c].left = {}
    /\ caller[c].pass < passes
    /\ Update(c, [caller[c] EXCEPT !.pc = "sleeping",
                                    !.since = now + backoff(caller[c].pass + 1)])
    /\ UNCHANGED <<now, state, calls, lag, chain_head, since_block>>

Backoff(c) ==
    /\ caller[c].pc = "choosing" /\ caller[c].left = {}
    /\ caller[c].pass + 1 < passes
    /\ Update(c, [caller[c] EXCEPT !.pc = "sleeping",
                                    !.since = now + backoff(caller[c].pass + 1)])
    /\ UNCHANGED <<now, state, calls, lag, chain_head, since_block>>

Retry(c) ==
    /\ caller[c].pc = "sleeping" /\ now = caller[c].since
    /\ Update(c, BeginPass(caller[c], caller[c].pass + 1))
    /\ UNCHANGED <<now, state, calls, lag, chain_head, since_block>>

GiveUp(c) ==
    /\ caller[c].pc = "choosing" /\ caller[c].left = {}
    /\ caller[c].pass + 1 = passes
    /\ Update(c, [caller[c] EXCEPT !.pc = "err"])
    /\ UNCHANGED <<now, state, calls, lag, chain_head, since_block>>

Return(c) ==
    /\ caller[c].pc \in {"ok", "err"}
    /\ Update(c, IdleCaller)
    /\ UNCHANGED <<now, state, calls, lag, chain_head, since_block>>

-----------------------------------------------------------------------------
(* Time passes when no caller has a local step to take, no request has     *)
(* reached its timeout and no sleeper is due; the chain produces a block   *)
(* every block_interval ticks.  MaxTime bounds the model: past it the      *)
(* clock runs only for the calls that are still running.                   *)
Overdue(c) ==
    \/ caller[c].pc \in LocalSteps \cup {"ok", "err"}
    \/ caller[c].pc \in InFlight /\ now >= caller[c].since + timeout
    \/ caller[c].pc = "sleeping" /\ now >= caller[c].since

ClientTick ==
    /\ now < MaxTime \/ \E c \in Callers : caller[c].pc # "idle"
    /\ \A c \in Callers : ~Overdue(c)
    /\ now' = now + 1
    /\ IF since_block + 1 = block_interval
       THEN chain_head' = chain_head + 1 /\ since_block' = 0
       ELSE chain_head' = chain_head /\ since_block' = since_block + 1
    /\ UNCHANGED <<state, caller, calls, lag>>

CallStep(c) ==
    \/ Send(c) \/ Serve(c) \/ Answer(c) \/ AnswerError(c) \/ TransportFails(c)
    \/ NoteSuccess(c) \/ NoteHead(c) \/ NoteFailure(c)
    \/ Backoff(c) \/ Retry(c) \/ GiveUp(c)

ClientInit ==
    /\ HealthInit
    /\ caller = [c \in Callers |-> IdleCaller]
    /\ calls = [c \in Callers |-> 0]
    /\ lag \in Lags
    /\ chain_head = GenesisHead
    /\ since_block \in 0 .. block_interval - 1

ClientNext ==
    \/ ClientTick
    \/ \E c \in Callers :
         \/ \E m \in Methods : Call(c, m)
         \/ CallStep(c)
         \/ Return(c)

(* A running call keeps being scheduled, its transport honours the timeout *)
(* and the clock keeps running.                                            *)
ClientFairness ==
    /\ WF_client_vars(ClientTick)
    /\ \A c \in Callers : WF_client_vars(CallStep(c) \/ Return(c))

ClientSafety == ClientInit /\ [][ClientNext]_client_vars

ClientSpec == ClientSafety /\ ClientFairness
-----------------------------------------------------------------------------
(* Properties *)

PcValues == {"idle", "sleeping", "ok", "err"} \cup InFlight \cup LocalSteps

(* The locals of a call, beside the tracker's state. *)
ClientTypeOK ==
    /\ HealthTypeOK
    /\ since_block \in 0 .. block_interval - 1 /\ chain_head \in Nat
    /\ calls \in [Callers -> 0 .. MaxCalls]
    /\ \A c \in Callers :
          /\ caller[c].pc \in PcValues
          /\ caller[c].method \in Methods /\ caller[c].node \in Nodes
          /\ caller[c].pass \in 0 .. passes - 1
          /\ caller[c].tiers \in [Nodes -> 0 .. 3] /\ caller[c].left \subseteq Nodes
          /\ caller[c].failures \in [Nodes -> 0 .. passes]

(* What a deadline is planned with: a call takes at most a timeout per     *)
(* node and pass and BackoffCap per sleep, whatever the nodes do and       *)
(* whatever other callers do to the tracker meanwhile.                     *)
CallBudget ==
    \A c \in Callers : caller[c].pc # "idle" =>
        now - caller[c].started <= Budget

(* A node that is in sync with the chain is never judged stale, although   *)
(* answers are delayed, overtake one another and are recorded late, and    *)
(* heads are compared that were read at different times.  The timeout      *)
(* bounds what a delay can do (health.rs, "What bounds it").               *)
InSyncNeverDemoted ==
    Delayed(timeout) <= stale_block_threshold
        => \A n \in Nodes : lag[n] = 0 => ~is_stale(n, now)

(* ... and a node that lags far enough is seen to, while any node that is  *)
(* in sync has been heard from: the credit given to an old reading never   *)
(* hides more than the block in progress and the delay of the best answer. *)
LaggardIsCaught ==
    \A n \in Nodes :
        /\ lag[n] > stale_block_threshold + Delayed(timeout) + 1
        /\ fresh_head(state[n], now)
        /\ \E k \in Nodes : lag[k] = 0 /\ fresh_head(state[k], now)
        => is_stale(n, now)

(* health.rs: "One success clears it -- a node that answers is healthy",   *)
(* and client.rs of an answer with a JSON-RPC error: "A node that answers  *)
(* with a protocol-level error has answered."  So a node that is asked     *)
(* and answers every time should never be cooled down.                     *)
AnsweringNodeIsHealthy ==
    \A n \in Reachable :
        ~cooling(state[n], now) /\ \A m \in Methods : ~cooling_for(state[n], m, now)

-----------------------------------------------------------------------------
(* The client makes good what FailoverCall promises. *)

status ==
    [c \in Callers |->
        IF caller[c].pc \in {"idle", "ok", "err"} THEN caller[c].pc ELSE "pending"]

Promise ==
    INSTANCE FailoverCall WITH
        Passes <- passes, failed <- [c \in Callers |-> caller[c].failures]

(* Passes over the whole list, every node tried in each, no error before   *)
(* all have failed, and every call returns: cooldowns, staleness, other    *)
(* callers and backoff change the order and the timing and nothing else.   *)
KeepsPromise == Promise!Spec
=============================================================================
