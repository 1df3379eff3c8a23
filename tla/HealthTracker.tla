---------------------------- MODULE HealthTracker ----------------------------
(***************************************************************************)
(* The per-node health memory of the RPC clients                           *)
(* (hivecomb/src/rpc/health.rs): which nodes are failing, which node and   *)
(* method pairs are failing, and which nodes are behind the best known     *)
(* head.  It only ever reorders the node list.                             *)
(*                                                                         *)
(* Every operation of HealthTracker takes its mutex once and is one action *)
(* here.  It reads Instant::now() BEFORE it takes the mutex, so the        *)
(* instant it works with may be older than the moment it gets the lock:    *)
(* `at' is that instant, at most LockWait ticks behind the clock `now'.    *)
(*                                                                         *)
(* An absent Option<Instant> or map entry is modelled by 0: the code only  *)
(* asks whether an instant is later than now, and none that is recorded    *)
(* can be.  Projections are multiplied by the block interval, which keeps  *)
(* them whole; the rounding of f64 is not modelled.                        *)
(***************************************************************************)
EXTENDS Integers, FiniteSets

CONSTANTS
    NodeCount,                      \* length of the client's node list
    Methods,                        \* the RPC methods in use
    node_cooldown,                  \* HealthPolicy, durations in ticks
    api_cooldown,
    failures_before_cooldown,
    api_failures_before_cooldown,
    stale_block_threshold,
    head_block_ttl,
    block_interval,
    CounterMax,                     \* u32::MAX, where saturating_add stops
    Heads,                          \* head block numbers a response may carry
    LockWait,                       \* how long an operation may wait for the mutex
    MaxTime                         \* bound on the clock

ASSUME PolicyAssumption ==
    /\ NodeCount \in Nat \ {0} /\ IsFiniteSet(Methods)
    /\ node_cooldown \in Nat /\ api_cooldown \in Nat
    /\ failures_before_cooldown \in Nat /\ api_failures_before_cooldown \in Nat
    /\ stale_block_threshold \in Nat
    /\ head_block_ttl \in Nat /\ block_interval \in Nat
    /\ CounterMax \in Nat \ {0}
    /\ Heads \subseteq Nat
    /\ LockWait \in Nat /\ MaxTime \in Nat

VARIABLES
    now,        \* the monotonic clock
    state       \* Mutex<Vec<NodeState>>

health_vars == <<now, state>>

Nodes == 0 .. NodeCount - 1

(* The head_seen of a node that has reported no head block yet. *)
Unobserved == -1

NodeState ==
    [ consecutive_failures  : 0 .. CounterMax,
      streak_methods        : SUBSET Methods,
      cooldown_until        : Nat,
      method_failures       : [Methods -> 0 .. CounterMax],
      method_cooldown_until : [Methods -> Nat],
      head_block            : Nat,
      head_seen             : Int ]

FreshNode ==
    [ consecutive_failures  |-> 0,
      streak_methods        |-> {},
      cooldown_until        |-> 0,
      method_failures       |-> [m \in Methods |-> 0],
      method_cooldown_until |-> [m \in Methods |-> 0],
      head_block            |-> 0,
      head_seen             |-> Unobserved ]

(* Seeded bug: a plain + 1. *)
wrapping_inc(k) == k + 1

saturating_inc(k) == IF k < CounterMax THEN k + 1 ELSE k

(* An instant the clock showed no more than LockWait ticks ago. *)
RecentInstants == {t \in 0 .. now : now - t <= LockWait}

-----------------------------------------------------------------------------
(* Reading one node's state at an instant *)

cooling(s, at) == s.cooldown_until > at

cooling_for(s, m, at) == s.method_cooldown_until[m] > at

(* Instant::duration_since saturates at zero when the reading is the later. *)
Age(s, at) == IF at > s.head_seen THEN at - s.head_seen ELSE 0

fresh_head(s, at) == s.head_seen # Unobserved /\ Age(s, at) <= head_block_ttl

(* One block, in the unit projections are kept in. *)
BlockUnit == IF block_interval = 0 THEN 1 ELSE block_interval

(* Seeded bug: readings are compared as they were reported. *)
project_unaged(head, age) == head * BlockUnit

(* Seeded bug: the age is not divided by the block interval. *)
project_ticks_as_blocks(head, age) == (head + age) * BlockUnit

project(head, age) ==
    head * BlockUnit + (IF block_interval = 0 THEN 0 ELSE age)

projected(s, at) == project(s.head_block, Age(s, at))

blocks_behind(best, mine) == IF best > mine THEN (best - mine) \div BlockUnit ELSE 0

(* Seeded bug: the yardstick is the highest head ever reported. *)
IsBestEver(n, at) ==
    /\ state[n].head_seen # Unobserved
    /\ \A k \in Nodes : projected(state[k], at) <= projected(state[n], at)

(* Node n holds the highest projection of all fresh readings. *)
IsBest(n, at) ==
    /\ fresh_head(state[n], at)
    /\ \A k \in Nodes : fresh_head(state[k], at) =>
           projected(state[k], at) <= projected(state[n], at)

is_stale(n, at) ==
    /\ fresh_head(state[n], at)
    /\ \E b \in Nodes :
           /\ IsBest(b, at)
           /\ blocks_behind(projected(state[b], at), projected(state[n], at))
                  > stale_block_threshold

-----------------------------------------------------------------------------
(* The order nodes are tried in.  HealthTracker::order sorts the indices   *)
(* by tier, stably, so a walk of its result takes, at each step, the node  *)
(* not taken yet that comes first by tier and then by index.               *)

Tier(n, m, at) ==
    CASE cooling(state[n], at)                                  -> 3
      [] ~cooling(state[n], at) /\ cooling_for(state[n], m, at) -> 2
      [] ~cooling(state[n], at) /\ ~cooling_for(state[n], m, at)
            /\ is_stale(n, at)                                  -> 1
      [] OTHER                                                  -> 0

order(m, at) == [n \in Nodes |-> Tier(n, m, at)]

Precedes(tiers, i, j) ==
    \/ tiers[i] < tiers[j]
    \/ tiers[i] = tiers[j] /\ i < j

FirstInOrder(tiers, i, left) ==
    i \in left /\ \A j \in left \ {i} : Precedes(tiers, i, j)

-----------------------------------------------------------------------------
(* The operations *)

(* Seeded bug: the cooldown outlives the streak it came from. *)
after_success_keeping_cooldown(s, m) ==
    [s EXCEPT !.consecutive_failures     = 0,
              !.streak_methods           = {},
              !.method_failures[m]       = 0,
              !.method_cooldown_until[m] = 0]

(* Seeded bug: one success forgives every method's failures. *)
after_success_forgetting_failures(s, m) ==
    [s EXCEPT !.consecutive_failures     = 0,
              !.streak_methods           = {},
              !.cooldown_until           = 0,
              !.method_failures          = [k \in Methods |-> 0],
              !.method_cooldown_until[m] = 0]

after_success(s, m) ==
    [s EXCEPT !.consecutive_failures     = 0,
              !.streak_methods           = {},
              !.cooldown_until           = 0,
              !.method_failures[m]       = 0,
              !.method_cooldown_until[m] = 0]

(* Seeded bug: a renewed cooldown is added to the one that is running. *)
after_failure_extending(s, m, at) ==
    LET hits == saturating_inc(s.method_failures[m])
    IN  [s EXCEPT
            !.consecutive_failures = saturating_inc(@),
            !.streak_methods       = @ \cup {m},
            !.method_failures[m]   = hits,
            !.method_cooldown_until[m] =
                IF hits >= api_failures_before_cooldown
                THEN (IF @ > at THEN @ ELSE at) + api_cooldown ELSE @]

after_failure(s, m, at) ==
    LET fails  == saturating_inc(s.consecutive_failures)
        streak == s.streak_methods \cup {m}
        hits   == saturating_inc(s.method_failures[m])
    IN  [s EXCEPT
            !.consecutive_failures = fails,
            !.streak_methods       = streak,
            !.cooldown_until       =
                IF fails >= failures_before_cooldown /\ Cardinality(streak) > 1
                THEN at + node_cooldown ELSE @,
            !.method_failures[m]   = hits,
            !.method_cooldown_until[m] =
                IF hits >= api_failures_before_cooldown
                THEN at + api_cooldown ELSE @]

record_success(n, m) ==
    state' = [state EXCEPT ![n] = after_success(@, m)]

record_failure(n, m, at) ==
    state' = [state EXCEPT ![n] = after_failure(@, m, at)]

observe_head_block(n, head, at) ==
    state' = [state EXCEPT ![n].head_block = head, ![n].head_seen = at]

-----------------------------------------------------------------------------
(* The tracker under an arbitrary caller *)

Tick == now < MaxTime /\ now' = now + 1 /\ UNCHANGED state

RecordSuccess ==
    /\ \E n \in Nodes, m \in Methods : record_success(n, m)
    /\ UNCHANGED now

RecordFailure ==
    /\ \E n \in Nodes, m \in Methods, at \in RecentInstants : record_failure(n, m, at)
    /\ UNCHANGED now

ObserveHeadBlock ==
    /\ \E n \in Nodes, h \in Heads, at \in RecentInstants : observe_head_block(n, h, at)
    /\ UNCHANGED now

HealthInit == now = 0 /\ state = [n \in Nodes |-> FreshNode]

HealthNext == Tick \/ RecordSuccess \/ RecordFailure \/ ObserveHeadBlock

HealthSpec == HealthInit /\ [][HealthNext]_health_vars

-----------------------------------------------------------------------------
(* Properties *)

(* Every field keeps the type health.rs declares for it. *)
HealthTypeOK == now \in Nat /\ state \in [Nodes -> NodeState]

(* "A node with a single missing API is never judged broadly broken": a    *)
(* node that carries a whole-node cooldown has failed on more than one     *)
(* method, and often enough, since it last answered anything.              *)
BroadlyBrokenOnly ==
    \A n \in Nodes : state[n].cooldown_until > 0 =>
        /\ Cardinality(state[n].streak_methods) > 1
        /\ state[n].consecutive_failures >= failures_before_cooldown

(* The whole-node streak and the per-method counters tell one story: each  *)
(* method of the streak has failures counted against it, and a pair in     *)
(* cooldown has the failures that put it there.  record_success clears the *)
(* one entirely and the other for one method only, so they could drift.    *)
StreakIsCounted ==
    \A n \in Nodes :
        /\ \A m \in state[n].streak_methods : state[n].method_failures[m] > 0
        /\ \A m \in Methods : state[n].method_cooldown_until[m] > 0 =>
               state[n].method_failures[m] >= api_failures_before_cooldown

(* Recovery is expiry: no cooldown, however it was renewed and however     *)
(* often, keeps a node back for longer than the policy's duration from now.*)
CooldownsExpire ==
    \A n \in Nodes :
        /\ state[n].cooldown_until <= now + node_cooldown
        /\ \A m \in Methods : state[n].method_cooldown_until[m] <= now + api_cooldown

(* Staleness is relative: whatever heads were observed and whenever, a     *)
(* node is stale only while another one is fresh and not stale, so the     *)
(* tracker can never call the whole list stale.                            *)
SomeNodeIsCurrent ==
    \A n \in Nodes : is_stale(n, now) =>
        \E k \in Nodes \ {n} : fresh_head(state[k], now) /\ ~is_stale(k, now)

=============================================================================
