------------------------- MODULE HealthTrackerProofs -------------------------
(***************************************************************************)
(* Theorems about HealthTracker, for every policy, every number of nodes   *)
(* and every set of methods.                                               *)
(***************************************************************************)
EXTENDS HealthTracker, TLAPS, FiniteSetTheorems, NaturalsInduction, WellFoundedInduction

(* One node's part of each invariant. *)
NodeBroadlyBroken(s) ==
    s.cooldown_until > 0 =>
        /\ Cardinality(s.streak_methods) > 1
        /\ s.consecutive_failures >= failures_before_cooldown

NodeCounted(s) ==
    /\ \A m \in s.streak_methods : s.method_failures[m] > 0
    /\ \A m \in Methods : s.method_cooldown_until[m] > 0 =>
           s.method_failures[m] >= api_failures_before_cooldown

NodeExpires(s) ==
    /\ s.cooldown_until <= now + node_cooldown
    /\ \A m \in Methods : s.method_cooldown_until[m] <= now + api_cooldown

NodeInv(s) ==
    s \in NodeState /\ NodeBroadlyBroken(s) /\ NodeCounted(s) /\ NodeExpires(s)

(* The inductive invariant: type correctness and the three safety          *)
(* invariants together, node by node.                                      *)
HealthInv == now \in Nat /\ DOMAIN state = Nodes /\ state = [n \in Nodes |-> state[n]]
                /\ \A n \in Nodes : NodeInv(state[n])

-----------------------------------------------------------------------------
(* saturating_inc stays in range, counts at least one and never goes down. *)
LEMMA SaturatingInc ==
    ASSUME NEW k \in 0 .. CounterMax
    PROVE  /\ saturating_inc(k) \in 0 .. CounterMax
           /\ saturating_inc(k) > 0
           /\ saturating_inc(k) >= k
  BY PolicyAssumption DEF PolicyAssumption, saturating_inc

(* A set of methods does not get smaller when one is added. *)
LEMMA StreakGrows ==
    ASSUME NEW S \in SUBSET Methods, NEW m \in Methods
    PROVE  /\ Cardinality(S) \in Nat
           /\ Cardinality(S \cup {m}) \in Nat
           /\ Cardinality(S \cup {m}) >= Cardinality(S)
  <1>1. IsFiniteSet(S) /\ IsFiniteSet(S \cup {m})
    BY PolicyAssumption, FS_Subset, FS_AddElement DEF PolicyAssumption
  <1>2. Cardinality(S) \in Nat /\ Cardinality(S \cup {m}) \in Nat
    BY <1>1, FS_CardinalityType
  <1>3. Cardinality(S) <= Cardinality(S \cup {m})
    BY <1>1, FS_Subset, S \subseteq S \cup {m}
  <1> QED BY <1>2, <1>3

(* An update of a node's counters, streak and cooldowns keeps its type. *)
LEMMA NodeStateUpdate ==
    ASSUME NEW s \in NodeState, NEW m \in Methods,
           NEW fails \in 0 .. CounterMax, NEW streak \in SUBSET Methods, NEW whole \in Nat,
           NEW hits \in 0 .. CounterMax, NEW pair \in Nat
    PROVE  [s EXCEPT !.consecutive_failures     = fails,
                     !.streak_methods           = streak,
                     !.cooldown_until           = whole,
                     !.method_failures[m]       = hits,
                     !.method_cooldown_until[m] = pair] \in NodeState
  <1>1. [s.method_failures EXCEPT ![m] = hits] \in [Methods -> 0 .. CounterMax]
    BY DEF NodeState
  <1>2. [s.method_cooldown_until EXCEPT ![m] = pair] \in [Methods -> Nat]
    BY DEF NodeState
  <1> QED BY <1>1, <1>2 DEF NodeState

(* A node that has seen nothing satisfies the invariant. *)
LEMMA FreshNodeInv ==
    ASSUME now \in Nat
    PROVE  NodeInv(FreshNode)
  <1>1. FreshNode \in NodeState
    BY PolicyAssumption DEF FreshNode, NodeState, Unobserved, PolicyAssumption
  <1>2. NodeBroadlyBroken(FreshNode) /\ NodeCounted(FreshNode)
    BY DEF NodeBroadlyBroken, NodeCounted, FreshNode
  <1>3. NodeExpires(FreshNode)
    BY PolicyAssumption DEF NodeExpires, FreshNode, PolicyAssumption
  <1> QED BY <1>1, <1>2, <1>3 DEF NodeInv

(* record_success keeps one node's invariant: it drops the whole-node      *)
(* cooldown with the streak that caused it, and one method's cooldown with *)
(* that method's failures.                                                 *)
LEMMA SuccessKeepsNodeInv ==
    ASSUME now \in Nat, NEW s, NodeInv(s), NEW m \in Methods
    PROVE  NodeInv(after_success(s, m))
  <1> DEFINE r == after_success(s, m)
  <1>1. r \in NodeState
    <2>1. s \in NodeState /\ 0 \in 0 .. CounterMax /\ {} \in SUBSET Methods
      BY PolicyAssumption DEF NodeInv, PolicyAssumption
    <2> QED BY <2>1, NodeStateUpdate DEF after_success
  <1>2. NodeBroadlyBroken(r)
    BY DEF NodeInv, NodeState, after_success, NodeBroadlyBroken
  <1>3. NodeCounted(r)
    BY DEF NodeInv, NodeState, after_success, NodeCounted
  <1>4. NodeExpires(r)
    BY PolicyAssumption DEF NodeInv, NodeState, after_success, NodeExpires, PolicyAssumption
  <1> QED BY <1>1, <1>2, <1>3, <1>4 DEF NodeInv

(* record_failure keeps it: every counter grows with the streak, and both  *)
(* cooldowns are set from an instant that is not in the future.            *)
LEMMA FailureKeepsNodeInv ==
    ASSUME now \in Nat, NEW s, NodeInv(s), NEW m \in Methods, NEW at \in 0 .. now
    PROVE  NodeInv(after_failure(s, m, at))
  <1> DEFINE r      == after_failure(s, m, at)
             fails  == saturating_inc(s.consecutive_failures)
             streak == s.streak_methods \cup {m}
             hits   == saturating_inc(s.method_failures[m])
             whole  == IF fails >= failures_before_cooldown /\ Cardinality(streak) > 1
                       THEN at + node_cooldown ELSE s.cooldown_until
             pair   == IF hits >= api_failures_before_cooldown
                       THEN at + api_cooldown ELSE s.method_cooldown_until[m]
  <1>1. s \in NodeState
    BY DEF NodeInv
  <1>2. /\ fails \in 0 .. CounterMax /\ fails >= s.consecutive_failures
        /\ hits \in 0 .. CounterMax /\ hits > 0 /\ hits >= s.method_failures[m]
    BY <1>1, SaturatingInc DEF NodeState
  <1>3. /\ streak \in SUBSET Methods
        /\ Cardinality(streak) \in Nat /\ Cardinality(s.streak_methods) \in Nat
        /\ Cardinality(streak) >= Cardinality(s.streak_methods)
    BY <1>1, StreakGrows DEF NodeState
  <1>4. whole \in Nat /\ pair \in Nat
    BY <1>1, PolicyAssumption DEF NodeState, PolicyAssumption
  <1>5. /\ r.consecutive_failures = fails
        /\ r.streak_methods = streak
        /\ r.cooldown_until = whole
        /\ r.method_failures = [s.method_failures EXCEPT ![m] = hits]
        /\ r.method_cooldown_until = [s.method_cooldown_until EXCEPT ![m] = pair]
        /\ r.head_block = s.head_block /\ r.head_seen = s.head_seen
    BY <1>1 DEF after_failure, NodeState
  <1>6. r \in NodeState
    <2>1. r = [s EXCEPT !.consecutive_failures     = fails,
                        !.streak_methods           = streak,
                        !.cooldown_until           = whole,
                        !.method_failures[m]       = hits,
                        !.method_cooldown_until[m] = pair]
      BY DEF after_failure
    <2> HIDE DEF r, fails, streak, hits, whole, pair
    <2> QED BY <1>1, <1>2, <1>3, <1>4, <2>1, NodeStateUpdate
  <1> HIDE DEF r
  <1>7. NodeBroadlyBroken(r)
    <2>1. CASE fails >= failures_before_cooldown /\ Cardinality(streak) > 1
      <3> HIDE DEF fails, streak, whole
      <3> QED BY <2>1, <1>5 DEF NodeBroadlyBroken
    <2>2. CASE ~(fails >= failures_before_cooldown /\ Cardinality(streak) > 1)
      <3>1. whole = s.cooldown_until
        BY <2>2
      <3>2. NodeBroadlyBroken(s)
        BY DEF NodeInv
      <3> HIDE DEF fails, streak, whole
      <3> QED BY <1>1, <1>2, <1>3, <1>5, <3>1, <3>2, PolicyAssumption
              DEF NodeBroadlyBroken, NodeState, PolicyAssumption
    <2> QED BY <2>1, <2>2
  <1>8. NodeCounted(r)
    <2>1. NodeCounted(s)
      BY DEF NodeInv
    <2>2. \A k \in r.streak_methods : r.method_failures[k] > 0
      <3> HIDE DEF fails, hits, whole, pair
      <3> QED BY <1>1, <1>2, <1>5, <2>1 DEF NodeCounted, NodeState
    <2>3. pair > 0 => hits >= api_failures_before_cooldown
      <3>1. CASE hits >= api_failures_before_cooldown
        BY <3>1
      <3>2. CASE ~(hits >= api_failures_before_cooldown)
        <4>1. pair = s.method_cooldown_until[m]
          BY <3>2
        <4> HIDE DEF hits, pair
        <4> QED BY <1>1, <1>2, <2>1, <4>1, PolicyAssumption
                DEF NodeCounted, NodeState, PolicyAssumption
      <3> QED BY <3>1, <3>2
    <2>4. ASSUME NEW k \in Methods, r.method_cooldown_until[k] > 0
          PROVE  r.method_failures[k] >= api_failures_before_cooldown
      <3> HIDE DEF fails, streak, hits, whole, pair
      <3> QED BY <1>1, <1>5, <2>1, <2>3, <2>4 DEF NodeCounted, NodeState
    <2> QED BY <2>2, <2>4 DEF NodeCounted
  <1>9. NodeExpires(r)
    <2>1. NodeExpires(s)
      BY DEF NodeInv
    <2>2. whole <= now + node_cooldown /\ pair <= now + api_cooldown
      BY <1>1, <2>1, PolicyAssumption DEF NodeExpires, NodeState, PolicyAssumption
    <2> HIDE DEF fails, streak, hits, whole, pair
    <2> QED BY <1>1, <1>5, <2>1, <2>2 DEF NodeExpires, NodeState
  <1> QED BY <1>6, <1>7, <1>8, <1>9 DEF NodeInv, r

(* observe_head_block touches neither counters nor cooldowns. *)
LEMMA ObserveKeepsNodeInv ==
    ASSUME now \in Nat, NEW s, NodeInv(s), NEW h \in Nat, NEW at \in 0 .. now
    PROVE  NodeInv([s EXCEPT !.head_block = h, !.head_seen = at])
  <1> DEFINE r == [s EXCEPT !.head_block = h, !.head_seen = at]
  <1>1. r \in NodeState
    <2>1. s \in NodeState /\ at \in Int
      BY DEF NodeInv
    <2> QED BY <2>1 DEF NodeState
  <1>2. NodeBroadlyBroken(r) /\ NodeCounted(r) /\ NodeExpires(r)
    BY DEF NodeInv, NodeState, NodeBroadlyBroken, NodeCounted, NodeExpires
  <1> QED BY <1>1, <1>2 DEF NodeInv

(* Changing one node of the list, for a value that satisfies the invariant.*)
LEMMA UpdateKeepsHealthInv ==
    ASSUME HealthInv, NEW n \in Nodes, NEW r, NodeInv(r),
           state' = [state EXCEPT ![n] = r], now' = now
    PROVE  HealthInv'
  <1>1. \A k \in Nodes : NodeInv(state'[k])
    BY DEF HealthInv
  <1>2. \A k \in Nodes : NodeInv(state[k])'
    BY <1>1 DEF NodeInv, NodeBroadlyBroken, NodeCounted, NodeExpires
  <1> QED BY <1>2 DEF HealthInv

(* Every step keeps the invariant. *)
LEMMA HealthInvStep ==
    ASSUME HealthInv, [HealthNext]_health_vars
    PROVE  HealthInv'
  <1> USE DEF RecentInstants
  <1>1. CASE Tick
    <2>1. \A k \in Nodes : NodeExpires(state[k])'
      BY <1>1, PolicyAssumption
         DEF Tick, HealthInv, NodeInv, NodeState, NodeExpires, PolicyAssumption
    <2>2. \A k \in Nodes : NodeInv(state[k])'
      BY <1>1, <2>1 DEF Tick, HealthInv, NodeInv, NodeBroadlyBroken, NodeCounted
    <2> QED BY <1>1, <2>2 DEF Tick, HealthInv
  <1>2. CASE RecordSuccess
    <2>1. PICK n \in Nodes, m \in Methods : record_success(n, m)
      BY <1>2 DEF RecordSuccess
    <2>2. NodeInv(after_success(state[n], m))
      BY SuccessKeepsNodeInv DEF HealthInv
    <2> QED BY <1>2, <2>1, <2>2, UpdateKeepsHealthInv DEF RecordSuccess, record_success
  <1>3. CASE RecordFailure
    <2>1. PICK n \in Nodes, m \in Methods, at \in RecentInstants : record_failure(n, m, at)
      BY <1>3 DEF RecordFailure
    <2>2. NodeInv(after_failure(state[n], m, at))
      BY FailureKeepsNodeInv DEF HealthInv
    <2> QED BY <1>3, <2>1, <2>2, UpdateKeepsHealthInv DEF RecordFailure, record_failure
  <1>4. CASE ObserveHeadBlock
    <2>1. PICK n \in Nodes, h \in Heads, at \in RecentInstants : observe_head_block(n, h, at)
      BY <1>4 DEF ObserveHeadBlock
    <2> DEFINE r == [state[n] EXCEPT !.head_block = h, !.head_seen = at]
    <2>2. NodeInv(r)
      BY ObserveKeepsNodeInv, PolicyAssumption DEF HealthInv, PolicyAssumption
    <2>3. state' = [state EXCEPT ![n] = r]
      BY <2>1 DEF observe_head_block, HealthInv
    <2> QED BY <1>4, <2>2, <2>3, UpdateKeepsHealthInv DEF ObserveHeadBlock
  <1>5. CASE UNCHANGED health_vars
    BY <1>5 DEF health_vars, HealthInv, NodeInv, NodeBroadlyBroken, NodeCounted, NodeExpires
  <1> QED BY <1>1, <1>2, <1>3, <1>4, <1>5 DEF HealthNext

(* HealthInv holds in every state of every behaviour. *)
THEOREM HealthInvariant == HealthSpec => []HealthInv
  <1>1. HealthInit => HealthInv
    BY FreshNodeInv DEF HealthInit, HealthInv
  <1>2. HealthInv /\ [HealthNext]_health_vars => HealthInv'
    BY HealthInvStep
  <1> QED BY <1>1, <1>2, PTL DEF HealthSpec

(* Every field keeps its type. *)
THEOREM TypeCorrect == HealthSpec => []HealthTypeOK
  <1>1. HealthInv => HealthTypeOK
    BY DEF HealthInv, HealthTypeOK, NodeInv
  <1> QED BY <1>1, HealthInvariant, PTL

(* A node is judged broadly broken only after failing on several methods.  *)
THEOREM NeverBroadlyBrokenByOneMethod == HealthSpec => []BroadlyBrokenOnly
  <1>1. HealthInv => BroadlyBrokenOnly
    BY DEF HealthInv, BroadlyBrokenOnly, NodeInv, NodeBroadlyBroken
  <1> QED BY <1>1, HealthInvariant, PTL

(* The streak and the per-method counters never drift apart. *)
THEOREM CountersAgree == HealthSpec => []StreakIsCounted
  <1>1. HealthInv => StreakIsCounted
    BY DEF HealthInv, StreakIsCounted, NodeInv, NodeCounted
  <1> QED BY <1>1, HealthInvariant, PTL

(* No cooldown outlives the policy's duration. *)
THEOREM RecoveryIsExpiry == HealthSpec => []CooldownsExpire
  <1>1. HealthInv => CooldownsExpire
    BY DEF HealthInv, CooldownsExpire, NodeInv, NodeExpires
  <1> QED BY <1>1, HealthInvariant, PTL

-----------------------------------------------------------------------------
(* Projections are whole in the unit they are kept in. *)
LEMMA ProjectedIsInt ==
    ASSUME HealthTypeOK, NEW at \in Nat, NEW n \in Nodes
    PROVE  projected(state[n], at) \in Int
  <1>1. state[n].head_block \in Nat /\ state[n].head_seen \in Int
    BY DEF HealthTypeOK, NodeState
  <1>2. Age(state[n], at) \in Nat /\ BlockUnit \in Nat
    BY <1>1, PolicyAssumption DEF Age, BlockUnit, PolicyAssumption
  <1>3. state[n].head_block * BlockUnit \in Nat
    BY <1>1, <1>2
  <1> QED BY <1>2, <1>3, PolicyAssumption DEF projected, project, PolicyAssumption

(* The best projection is not itself behind anything. *)
LEMMA BestIsNotStale ==
    ASSUME HealthTypeOK, NEW at \in Nat, NEW b \in Nodes, IsBest(b, at)
    PROVE  ~is_stale(b, at)
  <1> SUFFICES ASSUME is_stale(b, at) PROVE FALSE
    OBVIOUS
  <1>1. PICK c \in Nodes :
           /\ IsBest(c, at)
           /\ blocks_behind(projected(state[c], at), projected(state[b], at))
                  > stale_block_threshold
    BY DEF is_stale
  <1>2. projected(state[c], at) <= projected(state[b], at)
    BY <1>1 DEF IsBest
  <1>3. projected(state[c], at) \in Int /\ projected(state[b], at) \in Int
    BY ProjectedIsInt
  <1>4. blocks_behind(projected(state[c], at), projected(state[b], at)) = 0
    BY <1>2, <1>3 DEF blocks_behind
  <1> QED BY <1>1, <1>4, PolicyAssumption DEF PolicyAssumption

(* The tracker never calls every node stale: whoever is judged stale is    *)
(* judged against a fresh reading that is not.                             *)
THEOREM NeverAllStale == HealthSpec => []SomeNodeIsCurrent
  <1>1. HealthTypeOK => SomeNodeIsCurrent
    <2> SUFFICES ASSUME HealthTypeOK, NEW n \in Nodes, is_stale(n, now)
                 PROVE  \E k \in Nodes \ {n} :
                            fresh_head(state[k], now) /\ ~is_stale(k, now)
      BY DEF SomeNodeIsCurrent
    <2>1. PICK b \in Nodes : IsBest(b, now)
      BY DEF is_stale
    <2>2. ~is_stale(b, now)
      BY <2>1, BestIsNotStale DEF HealthTypeOK
    <2>3. b # n
      BY <2>2
    <2> QED BY <2>1, <2>2, <2>3 DEF IsBest
  <1> QED BY <1>1, TypeCorrect, PTL

-----------------------------------------------------------------------------
(* Every nonempty set of naturals has a least element. *)
LEMMA LeastNatural ==
    ASSUME NEW T \in SUBSET Nat, T # {}
    PROVE  \E x \in T : \A y \in T : x <= y
  <1>1. PICK x \in T : \A y \in T : <<y, x>> \notin OpToRel(<, Nat)
    BY WFMin, NatLessThanWellFounded
  <1>2. \A y \in T : ~(y < x)
    BY <1>1 DEF OpToRel
  <1> QED BY <1>2

(* "No node is ever removed from the order": whatever tiers the nodes are  *)
(* put in, exactly one of the nodes that are left is first, so the walk    *)
(* never stops before all of them have been tried.                         *)
THEOREM EveryNodeHasItsTurn ==
    ASSUME NEW tiers \in [Nodes -> Nat], NEW left \in SUBSET Nodes, left # {}
    PROVE  /\ \E i \in Nodes : FirstInOrder(tiers, i, left)
           /\ \A i, j \in Nodes :
                  FirstInOrder(tiers, i, left) /\ FirstInOrder(tiers, j, left) => i = j
  <1>1. Nodes \subseteq Nat
    BY PolicyAssumption DEF Nodes, PolicyAssumption
  <1> DEFINE used == {tiers[i] : i \in left}
  <1>2. PICK best \in used : \A t \in used : best <= t
    <2>1. used \in SUBSET Nat /\ used # {}
      OBVIOUS
    <2> HIDE DEF used
    <2> QED BY <2>1, LeastNatural
  <1> DEFINE tied == {i \in left : tiers[i] = best}
  <1>3. PICK i \in tied : \A j \in tied : i <= j
    <2>1. tied \in SUBSET Nat /\ tied # {}
      BY <1>1, <1>2
    <2> HIDE DEF tied
    <2> QED BY <2>1, LeastNatural
  <1>4. FirstInOrder(tiers, i, left)
    <2> SUFFICES ASSUME NEW j \in left \ {i} PROVE Precedes(tiers, i, j)
      BY DEF FirstInOrder
    <2>1. tiers[i] <= tiers[j] /\ tiers[i] \in Nat /\ tiers[j] \in Nat
      BY <1>2
    <2>2. CASE tiers[i] = tiers[j]
      BY <1>1, <1>3, <2>2 DEF Precedes
    <2>3. CASE tiers[i] < tiers[j]
      BY <2>3 DEF Precedes
    <2> QED BY <2>1, <2>2, <2>3
  <1>5. ASSUME NEW k \in Nodes, NEW j \in Nodes, k # j,
               FirstInOrder(tiers, k, left), FirstInOrder(tiers, j, left)
        PROVE  FALSE
    <2>1. Precedes(tiers, k, j) /\ Precedes(tiers, j, k)
      BY <1>5 DEF FirstInOrder
    <2>2. k \in Nat /\ j \in Nat /\ tiers[k] \in Nat /\ tiers[j] \in Nat
      BY <1>1
    <2> QED BY <2>1, <2>2 DEF Precedes
  <1> QED BY <1>4, <1>5

=============================================================================
