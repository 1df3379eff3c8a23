------------------------- MODULE AsyncClientProofs -------------------------
(***************************************************************************)
(* Theorems about the async client.  The first part is about NodeRace, for *)
(* every list of nodes, every set of tasks and every width they race with. *)
(* The second is about BlockWindow, for every range that leaves the counter *)
(* room to stop and every width of the window.                             *)
(***************************************************************************)
EXTENDS NodeRace, BlockWindow, HealthTrackerProofs

(* What one task's race is at a moment.  Every node it went to is in       *)
(* flight or has failed, while it runs; all requests went out together.    *)
RaceInvAt(r, t) ==
    /\ r \in RaceState
    /\ r.pc = "racing" =>
         /\ r.pending # {} /\ r.raced = r.pending \cup r.failing
         /\ \A n \in r.pending : r.sent[n] = r.started
    /\ r.pc # "racing" => r.pending = {}
    /\ r.pc # "idle" => t <= r.started + timeout
    /\ r.pc = "err" => r.failing = r.raced /\ r.raced # {}

(* The inductive invariant: the tracker's, the failures it has counted at  *)
(* most, and every task's race. *)
RaceInv ==
    /\ HealthInv
    /\ race \in [Tasks -> RaceState] /\ races \in [Tasks -> 0 .. MaxRaces]
    /\ failed \in [Nodes -> Nat]
    /\ JudgedOnOutcomes
    /\ \A t \in Tasks : RaceInvAt(race[t], now)

-----------------------------------------------------------------------------
(* clamp(1, nodes.len()). *)
LEMMA ClampIsPositive ==
    ASSUME NEW width \in Nat
    PROVE  clamp(width) \in Nat /\ clamp(width) >= 1
  BY PolicyAssumption DEF clamp, PolicyAssumption

(* Whatever tiers the nodes are in, a race goes to one of them at least:   *)
(* the first in the order is preceded by none.                             *)
LEMMA SomebodyIsRaced ==
    ASSUME NEW m \in Methods, NEW width \in Nat
    PROVE  Healthiest(m, clamp(width)) # {}
  <1> DEFINE tiers == order(m, now)
  <1>1. tiers \in [Nodes -> Nat]
    BY DEF order, Tier
  <1>2. Nodes \subseteq Nat /\ 0 \in Nodes
    BY PolicyAssumption DEF Nodes, PolicyAssumption
  <1> HIDE DEF tiers
  <1>3. PICK i \in Nodes : FirstInOrder(tiers, i, Nodes)
    <2>1. Nodes \in SUBSET Nat /\ Nodes # {}
      BY <1>2
    <2> QED BY <1>1, <2>1, EveryNodeHasItsTurn
  <1>4. {k \in Nodes : Precedes(tiers, k, i)} = {}
    <2> SUFFICES ASSUME NEW k \in Nodes, Precedes(tiers, k, i) PROVE FALSE
      OBVIOUS
    <2>1. k \in Nat /\ i \in Nat /\ tiers[k] \in Nat /\ tiers[i] \in Nat
      BY <1>1, <1>2
    <2>2. k = i \/ Precedes(tiers, i, k)
      BY <1>3 DEF FirstInOrder
    <2> QED BY <2>1, <2>2 DEF Precedes
  <1>5. Cardinality({k \in Nodes : Precedes(tiers, k, i)}) < clamp(width)
    BY <1>4, FS_EmptySet, ClampIsPositive
  <1> QED BY <1>5 DEF Healthiest, tiers

-----------------------------------------------------------------------------
(* One task's race changes, for one that satisfies its invariant, and time *)
(* stands still. *)
LEMMA UpdateKeepsRaces ==
    ASSUME RaceInv, NEW t \in Tasks, NEW r, RaceInvAt(r, now), UpdateRace(t, r), now' = now
    PROVE  race' \in [Tasks -> RaceState] /\ \A u \in Tasks : RaceInvAt(race[u], now)'
  <1>1. r \in RaceState
    BY DEF RaceInvAt
  <1>2. race' = [race EXCEPT ![t] = r]
    BY DEF UpdateRace
  <1>3. race' \in [Tasks -> RaceState]
    BY <1>1, <1>2 DEF RaceInv
  <1>4. ASSUME NEW u \in Tasks PROVE RaceInvAt(race'[u], now')
    BY <1>2 DEF RaceInv
  <1> QED BY <1>3, <1>4 DEF RaceInvAt

(* A race begins. *)
LEMMA StartedRace ==
    ASSUME now \in Nat, NEW m \in Methods, NEW runners \in SUBSET Nodes, runners # {}
    PROVE  RaceInvAt(Started(m, runners), now)
  <1> DEFINE r == Started(m, runners)
  <1>1. /\ r.pc = "racing" /\ r.method = m /\ r.started = now
        /\ r.raced = runners /\ r.pending = runners /\ r.failing = {}
        /\ r.sent = [n \in Nodes |-> IF n \in runners THEN now ELSE 0]
    BY DEF Started, NoRace
  <1>2. r \in RaceState
    BY DEF Started, NoRace, RaceState
  <1>3. \A n \in r.pending : r.sent[n] = r.started
    BY <1>1
  <1>4. now <= now + timeout
    BY RaceAssumption DEF RaceAssumption
  <1> HIDE DEF r
  <1> QED BY <1>1, <1>2, <1>3, <1>4 DEF RaceInvAt, r

(* A race that is not running satisfies the invariant. *)
LEMMA NoRaceInv == RaceInvAt(NoRace, now)
  <1>1. NoRace \in RaceState
    BY RaceAssumption DEF NoRace, RaceState, RaceAssumption
  <1> QED BY <1>1 DEF NoRace, RaceInvAt

(* One node's record changes: to one that satisfies the tracker's          *)
(* invariant and holds no more failures than were counted.                 *)
LEMMA UpdateKeepsTracker ==
    ASSUME RaceInv, NEW n \in Nodes, NEW s, NodeInv(s), NEW k \in Nat, k >= failed[n],
           s.consecutive_failures <= k,
           state' = [state EXCEPT ![n] = s], failed' = [failed EXCEPT ![n] = k], now' = now
    PROVE  HealthInv' /\ failed' \in [Nodes -> Nat] /\ JudgedOnOutcomes'
  <1>1. HealthInv'
    BY UpdateKeepsHealthInv DEF RaceInv
  <1>2. failed' \in [Nodes -> Nat]
    BY DEF RaceInv
  <1>3. DOMAIN state = Nodes
    BY DEF RaceInv, HealthInv
  <1>4. JudgedOnOutcomes'
    BY <1>3 DEF RaceInv, JudgedOnOutcomes
  <1> QED BY <1>1, <1>2, <1>4

(* What note records of a success keeps the tracker's invariant. *)
LEMMA NotedSuccess ==
    ASSUME now \in Nat, NEW s, NodeInv(s), NEW m \in Methods, NEW h \in Nat
    PROVE  /\ NodeInv(noted_success(s, m, h))
           /\ noted_success(s, m, h).consecutive_failures = 0
  <1> DEFINE r == after_success(s, m)
  <1>1. NodeInv(r)
    BY SuccessKeepsNodeInv
  <1>2. r.consecutive_failures = 0
    BY DEF after_success, NodeInv, NodeState
  <1>3. NodeInv([r EXCEPT !.head_block = h, !.head_seen = now])
    <2>1. now \in 0 .. now
      OBVIOUS
    <2> HIDE DEF r
    <2> QED BY <1>1, <2>1, ObserveKeepsNodeInv
  <1>4. [r EXCEPT !.head_block = h, !.head_seen = now].consecutive_failures = 0
    <2>1. r \in NodeState
      BY <1>1 DEF NodeInv
    <2> HIDE DEF r
    <2> QED BY <1>2, <2>1 DEF NodeState
  <1> QED BY <1>1, <1>2, <1>3, <1>4 DEF noted_success

-----------------------------------------------------------------------------
(* Every step keeps the invariant. *)
LEMMA RaceInvStep ==
    ASSUME RaceInv, [RaceNext]_race_vars
    PROVE  RaceInv'
  <1>t. now \in Nat /\ state \in [Nodes -> NodeState]
    BY DEF RaceInv, HealthInv, NodeInv
  <1>1. CASE RaceTick
    <2>1. HealthInv'
      <3>1. \A k \in Nodes : NodeExpires(state[k])'
        BY <1>1, PolicyAssumption
           DEF RaceTick, RaceInv, HealthInv, NodeInv, NodeState, NodeExpires, PolicyAssumption
      <3>2. \A k \in Nodes : NodeInv(state[k])'
        BY <1>1, <3>1 DEF RaceTick, RaceInv, HealthInv, NodeInv, NodeBroadlyBroken, NodeCounted
      <3> QED BY <1>1, <3>2 DEF RaceTick, RaceInv, HealthInv
    <2>2. ASSUME NEW t \in Tasks PROVE RaceInvAt(race[t], now)'
      <3>1. RaceInvAt(race[t], now) /\ race[t] \in RaceState
        BY DEF RaceInv
      <3>2. race[t].pc \notin {"ok", "err"} /\ now' = now + 1 /\ race' = race
        BY <1>1 DEF RaceTick
      <3>3. CASE race[t].pc = "racing"
        <4>1. PICK n \in race[t].pending : race[t].sent[n] = race[t].started
          BY <3>1, <3>3 DEF RaceInvAt
        <4>2. now < race[t].sent[n] + timeout
          BY <1>1, <4>1 DEF RaceTick
        <4>3. race[t].started \in Nat
          BY <3>1 DEF RaceState
        <4>4. now + 1 <= race[t].started + timeout
          BY <1>t, <4>1, <4>2, <4>3, RaceAssumption DEF RaceAssumption
        <4> QED BY <3>1, <3>2, <3>3, <4>4 DEF RaceInvAt
      <3>4. CASE race[t].pc = "idle"
        BY <3>1, <3>2, <3>4 DEF RaceInvAt
      <3>5. race[t].pc \in {"racing", "idle"}
        BY <3>1, <3>2 DEF RaceState
      <3> QED BY <3>3, <3>4, <3>5
    <2> QED BY <1>1, <2>1, <2>2 DEF RaceTick, RaceInv, JudgedOnOutcomes
  <1>2. ASSUME NEW t \in Tasks, NEW m \in Methods, NEW width \in Widths, Race(t, m, width)
        PROVE  RaceInv'
    <2> DEFINE r == Started(m, Healthiest(m, clamp(width)))
    <2>1. width \in Nat /\ Healthiest(m, clamp(width)) \in SUBSET Nodes
      BY RaceAssumption DEF RaceAssumption, Healthiest
    <2>2. RaceInvAt(r, now)
      BY <1>t, <2>1, SomebodyIsRaced, StartedRace
    <2>3. UpdateRace(t, r) /\ now' = now /\ state' = state /\ failed' = failed
      BY <1>2 DEF Race
    <2>4. race' \in [Tasks -> RaceState] /\ \A u \in Tasks : RaceInvAt(race[u], now)'
      <3> HIDE DEF r
      <3> QED BY <2>2, <2>3, UpdateKeepsRaces
    <2>5. races' \in [Tasks -> 0 .. MaxRaces]
      BY <1>2, RaceAssumption DEF Race, RaceInv, RaceAssumption
    <2> QED BY <2>3, <2>4, <2>5
            DEF RaceInv, HealthInv, NodeInv, NodeBroadlyBroken, NodeCounted, NodeExpires,
                JudgedOnOutcomes
  <1>3. ASSUME NEW t \in Tasks, NEW n \in Nodes, Wins(t, n)
        PROVE  RaceInv'
    <2>1. RaceInvAt(race[t], now) /\ race[t] \in RaceState /\ race[t].pc = "racing"
      BY <1>3 DEF Wins, RaceInv
    <2> DEFINE r == [race[t] EXCEPT !.pc = "ok", !.pending = {}]
    <2>2. RaceInvAt(r, now)
      BY <2>1 DEF RaceInvAt, RaceState
    <2>3. race' \in [Tasks -> RaceState] /\ \A u \in Tasks : RaceInvAt(race[u], now)'
      <3>1. UpdateRace(t, r) /\ now' = now
        BY <1>3 DEF Wins
      <3> HIDE DEF r
      <3> QED BY <2>2, <3>1, UpdateKeepsRaces
    <2>4. PICK h \in Heads : state' = [state EXCEPT ![n] = noted_success(@, race[t].method, h)]
      BY <1>3 DEF Wins
    <2> DEFINE s == noted_success(state[n], race[t].method, h)
    <2>5. NodeInv(s) /\ s.consecutive_failures = 0
      <3>1. NodeInv(state[n]) /\ race[t].method \in Methods /\ h \in Nat
        BY <2>1, PolicyAssumption DEF RaceInv, HealthInv, RaceState, PolicyAssumption
      <3> QED BY <1>t, <3>1, NotedSuccess
    <2>6. HealthInv' /\ failed' \in [Nodes -> Nat] /\ JudgedOnOutcomes'
      <3>1. state' = [state EXCEPT ![n] = s]
        BY <2>4
      <3>2. failed[n] \in Nat /\ failed' = [failed EXCEPT ![n] = failed[n]] /\ now' = now
        BY <1>3 DEF Wins, RaceInv
      <3> HIDE DEF s
      <3>3. s.consecutive_failures <= failed[n] /\ failed[n] >= failed[n]
        BY <2>5, <3>2
      <3> QED BY <2>5, <3>1, <3>2, <3>3, UpdateKeepsTracker, Zenon
    <2> QED BY <1>3, <2>3, <2>6 DEF Wins, RaceInv
  <1>4. ASSUME NEW t \in Tasks, NEW n \in Nodes, Fails(t, n)
        PROVE  RaceInv'
    <2>1. /\ RaceInvAt(race[t], now) /\ race[t] \in RaceState /\ race[t].pc = "racing"
          /\ n \in race[t].pending
      BY <1>4 DEF Fails, RaceInv
    <2> DEFINE r == [race[t] EXCEPT
                        !.pending = @ \ {n}, !.failing = @ \cup {n},
                        !.pc      = IF race[t].pending = {n} THEN "err" ELSE @]
    <2>2. RaceInvAt(r, now)
      <3>1. /\ r.pending = race[t].pending \ {n} /\ r.failing = race[t].failing \cup {n}
            /\ r.pc = (IF race[t].pending = {n} THEN "err" ELSE "racing")
            /\ r.raced = race[t].raced /\ r.sent = race[t].sent
            /\ r.started = race[t].started
        BY <2>1 DEF RaceState
      <3>2. r \in RaceState
        BY <2>1 DEF RaceState
      <3> HIDE DEF r
      <3>3. r.raced = r.pending \cup r.failing
        BY <2>1, <3>1 DEF RaceInvAt
      <3>4. r.pc = "racing" => r.pending # {}
        BY <2>1, <3>1
      <3>5. r.pc # "racing" => r.pc = "err" /\ r.pending = {}
        BY <3>1
      <3>6. n \in r.failing
        BY <3>1
      <3> QED BY <2>1, <3>1, <3>2, <3>3, <3>4, <3>5, <3>6 DEF RaceInvAt
    <2>3. race' \in [Tasks -> RaceState] /\ \A u \in Tasks : RaceInvAt(race[u], now)'
      <3>1. UpdateRace(t, r) /\ now' = now
        BY <1>4 DEF Fails
      <3> HIDE DEF r
      <3> QED BY <2>2, <3>1, UpdateKeepsRaces
    <2> DEFINE s == after_failure(state[n], race[t].method, now)
    <2>4. NodeInv(s)
      <3>1. NodeInv(state[n]) /\ race[t].method \in Methods /\ now \in 0 .. now
        BY <1>t, <2>1 DEF RaceInv, HealthInv, RaceState
      <3> QED BY <1>t, <3>1, FailureKeepsNodeInv
    <2>5. s.consecutive_failures <= failed[n] + 1
      <3>1. state[n] \in NodeState /\ state[n].consecutive_failures <= failed[n]
        BY <1>t DEF RaceInv, JudgedOnOutcomes
      <3>2. s.consecutive_failures = saturating_inc(state[n].consecutive_failures)
        BY <3>1 DEF after_failure, NodeState
      <3> QED BY <3>1, <3>2, PolicyAssumption DEF saturating_inc, NodeState, RaceInv, PolicyAssumption
    <2>6. HealthInv' /\ failed' \in [Nodes -> Nat] /\ JudgedOnOutcomes'
      <3>1. state' = [state EXCEPT ![n] = s] /\ now' = now
        BY <1>4 DEF Fails, record_failure
      <3>2. failed[n] \in Nat /\ failed' = [failed EXCEPT ![n] = failed[n] + 1]
        BY <1>4 DEF Fails, RaceInv
      <3>3. failed[n] + 1 \in Nat /\ failed[n] + 1 >= failed[n]
        BY <3>2
      <3> HIDE DEF s
      <3> QED BY <2>4, <2>5, <3>1, <3>2, <3>3, UpdateKeepsTracker, Zenon
    <2> QED BY <1>4, <2>3, <2>6 DEF Fails, RaceInv
  <1>5. ASSUME NEW t \in Tasks, Return(t)
        PROVE  RaceInv'
    <2>1. UpdateRace(t, NoRace) /\ UNCHANGED <<now, state, races, failed>>
      BY <1>5 DEF Return
    <2>2. race' \in [Tasks -> RaceState] /\ \A u \in Tasks : RaceInvAt(race[u], now)'
      BY <2>1, NoRaceInv, UpdateKeepsRaces
    <2> QED BY <2>1, <2>2
            DEF RaceInv, HealthInv, NodeInv, NodeBroadlyBroken, NodeCounted, NodeExpires,
                JudgedOnOutcomes
  <1>6. CASE UNCHANGED race_vars
    BY <1>6 DEF race_vars, RaceInv, HealthInv, NodeInv, NodeBroadlyBroken, NodeCounted,
                NodeExpires, JudgedOnOutcomes, RaceInvAt
  <1> QED BY <1>1, <1>2, <1>3, <1>4, <1>5, <1>6 DEF RaceNext, Outcome

(* RaceInv holds in every state of every behaviour. *)
THEOREM RaceInvariant == RaceSpec => []RaceInv
  <1>1. RaceInit => RaceInv
    <2> SUFFICES ASSUME RaceInit PROVE RaceInv
      OBVIOUS
    <2>1. HealthInv
      BY FreshNodeInv DEF RaceInit, HealthInit, HealthInv
    <2>2. \A t \in Tasks : RaceInvAt(race[t], now) /\ race[t] \in RaceState
      BY NoRaceInv DEF RaceInit, RaceInvAt
    <2>3. JudgedOnOutcomes
      BY DEF RaceInit, HealthInit, FreshNode, JudgedOnOutcomes
    <2> QED BY <2>1, <2>2, <2>3, RaceAssumption DEF RaceInit, RaceInv, RaceAssumption
  <1>2. RaceInv /\ [RaceNext]_race_vars => RaceInv'
    BY RaceInvStep
  <1> QED BY <1>1, <1>2, PTL DEF RaceSpec

(* Every local keeps its type, and no race is over no node. *)
THEOREM RaceTypeCorrect == RaceSpec => []RaceTypeOK
  <1>1. RaceInv => RaceTypeOK
    BY DEF RaceInv, HealthInv, NodeInv, HealthTypeOK, RaceTypeOK, RaceInvAt
  <1> QED BY <1>1, RaceInvariant, PTL

(* A race takes one timeout at most, for any number of nodes. *)
THEOREM OneTimeout == RaceSpec => []OneTimeoutAtMost
  <1>1. RaceInv => OneTimeoutAtMost
    BY DEF RaceInv, RaceInvAt, OneTimeoutAtMost
  <1> QED BY <1>1, RaceInvariant, PTL

(* A race is lost only by all the nodes it went to. *)
THEOREM LostByAll == RaceSpec => []LostOnlyByAll
  <1>1. RaceInv => LostOnlyByAll
    BY DEF RaceInv, RaceInvAt, LostOnlyByAll
  <1> QED BY <1>1, RaceInvariant, PTL

(* The losers of a race, and the nodes of one that was dropped, are not    *)
(* blamed. *)
THEOREM LosersAreNotBlamed == RaceSpec => []JudgedOnOutcomes
  <1>1. RaceInv => JudgedOnOutcomes
    BY DEF RaceInv
  <1> QED BY <1>1, RaceInvariant, PTL

(* What holds of the tracker under arbitrary callers holds under races:    *)
(* types, streaks, counters and cooldowns.                                 *)
THEOREM TrackerHoldsInRaces ==
    RaceSpec => [](BroadlyBrokenOnly /\ StreakIsCounted /\ CooldownsExpire)
  <1>1. RaceInv => BroadlyBrokenOnly /\ StreakIsCounted /\ CooldownsExpire
    BY DEF RaceInv, HealthInv, NodeInv, NodeBroadlyBroken, NodeCounted, NodeExpires,
           BroadlyBrokenOnly, StreakIsCounted, CooldownsExpire
  <1> QED BY <1>1, RaceInvariant, PTL

-----------------------------------------------------------------------------
(* The window of block fetches. *)

NumbersOf(f) == {f[i].number : i \in DOMAIN f}
EachNumberOnce(f) == \A i, j \in DOMAIN f : f[i].number = f[j].number => i = j

(* The inductive invariant: what is in flight and what came back make up   *)
(* the interval that was asked for so far, and are two disjoint parts of   *)
(* it. *)
WindowInv ==
    /\ from \in Nat /\ to \in Nat /\ to < MaxBlock /\ next \in Nat
    /\ concurrency \in Nat /\ concurrency > 0
    /\ IsFiniteSet(pending) /\ Cardinality(pending) <= concurrency
    /\ fetched \in Seq(Fetch) /\ EachNumberOnce(fetched)
    /\ pending \cap NumbersOf(fetched) = {}
    /\ pending \cup NumbersOf(fetched) \subseteq from .. to
    /\ window.pc \in {"running", "done", "error", "dropped"}
    /\ window.pc = "running" =>
         /\ from <= next /\ next <= to + 1
         /\ pending \cup NumbersOf(fetched) = from .. next - 1
    /\ window.pc = "done" =>
         /\ NumbersOf(fetched) = from .. to /\ from <= to + 1
         /\ window.blocks = in_order(fetched)

-----------------------------------------------------------------------------
(* A window is at least one request wide. *)
LEMMA AtLeastOne ==
    ASSUME NEW n \in Nat
    PROVE  max_1(n) \in Nat /\ max_1(n) > 0
  BY DEF max_1

(* What a completed request adds to the numbers that came back. *)
LEMMA FetchAdded ==
    ASSUME NEW f \in Seq(Fetch), EachNumberOnce(f), NEW k \in Nat, NEW a \in Answers,
           k \notin NumbersOf(f)
    PROVE  LET g == Append(f, [number |-> k, answer |-> a])
           IN  /\ g \in Seq(Fetch)
               /\ EachNumberOnce(g)
               /\ NumbersOf(g) = NumbersOf(f) \cup {k}
  <1> DEFINE x == [number |-> k, answer |-> a]
             g == Append(f, x)
  <1>1. x \in Fetch /\ x.number = k
    BY DEF Fetch
  <1> HIDE DEF x
  <1>2. g \in Seq(Fetch)
    BY <1>1
  <1>3. /\ Len(f) \in Nat /\ DOMAIN f = 1 .. Len(f)
        /\ DOMAIN g = 1 .. Len(f) + 1
        /\ \A i \in 1 .. Len(f) : g[i] = f[i]
        /\ g[Len(f) + 1] = x
    BY <1>1
  <1> HIDE DEF g
  <1>4. NumbersOf(g) = NumbersOf(f) \cup {k}
    <2>1. ASSUME NEW i \in DOMAIN g PROVE g[i].number \in NumbersOf(f) \cup {k}
      <3>1. CASE i = Len(f) + 1
        BY <1>1, <1>3, <3>1
      <3>2. CASE i # Len(f) + 1
        <4>1. i \in DOMAIN f /\ g[i] = f[i]
          BY <1>3, <3>2
        <4> QED BY <4>1 DEF NumbersOf
      <3> QED BY <3>1, <3>2
    <2>2. ASSUME NEW i \in DOMAIN f PROVE f[i].number \in NumbersOf(g)
      <3>1. i \in DOMAIN g /\ g[i] = f[i]
        BY <1>3
      <3> QED BY <3>1 DEF NumbersOf
    <2>3. k \in NumbersOf(g)
      <3>1. Len(f) + 1 \in DOMAIN g /\ g[Len(f) + 1].number = k
        BY <1>1, <1>3
      <3> QED BY <3>1 DEF NumbersOf
    <2> QED BY <2>1, <2>2, <2>3 DEF NumbersOf
  <1>5. EachNumberOnce(g)
    <2> SUFFICES ASSUME NEW i \in DOMAIN g, NEW j \in DOMAIN g, g[i].number = g[j].number
                 PROVE  i = j
      BY DEF EachNumberOnce
    <2>1. ASSUME NEW h \in DOMAIN g, h # Len(f) + 1
          PROVE  h \in DOMAIN f /\ g[h] = f[h] /\ g[h].number \in NumbersOf(f)
      <3>1. h \in DOMAIN f /\ g[h] = f[h]
        BY <1>3, <2>1
      <3> QED BY <3>1 DEF NumbersOf
    <2>2. g[Len(f) + 1].number \notin NumbersOf(f)
      BY <1>1, <1>3
    <2>3. CASE i # Len(f) + 1 /\ j # Len(f) + 1
      BY <2>1, <2>3 DEF EachNumberOnce
    <2>4. CASE i = Len(f) + 1 \/ j = Len(f) + 1
      BY <2>1, <2>2, <2>4
    <2> QED BY <2>3, <2>4
  <1> QED BY <1>2, <1>4, <1>5 DEF g, x

-----------------------------------------------------------------------------
(* The order blocks are returned in. *)

(* How many have a number up to c, when every number from a to b has come. *)
LEMMA CountUpTo ==
    ASSUME NEW f \in Seq(Fetch), EachNumberOnce(f), NEW a \in Nat, NEW b \in Nat,
           NumbersOf(f) = a .. b, NEW c \in Int, a <= c + 1, c <= b
    PROVE  Cardinality({j \in DOMAIN f : f[j].number <= c}) = c - a + 1
  <1> DEFINE D == {j \in DOMAIN f : f[j].number <= c}
             g == [i \in a .. c |-> CHOOSE j \in DOMAIN f : f[j].number = i]
  <1>1. ASSUME NEW i \in a .. c PROVE g[i] \in D /\ f[g[i]].number = i
    <2>1. i \in NumbersOf(f)
      OBVIOUS
    <2>2. \E j \in DOMAIN f : f[j].number = i
      BY <2>1 DEF NumbersOf
    <2> QED BY <2>2
  <1>2. ASSUME NEW j \in D PROVE f[j].number \in a .. c /\ g[f[j].number] = j
    <2>1. f[j].number \in a .. b
      BY DEF NumbersOf
    <2>2. f[j].number \in a .. c
      BY <2>1
    <2>3. g[f[j].number] \in DOMAIN f /\ f[g[f[j].number]].number = f[j].number
      BY <1>1, <2>2
    <2> HIDE DEF g
    <2> QED BY <2>2, <2>3 DEF EachNumberOnce
  <1>3. g \in [a .. c -> D]
    BY <1>1
  <1> HIDE DEF g, D
  <1>4. g \in Bijection(a .. c, D)
    BY <1>1, <1>2, <1>3 DEF Bijection, Injection, Surjection, IsInjective
  <1>5. ExistsBijection(a .. c, D)
    BY <1>4 DEF ExistsBijection
  <1>6. IsFiniteSet(a .. c) /\ Cardinality(a .. c) = c - a + 1
    <2>1. a \in Int /\ c \in Int
      OBVIOUS
    <2>2. IsFiniteSet(a .. c) /\ Cardinality(a .. c) = IF a > c THEN 0 ELSE c - a + 1
      BY <2>1, FS_Interval
    <2> QED BY <2>2
  <1>7. Cardinality(a .. c) = Cardinality(D)
    BY <1>5, <1>6, FS_Bijection
  <1> QED BY <1>6, <1>7 DEF D

(* Sorting puts the i-th number in the i-th place. *)
LEMMA InOrderIs ==
    ASSUME NEW f \in Seq(Fetch), EachNumberOnce(f), NEW a \in Nat, NEW b \in Nat,
           NumbersOf(f) = a .. b, a <= b + 1
    PROVE  /\ Len(in_order(f)) = b - a + 1
           /\ \A n \in DOMAIN in_order(f) : in_order(f)[n].number = a + n - 1
  <1>1. DOMAIN f = 1 .. Len(f) /\ Len(f) \in Nat
    OBVIOUS
  <1>2. ASSUME NEW i \in DOMAIN f
        PROVE  f[i].number \in a .. b /\ f[i].number \in Nat
    <2>1. f[i].number \in NumbersOf(f)
      BY DEF NumbersOf
    <2>2. f[i].number \in a .. b
      BY <2>1
    <2> QED BY <2>2
  <1>3. Len(f) = b - a + 1
    <2>1. {j \in DOMAIN f : f[j].number <= b} = 1 .. Len(f)
      BY <1>1, <1>2
    <2>2. Cardinality({j \in DOMAIN f : f[j].number <= b}) = b - a + 1
      BY CountUpTo
    <2>3. 1 \in Int /\ Len(f) \in Int
      BY <1>1
    <2>4. Cardinality(1 .. Len(f)) = IF 1 > Len(f) THEN 0 ELSE Len(f) - 1 + 1
      BY <2>3, FS_Interval
    <2>5. Cardinality(1 .. Len(f)) = Len(f)
      <3> DEFINE n == Len(f)
      <3>1. n \in Nat /\ Cardinality(1 .. n) = IF 1 > n THEN 0 ELSE n - 1 + 1
        BY <1>1, <2>4
      <3> HIDE DEF n
      <3>2. Cardinality(1 .. n) = n
        BY <3>1
      <3> QED BY <3>2 DEF n
    <2> QED BY <2>1, <2>2, <2>5
  <1>4. ASSUME NEW i \in DOMAIN f
        PROVE  place(f, i) = f[i].number - a + 1
    <2> DEFINE c == f[i].number
    <2>1. c \in Int /\ a <= c + 1 /\ c <= b
      BY <1>2
    <2>2. ASSUME NEW j \in DOMAIN f
          PROVE  (f[j].number < f[i].number \/ (f[j].number = f[i].number /\ j <= i))
                    <=> f[j].number <= c
      <3>1. f[j].number \in Nat /\ f[i].number \in Nat
        BY <1>2
      <3>2. f[j].number = f[i].number => j = i
        BY DEF EachNumberOnce
      <3>3. i <= i
        BY <1>1
      <3> QED BY <3>1, <3>2, <3>3
    <2>3. {j \in DOMAIN f : f[j].number < f[i].number \/ (f[j].number = f[i].number /\ j <= i)}
             = {j \in DOMAIN f : f[j].number <= c}
      BY <2>2
    <2> HIDE DEF c
    <2>4. Cardinality({j \in DOMAIN f : f[j].number <= c}) = c - a + 1
      BY <2>1, CountUpTo
    <2> QED BY <2>3, <2>4 DEF place, c
  <1>5. ASSUME NEW n \in DOMAIN f
        PROVE  in_order(f)[n] \in Fetch /\ in_order(f)[n].number = a + n - 1
    <2> DEFINE i == CHOOSE i \in DOMAIN f : place(f, i) = n
    <2>1. n \in 1 .. b - a + 1
      BY <1>1, <1>3
    <2>2. a + n - 1 \in NumbersOf(f)
      BY <2>1
    <2>3. PICK j \in DOMAIN f : f[j].number = a + n - 1
      BY <2>2 DEF NumbersOf
    <2>4. place(f, j) = n
      BY <1>4, <2>1, <2>3
    <2>5. i \in DOMAIN f /\ place(f, i) = n
      BY <2>4
    <2>6. in_order(f)[n] = f[i]
      BY DEF in_order
    <2> HIDE DEF i
    <2>7. f[i].number - a + 1 = n /\ f[i].number \in Nat
      BY <1>2, <1>4, <2>5
    <2> QED BY <2>1, <2>5, <2>6, <2>7
  <1>6. DOMAIN in_order(f) = 1 .. Len(f) /\ in_order(f) \in Seq(Fetch)
    <2>1. in_order(f) = [n \in 1 .. Len(f) |-> in_order(f)[n]]
      BY <1>1 DEF in_order
    <2>2. in_order(f) \in [1 .. Len(f) -> Fetch]
      BY <1>1, <1>5, <2>1
    <2> QED BY <1>1, <2>2
  <1> QED BY <1>1, <1>3, <1>5, <1>6

-----------------------------------------------------------------------------
(* Every step keeps the invariant. *)
LEMMA WindowInvStep ==
    ASSUME WindowInv, [WindowNext]_window_vars
    PROVE  WindowInv'
  <1>1. CASE Request
    <2>1. /\ window' = window /\ window.pc = "running" /\ fetched' = fetched
          /\ from' = from /\ to' = to /\ concurrency' = concurrency
          /\ pending' = pending \cup {next} /\ next' = succ_u32(next)
          /\ ~(Cardinality(pending) >= concurrency) /\ ~(next > to)
      BY <1>1 DEF Request, Open, Full, arguments
    <2>2. next' = next + 1 /\ next' \in Nat /\ next' <= to + 1
      BY <2>1, WindowAssumption DEF WindowInv, succ_u32, WindowAssumption
    <2>3. pending \cup NumbersOf(fetched) = from .. next - 1
      BY <2>1 DEF WindowInv
    <2>4. from <= next
      BY <2>1 DEF WindowInv
    <2>5. next \notin pending /\ next \notin NumbersOf(fetched)
      BY <2>3 DEF WindowInv
    <2>6. IsFiniteSet(pending') /\ Cardinality(pending') = Cardinality(pending) + 1
      BY <2>1, <2>5, FS_AddElement DEF WindowInv
    <2>7. Cardinality(pending) \in Nat
      BY FS_CardinalityType DEF WindowInv
    <2>8. Cardinality(pending') <= concurrency
      BY <2>1, <2>6, <2>7 DEF WindowInv
    <2>9. from .. next' - 1 = (from .. next - 1) \cup {next}
      BY <2>2, <2>4 DEF WindowInv
    <2>10. /\ pending' \cup NumbersOf(fetched) = from .. next' - 1
           /\ from .. next' - 1 \subseteq from .. to
      BY <2>1, <2>2, <2>3, <2>9 DEF WindowInv
    <2> QED BY <2>1, <2>2, <2>4, <2>5, <2>6, <2>8, <2>10 DEF WindowInv
  <1>2. ASSUME NEW k \in pending, Completes(k)
        PROVE  WindowInv'
    <2>1. PICK a \in answers(k) : fetched' = Append(fetched, [number |-> k, answer |-> a])
      BY <1>2 DEF Completes
    <2>2. /\ window' = window /\ from' = from /\ to' = to /\ next' = next
          /\ concurrency' = concurrency /\ pending' = pending \ {k}
      BY <1>2 DEF Completes, arguments
    <2>3. a \in Answers /\ k \in Nat /\ k \notin NumbersOf(fetched)
      BY <2>1 DEF answers, Answers, WindowInv
    <2>4. /\ fetched' \in Seq(Fetch) /\ EachNumberOnce(fetched')
          /\ NumbersOf(fetched') = NumbersOf(fetched) \cup {k}
      BY <2>1, <2>3, FetchAdded DEF WindowInv
    <2>5. IsFiniteSet(pending') /\ Cardinality(pending') <= concurrency
      <3>1. IsFiniteSet(pending') /\ Cardinality(pending') = Cardinality(pending) - 1
        BY <2>2, FS_RemoveElement DEF WindowInv
      <3>2. Cardinality(pending) \in Nat
        BY FS_CardinalityType DEF WindowInv
      <3> QED BY <3>1, <3>2 DEF WindowInv
    <2>6. /\ pending' \cap NumbersOf(fetched') = {}
          /\ pending' \cup NumbersOf(fetched') = pending \cup NumbersOf(fetched)
      BY <2>2, <2>3, <2>4 DEF WindowInv
    <2> QED BY <2>2, <2>4, <2>5, <2>6 DEF WindowInv
  <1>3. ASSUME UNCHANGED <<arguments, next, fetched>>, pending' = {},
               window'.pc \in {"done", "error", "dropped"},
               window'.pc = "done" => /\ NumbersOf(fetched) = from .. to /\ from <= to + 1
                                      /\ window'.blocks = in_order(fetched)
        PROVE  WindowInv'
    <2>1. IsFiniteSet({}) /\ Cardinality({}) = 0
      BY FS_EmptySet
    <2> QED BY <1>3, <2>1 DEF arguments, WindowInv
  <1>4. CASE Returns
    <2>1. window.pc = "running" /\ pending = {} /\ Cardinality(pending) = 0
      BY <1>4, FS_EmptySet DEF Returns, Open
    <2>2. next = to + 1
      BY <1>4, <2>1 DEF Returns, Full, WindowInv
    <2>3. NumbersOf(fetched) = from .. to /\ from <= to + 1
      BY <2>1, <2>2 DEF WindowInv
    <2> QED BY <1>3, <1>4, <2>3 DEF Returns
  <1>5. ASSUME NEW k \in pending, Errs(k)
        PROVE  WindowInv'
    BY <1>3, <1>5 DEF Errs
  <1>6. CASE Dropped
    BY <1>3, <1>6 DEF Dropped
  <1>7. CASE UNCHANGED window_vars
    BY <1>7 DEF window_vars, arguments, WindowInv
  <1> QED BY <1>1, <1>2, <1>4, <1>5, <1>6, <1>7 DEF WindowNext, WindowStep

(* WindowInv holds in every state of every behaviour. *)
THEOREM WindowInvariant == WindowSpec => []WindowInv
  <1>1. WindowInit => WindowInv
    <2> SUFFICES ASSUME WindowInit PROVE WindowInv
      OBVIOUS
    <2>1. PICK r \in Ranges : from = r[1] /\ to = r[2]
      BY DEF WindowInit
    <2>2. from \in Nat /\ to \in Nat /\ to < MaxBlock
      BY <2>1, WindowAssumption, WindowRoom DEF WindowAssumption, WindowRoom
    <2>3. concurrency \in Nat /\ concurrency > 0
      BY AtLeastOne, WindowAssumption DEF WindowInit, WindowAssumption
    <2>4. pending = {} /\ IsFiniteSet({}) /\ Cardinality({}) = 0
      BY FS_EmptySet DEF WindowInit
    <2>5. fetched \in Seq(Fetch) /\ EachNumberOnce(fetched) /\ NumbersOf(fetched) = {}
      BY DEF WindowInit, EachNumberOnce, NumbersOf
    <2>6. /\ window.pc \in {"running", "error"}
          /\ window.pc = "running" => from <= to
      BY <2>2 DEF WindowInit, Open
    <2>7. next = from /\ from .. from - 1 = {}
      BY <2>2 DEF WindowInit
    <2> QED BY <2>2, <2>3, <2>4, <2>5, <2>6, <2>7 DEF WindowInv
  <1>2. WindowInv /\ [WindowNext]_window_vars => WindowInv'
    BY WindowInvStep
  <1> QED BY <1>1, <1>2, PTL DEF WindowSpec

(* Every local keeps its type, and the window is never without width.      *)
THEOREM WindowTypeCorrect == WindowSpec => []WindowTypeOK
  <1>1. WindowInv => WindowTypeOK
    BY DEF WindowInv, WindowTypeOK
  <1> QED BY <1>1, WindowInvariant, PTL

(* For every range and width: no block is asked for twice, none of the     *)
(* range is left out, and the window is never overfull.                    *)
THEOREM BlocksOnce == WindowSpec => []EachBlockOnce
  <1>1. WindowInv => EachBlockOnce
    BY DEF WindowInv, EachBlockOnce, EachNumberOnce, NumbersOf, Numbers
  <1> QED BY <1>1, WindowInvariant, PTL

(* What is returned is made of the whole range: the window is not given up *)
(* as long as a block is missing. *)
THEOREM RangeIsComplete ==
    WindowSpec => [](window.pc = "done" => Numbers = from .. to)
  <1>1. WindowInv => (window.pc = "done" => Numbers = from .. to)
    BY DEF WindowInv, NumbersOf, Numbers
  <1> QED BY <1>1, WindowInvariant, PTL

(* For every range and width: the blocks come back in the order of their   *)
(* numbers, whichever request finished first, all of them. *)
THEOREM BlocksInOrder == WindowSpec => []InBlockOrder
  <1>1. WindowInv => InBlockOrder
    <2> SUFFICES ASSUME WindowInv, window.pc = "done"
                 PROVE  /\ Len(window.blocks) = to - from + 1
                        /\ \A i \in DOMAIN window.blocks : window.blocks[i].number = from + i - 1
      BY DEF InBlockOrder
    <2>1. /\ window.blocks = in_order(fetched) /\ NumbersOf(fetched) = from .. to
          /\ fetched \in Seq(Fetch) /\ EachNumberOnce(fetched)
          /\ from \in Nat /\ to \in Nat /\ from <= to + 1
      BY DEF WindowInv
    <2> QED BY <2>1, InOrderIs
  <1> QED BY <1>1, WindowInvariant, PTL
=============================================================================
