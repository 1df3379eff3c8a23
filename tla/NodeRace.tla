------------------------------- MODULE NodeRace -------------------------------
(***************************************************************************)
(* AsyncNodeClient::race (hivecomb/src/rpc/async_client.rs): the same      *)
(* request goes to `width' nodes at once, the first success wins, and the  *)
(* requests still in flight are dropped.  Several tasks race over one      *)
(* client and feed one HealthTracker.                                      *)
(*                                                                         *)
(* A request's outcome is recorded (`note') when its future is polled, and *)
(* next().await returns with the first future that is ready; a future that *)
(* is dropped is never polled again, so its node hears of no outcome.      *)
(* record_success and observe_head_block are one step here: NodeClient     *)
(* models what another caller can see between the two.                     *)
(***************************************************************************)
EXTENDS HealthTracker

CONSTANTS
    Tasks,              \* tasks sharing the client
    Widths,             \* widths they race with, clamped or not
    HeadMethod,         \* the method whose answer carries head_block_number
    timeout,            \* per node
    MaxRaces            \* bound: races each task runs

ASSUME RaceAssumption ==
    /\ Widths \subseteq Nat /\ HeadMethod \in Methods
    /\ timeout \in Nat /\ MaxRaces \in Nat

VARIABLES
    race,       \* the locals of each task's running race
    races,      \* races run so far, per task
    failed      \* history: the failures each node was seen to have

race_vars == <<now, state, race, races, failed>>

NoRace ==
    [ pc      |-> "idle",
      method  |-> HeadMethod,
      raced   |-> {},               \* the nodes the request went to
      pending |-> {},               \* inflight
      failing |-> {},               \* failures
      sent    |-> [n \in Nodes |-> 0],     \* when each pending request went out
      started |-> 0 ]

RaceState ==
    [ pc : {"idle", "racing", "ok", "err"}, method : Methods, raced : SUBSET Nodes,
      pending : SUBSET Nodes, failing : SUBSET Nodes, sent : [Nodes -> Nat], started : Nat ]

(* usize::clamp(1, nodes.len()). *)
clamp(width) ==
    IF width < 1 THEN 1 ELSE IF width > NodeCount THEN NodeCount ELSE width

(* call_order(method).take(width): the nodes fewer than `width' precede. *)
Healthiest(m, width) ==
    LET tiers == order(m, now)
    IN  {n \in Nodes : Cardinality({k \in Nodes : Precedes(tiers, k, n)}) < width}

UpdateRace(t, r) == race' = [race EXCEPT ![t] = r]

(* The locals of a race over `runners', every request sent at once. *)
Started(m, runners) ==
    [NoRace EXCEPT !.pc = "racing", !.method = m, !.started = now,
                   !.raced = runners, !.pending = runners,
                   !.sent = [n \in Nodes |-> IF n \in runners THEN now ELSE 0]]

-----------------------------------------------------------------------------
Race(t, m, width) ==
    /\ race[t].pc = "idle" /\ races[t] < MaxRaces
    /\ races' = [races EXCEPT ![t] = @ + 1]
    /\ UpdateRace(t, Started(m, Healthiest(m, clamp(width))))
    /\ UNCHANGED <<now, state, failed>>

(* What note records of an answer that carries a result. *)
noted_success(s, m, head) ==
    IF m = HeadMethod
    THEN [after_success(s, m) EXCEPT !.head_block = head, !.head_seen = now]
    ELSE after_success(s, m)

(* Seeded bug: the losers of a race count as failures. *)
Wins_blaming_losers(t, n) ==
    /\ race[t].pc = "racing" /\ n \in race[t].pending
    /\ \E h \in Heads :
         state' = [k \in Nodes |->
                      IF k = n THEN noted_success(state[k], race[t].method, h)
                      ELSE IF k \in race[t].pending
                           THEN after_failure(state[k], race[t].method, now)
                           ELSE state[k]]
    /\ UpdateRace(t, [race[t] EXCEPT !.pc = "ok", !.pending = {}])
    /\ UNCHANGED <<now, races, failed>>

(* The first success: `inflight' is dropped with the losers in it. *)
Wins(t, n) ==
    /\ race[t].pc = "racing" /\ n \in race[t].pending
    /\ \E h \in Heads :
         state' = [state EXCEPT ![n] = noted_success(@, race[t].method, h)]
    /\ UpdateRace(t, [race[t] EXCEPT !.pc = "ok", !.pending = {}])
    /\ UNCHANGED <<now, races, failed>>

(* Seeded bug: the first outcome decides the race. *)
Fails_ending_race(t, n) ==
    /\ race[t].pc = "racing" /\ n \in race[t].pending
    /\ record_failure(n, race[t].method, now)
    /\ failed' = [failed EXCEPT ![n] = @ + 1]
    /\ UpdateRace(t, [race[t] EXCEPT !.pc = "err", !.pending = {}, !.failing = @ \cup {n}])
    /\ UNCHANGED <<now, races>>

(* Seeded bug: a runner that fails is replaced by the next node. *)
Fails_replacing_runner(t, n) ==
    /\ race[t].pc = "racing" /\ n \in race[t].pending
    /\ record_failure(n, race[t].method, now)
    /\ failed' = [failed EXCEPT ![n] = @ + 1]
    /\ LET rest == Nodes \ race[t].raced
           more == {k \in rest : FirstInOrder(order(race[t].method, now), k, rest)}
       IN  UpdateRace(t, [race[t] EXCEPT
                !.raced   = @ \cup more,
                !.pending = (@ \ {n}) \cup more,
                !.sent    = [k \in Nodes |-> IF k \in more THEN now ELSE @[k]],
                !.failing = @ \cup {n},
                !.pc      = IF race[t].pending \cup more = {n} THEN "err" ELSE @])
    /\ UNCHANGED <<now, races>>

(* Seeded bug: the loop does not notice that nothing is left in flight. *)
Fails_unnoticed(t, n) ==
    /\ race[t].pc = "racing" /\ n \in race[t].pending
    /\ record_failure(n, race[t].method, now)
    /\ failed' = [failed EXCEPT ![n] = @ + 1]
    /\ UpdateRace(t, [race[t] EXCEPT !.pending = @ \ {n}, !.failing = @ \cup {n}])
    /\ UNCHANGED <<now, races>>

(* An answer with a JSON-RPC error, a refusal or a timeout; the race is    *)
(* lost when it was the last. *)
Fails(t, n) ==
    /\ race[t].pc = "racing" /\ n \in race[t].pending
    /\ record_failure(n, race[t].method, now)
    /\ failed' = [failed EXCEPT ![n] = @ + 1]
    /\ UpdateRace(t, [race[t] EXCEPT
            !.pending = @ \ {n}, !.failing = @ \cup {n},
            !.pc      = IF race[t].pending = {n} THEN "err" ELSE @])
    /\ UNCHANGED <<now, races>>

(* The result is taken, or the future of the whole race is dropped: the    *)
(* caller's own deadline ran out. *)
Return(t) ==
    /\ race[t].pc \in {"ok", "err", "racing"}
    /\ UpdateRace(t, NoRace)
    /\ UNCHANGED <<now, state, races, failed>>

(* The transport honours the timeout of each request.  Past MaxTime the    *)
(* clock runs only for the requests still in flight. *)
RaceTick ==
    /\ now < MaxTime \/ \E t \in Tasks : race[t].pending # {}
    /\ \A t \in Tasks :
         /\ race[t].pc \notin {"ok", "err"}
         /\ \A n \in race[t].pending : now < race[t].sent[n] + timeout
    /\ now' = now + 1
    /\ UNCHANGED <<state, race, races, failed>>

Outcome(t) == \E n \in Nodes : Wins(t, n) \/ Fails(t, n)

RaceInit ==
    /\ HealthInit
    /\ race = [t \in Tasks |-> NoRace]
    /\ races = [t \in Tasks |-> 0]
    /\ failed = [n \in Nodes |-> 0]

RaceNext ==
    \/ RaceTick
    \/ \E t \in Tasks :
         \/ \E m \in Methods, width \in Widths : Race(t, m, width)
         \/ Outcome(t)
         \/ Return(t)

(* A task that races is polled, and the clock keeps running. *)
RaceFairness ==
    /\ WF_race_vars(RaceTick)
    /\ \A t \in Tasks : WF_race_vars(Outcome(t)) /\ WF_race_vars(race[t].pc # "racing" /\ Return(t))

RaceSpec == RaceInit /\ [][RaceNext]_race_vars /\ RaceFairness

-----------------------------------------------------------------------------
(* Properties *)

(* Every local keeps its type, and a race over no node does not exist. *)
RaceTypeOK ==
    /\ HealthTypeOK
    /\ race \in [Tasks -> RaceState] /\ races \in [Tasks -> 0 .. MaxRaces]
    /\ failed \in [Nodes -> Nat]
    /\ \A t \in Tasks : race[t].pc = "racing" => race[t].pending # {}

(* "The worst case is one timeout rather than the sum". *)
OneTimeoutAtMost ==
    \A t \in Tasks : race[t].pc # "idle" => now <= race[t].started + timeout

(* A race is lost only when every node it went to has failed. *)
LostOnlyByAll ==
    \A t \in Tasks : race[t].pc = "err" =>
        race[t].failing = race[t].raced /\ race[t].raced # {}

(* A node is judged on outcomes it had: losing a race, or being dropped    *)
(* with one, is not a failure, however the races of several tasks overlap. *)
JudgedOnOutcomes ==
    \A n \in Nodes : state[n].consecutive_failures <= failed[n]

(* Every race ends. *)
RaceEnds ==
    \A t \in Tasks : race[t].pc = "racing" ~> race[t].pc # "racing"
=============================================================================
