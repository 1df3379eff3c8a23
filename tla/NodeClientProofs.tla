------------------------- MODULE NodeClientProofs --------------------------
(***************************************************************************)
(* Theorems about NodeClient, for every node list, number of callers and   *)
(* passes.  The first part is about the heads the tracker compares: how far *)
(* they can be from the chain, whatever the latency of the answers, their  *)
(* order and the moments they are recorded at.  The second is about the    *)
(* calls: how long one takes, and that the client's steps are steps of     *)
(* FailoverCall.                                                           *)
(***************************************************************************)
EXTENDS NodeClient, HealthTrackerProofs

B == block_interval

(* Ticks since block 0, which is what a head and its age are readings of. *)
Position == chain_head * B + since_block

CallerRecord ==
    [ pc : PcValues, method : Methods, pass : Nat, tiers : [Nodes -> Nat],
      left : SUBSET Nodes, node : Nodes, head : Nat, since : Nat, started : Nat,
      failures : [Nodes -> Nat] ]

InTime(r) == r.since <= now /\ now <= r.since + timeout

(* A head on its way is as old as the request at most: it was read between *)
(* the moment of sending and now.                                          *)
HeadInTransit(r) ==
    LET h == r.head * B + lag[r.node] * B
    IN  Position - (now - r.since) - (B - 1) <= h /\ h <= Position

(* What one caller's locals satisfy. *)
CallerInv(r) ==
    /\ r \in CallerRecord
    /\ r.pc \in {"waiting", "served", "answered", "noted"} => InTime(r)
    /\ r.pc \in {"served", "answered", "noted"} => HeadInTransit(r)

(* A recorded head, aged to now and credited with the node's lag, is never *)
(* ahead of the chain and never further behind it than the timeout and the *)
(* block in progress.                                                      *)
ReadingInv(s, l) ==
    s.head_seen # Unobserved =>
        LET p == s.head_block * B + (now - s.head_seen) + l * B
        IN  /\ s.head_seen \in 0 .. now
            /\ Position - timeout - (B - 1) <= p
            /\ p <= Position

ChainInv ==
    /\ chain_head \in Nat /\ since_block \in 0 .. B - 1
    /\ lag \in [Nodes -> Nat] /\ \A n \in Nodes : lag[n] <= chain_head

(* The inductive invariant. *)
ClientInv ==
    /\ HealthInv
    /\ ChainInv
    /\ caller = [c \in Callers |-> caller[c]]
    /\ \A c \in Callers : CallerInv(caller[c])
    /\ \A n \in Nodes : ReadingInv(state[n], lag[n])

-----------------------------------------------------------------------------
(* The constants and products the arithmetic below is about. *)
LEMMA Units ==
    /\ B \in Nat /\ B > 0 /\ BlockUnit = B
    /\ timeout \in Nat /\ stale_block_threshold \in Nat
    /\ Nodes \subseteq Nat /\ 0 \in Nodes
  BY ClientAssumption, PolicyAssumption
     DEF ClientAssumption, PolicyAssumption, B, BlockUnit, Nodes

LEMMA Distribute ==
    ASSUME NEW x \in Int, NEW y \in Int, NEW z \in Int
    PROVE  (x - y) * z + y * z = x * z
  OBVIOUS

LEMMA ProductInt ==
    ASSUME NEW x \in Int, NEW y \in Int PROVE x * y \in Int
  OBVIOUS

LEMMA NextMultiple ==
    ASSUME NEW x \in Int, NEW z \in Int PROVE (x + 1) * z = x * z + z
  OBVIOUS

(* What is waiting to be tried is a record of the declared shape. *)
LEMMA TiersTyped ==
    ASSUME NEW m, NEW at PROVE order(m, at) \in [Nodes -> Nat]
  BY DEF order, Tier

LEMMA CallOrderTyped ==
    ASSUME NEW m PROVE call_order(m) \in [Nodes -> Nat]
  BY TiersTyped DEF call_order

LEMMA IdleCallerInv == CallerInv(IdleCaller)
  <1>1. IdleCaller \in CallerRecord
    <2>1. [n \in Nodes |-> 0] \in [Nodes -> Nat]
      OBVIOUS
    <2> QED BY <2>1, Units, ClientAssumption
            DEF ClientAssumption, IdleCaller, CallerRecord, PcValues
  <1>2. IdleCaller.pc = "idle"
    BY DEF IdleCaller
  <1> QED BY <1>1, <1>2 DEF CallerInv

LEMMA BeginPassTyped ==
    ASSUME NEW r \in CallerRecord, NEW p \in Nat, NEW t \in [Nodes -> Nat],
           NEW v \in PcValues
    PROVE  [r EXCEPT !.pc = v, !.pass = p, !.since = 0, !.tiers = t, !.left = Nodes]
               \in CallerRecord
  BY DEF CallerRecord

LEMMA BeginPassInv ==
    ASSUME NEW r \in CallerRecord, NEW p \in Nat
    PROVE  CallerInv(BeginPass(r, p))
  <1>1. call_order(r.method) \in [Nodes -> Nat] /\ "choosing" \in PcValues
    BY CallOrderTyped DEF PcValues, LocalSteps
  <1>2. BeginPass(r, p) \in CallerRecord
    BY <1>1, BeginPassTyped DEF BeginPass
  <1>3. BeginPass(r, p).pc = "choosing"
    BY DEF BeginPass, CallerRecord
  <1> QED BY <1>2, <1>3 DEF CallerInv

(* A step of one caller that leaves the clock, the chain and the tracker   *)
(* alone only has to keep that caller's part.                              *)
LEMMA CallerStepInv ==
    ASSUME ClientInv, NEW c \in Callers, NEW r, CallerInv(r), Update(c, r),
           UNCHANGED <<now, state, lag, chain_head, since_block>>
    PROVE  ClientInv'
  <1>1. \A d \in Callers : CallerInv(caller'[d])
    BY DEF ClientInv, Update
  <1>2. \A d \in Callers : CallerInv(caller[d])'
    BY <1>1 DEF CallerInv, InTime, HeadInTransit, Position
  <1>3. HealthInv'
    BY DEF ClientInv, HealthInv, NodeInv, NodeBroadlyBroken, NodeCounted, NodeExpires
  <1>4. ChainInv'
    BY DEF ClientInv, ChainInv
  <1>5. \A n \in Nodes : ReadingInv(state[n], lag[n])'
    BY DEF ClientInv, ReadingInv, Position
  <1>6. (caller = [d \in Callers |-> caller[d]])'
    BY DEF ClientInv, Update
  <1> QED BY <1>2, <1>3, <1>4, <1>5, <1>6 DEF ClientInv

(* So has a step that updates one node of the tracker as well. *)
LEMMA NodeStepInv ==
    ASSUME ClientInv, NEW c \in Callers, NEW r, CallerInv(r), Update(c, r),
           NEW n \in Nodes, NEW s, NodeInv(s), ReadingInv(s, lag[n]),
           state' = [state EXCEPT ![n] = s],
           UNCHANGED <<now, lag, chain_head, since_block>>
    PROVE  ClientInv'
  <1>1. \A d \in Callers : CallerInv(caller'[d])
    BY DEF ClientInv, Update
  <1>2. \A d \in Callers : CallerInv(caller[d])'
    BY <1>1 DEF CallerInv, InTime, HeadInTransit, Position
  <1>3. HealthInv'
    BY UpdateKeepsHealthInv DEF ClientInv
  <1>4. ChainInv'
    BY DEF ClientInv, ChainInv
  <1>5. \A k \in Nodes : ReadingInv(state'[k], lag[k])
    BY DEF ClientInv, HealthInv
  <1>6. \A k \in Nodes : ReadingInv(state[k], lag[k])'
    BY <1>5 DEF ReadingInv, Position
  <1>7. (caller = [d \in Callers |-> caller[d]])'
    BY DEF ClientInv, Update
  <1> QED BY <1>2, <1>3, <1>4, <1>6, <1>7 DEF ClientInv

(* Recording an outcome does not touch the reading. *)
LEMMA OutcomeKeepsReading ==
    ASSUME NEW s, NodeInv(s), NEW l, ReadingInv(s, l), NEW m \in Methods, NEW at
    PROVE  ReadingInv(after_success(s, m), l) /\ ReadingInv(after_failure(s, m, at), l)
  <1>1. s \in NodeState
    BY DEF NodeInv
  <1>2. /\ after_success(s, m).head_block = s.head_block
        /\ after_success(s, m).head_seen = s.head_seen
    BY <1>1 DEF NodeState, after_success
  <1>3. /\ after_failure(s, m, at).head_block = s.head_block
        /\ after_failure(s, m, at).head_seen = s.head_seen
    BY <1>1 DEF NodeState, after_failure
  <1> QED BY <1>2, <1>3 DEF ReadingInv

-----------------------------------------------------------------------------
(* The steps, one by one. *)

(* A request goes out now. *)
LEMMA SendInv ==
    ASSUME ClientInv, NEW c \in Callers, Send(c)
    PROVE  ClientInv'
  <1> DEFINE q == caller[c]
  <1>1. q \in CallerRecord
    BY DEF ClientInv, CallerInv
  <1>2. PICK n \in Nodes :
           Update(c, [q EXCEPT !.pc = "waiting", !.node = n, !.left = @ \ {n}, !.since = now])
    BY DEF Send
  <1> DEFINE r == [q EXCEPT !.pc = "waiting", !.node = n, !.left = @ \ {n}, !.since = now]
  <1>3. now \in Nat
    BY DEF ClientInv, HealthInv
  <1>4. r \in CallerRecord
    <2>1. "waiting" \in PcValues /\ q.left \ {n} \in SUBSET Nodes
      BY <1>1 DEF PcValues, InFlight, CallerRecord
    <2> QED BY <1>1, <1>3, <2>1 DEF CallerRecord
  <1>5. r.pc = "waiting" /\ r.since = now
    <2> HIDE DEF q
    <2> QED BY <1>1 DEF CallerRecord
  <1>6. CallerInv(r)
    <2> HIDE DEF r
    <2> QED BY <1>3, <1>4, <1>5, Units DEF CallerInv, InTime
  <1> QED BY <1>2, <1>6, CallerStepInv DEF Send

(* The node reads its head now, since the request was sent. *)
LEMMA ServeInv ==
    ASSUME ClientInv, NEW c \in Callers, Serve(c)
    PROVE  ClientInv'
  <1> DEFINE q == caller[c]
             r == [q EXCEPT !.pc = "served", !.head = served_head(q.node)]
  <1>1. q \in CallerRecord /\ InTime(q) /\ now \in Nat /\ ChainInv
    BY DEF ClientInv, CallerInv, Serve, HealthInv
  <1>2. q.node \in Nodes /\ q.since \in Nat
    BY <1>1 DEF CallerRecord
  <1>3. served_head(q.node) \in Nat
    BY <1>1, <1>2 DEF ChainInv, served_head
  <1>4. r \in CallerRecord
    <2>1. "served" \in PcValues
      BY DEF PcValues, InFlight
    <2> QED BY <1>1, <1>3, <2>1 DEF CallerRecord
  <1>5. /\ r.pc = "served" /\ r.since = q.since /\ r.node = q.node
        /\ r.head = served_head(q.node)
    BY <1>1 DEF CallerRecord
  <1>6. served_head(q.node) * B + lag[q.node] * B = chain_head * B
    <2>1. chain_head \in Int /\ lag[q.node] \in Int
      BY <1>1, <1>2 DEF ChainInv
    <2> QED BY <2>1, Units, Distribute DEF served_head
  <1>7. CallerInv(r)
    <2>1. InTime(r)
      BY <1>1, <1>5 DEF InTime
    <2>2. HeadInTransit(r)
      <3> DEFINE X == chain_head * B
                 h == r.head * B + lag[r.node] * B
      <3>1. X \in Int /\ Position = X + since_block /\ since_block \in 0 .. B - 1
        BY <1>1, Units DEF ChainInv, Position
      <3>2. h = X
        BY <1>5, <1>6
      <3>3. now - r.since \in Nat
        BY <1>1, <1>2, <1>5 DEF InTime
      <3> HIDE DEF r, X, h
      <3>4. Position - (now - r.since) - (B - 1) <= h /\ h <= Position
        BY <3>1, <3>2, <3>3, Units
      <3> QED BY <3>4 DEF HeadInTransit, h
    <2> HIDE DEF r
    <2> QED BY <1>4, <2>1, <2>2 DEF CallerInv
  <1> QED BY <1>7, CallerStepInv DEF Serve

(* A step that only moves a caller on keeps its head where it was. *)
LEMMA MoveOnInv ==
    ASSUME ClientInv, NEW c \in Callers, NEW v \in PcValues,
           v \in {"waiting", "served", "answered", "noted"} =>
               caller[c].pc \in {"served", "answered", "noted"}
    PROVE  CallerInv([caller[c] EXCEPT !.pc = v])
  <1> DEFINE q == caller[c]
             r == [q EXCEPT !.pc = v]
  <1>1. q \in CallerRecord /\ CallerInv(q)
    BY DEF ClientInv, CallerInv
  <1>2. /\ r \in CallerRecord /\ r.pc = v
        /\ r.since = q.since /\ r.head = q.head /\ r.node = q.node
    BY <1>1 DEF CallerRecord
  <1>3. CallerInv(r)
    <2> HIDE DEF r
    <2>1. CASE v \notin {"waiting", "served", "answered", "noted"}
      BY <1>2, <2>1 DEF CallerInv
    <2>2. CASE v \in {"waiting", "served", "answered", "noted"}
      <3>1. InTime(q) /\ HeadInTransit(q)
        BY <1>1, <2>2 DEF CallerInv
      <3>2. InTime(r) /\ HeadInTransit(r)
        BY <1>2, <3>1 DEF InTime, HeadInTransit
      <3> QED BY <1>2, <3>2 DEF CallerInv
    <2> QED BY <2>1, <2>2
  <1> QED BY <1>3

(* An answer, or a failure: the head moves on with the caller or is lost. *)
LEMMA AnswerInv ==
    ASSUME ClientInv, NEW c \in Callers, Answer(c)
    PROVE  ClientInv'
  <1>1. "answered" \in PcValues
    BY DEF PcValues, LocalSteps
  <1>2. CallerInv([caller[c] EXCEPT !.pc = "answered"])
    BY <1>1, MoveOnInv DEF Answer
  <1> QED BY <1>2, CallerStepInv DEF Answer

LEMMA FailInv ==
    ASSUME ClientInv, NEW c \in Callers, AnswerError(c) \/ TransportFails(c)
    PROVE  ClientInv'
  <1> DEFINE q == caller[c]
             r == [q EXCEPT !.pc = "failed", !.head = 0]
  <1>1. q \in CallerRecord /\ "failed" \in PcValues
    BY DEF ClientInv, CallerInv, PcValues, LocalSteps
  <1>2. r \in CallerRecord /\ r.pc = "failed"
    BY <1>1 DEF CallerRecord
  <1>3. CallerInv(r)
    <2> HIDE DEF r
    <2> QED BY <1>2 DEF CallerInv
  <1> QED BY <1>3, CallerStepInv DEF AnswerError, TransportFails

(* The outcome is recorded with the tracker, the reading stays. *)
LEMMA NoteSuccessInv ==
    ASSUME ClientInv, NEW c \in Callers, NoteSuccess(c)
    PROVE  ClientInv'
  <1>1. "noted" \in PcValues
    BY DEF PcValues, LocalSteps
  <1>2. CallerInv([caller[c] EXCEPT !.pc = "noted"])
    BY <1>1, MoveOnInv DEF NoteSuccess
  <1>3. caller[c].node \in Nodes /\ caller[c].method \in Methods
    BY DEF ClientInv, CallerInv, CallerRecord
  <1>4. CASE ~HealthTracking
    BY <1>2, <1>4, CallerStepInv DEF NoteSuccess
  <1>5. CASE HealthTracking
    <2> DEFINE n == caller[c].node
               s == after_success(state[n], caller[c].method)
    <2>1. NodeInv(state[n]) /\ ReadingInv(state[n], lag[n]) /\ now \in Nat
      BY <1>3 DEF ClientInv, HealthInv
    <2>2. NodeInv(s) /\ ReadingInv(s, lag[n])
      BY <1>3, <2>1, SuccessKeepsNodeInv, OutcomeKeepsReading
    <2>3. state' = [state EXCEPT ![n] = s]
      BY <1>5 DEF NoteSuccess, record_success
    <2> HIDE DEF s
    <2> QED BY <1>2, <1>3, <2>2, <2>3, NodeStepInv DEF NoteSuccess
  <1> QED BY <1>4, <1>5

LEMMA NoteFailureInv ==
    ASSUME ClientInv, NEW c \in Callers, NoteFailure(c)
    PROVE  ClientInv'
  <1> DEFINE q == caller[c]
             r == [q EXCEPT !.pc = "choosing", !.since = 0, !.failures[q.node] = @ + 1]
             n == q.node
  <1>1. q \in CallerRecord /\ "choosing" \in PcValues
    BY DEF ClientInv, CallerInv, PcValues, LocalSteps
  <1>2. n \in Nodes /\ q.method \in Methods
    BY <1>1 DEF CallerRecord
  <1>3. r \in CallerRecord /\ r.pc = "choosing"
    <2>1. [q.failures EXCEPT ![q.node] = @ + 1] \in [Nodes -> Nat]
      BY <1>1 DEF CallerRecord
    <2>2. r = [q EXCEPT !.pc = "choosing", !.since = 0,
                        !.failures = [q.failures EXCEPT ![q.node] = @ + 1]]
      BY <1>1 DEF CallerRecord
    <2> DEFINE f == [q.failures EXCEPT ![q.node] = @ + 1]
    <2> HIDE DEF r, f, q
    <2> QED BY <1>1, <2>1, <2>2 DEF CallerRecord, f
  <1>4. CallerInv(r)
    <2> HIDE DEF r
    <2> QED BY <1>3 DEF CallerInv
  <1>5. Update(c, r)
    BY DEF NoteFailure
  <1>6. CASE ~HealthTracking
    BY <1>4, <1>5, <1>6, CallerStepInv DEF NoteFailure
  <1>7. CASE HealthTracking
    <2> DEFINE s == after_failure(state[n], q.method, now)
    <2>1. NodeInv(state[n]) /\ ReadingInv(state[n], lag[n]) /\ now \in Nat
      BY <1>2 DEF ClientInv, HealthInv
    <2>2. NodeInv(s) /\ ReadingInv(s, lag[n])
      BY <1>2, <2>1, FailureKeepsNodeInv, OutcomeKeepsReading
    <2>3. state' = [state EXCEPT ![n] = s]
      BY <1>7 DEF NoteFailure, record_failure
    <2> HIDE DEF s, r
    <2> QED BY <1>2, <1>4, <1>5, <2>2, <2>3, NodeStepInv DEF NoteFailure
  <1> QED BY <1>6, <1>7

(* The head is recorded now: at most a timeout after it was read. *)
LEMMA NoteHeadInv ==
    ASSUME ClientInv, NEW c \in Callers, NoteHead(c)
    PROVE  ClientInv'
  <1> DEFINE q == caller[c]
             n == q.node
  <1>1. q \in CallerRecord /\ InTime(q) /\ HeadInTransit(q) /\ "ok" \in PcValues
    BY DEF ClientInv, CallerInv, NoteHead, PcValues
  <1>2. n \in Nodes /\ q.head \in Nat /\ q.since \in Nat
    BY <1>1 DEF CallerRecord
  <1>3. CallerInv([q EXCEPT !.pc = "ok"])
    BY <1>1, MoveOnInv
  <1>4. CASE ~(HealthTracking /\ q.method = HeadMethod)
    BY <1>3, <1>4, CallerStepInv DEF NoteHead
  <1>5. CASE HealthTracking /\ q.method = HeadMethod
    <2> DEFINE s == [state[n] EXCEPT !.head_block = q.head, !.head_seen = now]
    <2>1. NodeInv(state[n]) /\ now \in Nat /\ now \in 0 .. now /\ ChainInv
      BY <1>2 DEF ClientInv, HealthInv
    <2> HIDE DEF n, q
    <2>2. NodeInv(s)
      BY <1>2, <2>1, ObserveKeepsNodeInv
    <2>3. s.head_block = q.head /\ s.head_seen = now
      BY <2>1 DEF NodeInv, NodeState
    <2>4. ReadingInv(s, lag[n])
      <3> DEFINE X == chain_head * B
                 h == q.head * B + lag[q.node] * B
      <3>1. X \in Int /\ Position = X + since_block /\ since_block \in 0 .. B - 1
        BY <2>1, Units DEF ChainInv, Position
      <3>2. q.head * B \in Int /\ lag[n] * B \in Int /\ h \in Int /\ n = q.node
        <4>1. q.head \in Int /\ lag[n] \in Int /\ B \in Int
          BY <1>2, <2>1, Units DEF ChainInv
        <4>2. q.head * B \in Int /\ lag[n] * B \in Int
          BY <4>1, ProductInt
        <4> QED BY <4>2 DEF n
      <3>3. Position - (now - q.since) - (B - 1) <= h /\ h <= Position
        BY <1>1 DEF HeadInTransit
      <3>4. now - q.since <= timeout
        BY <1>1, <1>2, <2>1, Units DEF InTime
      <3>5. s.head_block * B + (now - s.head_seen) + lag[n] * B = h
        <4> HIDE DEF s
        <4> QED BY <2>1, <2>3, <3>2
      <3> HIDE DEF s, X, h
      <3> QED BY <1>2, <2>1, <2>3, <3>1, <3>2, <3>3, <3>4, <3>5, Units DEF ReadingInv
    <2>5. state' = [state EXCEPT ![n] = s]
      BY <1>5, <2>1 DEF NoteHead, observe_head_block, ClientInv, HealthInv, n, q
    <2> HIDE DEF s
    <2> QED BY <1>2, <1>3, <2>2, <2>4, <2>5, NodeStepInv DEF NoteHead, q
  <1> QED BY <1>4, <1>5

(* Every sleep is a length of time; its cap bounds it. *)
LEMMA BackoffNat ==
    ASSUME NEW p \in Nat \ {0} PROVE backoff(p) \in Nat
  <1>1. AtMost(p - 1, 6) \in 0 .. 6
    BY DEF AtMost
  <1>2. \A k \in 0 .. 6 : shifted(k) \in Nat
    BY DEF shifted
  <1>3. initial_backoff * shifted(AtMost(p - 1, 6)) \in Nat
    BY <1>1, <1>2, ClientAssumption DEF ClientAssumption
  <1> QED BY <1>3, ClientAssumption DEF ClientAssumption, backoff, AtMost

(* The steps between attempts, and the ends of a call. *)
LEMMA BetweenAttemptsInv ==
    ASSUME ClientInv, NEW c \in Callers,
           Backoff(c) \/ Retry(c) \/ GiveUp(c) \/ Return(c)
    PROVE  ClientInv'
  <1> DEFINE q == caller[c]
  <1>1. q \in CallerRecord /\ now \in Nat
    BY DEF ClientInv, CallerInv, HealthInv
  <1>2. CASE Backoff(c)
    <2> DEFINE wait == backoff(q.pass + 1)
               r == [q EXCEPT !.pc = "sleeping", !.since = now + wait]
    <2>1. wait \in Nat
      BY <1>1, <1>2, BackoffNat DEF CallerRecord
    <2>2. r \in CallerRecord /\ r.pc = "sleeping"
      <3>1. "sleeping" \in PcValues /\ now + wait \in Nat
        BY <1>1, <2>1 DEF PcValues
      <3> HIDE DEF wait
      <3> QED BY <1>1, <3>1 DEF CallerRecord
    <2>3. CallerInv(r)
      <3> HIDE DEF r
      <3> QED BY <2>2 DEF CallerInv
    <2> QED BY <1>2, <2>3, CallerStepInv DEF Backoff
  <1>3. CASE Retry(c)
    <2>1. q.pass + 1 \in Nat
      BY <1>1 DEF CallerRecord
    <2>2. CallerInv(BeginPass(q, q.pass + 1))
      BY <1>1, <2>1, BeginPassInv
    <2> QED BY <1>3, <2>2, CallerStepInv DEF Retry
  <1>4. CASE GiveUp(c)
    <2>1. CallerInv([q EXCEPT !.pc = "err"])
      BY MoveOnInv DEF PcValues
    <2> QED BY <1>4, <2>1, CallerStepInv DEF GiveUp
  <1>5. CASE Return(c)
    BY <1>5, IdleCallerInv, CallerStepInv DEF Return
  <1> QED BY <1>2, <1>3, <1>4, <1>5

LEMMA CallInv ==
    ASSUME ClientInv, NEW c \in Callers, NEW m \in Methods, Call(c, m)
    PROVE  ClientInv'
  <1> DEFINE r == [IdleCaller EXCEPT !.method = m, !.started = now]
  <1>1. now \in Nat /\ IdleCaller \in CallerRecord
    BY IdleCallerInv DEF ClientInv, HealthInv, CallerInv
  <1>2. r \in CallerRecord
    BY <1>1 DEF CallerRecord
  <1>3. CallerInv(BeginPass(r, 0))
    BY <1>2, BeginPassInv
  <1> QED BY <1>3, CallerStepInv DEF Call

(* A tick moves the chain and the age of every reading on by one tick.     *)
LEMMA ClientTickInv ==
    ASSUME ClientInv, ClientTick
    PROVE  ClientInv'
  <1>1. now \in Nat /\ now' = now + 1 /\ ChainInv
    BY DEF ClientInv, HealthInv, ClientTick
  <1>2. ChainInv'
    <2>1. CASE since_block + 1 = B
      BY <1>1, <2>1, Units DEF ClientTick, ChainInv, B
    <2>2. CASE since_block + 1 # B
      BY <1>1, <2>2, Units DEF ClientTick, ChainInv, B
    <2> QED BY <2>1, <2>2
  <1>3. Position \in Int /\ Position' = Position + 1
    <2>1. chain_head \in Int /\ since_block \in Int /\ B \in Int /\ B' = B
      BY <1>1, Units DEF ChainInv, B
    <2>2. chain_head * B \in Int /\ (chain_head + 1) * B = chain_head * B + B
      BY <2>1, ProductInt, NextMultiple
    <2>3. CASE since_block + 1 = B
      BY <2>1, <2>2, <2>3 DEF ClientTick, Position, B
    <2>4. CASE since_block + 1 # B
      BY <2>1, <2>2, <2>4 DEF ClientTick, Position, B
    <2> QED BY <2>1, <2>2, <2>3, <2>4 DEF Position
  <1>4. HealthInv'
    <2>1. Tick \/ (now' = now + 1 /\ UNCHANGED state)
      BY DEF ClientTick
    <2>2. \A k \in Nodes : NodeExpires(state[k])'
      BY <1>1, <2>1, PolicyAssumption
         DEF ClientInv, HealthInv, NodeInv, NodeState, NodeExpires, PolicyAssumption, ClientTick
    <2>3. \A k \in Nodes : NodeInv(state[k])'
      BY <2>2 DEF ClientTick, ClientInv, HealthInv, NodeInv, NodeBroadlyBroken, NodeCounted
    <2> QED BY <1>1, <2>3 DEF ClientTick, ClientInv, HealthInv
  <1>5. \A d \in Callers : CallerInv(caller[d])'
    <2> SUFFICES ASSUME NEW d \in Callers PROVE CallerInv(caller[d])'
      OBVIOUS
    <2> DEFINE q == caller[d]
    <2>1. CallerInv(q) /\ q' = q /\ q \in CallerRecord
      BY DEF ClientInv, ClientTick, CallerInv
    <2>2. q.pc \notin {"answered", "noted"}
      BY DEF ClientTick, Overdue, LocalSteps
    <2>3. q.pc \in {"waiting", "served"} => InTime(q)'
      <3>1. ASSUME q.pc \in {"waiting", "served"}
            PROVE  q.since <= now /\ now < q.since + timeout
        <4>1. ~(now >= q.since + timeout)
          BY <3>1 DEF ClientTick, Overdue, InFlight
        <4>2. InTime(q)
          BY <2>1, <3>1 DEF CallerInv
        <4>3. q.since \in Nat
          BY <2>1 DEF CallerRecord
        <4> HIDE DEF q
        <4> QED BY <1>1, <4>1, <4>2, <4>3, Units DEF InTime
      <3>2. q.since \in Nat
        BY <2>1 DEF CallerRecord
      <3> HIDE DEF q
      <3> QED BY <1>1, <2>1, <3>1, <3>2, Units DEF InTime
    <2>4. q.pc = "served" => HeadInTransit(q)'
      <3> SUFFICES ASSUME q.pc = "served" PROVE HeadInTransit(q)'
        OBVIOUS
      <3> DEFINE h == q.head * B + lag[q.node] * B
      <3>1. Position - (now - q.since) - (B - 1) <= h /\ h <= Position
        BY <2>1 DEF CallerInv, HeadInTransit
      <3>2. h' = h
        BY <2>1 DEF ClientTick, B
      <3>3. q.since \in Nat /\ h \in Int /\ B' = B
        <4>0. q.head \in Nat /\ q.node \in Nodes /\ q.since \in Nat
          BY <2>1 DEF CallerRecord
        <4> HIDE DEF q
        <4>1. lag \in [Nodes -> Nat]
          BY <1>1 DEF ChainInv
        <4>2. lag[q.node] \in Nat
          BY <4>0, <4>1
        <4>3. q.head * B \in Int /\ lag[q.node] * B \in Int
          BY <4>0, <4>2, Units, ProductInt
        <4> QED BY <4>0, <4>3 DEF B
      <3> SUFFICES /\ Position' - (now' - q.since) - (B - 1) <= h
                   /\ h <= Position'
        BY <2>1, <3>2, <3>3 DEF HeadInTransit
      <3> HIDE DEF q, h
      <3> QED BY <1>1, <1>3, <3>1, <3>3, Units
    <2> HIDE DEF q
    <2>5. (q \in CallerRecord)'
      BY <2>1 DEF CallerRecord
    <2>6. CallerInv(q)'
      BY <2>1, <2>2, <2>3, <2>4, <2>5 DEF CallerInv
    <2> QED BY <2>6 DEF q
  <1>6. \A n \in Nodes : ReadingInv(state[n], lag[n])'
    <2> SUFFICES ASSUME NEW n \in Nodes, state[n].head_seen # Unobserved
                 PROVE  ReadingInv(state[n], lag[n])'
      BY DEF ReadingInv, ClientTick
    <2> DEFINE s == state[n]
               k == s.head_block * B
               l == lag[n] * B
    <2>1. /\ s.head_seen \in 0 .. now
          /\ Position - timeout - (B - 1) <= k + (now - s.head_seen) + l
          /\ k + (now - s.head_seen) + l <= Position
      BY DEF ClientInv, ReadingInv
    <2>2. k \in Int /\ l \in Int
      <3>1. s \in NodeState
        BY DEF ClientInv, HealthInv, NodeInv
      <3>2. s.head_block \in Int /\ lag[n] \in Int /\ B \in Int
        BY <1>1, <3>1, Units DEF NodeState, ChainInv
      <3> QED BY <3>2, ProductInt
    <2>3. s' = s /\ lag' = lag /\ B' = B /\ timeout' = timeout
      BY DEF ClientTick, B
    <2>4. /\ s.head_seen \in 0 .. now'
          /\ Position' - timeout - (B - 1) <= k + (now' - s.head_seen) + l
          /\ k + (now' - s.head_seen) + l <= Position'
      <3> HIDE DEF k, l, s
      <3> QED BY <1>1, <1>3, <2>1, <2>2, Units
    <2> QED BY <2>3, <2>4 DEF ReadingInv
  <1>7. (caller = [d \in Callers |-> caller[d]])'
    BY DEF ClientInv, ClientTick
  <1> QED BY <1>2, <1>4, <1>5, <1>6, <1>7 DEF ClientInv


(* Every step keeps the invariant. *)
LEMMA ClientInvStep ==
    ASSUME ClientInv, [ClientNext]_client_vars
    PROVE  ClientInv'
  <1>1. CASE ClientTick
    BY <1>1, ClientTickInv
  <1>2. ASSUME NEW c \in Callers, NEW m \in Methods, Call(c, m) PROVE ClientInv'
    BY <1>2, CallInv
  <1>3. ASSUME NEW c \in Callers, CallStep(c) PROVE ClientInv'
    BY <1>3, SendInv, ServeInv, AnswerInv, FailInv, NoteSuccessInv, NoteHeadInv,
       NoteFailureInv, BetweenAttemptsInv DEF CallStep
  <1>4. ASSUME NEW c \in Callers, Return(c) PROVE ClientInv'
    BY <1>4, BetweenAttemptsInv
  <1>5. CASE UNCHANGED client_vars
    <2>1. HealthInv'
      BY <1>5 DEF client_vars, ClientInv, HealthInv, NodeInv, NodeBroadlyBroken,
                  NodeCounted, NodeExpires
    <2>2. ChainInv' /\ (caller = [c \in Callers |-> caller[c]])'
      BY <1>5 DEF client_vars, ClientInv, ChainInv
    <2>3. \A c \in Callers : CallerInv(caller[c])'
      BY <1>5 DEF client_vars, ClientInv, CallerInv, InTime, HeadInTransit, Position
    <2>4. \A n \in Nodes : ReadingInv(state[n], lag[n])'
      BY <1>5 DEF client_vars, ClientInv, ReadingInv, Position
    <2> QED BY <2>1, <2>2, <2>3, <2>4 DEF ClientInv
  <1> QED BY <1>1, <1>2, <1>3, <1>4, <1>5 DEF ClientNext

LEMMA ClientInvInit == ClientInit => ClientInv
  <1> SUFFICES ASSUME ClientInit PROVE ClientInv
    OBVIOUS
  <1>1. HealthInv
    BY FreshNodeInv DEF ClientInit, HealthInit, HealthInv
  <1>2. ChainInv
    BY ClientAssumption, Units DEF ClientInit, ChainInv, ClientAssumption, B
  <1>3. \A c \in Callers : CallerInv(caller[c])
    BY IdleCallerInv DEF ClientInit
  <1>4. \A n \in Nodes : ReadingInv(state[n], lag[n])
    BY DEF ClientInit, HealthInit, ReadingInv, FreshNode
  <1> QED BY <1>1, <1>2, <1>3, <1>4 DEF ClientInv, ClientInit

(* ClientInv holds in every state of every behaviour. *)
THEOREM ClientInvariant == ClientSafety => []ClientInv
  <1>1. ClientInv /\ [ClientNext]_client_vars => ClientInv'
    BY ClientInvStep
  <1> QED BY <1>1, ClientInvInit, PTL DEF ClientSafety

-----------------------------------------------------------------------------
(* Whole division is monotone, and exact where it has to be. *)
LEMMA DivMonotone ==
    ASSUME NEW x \in Nat, NEW y \in Nat, x <= y, NEW z \in Nat \ {0}
    PROVE  x \div z <= y \div z
  OBVIOUS

LEMMA DivLower ==
    ASSUME NEW x \in Nat, NEW k \in Nat, NEW z \in Nat \ {0}, k * z <= x
    PROVE  k <= x \div z
  OBVIOUS

LEMMA DivUpper ==
    ASSUME NEW x \in Nat, NEW z \in Nat \ {0}
    PROVE  /\ (x + z - 1) \div z \in Nat
           /\ x <= ((x + z - 1) \div z) * z
  OBVIOUS

LEMMA ProductNat ==
    ASSUME NEW x \in Nat, NEW y \in Nat PROVE x * y \in Nat
  OBVIOUS

LEMMA ProductMonotone ==
    ASSUME NEW x \in Nat, NEW y \in Nat, x <= y, NEW z \in Nat
    PROVE  x * z <= y * z
  OBVIOUS

LEMMA ThreeTerms ==
    ASSUME NEW x \in Nat, NEW y \in Nat, NEW z \in Nat
    PROVE  (x + y + 2) * z = (x + 1) * z + y * z + z
  OBVIOUS

(* What the tracker compares, for a node that has been heard from. *)
LEMMA ProjectionBounds ==
    ASSUME ClientInv, NEW n \in Nodes, fresh_head(state[n], now)
    PROVE  /\ projected(state[n], now) \in Int /\ lag[n] * B \in Nat
           /\ Position - timeout - (B - 1) <= projected(state[n], now) + lag[n] * B
           /\ projected(state[n], now) + lag[n] * B <= Position
  <1> DEFINE s == state[n]
             k == s.head_block * B
             l == lag[n] * B
  <1>1. s \in NodeState /\ now \in Nat /\ ChainInv
    BY DEF ClientInv, HealthInv, NodeInv
  <1>2. /\ s.head_seen \in 0 .. now
        /\ Position - timeout - (B - 1) <= k + (now - s.head_seen) + l
        /\ k + (now - s.head_seen) + l <= Position
    BY DEF ClientInv, ReadingInv, fresh_head
  <1>3. k \in Int /\ l \in Nat
    BY <1>1, Units DEF NodeState, ChainInv
  <1>4. Age(s, now) = now - s.head_seen
    <2> HIDE DEF s
    <2> QED BY <1>1, <1>2 DEF Age
  <1>5. projected(s, now) = k + (now - s.head_seen)
    BY <1>4, Units, ClientAssumption DEF projected, project, B, ClientAssumption
  <1> HIDE DEF s, k, l
  <1>6. projected(s, now) \in Int /\ projected(s, now) + l = k + (now - s.head_seen) + l
    BY <1>1, <1>2, <1>3, <1>5
  <1> QED BY <1>1, <1>2, <1>3, <1>6 DEF s, l

(* A node in sync with the chain is never judged stale, for any number of  *)
(* nodes and callers, any latency up to the timeout and any phase of block *)
(* production, as long as the policy's threshold covers the timeout.       *)
THEOREM InSyncNodesStay == ClientSafety => []InSyncNeverDemoted
  <1>1. ClientInv => InSyncNeverDemoted
    <2> SUFFICES ASSUME ClientInv, Delayed(timeout) <= stale_block_threshold,
                        NEW n \in Nodes, lag[n] = 0, is_stale(n, now)
                 PROVE  FALSE
      BY DEF InSyncNeverDemoted
    <2>1. PICK b \in Nodes :
             /\ IsBest(b, now)
             /\ blocks_behind(projected(state[b], now), projected(state[n], now))
                    > stale_block_threshold
      BY DEF is_stale
    <2> DEFINE best == projected(state[b], now)
               mine == projected(state[n], now)
    <2>2. fresh_head(state[b], now) /\ fresh_head(state[n], now)
      BY <2>1 DEF IsBest, is_stale
    <2>3. Position \in Int
      BY Units, ProductInt DEF ClientInv, ChainInv, Position
    <2>4. best \in Int /\ best <= Position
      <3>1. best \in Int /\ lag[b] * B \in Nat /\ best + lag[b] * B <= Position
        BY <2>2, ProjectionBounds
      <3> HIDE DEF best
      <3> QED BY <2>3, <3>1
    <2>5. mine \in Int /\ Position - timeout - (B - 1) <= mine
      <3>1. /\ mine \in Int /\ lag[n] * B = 0
            /\ Position - timeout - (B - 1) <= mine + lag[n] * B
        BY <2>2, ProjectionBounds, Units
      <3> HIDE DEF mine
      <3> QED BY <3>1
    <2>6. blocks_behind(best, mine) > stale_block_threshold
      BY <2>1
    <2> HIDE DEF best, mine
    <2>7. CASE best > mine
      <3>1. best - mine \in Nat /\ best - mine <= timeout + B - 1
        BY <2>3, <2>4, <2>5, <2>7, Units
      <3>2. (best - mine) \div B <= (timeout + B - 1) \div B
        BY <3>1, Units, DivMonotone
      <3> QED BY <2>6, <2>7, <3>1, <3>2, Units DEF blocks_behind, Delayed, B
    <2>8. CASE ~(best > mine)
      BY <2>6, <2>8, Units DEF blocks_behind
    <2> QED BY <2>7, <2>8
  <1> QED BY <1>1, ClientInvariant, PTL


(* Some fresh projection is the highest: none is ahead of the chain. *)
LEMMA BestExists ==
    ASSUME ClientInv, NEW k \in Nodes, fresh_head(state[k], now)
    PROVE  \E b \in Nodes : IsBest(b, now)
  <1> DEFINE P(n) == projected(state[n], now)
             fresh == {n \in Nodes : fresh_head(state[n], now)}
             room == {Position - P(n) : n \in fresh}
  <1>1. \A n \in fresh : P(n) \in Int /\ P(n) <= Position /\ Position \in Int
    <2> SUFFICES ASSUME NEW n \in fresh
                 PROVE  P(n) \in Int /\ P(n) <= Position /\ Position \in Int
      OBVIOUS
    <2>1. Position \in Int
      BY Units, ProductInt DEF ClientInv, ChainInv, Position
    <2>2. P(n) \in Int /\ lag[n] * B \in Nat /\ P(n) + lag[n] * B <= Position
      BY ProjectionBounds
    <2> HIDE DEF P
    <2> QED BY <2>1, <2>2
  <1>2. room \in SUBSET Nat /\ room # {}
    <2>1. k \in fresh
      OBVIOUS
    <2> HIDE DEF P, fresh
    <2> QED BY <1>1, <2>1
  <1>3. PICK least \in room : \A y \in room : least <= y
    <2> HIDE DEF room
    <2> QED BY <1>2, LeastNatural
  <1>4. PICK b \in fresh : least = Position - P(b)
    OBVIOUS
  <1>5. \A n \in fresh : P(n) <= P(b)
    <2> SUFFICES ASSUME NEW n \in fresh PROVE P(n) <= P(b)
      OBVIOUS
    <2>1. Position - P(n) \in room
      OBVIOUS
    <2>2. Position - P(b) <= Position - P(n)
      BY <1>3, <1>4, <2>1
    <2>3. P(n) \in Int /\ P(b) \in Int /\ Position \in Int
      BY <1>1
    <2> HIDE DEF P
    <2> QED BY <2>2, <2>3
  <1> QED BY <1>4, <1>5 DEF IsBest

(* A node that lags by more than the threshold, the delay of an answer and *)
(* the block in progress is judged stale as soon as a node in sync is      *)
(* known, for every number of nodes and callers.                           *)
THEOREM LaggardsAreCaught == ClientSafety => []LaggardIsCaught
  <1>1. ClientInv => LaggardIsCaught
    <2> SUFFICES ASSUME ClientInv, NEW n \in Nodes, NEW k \in Nodes,
                        lag[n] > stale_block_threshold + Delayed(timeout) + 1,
                        fresh_head(state[n], now),
                        lag[k] = 0, fresh_head(state[k], now)
                 PROVE  is_stale(n, now)
      BY DEF LaggardIsCaught
    <2>1. PICK b \in Nodes : IsBest(b, now)
      BY BestExists
    <2> DEFINE best == projected(state[b], now)
               near == projected(state[k], now)
               mine == projected(state[n], now)
               late == lag[n] * B
               D    == Delayed(timeout)
    <2>2. Position \in Int /\ lag[n] \in Nat
      BY Units, ProductInt DEF ClientInv, ChainInv, Position
    <2>3. best \in Int /\ near <= best
      <3>1. fresh_head(state[b], now) /\ near <= best
        BY <2>1 DEF IsBest
      <3> QED BY <3>1, ProjectionBounds
    <2>4. near \in Int /\ Position - timeout - (B - 1) <= near
      <3>1. /\ near \in Int /\ lag[k] * B = 0
            /\ Position - timeout - (B - 1) <= near + lag[k] * B
        BY ProjectionBounds, Units
      <3> HIDE DEF near
      <3> QED BY <3>1
    <2>5. mine \in Int /\ late \in Nat /\ mine + late <= Position
      BY ProjectionBounds
    <2>6. D \in Nat /\ timeout <= D * B
      BY Units, DivUpper DEF Delayed, B
    <2>7. (stale_block_threshold + 1) * B + D * B + B <= late
      <3> DEFINE K == stale_block_threshold + D + 2
      <3>1. K \in Nat /\ K <= lag[n]
        BY <2>2, <2>6, Units
      <3>2. K * B <= lag[n] * B
        BY <2>2, <3>1, Units, ProductMonotone
      <3>3. K * B = (stale_block_threshold + 1) * B + D * B + B
        <4> HIDE DEF D
        <4> QED BY <2>6, Units, ThreeTerms
      <3> QED BY <3>2, <3>3
    <2>8. (stale_block_threshold + 1) * B \in Nat /\ D * B \in Nat
      BY <2>6, Units, ProductNat
    <2> HIDE DEF best, near, mine, late, D
    <2> DEFINE T == (stale_block_threshold + 1) * B
               Q == D * B
    <2>9. best - mine \in Nat /\ best > mine /\ T <= best - mine
      <3>1. T + Q + B <= late /\ T \in Nat /\ Q \in Nat /\ timeout <= Q
        BY <2>6, <2>7, <2>8
      <3> HIDE DEF T, Q
      <3> QED BY <2>2, <2>3, <2>4, <2>5, <3>1, Units
    <2>10. stale_block_threshold + 1 <= (best - mine) \div B
      BY <2>9, Units, DivLower
    <2>11. blocks_behind(best, mine) > stale_block_threshold
      <3>1. blocks_behind(best, mine) = (best - mine) \div B
        BY <2>9, Units DEF blocks_behind
      <3>2. (best - mine) \div B \in Int
        BY <2>9, Units
      <3> QED BY <2>10, <3>1, <3>2, Units
    <2> QED BY <2>1, <2>11 DEF is_stale, best, mine
  <1> QED BY <1>1, ClientInvariant, PTL

-----------------------------------------------------------------------------
(* The calls.  What the tracker holds only decides the order of the nodes, *)
(* so little of it is needed here. *)

(* A node has been asked and its outcome is not among the failures. *)
Attempting == InFlight \cup {"answered", "noted", "failed", "ok"}

Trying(r, n) == r.pc \in Attempting /\ n = r.node

(* Where a call is in its passes: what it has counted against each node,   *)
(* and which passes may still follow.                                      *)
AttemptsInv(r) ==
    /\ r.pass < passes /\ r.tiers \in [Nodes -> 0 .. 3]
    /\ r.pc = "idle" => r.failures = [n \in Nodes |-> 0]
    /\ r.pc # "idle" => \A n \in Nodes :
         r.failures[n] = IF n \in r.left \/ Trying(r, n) THEN r.pass ELSE r.pass + 1
    /\ r.pc \in Attempting => r.node \notin r.left
    /\ r.pc \in {"sleeping", "err"} => r.left = {}
    /\ r.pc = "sleeping" => r.pass + 1 < passes
    /\ r.pc = "err" => r.pass + 1 = passes

(* The longest a pass and the sleep after it can take, and the latest a    *)
(* call can be at once it has gone to all nodes but `left' of a pass.      *)
PassCost == NodeCount * timeout + BackoffCap

Latest(started, pass, left) ==
    started + pass * PassCost + Cardinality(Nodes \ left) * timeout

(* Where a call is in time. *)
TimeInv(r, t) ==
    /\ r.pc \in LocalSteps \cup {"ok", "err"} => t <= Latest(r.started, r.pass, r.left)
    /\ r.pc \in InFlight =>
         /\ t <= r.since + timeout
         /\ r.since + timeout <= Latest(r.started, r.pass, r.left)
    /\ r.pc = "sleeping" =>
         t <= r.since /\ r.since <= r.started + (r.pass + 1) * PassCost

(* The inductive invariant of the calls, beside ClientInv. *)
CallsInv ==
    /\ ClientInv
    /\ calls \in [Callers -> 0 .. MaxCalls]
    /\ \A c \in Callers : AttemptsInv(caller[c]) /\ TimeInv(caller[c], now)

-----------------------------------------------------------------------------
(* Counting the nodes of a pass. *)
LEMMA NodesCounted == IsFiniteSet(Nodes) /\ Cardinality(Nodes) = NodeCount
  <1>1. NodeCount \in Nat \ {0}
    BY PolicyAssumption DEF PolicyAssumption
  <1>2. 0 \in Int /\ NodeCount - 1 \in Int /\ ~(0 > NodeCount - 1)
    BY <1>1
  <1>3. /\ IsFiniteSet(0 .. NodeCount - 1)
        /\ Cardinality(0 .. NodeCount - 1) =
             IF 0 > NodeCount - 1 THEN 0 ELSE (NodeCount - 1) - 0 + 1
    BY <1>2, FS_Interval
  <1> QED BY <1>1, <1>2, <1>3 DEF Nodes

LEMMA TriedCounted ==
    ASSUME NEW left \in SUBSET Nodes
    PROVE  /\ Cardinality(Nodes \ left) \in Nat
           /\ Cardinality(Nodes \ left) <= NodeCount
  <1>1. Nodes \ left \in SUBSET Nodes
    OBVIOUS
  <1>2. IsFiniteSet(Nodes \ left) /\ Cardinality(Nodes \ left) <= Cardinality(Nodes)
    BY <1>1, NodesCounted, FS_Subset
  <1> QED BY <1>2, NodesCounted, FS_CardinalityType

LEMMA NoneTried == Cardinality(Nodes \ Nodes) = 0
  <1>1. Nodes \ Nodes = {}
    OBVIOUS
  <1> QED BY <1>1, FS_EmptySet

LEMMA AllTried == Cardinality(Nodes \ {}) = NodeCount
  <1>1. Nodes \ {} = Nodes
    OBVIOUS
  <1> QED BY <1>1, NodesCounted

LEMMA OneMoreTried ==
    ASSUME NEW left \in SUBSET Nodes, NEW n \in left
    PROVE  Cardinality(Nodes \ (left \ {n})) = Cardinality(Nodes \ left) + 1
  <1>1. IsFiniteSet(Nodes \ left)
    BY NodesCounted, FS_Subset
  <1>2. Nodes \ (left \ {n}) = (Nodes \ left) \cup {n} /\ n \notin Nodes \ left
    OBVIOUS
  <1> QED BY <1>1, <1>2, FS_AddElement

-----------------------------------------------------------------------------
(* The arithmetic of a pass. *)
LEMMA Costs ==
    /\ passes \in Nat \ {0} /\ NodeCount \in Nat /\ timeout \in Nat /\ BackoffCap \in Nat
    /\ NodeCount * timeout \in Nat /\ PassCost \in Nat
    /\ PassCost = NodeCount * timeout + BackoffCap
  <1>1. passes \in Nat \ {0} /\ NodeCount \in Nat /\ timeout \in Nat /\ BackoffCap \in Nat
    BY ClientAssumption, PolicyAssumption DEF ClientAssumption, PolicyAssumption
  <1>2. NodeCount * timeout \in Nat
    BY <1>1, ProductNat
  <1> QED BY <1>1, <1>2 DEF PassCost

LEMMA LatestNat ==
    ASSUME NEW started \in Nat, NEW pass \in Nat, NEW left \in SUBSET Nodes
    PROVE  /\ Latest(started, pass, left) \in Nat
           /\ pass * PassCost \in Nat
  <1>1. pass * PassCost \in Nat /\ Cardinality(Nodes \ left) * timeout \in Nat
    BY Costs, TriedCounted, ProductNat
  <1> DEFINE X == pass * PassCost
             Y == Cardinality(Nodes \ left) * timeout
  <1> HIDE DEF X, Y
  <1>2. Latest(started, pass, left) = started + X + Y /\ X \in Nat /\ Y \in Nat
    BY <1>1 DEF Latest, X, Y
  <1> QED BY <1>1, <1>2

LEMMA LatestNone ==
    ASSUME NEW started \in Nat, NEW pass \in Nat
    PROVE  Latest(started, pass, Nodes) = started + pass * PassCost
  <1>1. Cardinality(Nodes \ Nodes) * timeout = 0
    BY NoneTried, Costs
  <1>2. pass * PassCost \in Nat
    BY Costs, ProductNat
  <1> DEFINE X == pass * PassCost
             Y == Cardinality(Nodes \ Nodes) * timeout
  <1> HIDE DEF X, Y
  <1>3. Latest(started, pass, Nodes) = started + X + Y /\ X \in Nat /\ Y = 0
    BY <1>1, <1>2 DEF Latest, X, Y
  <1> QED BY <1>3 DEF X

LEMMA LatestAll ==
    ASSUME NEW started \in Nat, NEW pass \in Nat
    PROVE  Latest(started, pass, {}) + BackoffCap = started + (pass + 1) * PassCost
  <1> DEFINE X == pass * PassCost
             Z == NodeCount * timeout
  <1>1. X \in Nat /\ Z \in Nat /\ PassCost = Z + BackoffCap /\ BackoffCap \in Nat
    BY Costs, ProductNat
  <1>2. (pass + 1) * PassCost = X + PassCost
    BY Costs, NextMultiple
  <1>3. Latest(started, pass, {}) = started + X + Z
    BY AllTried DEF Latest
  <1> HIDE DEF X, Z
  <1> QED BY <1>1, <1>2, <1>3

LEMMA LatestNext ==
    ASSUME NEW started \in Nat, NEW pass \in Nat, NEW left \in SUBSET Nodes, NEW n \in left
    PROVE  Latest(started, pass, left \ {n}) = Latest(started, pass, left) + timeout
  <1> DEFINE k == Cardinality(Nodes \ left)
             X == pass * PassCost
             Y == k * timeout
  <1>1. k \in Nat /\ timeout \in Nat /\ X \in Nat
    BY TriedCounted, Costs, ProductNat
  <1>2. Y \in Nat
    BY <1>1, ProductNat
  <1>3. (k + 1) * timeout = Y + timeout
    BY <1>1, NextMultiple
  <1>4. /\ Latest(started, pass, left) = started + X + Y
        /\ Latest(started, pass, left \ {n}) = started + X + (k + 1) * timeout
    BY OneMoreTried DEF Latest
  <1> HIDE DEF k, X, Y
  <1> QED BY <1>1, <1>2, <1>3, <1>4

(* A call that is still within its passes is within its budget. *)
LEMMA LatestInBudget ==
    ASSUME NEW started \in Nat, NEW pass \in Nat, pass < passes, NEW left \in SUBSET Nodes
    PROVE  Latest(started, pass, left) <= started + Budget
  <1> DEFINE Z == NodeCount * timeout
             k == Cardinality(Nodes \ left)
             X == pass * PassCost
             Y == k * timeout
             P == passes - 1
  <1>1. /\ Z \in Nat /\ k \in Nat /\ k <= NodeCount /\ P \in Nat /\ pass <= P
        /\ PassCost \in Nat /\ timeout \in Nat /\ NodeCount \in Nat /\ BackoffCap \in Nat
    BY Costs, TriedCounted
  <1>2. X \in Nat /\ Y \in Nat /\ P * PassCost \in Nat
    BY <1>1, ProductNat
  <1>3. X <= P * PassCost
    BY <1>1, ProductMonotone
  <1>4. Y <= Z
    BY <1>1, ProductMonotone
  <1>5. P * PassCost = P * Z + P * BackoffCap
    BY <1>1, Costs
  <1>6. passes * Z = P * Z + Z
    <2>1. passes = P + 1
      BY Costs
    <2> QED BY <1>1, <2>1, NextMultiple
  <1>7. Budget = passes * Z + P * BackoffCap
    <2>1. passes * NodeCount * timeout = passes * Z
      BY Costs
    <2> QED BY <2>1 DEF Budget
  <1>8. Latest(started, pass, left) = started + X + Y
    BY DEF Latest
  <1>9. P * Z \in Nat /\ P * BackoffCap \in Nat
    BY <1>1, ProductNat
  <1> DEFINE PZ == P * Z
             PB == P * BackoffCap
             PP == P * PassCost
  <1>10. /\ PP = PZ + PB /\ X <= PP /\ Y <= Z /\ Budget = PZ + Z + PB
         /\ PZ \in Nat /\ PB \in Nat /\ PP \in Nat
    <2> HIDE DEF Z, k, X, Y, P
    <2>1. passes * Z = PZ + Z
      BY <1>6
    <2>2. passes * Z \in Nat
      BY <2>1, <1>1, <1>9
    <2> QED BY <1>1, <1>2, <1>3, <1>4, <1>5, <1>7, <1>9, <2>1
  <1> HIDE DEF Z, k, X, Y, P, PZ, PB, PP
  <1> QED BY <1>1, <1>2, <1>8, <1>10

-----------------------------------------------------------------------------
(* The steps of one call, by what they change of its locals. *)
LEMMA CallOrderTiers ==
    ASSUME NEW m PROVE call_order(m) \in [Nodes -> 0 .. 3]
  <1>1. \A n \in Nodes : Tier(n, m, now) \in 0 .. 3
    BY DEF Tier
  <1> QED BY <1>1 DEF call_order, order

(* A step to a local step or an end, with the attempt still the same one.  *)
LEMMA SameAttempt ==
    ASSUME NEW q \in CallerRecord, NEW t \in Nat, AttemptsInv(q), TimeInv(q, t),
           q.pc \in Attempting \ {"ok"},
           NEW r \in CallerRecord, r.pc \in {"answered", "noted", "failed", "ok"},
           r.pass = q.pass, r.tiers = q.tiers, r.left = q.left, r.node = q.node,
           r.failures = q.failures, r.started = q.started
    PROVE  AttemptsInv(r) /\ TimeInv(r, t)
  <1>1. AttemptsInv(r)
    BY DEF AttemptsInv, Trying, Attempting, InFlight
  <1>2. t <= Latest(q.started, q.pass, q.left)
    <2>1. CASE q.pc \in InFlight
      <3>1. /\ Latest(q.started, q.pass, q.left) \in Nat /\ q.since \in Nat
            /\ timeout \in Nat
        BY LatestNat, Costs DEF CallerRecord
      <3>2. t <= q.since + timeout /\ q.since + timeout <= Latest(q.started, q.pass, q.left)
        BY <2>1 DEF TimeInv
      <3> QED BY <3>1, <3>2
    <2>2. CASE q.pc \in {"answered", "noted", "failed"}
      BY <2>2 DEF TimeInv, LocalSteps
    <2> QED BY <2>1, <2>2 DEF Attempting
  <1>3. TimeInv(r, t)
    BY <1>2 DEF TimeInv, LocalSteps, InFlight
  <1> QED BY <1>1, <1>3

LEMMA ServeKeeps ==
    ASSUME NEW q \in CallerRecord, NEW t \in Nat, AttemptsInv(q), TimeInv(q, t),
           q.pc = "waiting", NEW h \in Nat
    PROVE  LET r == [q EXCEPT !.pc = "served", !.head = h]
           IN  AttemptsInv(r) /\ TimeInv(r, t)
  <1> DEFINE r == [q EXCEPT !.pc = "served", !.head = h]
  <1>1. /\ r.pc = "served" /\ r.pass = q.pass /\ r.tiers = q.tiers /\ r.left = q.left
        /\ r.node = q.node /\ r.failures = q.failures /\ r.started = q.started
        /\ r.since = q.since
    BY DEF CallerRecord
  <1> HIDE DEF r
  <1>2. AttemptsInv(r)
    BY <1>1 DEF AttemptsInv, Trying, Attempting, InFlight
  <1>3. TimeInv(r, t)
    BY <1>1 DEF TimeInv, LocalSteps, InFlight
  <1> QED BY <1>2, <1>3 DEF r

LEMMA SendKeeps ==
    ASSUME NEW q \in CallerRecord, NEW t \in Nat, AttemptsInv(q), TimeInv(q, t),
           q.pc = "choosing", NEW n \in q.left
    PROVE  LET r == [q EXCEPT !.pc = "waiting", !.node = n, !.left = @ \ {n}, !.since = t]
           IN  AttemptsInv(r) /\ TimeInv(r, t)
  <1> DEFINE r == [q EXCEPT !.pc = "waiting", !.node = n, !.left = @ \ {n}, !.since = t]
  <1>1. /\ r.pc = "waiting" /\ r.pass = q.pass /\ r.tiers = q.tiers
        /\ r.left = q.left \ {n} /\ r.node = n /\ r.failures = q.failures
        /\ r.started = q.started /\ r.since = t
    BY DEF CallerRecord
  <1>2. q.left \in SUBSET Nodes /\ q.started \in Nat /\ q.pass \in Nat /\ timeout \in Nat
    BY Costs DEF CallerRecord
  <1> HIDE DEF r
  <1>3. AttemptsInv(r)
    <2>1. \A k \in Nodes : (k \in r.left \/ Trying(r, k)) <=> (k \in q.left \/ Trying(q, k))
      BY <1>1, <1>2 DEF Trying, Attempting, InFlight
    <2>2. \A k \in Nodes :
            r.failures[k] = IF k \in r.left \/ Trying(r, k) THEN r.pass ELSE r.pass + 1
      BY <1>1, <2>1 DEF AttemptsInv
    <2> QED BY <1>1, <2>2 DEF AttemptsInv, Attempting, InFlight
  <1>4. TimeInv(r, t)
    <2>1. Latest(r.started, r.pass, r.left) = Latest(q.started, q.pass, q.left) + timeout
      BY <1>1, <1>2, LatestNext
    <2>2. t <= Latest(q.started, q.pass, q.left) /\ Latest(q.started, q.pass, q.left) \in Nat
      BY <1>2, LatestNat DEF TimeInv, LocalSteps
    <2>3. t <= t + timeout /\ t + timeout <= Latest(r.started, r.pass, r.left)
      BY <1>2, <2>1, <2>2
    <2> QED BY <1>1, <2>3 DEF TimeInv, LocalSteps, InFlight
  <1> QED BY <1>3, <1>4 DEF r

LEMMA FailureKeeps ==
    ASSUME NEW q \in CallerRecord, NEW t \in Nat, AttemptsInv(q), TimeInv(q, t),
           q.pc = "failed"
    PROVE  LET r == [q EXCEPT !.pc = "choosing", !.since = 0, !.failures[q.node] = @ + 1]
           IN  AttemptsInv(r) /\ TimeInv(r, t)
  <1> DEFINE f == [q.failures EXCEPT ![q.node] = @ + 1]
             r == [q EXCEPT !.pc = "choosing", !.since = 0, !.failures[q.node] = @ + 1]
  <1>1. /\ r.pc = "choosing" /\ r.pass = q.pass /\ r.tiers = q.tiers /\ r.left = q.left
        /\ r.failures = f /\ r.started = q.started
    BY DEF CallerRecord
  <1>2. /\ q.failures \in [Nodes -> Nat] /\ q.node \in Nodes /\ q.node \notin q.left
        /\ q.failures[q.node] = q.pass
    BY DEF CallerRecord, AttemptsInv, Trying, Attempting
  <1> HIDE DEF r
  <1>3. AttemptsInv(r)
    <2>1. \A k \in Nodes : f[k] = IF k \in q.left THEN q.pass ELSE q.pass + 1
      <3> SUFFICES ASSUME NEW k \in Nodes
                   PROVE  f[k] = IF k \in q.left THEN q.pass ELSE q.pass + 1
        OBVIOUS
      <3>1. CASE k = q.node
        BY <1>2, <3>1
      <3>2. CASE k # q.node
        <4>1. f[k] = q.failures[k] /\ ~Trying(q, k)
          BY <1>2, <3>2 DEF Trying
        <4> QED BY <4>1 DEF AttemptsInv
      <3> QED BY <3>1, <3>2
    <2>2. \A k \in Nodes : ~Trying(r, k)
      BY <1>1 DEF Trying, Attempting, InFlight
    <2> HIDE DEF f
    <2> QED BY <1>1, <2>1, <2>2 DEF AttemptsInv, Attempting, InFlight
  <1>4. TimeInv(r, t)
    BY <1>1 DEF TimeInv, LocalSteps, InFlight
  <1> QED BY <1>3, <1>4 DEF r

LEMMA BackoffCapped ==
    ASSUME NEW p \in Nat \ {0}
    PROVE  backoff(p) \in Nat /\ backoff(p) <= BackoffCap
  <1>1. AtMost(p - 1, 6) \in 0 .. 6
    BY DEF AtMost
  <1>2. \A k \in 0 .. 6 : shifted(k) \in Nat
    BY DEF shifted
  <1>3. initial_backoff * shifted(AtMost(p - 1, 6)) \in Nat /\ BackoffCap \in Nat
    BY <1>1, <1>2, ClientAssumption DEF ClientAssumption
  <1> QED BY <1>3 DEF backoff, AtMost

LEMMA BackoffKeeps ==
    ASSUME NEW q \in CallerRecord, NEW t \in Nat, AttemptsInv(q), TimeInv(q, t),
           q.pc = "choosing", q.left = {}, q.pass + 1 < passes
    PROVE  LET r == [q EXCEPT !.pc = "sleeping", !.since = t + backoff(q.pass + 1)]
           IN  AttemptsInv(r) /\ TimeInv(r, t)
  <1> DEFINE wait == backoff(q.pass + 1)
             r == [q EXCEPT !.pc = "sleeping", !.since = t + wait]
  <1>1. /\ r.pc = "sleeping" /\ r.pass = q.pass /\ r.tiers = q.tiers /\ r.left = {}
        /\ r.failures = q.failures /\ r.started = q.started /\ r.since = t + wait
    BY DEF CallerRecord
  <1>2. q.started \in Nat /\ q.pass \in Nat /\ BackoffCap \in Nat /\ {} \in SUBSET Nodes
    BY Costs DEF CallerRecord
  <1>3. wait \in Nat /\ wait <= BackoffCap
    BY <1>2, BackoffCapped
  <1> HIDE DEF r, wait
  <1>4. AttemptsInv(r)
    <2>1. \A k \in Nodes : ~Trying(r, k) /\ ~Trying(q, k)
      BY <1>1 DEF Trying, Attempting, InFlight
    <2> QED BY <1>1, <2>1 DEF AttemptsInv, Attempting, InFlight
  <1>5. TimeInv(r, t)
    <2>1. t <= Latest(q.started, q.pass, {}) /\ Latest(q.started, q.pass, {}) \in Nat
      BY <1>2, LatestNat DEF TimeInv, LocalSteps
    <2>2. Latest(q.started, q.pass, {}) + BackoffCap = q.started + (q.pass + 1) * PassCost
      BY <1>2, LatestAll
    <2>3. t <= t + wait /\ t + wait <= Latest(q.started, q.pass, {}) + BackoffCap
      BY <1>2, <1>3, <2>1
    <2>4. r.since <= r.started + (r.pass + 1) * PassCost /\ t <= r.since
      BY <1>1, <2>2, <2>3
    <2> QED BY <1>1, <2>4 DEF TimeInv, LocalSteps, InFlight
  <1> QED BY <1>4, <1>5 DEF r, wait

(* The first pass, and one after a sleep: no node tried, nothing spent of  *)
(* it yet.                                                                 *)
LEMMA PassBegins ==
    ASSUME NEW q \in CallerRecord, NEW t \in Nat, NEW p \in Nat, p < passes,
           \A n \in Nodes : q.failures[n] = p, t <= q.started + p * PassCost
    PROVE  AttemptsInv(BeginPass(q, p)) /\ TimeInv(BeginPass(q, p), t)
  <1> DEFINE r == BeginPass(q, p)
  <1>1. /\ r.pc = "choosing" /\ r.pass = p /\ r.tiers = call_order(q.method)
        /\ r.left = Nodes /\ r.failures = q.failures /\ r.started = q.started
    BY DEF BeginPass, CallerRecord
  <1>2. q.started \in Nat
    BY DEF CallerRecord
  <1> HIDE DEF r
  <1>3. AttemptsInv(r)
    BY <1>1, CallOrderTiers DEF AttemptsInv, Attempting, InFlight
  <1>4. TimeInv(r, t)
    BY <1>1, <1>2, LatestNone DEF TimeInv, LocalSteps, InFlight
  <1> QED BY <1>3, <1>4 DEF r

LEMMA GiveUpKeeps ==
    ASSUME NEW q \in CallerRecord, NEW t \in Nat, AttemptsInv(q), TimeInv(q, t),
           q.pc = "choosing", q.left = {}, q.pass + 1 = passes
    PROVE  LET r == [q EXCEPT !.pc = "err"]
           IN  AttemptsInv(r) /\ TimeInv(r, t)
  <1> DEFINE r == [q EXCEPT !.pc = "err"]
  <1>1. /\ r.pc = "err" /\ r.pass = q.pass /\ r.tiers = q.tiers /\ r.left = {}
        /\ r.failures = q.failures /\ r.started = q.started
    BY DEF CallerRecord
  <1> HIDE DEF r
  <1>2. AttemptsInv(r)
    <2>1. \A k \in Nodes : ~Trying(r, k) /\ ~Trying(q, k)
      BY <1>1 DEF Trying, Attempting, InFlight
    <2> QED BY <1>1, <2>1 DEF AttemptsInv, Attempting, InFlight
  <1>3. TimeInv(r, t)
    BY <1>1 DEF TimeInv, LocalSteps, InFlight
  <1> QED BY <1>2, <1>3 DEF r

LEMMA IdleKeeps ==
    ASSUME NEW t \in Nat
    PROVE  AttemptsInv(IdleCaller) /\ TimeInv(IdleCaller, t)
  <1>1. /\ IdleCaller.pc = "idle" /\ IdleCaller.pass = 0 /\ IdleCaller.left = {}
        /\ IdleCaller.failures = [n \in Nodes |-> 0]
        /\ IdleCaller.tiers = [n \in Nodes |-> 0]
    BY DEF IdleCaller
  <1>2. AttemptsInv(IdleCaller)
    BY <1>1, Costs DEF AttemptsInv, Attempting, InFlight
  <1>3. TimeInv(IdleCaller, t)
    BY <1>1 DEF TimeInv, LocalSteps, InFlight
  <1> QED BY <1>2, <1>3

-----------------------------------------------------------------------------
(* The steps of the client. *)
LEMMA OneCallerKeeps ==
    ASSUME CallsInv, ClientInv', NEW c \in Callers, NEW r, Update(c, r),
           AttemptsInv(r), TimeInv(r, now), now' = now, calls' \in [Callers -> 0 .. MaxCalls]
    PROVE  CallsInv'
  <1>1. \A d \in Callers : AttemptsInv(caller'[d]) /\ TimeInv(caller'[d], now)
    BY DEF CallsInv, ClientInv, Update
  <1> QED BY <1>1 DEF CallsInv

LEMMA CallKeeps ==
    ASSUME CallsInv, ClientInv', NEW c \in Callers, NEW m \in Methods, Call(c, m)
    PROVE  CallsInv'
  <1> DEFINE q == [IdleCaller EXCEPT !.method = m, !.started = now]
  <1>1. now \in Nat /\ IdleCaller \in CallerRecord
    BY IdleCallerInv DEF CallsInv, ClientInv, HealthInv, CallerInv
  <1>2. q \in CallerRecord /\ q.started = now /\ q.failures = [n \in Nodes |-> 0]
    BY <1>1 DEF CallerRecord, IdleCaller
  <1>3. calls' \in [Callers -> 0 .. MaxCalls]
    <2>1. calls \in [Callers -> 0 .. MaxCalls] /\ MaxCalls \in Nat
      BY ClientAssumption DEF CallsInv, ClientAssumption
    <2>2. calls[c] + 1 \in 0 .. MaxCalls
      BY <2>1 DEF Call
    <2> QED BY <2>1, <2>2 DEF Call
  <1> HIDE DEF q
  <1>4. AttemptsInv(BeginPass(q, 0)) /\ TimeInv(BeginPass(q, 0), now)
    <2>1. 0 * PassCost = 0 /\ 0 < passes /\ now <= now + 0
      BY <1>1, Costs
    <2> QED BY <1>1, <1>2, <2>1, PassBegins
  <1>5. Update(c, BeginPass(q, 0)) /\ now' = now
    BY DEF Call, q
  <1> QED BY <1>3, <1>4, <1>5, OneCallerKeeps

LEMMA CallStepKeeps ==
    ASSUME CallsInv, ClientInv', NEW c \in Callers, CallStep(c)
    PROVE  CallsInv'
  <1> DEFINE q == caller[c]
  <1>1. q \in CallerRecord /\ AttemptsInv(q) /\ TimeInv(q, now) /\ now \in Nat
    BY DEF CallsInv, ClientInv, CallerInv, HealthInv
  <1>2. calls \in [Callers -> 0 .. MaxCalls] /\ q.pass \in Nat
    BY <1>1 DEF CallsInv, CallerRecord
  <1>3. CASE Send(c)
    <2>1. PICK n \in q.left :
             Update(c, [q EXCEPT !.pc = "waiting", !.node = n, !.left = @ \ {n}, !.since = now])
      BY <1>3 DEF Send, FirstInOrder
    <2> DEFINE r == [q EXCEPT !.pc = "waiting", !.node = n, !.left = @ \ {n}, !.since = now]
    <2>2. AttemptsInv(r) /\ TimeInv(r, now)
      BY <1>1, <1>3, SendKeeps DEF Send
    <2>3. Update(c, r) /\ now' = now /\ calls' = calls
      BY <1>3, <2>1 DEF Send
    <2> HIDE DEF r
    <2> QED BY <1>2, <2>2, <2>3, OneCallerKeeps
  <1>4. CASE Serve(c)
    <2> DEFINE h == served_head(q.node)
               r == [q EXCEPT !.pc = "served", !.head = h]
    <2>1. h \in Nat
      <3>1. q.node \in Nodes /\ ChainInv
        BY <1>1 DEF CallsInv, ClientInv, CallerRecord
      <3> QED BY <3>1 DEF ChainInv, served_head
    <2>2. Update(c, r) /\ now' = now /\ calls' = calls /\ q.pc = "waiting"
      BY <1>4 DEF Serve
    <2> HIDE DEF h
    <2>3. AttemptsInv(r) /\ TimeInv(r, now)
      BY <1>1, <2>1, <2>2, ServeKeeps
    <2> HIDE DEF r
    <2> QED BY <1>2, <2>2, <2>3, OneCallerKeeps
  <1>5. ASSUME NEW v \in {"answered", "noted", "failed", "ok"}, NEW h \in {q.head, 0},
               q.pc \in Attempting \ {"ok"}, now' = now, calls' = calls,
               Update(c, [q EXCEPT !.pc = v, !.head = h])
        PROVE  CallsInv'
    <2> DEFINE r == [q EXCEPT !.pc = v, !.head = h]
    <2>1. /\ r \in CallerRecord /\ r.pc = v /\ r.pass = q.pass /\ r.tiers = q.tiers
          /\ r.left = q.left /\ r.node = q.node /\ r.failures = q.failures
          /\ r.started = q.started
      <3>1. v \in PcValues /\ h \in Nat
        BY <1>1 DEF PcValues, LocalSteps, CallerRecord
      <3> QED BY <1>1, <3>1 DEF CallerRecord
    <2> HIDE DEF r
    <2>2. AttemptsInv(r) /\ TimeInv(r, now)
      BY <1>1, <1>5, <2>1, SameAttempt
    <2>3. Update(c, r)
      BY <1>5 DEF r
    <2> QED BY <1>2, <1>5, <2>2, <2>3, OneCallerKeeps
  <1>6. \A v : [q EXCEPT !.pc = v] = [q EXCEPT !.pc = v, !.head = q.head]
    BY <1>1 DEF CallerRecord
  <1>7. CASE Answer(c)
    BY <1>5, <1>6, <1>7 DEF Answer, Attempting, InFlight
  <1>8. CASE AnswerError(c) \/ TransportFails(c)
    BY <1>5, <1>8 DEF AnswerError, TransportFails, Attempting, InFlight
  <1>9. CASE NoteSuccess(c)
    BY <1>5, <1>6, <1>9 DEF NoteSuccess, Attempting, InFlight
  <1>10. CASE NoteHead(c)
    BY <1>5, <1>6, <1>10 DEF NoteHead, Attempting, InFlight
  <1>11. CASE NoteFailure(c)
    <2> DEFINE r == [q EXCEPT !.pc = "choosing", !.since = 0, !.failures[q.node] = @ + 1]
    <2>1. Update(c, r) /\ now' = now /\ calls' = calls /\ q.pc = "failed"
      BY <1>11 DEF NoteFailure
    <2>2. AttemptsInv(r) /\ TimeInv(r, now)
      BY <1>1, <2>1, FailureKeeps
    <2> HIDE DEF r
    <2> QED BY <1>2, <2>1, <2>2, OneCallerKeeps
  <1>12. CASE Backoff(c)
    <2> DEFINE r == [q EXCEPT !.pc = "sleeping", !.since = now + backoff(q.pass + 1)]
    <2>1. /\ Update(c, r) /\ now' = now /\ calls' = calls
          /\ q.pc = "choosing" /\ q.left = {} /\ q.pass + 1 < passes
      BY <1>12 DEF Backoff
    <2>2. AttemptsInv(r) /\ TimeInv(r, now)
      BY <1>1, <2>1, BackoffKeeps
    <2> HIDE DEF r
    <2> QED BY <1>2, <2>1, <2>2, OneCallerKeeps
  <1>13. CASE Retry(c)
    <2>1. /\ Update(c, BeginPass(q, q.pass + 1)) /\ now' = now /\ calls' = calls
          /\ q.pc = "sleeping" /\ now = q.since
      BY <1>13 DEF Retry
    <2>2. q.pass + 1 \in Nat /\ q.pass + 1 < passes
      BY <1>1, <1>2, <2>1 DEF AttemptsInv
    <2>3. \A n \in Nodes : q.failures[n] = q.pass + 1
      BY <1>1, <2>1 DEF AttemptsInv, Trying, Attempting, InFlight
    <2>4. now <= q.started + (q.pass + 1) * PassCost
      BY <1>1, <2>1 DEF TimeInv
    <2>5. AttemptsInv(BeginPass(q, q.pass + 1)) /\ TimeInv(BeginPass(q, q.pass + 1), now)
      BY <1>1, <2>2, <2>3, <2>4, PassBegins
    <2> QED BY <1>2, <2>1, <2>5, OneCallerKeeps
  <1>14. CASE GiveUp(c)
    <2> DEFINE r == [q EXCEPT !.pc = "err"]
    <2>1. /\ Update(c, r) /\ now' = now /\ calls' = calls
          /\ q.pc = "choosing" /\ q.left = {} /\ q.pass + 1 = passes
      BY <1>14 DEF GiveUp
    <2>2. AttemptsInv(r) /\ TimeInv(r, now)
      BY <1>1, <2>1, GiveUpKeeps
    <2> HIDE DEF r
    <2> QED BY <1>2, <2>1, <2>2, OneCallerKeeps
  <1> QED BY <1>3, <1>4, <1>7, <1>8, <1>9, <1>10, <1>11, <1>12, <1>13, <1>14 DEF CallStep

(* Time passes only while no request has reached its timeout and no        *)
(* sleeper is due. *)
LEMMA TickKeeps ==
    ASSUME CallsInv, ClientInv', ClientTick
    PROVE  CallsInv'
  <1>1. caller' = caller /\ calls' = calls /\ now' = now + 1 /\ now \in Nat
    BY DEF ClientTick, CallsInv, ClientInv, HealthInv
  <1>2. ASSUME NEW c \in Callers PROVE TimeInv(caller[c], now + 1)
    <2> DEFINE q == caller[c]
    <2>1. q \in CallerRecord /\ TimeInv(q, now) /\ ~Overdue(c)
      BY DEF CallsInv, ClientInv, CallerInv, ClientTick
    <2>2. q.since \in Nat /\ timeout \in Nat
      BY <2>1, Costs DEF CallerRecord
    <2>3. /\ q.pc \notin LocalSteps \cup {"ok", "err"}
          /\ q.pc \in InFlight => now + 1 <= q.since + timeout
          /\ q.pc = "sleeping" => now + 1 <= q.since
      BY <1>1, <2>1, <2>2 DEF Overdue
    <2> QED BY <2>1, <2>3 DEF TimeInv
  <1>3. \A c \in Callers : AttemptsInv(caller'[c]) /\ TimeInv(caller'[c], now')
    BY <1>1, <1>2 DEF CallsInv
  <1> QED BY <1>1, <1>3 DEF CallsInv

LEMMA CallsInvStep ==
    ASSUME CallsInv, [ClientNext]_client_vars
    PROVE  CallsInv'
  <1>1. ClientInv'
    BY ClientInvStep DEF CallsInv
  <1>2. ASSUME NEW c \in Callers, Return(c) PROVE CallsInv'
    <2>1. /\ Update(c, IdleCaller) /\ now' = now /\ now \in Nat
          /\ calls' \in [Callers -> 0 .. MaxCalls]
      BY <1>2 DEF Return, CallsInv, ClientInv, HealthInv
    <2> QED BY <1>1, <2>1, IdleKeeps, OneCallerKeeps
  <1>3. CASE UNCHANGED client_vars
    BY <1>1, <1>3 DEF client_vars, CallsInv
  <1> QED BY <1>1, <1>2, <1>3, CallKeeps, CallStepKeeps, TickKeeps DEF ClientNext

(* CallsInv holds in every state of every behaviour. *)
THEOREM CallsInvariant == ClientSafety => []CallsInv
  <1>1. ClientInit => CallsInv
    <2> SUFFICES ASSUME ClientInit PROVE CallsInv
      OBVIOUS
    <2>1. ClientInv /\ now \in Nat /\ MaxCalls \in Nat
      BY ClientInvInit, ClientAssumption DEF ClientInv, HealthInv, ClientAssumption
    <2> QED BY <2>1, IdleKeeps DEF ClientInit, CallsInv
  <1>2. CallsInv /\ [ClientNext]_client_vars => CallsInv'
    BY CallsInvStep
  <1> QED BY <1>1, <1>2, PTL DEF ClientSafety

(* What holds of one caller's locals in any state. *)
LEMMA CallerFacts ==
    ASSUME CallsInv, NEW c \in Callers
    PROVE  /\ caller[c] \in CallerRecord
           /\ AttemptsInv(caller[c]) /\ TimeInv(caller[c], now)
  BY DEF CallsInv, ClientInv, CallerInv

(* The locals of a call keep their types: its passes stay below the number *)
(* asked for, and no node is asked more often than there are passes.       *)
THEOREM ClientTypeCorrect == ClientSafety => []ClientTypeOK
  <1>1. CallsInv => ClientTypeOK
    <2> SUFFICES ASSUME CallsInv PROVE ClientTypeOK
      OBVIOUS
    <2>1. HealthTypeOK
      BY DEF CallsInv, ClientInv, HealthInv, HealthTypeOK, NodeInv
    <2>2. since_block \in 0 .. block_interval - 1 /\ chain_head \in Nat
      BY DEF CallsInv, ClientInv, ChainInv, B
    <2>3. ASSUME NEW c \in Callers
          PROVE  /\ caller[c].pc \in PcValues
                 /\ caller[c].method \in Methods /\ caller[c].node \in Nodes
                 /\ caller[c].pass \in 0 .. passes - 1
                 /\ caller[c].tiers \in [Nodes -> 0 .. 3] /\ caller[c].left \subseteq Nodes
                 /\ caller[c].failures \in [Nodes -> 0 .. passes]
      <3> DEFINE q == caller[c]
      <3>1. q \in CallerRecord /\ AttemptsInv(q)
        BY CallerFacts
      <3>2. /\ q.pc \in PcValues /\ q.method \in Methods /\ q.node \in Nodes
            /\ q.left \subseteq Nodes /\ q.pass \in Nat /\ q.failures \in [Nodes -> Nat]
        BY <3>1 DEF CallerRecord
      <3>3. q.pass \in 0 .. passes - 1 /\ q.pass + 1 \in 0 .. passes /\ 0 \in 0 .. passes
        BY <3>1, <3>2, Costs DEF AttemptsInv
      <3>4. q.pass \in 0 .. passes
        BY <3>3, Costs
      <3>5. \A n \in Nodes : q.failures[n] \in 0 .. passes
        BY <3>1, <3>3, <3>4 DEF AttemptsInv
      <3> QED BY <3>1, <3>2, <3>3, <3>5 DEF AttemptsInv
    <2> QED BY <2>1, <2>2, <2>3 DEF ClientTypeOK, CallsInv
  <1> QED BY <1>1, CallsInvariant, PTL

(* Whatever the nodes do and whatever other callers do to the tracker, a   *)
(* call takes at most a timeout per node and pass and the cap per sleep.   *)
THEOREM CallsKeepTheirBudget == ClientSafety => []CallBudget
  <1>1. CallsInv => CallBudget
    <2> SUFFICES ASSUME CallsInv, NEW c \in Callers, caller[c].pc # "idle"
                 PROVE  now - caller[c].started <= Budget
      BY DEF CallBudget
    <2> DEFINE q == caller[c]
    <2>1. q \in CallerRecord /\ AttemptsInv(q) /\ TimeInv(q, now) /\ now \in Nat
      BY CallerFacts DEF CallsInv, ClientInv, HealthInv
    <2>2. /\ q.started \in Nat /\ q.pass \in Nat /\ q.since \in Nat /\ q.left \in SUBSET Nodes
          /\ q.pc \in PcValues /\ q.pass < passes
      BY <2>1 DEF CallerRecord, AttemptsInv
    <2>3. /\ Latest(q.started, q.pass, q.left) \in Nat
          /\ Latest(q.started, q.pass, q.left) <= q.started + Budget
      BY <2>2, LatestNat, LatestInBudget
    <2>4. Budget \in Nat
      <3>1. passes * NodeCount \in Nat /\ passes - 1 \in Nat /\ timeout \in Nat
            /\ BackoffCap \in Nat
        BY Costs, ProductNat
      <3>2. passes * NodeCount * timeout \in Nat /\ (passes - 1) * BackoffCap \in Nat
        BY <3>1, ProductNat
      <3> QED BY <3>2 DEF Budget
    <2> HIDE DEF q
    <2>5. CASE q.pc \in LocalSteps \cup {"ok", "err"}
      <3>1. now <= Latest(q.started, q.pass, q.left)
        BY <2>1, <2>5 DEF TimeInv
      <3> QED BY <2>1, <2>2, <2>3, <2>4, <3>1 DEF q
    <2>6. CASE q.pc \in InFlight
      <3>1. /\ now <= q.since + timeout
            /\ q.since + timeout <= Latest(q.started, q.pass, q.left)
        BY <2>1, <2>6 DEF TimeInv
      <3> QED BY <2>1, <2>2, <2>3, <2>4, <3>1, Costs DEF q
    <2>7. CASE q.pc = "sleeping"
      <3>1. now <= q.since /\ q.since <= q.started + (q.pass + 1) * PassCost
            /\ q.pass + 1 < passes
        BY <2>1, <2>7 DEF TimeInv, AttemptsInv
      <3>2. Latest(q.started, q.pass + 1, Nodes) = q.started + (q.pass + 1) * PassCost
        BY <2>2, LatestNone
      <3>3. /\ Latest(q.started, q.pass + 1, Nodes) \in Nat
            /\ Latest(q.started, q.pass + 1, Nodes) <= q.started + Budget
        BY <2>2, <3>1, LatestNat, LatestInBudget
      <3> QED BY <2>1, <2>2, <2>4, <3>1, <3>2, <3>3 DEF q
    <2> QED BY <2>2, <2>5, <2>6, <2>7 DEF PcValues, q
  <1> QED BY <1>1, CallsInvariant, PTL

-----------------------------------------------------------------------------
(* The client implements FailoverCall, step by step. *)

(* What FailoverCall sees of a caller's locals. *)
Seen(r) == IF r.pc \in {"idle", "ok", "err"} THEN r.pc ELSE "pending"

Failed == [c \in Callers |-> caller[c].failures]

LEMMA StepSeen ==
    ASSUME CallsInv, NEW c \in Callers, NEW r, Update(c, r)
    PROVE  /\ status' = [status EXCEPT ![c] = Seen(r)]
           /\ Failed' = [Failed EXCEPT ![c] = r.failures]
           /\ status[c] = Seen(caller[c]) /\ Failed[c] = caller[c].failures
  <1>1. \A d \in Callers : caller'[d] = IF d = c THEN r ELSE caller[d]
    BY DEF CallsInv, ClientInv, Update
  <1> QED BY <1>1 DEF status, Failed, Seen

(* A step that neither shows in the status nor adds a failure. *)
LEMMA StepUnseen ==
    ASSUME CallsInv, NEW c \in Callers, NEW r, Update(c, r),
           Seen(r) = Seen(caller[c]), r.failures = caller[c].failures
    PROVE  UNCHANGED <<status, Failed>>
  <1>1. status \in [Callers -> {"idle", "ok", "err", "pending"}] /\ DOMAIN Failed = Callers
    BY DEF status, Failed
  <1>2. status' = [status EXCEPT ![c] = status[c]] /\ Failed' = [Failed EXCEPT ![c] = Failed[c]]
    BY StepSeen
  <1>3. status = [d \in Callers |-> status[d]] /\ Failed = [d \in Callers |-> Failed[d]]
    BY DEF status, Failed
  <1> QED BY <1>2, <1>3

(* The beginning of a call, and its two ends. *)
LEMMA CallMaps ==
    ASSUME CallsInv, NEW c \in Callers, NEW m \in Methods, Call(c, m)
    PROVE  Promise!Call(c)
  <1> DEFINE q == [IdleCaller EXCEPT !.method = m, !.started = now]
             r == BeginPass(q, 0)
  <1>1. Update(c, r) /\ caller[c].pc = "idle"
    BY DEF Call
  <1>2. /\ r.pc = "choosing" /\ r.failures = [n \in Nodes |-> 0]
    BY DEF BeginPass, IdleCaller
  <1>3. caller[c].failures = [n \in Nodes |-> 0]
    BY <1>1, CallerFacts DEF AttemptsInv
  <1> HIDE DEF r
  <1>4. /\ status' = [status EXCEPT ![c] = "pending"] /\ status[c] = "idle"
        /\ Failed' = [Failed EXCEPT ![c] = Failed[c]]
    BY <1>1, <1>2, <1>3, StepSeen DEF Seen
  <1>5. Failed' = Failed
    BY <1>4 DEF Failed
  <1> QED BY <1>4, <1>5 DEF Promise!Call, Failed

LEMMA ReturnMaps ==
    ASSUME CallsInv, NEW c \in Callers, Return(c)
    PROVE  Promise!Return(c)
  <1>1. Update(c, IdleCaller) /\ caller[c].pc \in {"ok", "err"}
    BY DEF Return
  <1>2. IdleCaller.pc = "idle" /\ IdleCaller.failures = [n \in Nodes |-> 0]
    BY DEF IdleCaller
  <1>3. /\ status' = [status EXCEPT ![c] = "idle"] /\ status[c] \in {"ok", "err"}
        /\ Failed' = [Failed EXCEPT ![c] = [n \in Nodes |-> 0]]
    BY <1>1, <1>2, StepSeen DEF Seen
  <1> QED BY <1>3 DEF Promise!Return, Promise!NoFailures, Failed

LEMMA GiveUpMaps ==
    ASSUME CallsInv, NEW c \in Callers, GiveUp(c)
    PROVE  Promise!GiveUp(c)
  <1> DEFINE q == caller[c]
             r == [q EXCEPT !.pc = "err"]
  <1>1. q \in CallerRecord /\ AttemptsInv(q)
    BY CallerFacts
  <1>2. Update(c, r) /\ q.pc = "choosing" /\ q.left = {} /\ q.pass + 1 = passes
    BY DEF GiveUp
  <1>3. r.pc = "err" /\ r.failures = q.failures
    BY <1>1 DEF CallerRecord
  <1>4. \A n \in Nodes : q.failures[n] = passes
    BY <1>1, <1>2 DEF AttemptsInv, Trying, Attempting, InFlight
  <1> HIDE DEF r
  <1>5. /\ status' = [status EXCEPT ![c] = "err"] /\ status[c] = "pending"
        /\ Failed' = [Failed EXCEPT ![c] = Failed[c]] /\ Failed[c] = q.failures
    BY <1>2, <1>3, StepSeen DEF Seen
  <1>6. Failed' = Failed
    BY <1>5 DEF Failed
  <1> QED BY <1>4, <1>5, <1>6 DEF Promise!GiveUp, Failed

(* The head noted, the call has succeeded: the node that answered has been *)
(* tried once per pass before this one. *)
LEMMA NoteHeadMaps ==
    ASSUME CallsInv, NEW c \in Callers, NoteHead(c)
    PROVE  Promise!AttemptSucceeds(c)
  <1> DEFINE q == caller[c]
             r == [q EXCEPT !.pc = "ok"]
  <1>1. q \in CallerRecord /\ AttemptsInv(q)
    BY CallerFacts
  <1>2. Update(c, r) /\ q.pc = "noted"
    BY DEF NoteHead
  <1>3. r.pc = "ok" /\ r.failures = q.failures
    BY <1>1 DEF CallerRecord
  <1>4. q.node \in Nodes /\ q.failures[q.node] < passes
    BY <1>1, <1>2 DEF CallerRecord, AttemptsInv, Trying, Attempting
  <1> HIDE DEF r
  <1>5. /\ status' = [status EXCEPT ![c] = "ok"] /\ status[c] = "pending"
        /\ Failed' = [Failed EXCEPT ![c] = Failed[c]] /\ Failed[c] = q.failures
    BY <1>2, <1>3, StepSeen DEF Seen
  <1>6. Failed' = Failed
    BY <1>5 DEF Failed
  <1> QED BY <1>4, <1>5, <1>6 DEF Promise!AttemptSucceeds, Failed

(* A failure is noted against a node that has no more than any other. *)
LEMMA NoteFailureMaps ==
    ASSUME CallsInv, NEW c \in Callers, NoteFailure(c)
    PROVE  \E n \in Nodes : Promise!AttemptFails(c, n)
  <1> DEFINE q == caller[c]
             f == [q.failures EXCEPT ![q.node] = @ + 1]
             r == [q EXCEPT !.pc = "choosing", !.since = 0, !.failures[q.node] = @ + 1]
  <1>1. q \in CallerRecord /\ AttemptsInv(q)
    BY CallerFacts
  <1>2. Update(c, r) /\ q.pc = "failed"
    BY DEF NoteFailure
  <1>3. r.pc = "choosing" /\ r.failures = f
    BY <1>1 DEF CallerRecord
  <1>4. /\ q.node \in Nodes /\ q.pass \in Nat /\ q.failures[q.node] = q.pass
        /\ q.pass < passes
    BY <1>1, <1>2 DEF CallerRecord, AttemptsInv, Trying, Attempting
  <1>5. \A k \in Nodes : q.failures[q.node] <= q.failures[k]
    BY <1>1, <1>2, <1>4 DEF AttemptsInv
  <1> HIDE DEF r
  <1>6. /\ status' = [status EXCEPT ![c] = "pending"] /\ status[c] = "pending"
        /\ Failed' = [Failed EXCEPT ![c] = f] /\ Failed[c] = q.failures
    BY <1>2, <1>3, StepSeen DEF Seen
  <1>7. status' = status
    <2>1. status = [d \in Callers |-> status[d]]
      BY DEF status
    <2> QED BY <1>6, <2>1
  <1>8. Failed' = [Failed EXCEPT ![c][q.node] = @ + 1]
    BY <1>6
  <1>9. /\ Failed[c][q.node] < passes
        /\ \A k \in Nodes : Failed[c][q.node] <= Failed[c][k]
    BY <1>4, <1>5, <1>6
  <1> HIDE DEF q, f
  <1>10. PICK n \in Nodes : n = q.node
    BY <1>4
  <1>11. Promise!AttemptFails(c, n)
    BY <1>6, <1>7, <1>8, <1>9, <1>10 DEF Promise!AttemptFails, Failed
  <1> QED BY <1>11

(* All other steps are the client's own business. *)
LEMMA OtherStepsStutter ==
    ASSUME CallsInv, NEW c \in Callers,
           \/ Send(c) \/ Serve(c) \/ Answer(c) \/ AnswerError(c) \/ TransportFails(c)
           \/ NoteSuccess(c) \/ Backoff(c) \/ Retry(c)
    PROVE  UNCHANGED <<status, Failed>>
  <1> DEFINE q == caller[c]
  <1>1. q \in CallerRecord
    BY CallerFacts
  <1>2. CASE Send(c)
    <2>1. PICK n \in Nodes :
             Update(c, [q EXCEPT !.pc = "waiting", !.node = n, !.left = @ \ {n}, !.since = now])
      BY <1>2 DEF Send
    <2> DEFINE r == [q EXCEPT !.pc = "waiting", !.node = n, !.left = @ \ {n}, !.since = now]
    <2>2. Update(c, r) /\ Seen(q) = "pending"
      BY <1>2, <2>1 DEF Send, Seen
    <2>3. Seen(r) = "pending" /\ r.failures = q.failures
      BY <1>1 DEF CallerRecord, Seen
    <2> HIDE DEF r
    <2> QED BY <2>2, <2>3, StepUnseen
  <1>3. CASE Serve(c)
    <2> DEFINE r == [q EXCEPT !.pc = "served", !.head = served_head(q.node)]
    <2>1. Update(c, r) /\ Seen(q) = "pending"
      BY <1>3 DEF Serve, Seen
    <2>2. Seen(r) = "pending" /\ r.failures = q.failures
      BY <1>1 DEF CallerRecord, Seen
    <2> HIDE DEF r
    <2> QED BY <2>1, <2>2, StepUnseen
  <1>4. CASE Answer(c)
    <2> DEFINE r == [q EXCEPT !.pc = "answered"]
    <2>1. Update(c, r) /\ Seen(q) = "pending"
      BY <1>4 DEF Answer, Seen
    <2>2. Seen(r) = "pending" /\ r.failures = q.failures
      BY <1>1 DEF CallerRecord, Seen
    <2> HIDE DEF r
    <2> QED BY <2>1, <2>2, StepUnseen
  <1>5. CASE NoteSuccess(c)
    <2> DEFINE r == [q EXCEPT !.pc = "noted"]
    <2>1. Update(c, r) /\ Seen(q) = "pending"
      BY <1>5 DEF NoteSuccess, Seen
    <2>2. Seen(r) = "pending" /\ r.failures = q.failures
      BY <1>1 DEF CallerRecord, Seen
    <2> HIDE DEF r
    <2> QED BY <2>1, <2>2, StepUnseen
  <1>6. CASE AnswerError(c) \/ TransportFails(c)
    <2> DEFINE r == [q EXCEPT !.pc = "failed", !.head = 0]
    <2>1. Update(c, r) /\ Seen(q) = "pending"
      BY <1>6 DEF AnswerError, TransportFails, InFlight, Seen
    <2>2. Seen(r) = "pending" /\ r.failures = q.failures
      BY <1>1 DEF CallerRecord, Seen
    <2> HIDE DEF r
    <2> QED BY <2>1, <2>2, StepUnseen
  <1>7. CASE Backoff(c)
    <2> DEFINE r == [q EXCEPT !.pc = "sleeping", !.since = now + backoff(q.pass + 1)]
    <2>1. Update(c, r) /\ Seen(q) = "pending"
      BY <1>7 DEF Backoff, Seen
    <2>2. Seen(r) = "pending" /\ r.failures = q.failures
      BY <1>1 DEF CallerRecord, Seen
    <2> HIDE DEF r
    <2> QED BY <2>1, <2>2, StepUnseen
  <1>8. CASE Retry(c)
    <2> DEFINE r == BeginPass(q, q.pass + 1)
    <2>1. Update(c, r) /\ Seen(q) = "pending"
      BY <1>8 DEF Retry, Seen
    <2>2. Seen(r) = "pending" /\ r.failures = q.failures
      BY <1>1 DEF CallerRecord, Seen, BeginPass
    <2> HIDE DEF r
    <2> QED BY <2>1, <2>2, StepUnseen
  <1> QED BY <1>2, <1>3, <1>4, <1>5, <1>6, <1>7, <1>8

(* What a call promises holds of every client, whatever it tracks and      *)
(* however its callers interleave: whole passes, one attempt per node and  *)
(* pass, success with an answer, and an error only after all have failed.  *)
THEOREM KeepsPromiseStepByStep ==
    ClientSafety => Promise!Init /\ [][Promise!Next]_Promise!vars
  <1>1. ClientInit => Promise!Init
    <2> SUFFICES ASSUME ClientInit PROVE Promise!Init
      OBVIOUS
    <2>1. \A c \in Callers : caller[c].pc = "idle" /\ caller[c].failures = [n \in Nodes |-> 0]
      BY DEF ClientInit, IdleCaller
    <2> QED BY <2>1 DEF Promise!Init, Promise!NoFailures, status
  <1>2. CallsInv /\ [ClientNext]_client_vars => [Promise!Next]_Promise!vars
    <2> SUFFICES ASSUME CallsInv, [ClientNext]_client_vars
                 PROVE  Promise!Next \/ UNCHANGED <<status, Failed>>
      BY DEF Promise!vars, Failed
    <2>1. CASE ClientTick \/ UNCHANGED client_vars
      BY <2>1 DEF ClientTick, client_vars, status, Failed
    <2>2. ASSUME NEW c \in Callers, NEW m \in Methods, Call(c, m)
          PROVE  Promise!Next
      BY <2>2, CallMaps DEF Promise!Next
    <2>3. ASSUME NEW c \in Callers, CallStep(c)
          PROVE  Promise!Next \/ UNCHANGED <<status, Failed>>
      <3>1. CASE NoteHead(c) \/ NoteFailure(c) \/ GiveUp(c)
        BY <3>1, NoteHeadMaps, NoteFailureMaps, GiveUpMaps DEF Promise!Next
      <3>2. CASE ~(NoteHead(c) \/ NoteFailure(c) \/ GiveUp(c))
        BY <2>3, <3>2, OtherStepsStutter DEF CallStep
      <3> QED BY <3>1, <3>2
    <2>4. ASSUME NEW c \in Callers, Return(c)
          PROVE  Promise!Next
      BY <2>4, ReturnMaps DEF Promise!Next
    <2> QED BY <2>1, <2>2, <2>3, <2>4 DEF ClientNext
  <1> QED BY <1>1, <1>2, CallsInvariant, PTL DEF ClientSafety
=============================================================================
