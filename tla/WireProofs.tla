------------------------------ MODULE WireProofs ------------------------------
(***************************************************************************)
(* Proofs about the bytes of a transaction (WireFormat) and about the memo *)
(* between two parties (Memo).                                             *)
(*                                                                         *)
(* Of every kind of value that an operation has: what is written for it is *)
(* read back, to the same value or to the one the writer put in its place  *)
(* (a sorted list, a text as the chain transports it, an asset under its   *)
(* chain's symbol); a written value is not the start of anything else; and *)
(* whatever is read is of the kind it was read as.  Readers of several     *)
(* values are instances of InTurnProofs.                                   *)
(***************************************************************************)
EXTENDS Memo, TLAPS, FiniteSetTheorems, SequenceTheorems, NaturalsInduction,
        WellFoundedInduction

(* Every non-empty set of naturals has a least element. *)
LEMMA LeastNatural ==
    ASSUME NEW T \in SUBSET Nat, T # {}
    PROVE  \E x \in T : \A y \in T : x <= y
  <1>1. PICK x \in T : \A y \in T : <<y, x>> \notin OpToRel(<, Nat)
    BY WFMin, NatLessThanWellFounded
  <1>2. \A y \in T : ~(y < x)
    BY <1>1 DEF OpToRel
  <1> QED BY <1>2

(* What holds of zero and carries over to the next holds of all. *)
LEMMA AllNaturals ==
    ASSUME NEW T \in SUBSET Nat, 0 \in T, \A n \in T : n + 1 \in T
    PROVE  T = Nat
  <1> SUFFICES ASSUME Nat \ T # {} PROVE FALSE
    OBVIOUS
  <1>1. PICK x \in Nat \ T : \A y \in Nat \ T : x <= y
    BY LeastNatural
  <1>2. x # 0 /\ x - 1 \in Nat
    BY <1>1
  <1>3. x - 1 \in T
    BY <1>1, <1>2
  <1> QED BY <1>1, <1>2, <1>3

(* What InTurnProofs needs to know. *)
LEMMA ForTurns ==
    /\ \A T \in SUBSET Nat : T # {} => \E x \in T : \A y \in T : x <= y
    /\ \A T \in SUBSET Nat : (0 \in T /\ \A n \in T : n + 1 \in T) => T = Nat
    /\ \A n \in Nat : \A S \in SUBSET (1 .. n) :
          /\ Cardinality(S) \in Nat /\ Cardinality(1 .. n) \in Nat /\ Cardinality(S) <= Cardinality(1 .. n)
          /\ Cardinality(S) = 0 => S = {}
          /\ \A x \in S : Cardinality(S \ {x}) = Cardinality(S) - 1 /\ Cardinality(S \ {x}) \in Nat
  <1>1. \A T \in SUBSET Nat : T # {} => \E x \in T : \A y \in T : x <= y
    BY LeastNatural
  <1>2. \A T \in SUBSET Nat : (0 \in T /\ \A n \in T : n + 1 \in T) => T = Nat
    BY AllNaturals
  <1>3. ASSUME NEW n \in Nat, NEW S \in SUBSET (1 .. n)
        PROVE  /\ Cardinality(S) \in Nat /\ Cardinality(1 .. n) \in Nat /\ Cardinality(S) <= Cardinality(1 .. n)
               /\ Cardinality(S) = 0 => S = {}
               /\ \A x \in S : Cardinality(S \ {x}) = Cardinality(S) - 1 /\ Cardinality(S \ {x}) \in Nat
    <2> DEFINE P == 1 .. n
    <2>1. IsFiniteSet(P)
      BY FS_Interval
    <2>2. S \subseteq P
      OBVIOUS
    <2> HIDE DEF P
    <2>3. IsFiniteSet(S) /\ Cardinality(S) <= Cardinality(P)
      BY <2>1, <2>2, FS_Subset
    <2>4. Cardinality(S) \in Nat /\ Cardinality(P) \in Nat
      BY <2>1, <2>3, FS_CardinalityType
    <2>5. Cardinality(S) = 0 => S = {}
      BY <2>3, FS_EmptySet
    <2>6. ASSUME NEW x \in S PROVE Cardinality(S \ {x}) = Cardinality(S) - 1 /\ Cardinality(S \ {x}) \in Nat
      BY <2>3, FS_RemoveElement, FS_CardinalityType
    <2> QED BY ONLY <2>3, <2>4, <2>5, <2>6 DEF P
  <1> QED BY ONLY <1>1, <1>2, <1>3

-----------------------------------------------------------------------------
(* What is on the wire, or part of it. *)
Bytes == Seq(Nat)

(* Before is a strict total order on byte strings. *)
LEMMA BeforeStrict ==
    ASSUME NEW s \in Bytes
    PROVE  ~Before(s, s)
  <1> SUFFICES ASSUME NEW i \in DOMAIN s, s[i] < s[i] PROVE FALSE
    BY DEF Before
  <1>1. s[i] \in Nat
    BY DEF Bytes
  <1> QED BY <1>1

(* The order of byte strings is transitive. *)
LEMMA BeforeChain ==
    ASSUME NEW s \in Bytes, NEW t \in Bytes, NEW u \in Bytes, Before(s, t), Before(t, u)
    PROVE  Before(s, u)
  <1>1. PICK a \in DOMAIN t : /\ \A j \in 1..(a - 1) : j \in DOMAIN s /\ s[j] = t[j]
                              /\ a \in DOMAIN s => s[a] < t[a]
    BY DEF Before
  <1>2. PICK b \in DOMAIN u : /\ \A j \in 1..(b - 1) : j \in DOMAIN t /\ t[j] = u[j]
                              /\ b \in DOMAIN t => t[b] < u[b]
    BY DEF Before
  <1>3. /\ DOMAIN s = 1 .. Len(s) /\ DOMAIN t = 1 .. Len(t) /\ DOMAIN u = 1 .. Len(u)
        /\ Len(s) \in Nat /\ Len(t) \in Nat /\ Len(u) \in Nat
        /\ \A i \in DOMAIN s : s[i] \in Nat
        /\ \A i \in DOMAIN t : t[i] \in Nat
        /\ \A i \in DOMAIN u : u[i] \in Nat
    BY DEF Bytes
  <1>4. a \in Nat /\ b \in Nat /\ a >= 1 /\ b >= 1
    BY <1>3
  <1>5. CASE a < b
    <2>1. a \in 1 .. b - 1
      BY <1>4, <1>5
    <2>2. t[a] = u[a] /\ a \in DOMAIN u
      BY <1>2, <1>3, <2>1
    <2>3. \A j \in 1 .. (a - 1) : j \in DOMAIN s /\ s[j] = u[j]
      <3> SUFFICES ASSUME NEW j \in 1 .. (a - 1) PROVE j \in DOMAIN s /\ s[j] = u[j]
        OBVIOUS
      <3>1. j \in 1 .. b - 1
        BY <1>4, <1>5
      <3> QED BY <1>1, <1>2, <3>1
    <2>4. a \in DOMAIN s => s[a] < u[a]
      BY <1>1, <2>2
    <2> QED BY <2>2, <2>3, <2>4 DEF Before
  <1>6. CASE b <= a
    <2>1. \A j \in 1 .. (b - 1) : j \in DOMAIN s /\ s[j] = u[j]
      <3> SUFFICES ASSUME NEW j \in 1 .. (b - 1) PROVE j \in DOMAIN s /\ s[j] = u[j]
        OBVIOUS
      <3>1. j \in 1 .. a - 1
        BY <1>4, <1>6
      <3> QED BY <1>1, <1>2, <3>1
    <2>2. b \in DOMAIN t
      BY <1>3, <1>4, <1>6
    <2>3. b \in DOMAIN s => s[b] < u[b]
      <3>1. CASE b = a
        BY <1>1, <1>2, <1>3, <2>2, <3>1
      <3>2. CASE b < a
        <4>1. b \in 1 .. a - 1
          BY <1>4, <3>2
        <4> QED BY <1>1, <1>2, <2>2, <4>1
      <3> QED BY <1>4, <1>6, <3>1, <3>2
    <2> QED BY <2>1, <2>3 DEF Before
  <1> QED BY <1>4, <1>5, <1>6

(* Of two byte strings that differ one comes first. *)
LEMMA BeforeTotal ==
    ASSUME NEW s \in Bytes, NEW t \in Bytes, s # t
    PROVE  Before(s, t) \/ Before(t, s)
  <1> DEFINE D == {i \in 1 .. (Len(s) + Len(t)) : /\ i \in DOMAIN s \/ i \in DOMAIN t
                                                  /\ ~(i \in DOMAIN s /\ i \in DOMAIN t /\ s[i] = t[i])}
  <1>1. /\ DOMAIN s = 1 .. Len(s) /\ DOMAIN t = 1 .. Len(t) /\ Len(s) \in Nat /\ Len(t) \in Nat
        /\ \A i \in DOMAIN s : s[i] \in Nat
        /\ \A i \in DOMAIN t : t[i] \in Nat
    BY DEF Bytes
  <1>2. D # {}
    <2> SUFFICES ASSUME D = {} PROVE FALSE
      OBVIOUS
    <2>1. ASSUME NEW i \in 1 .. (Len(s) + Len(t)), i \in DOMAIN s \/ i \in DOMAIN t
          PROVE  i \in DOMAIN s /\ i \in DOMAIN t /\ s[i] = t[i]
      BY <2>1
    <2> HIDE DEF D
    <2>2. Len(s) = Len(t)
      <3>1. CASE Len(s) < Len(t)
        <4>1. Len(t) \in 1 .. (Len(s) + Len(t)) /\ Len(t) \in DOMAIN t /\ Len(t) \notin DOMAIN s
          BY <1>1, <3>1
        <4> QED BY <2>1, <4>1
      <3>2. CASE Len(t) < Len(s)
        <4>1. Len(s) \in 1 .. (Len(s) + Len(t)) /\ Len(s) \in DOMAIN s /\ Len(s) \notin DOMAIN t
          BY <1>1, <3>2
        <4> QED BY <2>1, <4>1
      <3>3. Len(s) \in Nat /\ Len(t) \in Nat
        BY <1>1
      <3> QED BY <3>1, <3>2, <3>3
    <2>3. ASSUME NEW i \in 1 .. Len(s) PROVE s[i] = t[i]
      <3>1. i \in 1 .. (Len(s) + Len(t)) /\ i \in DOMAIN s
        BY <1>1
      <3> QED BY <2>1, <3>1
    <2> QED BY <2>2, <2>3, SeqEqual DEF Bytes
  <1>3. PICK d \in D : \A j \in D : d <= j
    <2>1. D \in SUBSET Nat
      OBVIOUS
    <2> HIDE DEF D
    <2> QED BY <1>2, <2>1, LeastNatural
  <1>4. ASSUME NEW j \in 1 .. d - 1
        PROVE  j \in DOMAIN s /\ j \in DOMAIN t /\ s[j] = t[j]
    <2>1. j \notin D
      BY <1>3
    <2>2. j \in 1 .. (Len(s) + Len(t)) /\ j < d
      BY <1>1
    <2>3. d \in DOMAIN s \/ d \in DOMAIN t
      OBVIOUS
    <2>4. j \in DOMAIN s \/ j \in DOMAIN t
      BY <1>1, <2>2, <2>3
    <2> QED BY <2>1, <2>2, <2>4
  <1>5. /\ d \in DOMAIN s \/ d \in DOMAIN t
        /\ ~(d \in DOMAIN s /\ d \in DOMAIN t /\ s[d] = t[d])
    OBVIOUS
  <1> HIDE DEF D
  <1>6. CASE d \notin DOMAIN s
    BY <1>4, <1>5, <1>6 DEF Before
  <1>7. CASE d \notin DOMAIN t
    BY <1>4, <1>5, <1>7 DEF Before
  <1>8. CASE d \in DOMAIN s /\ d \in DOMAIN t
    <2>1. s[d] < t[d] \/ t[d] < s[d]
      BY <1>1, <1>5, <1>8
    <2>2. CASE s[d] < t[d]
      BY <1>4, <1>8, <2>2 DEF Before
    <2>3. CASE t[d] < s[d]
      BY <1>4, <1>8, <2>3 DEF Before
    <2> QED BY <2>1, <2>2, <2>3
  <1> QED BY <1>6, <1>7, <1>8

-----------------------------------------------------------------------------
(* A stable sort by keys: who comes no later than whom, the place of the   *)
(* i-th item, and which item has a place.                                  *)
Ahead(keys, j, i) == Before(keys[j], keys[i]) \/ (keys[j] = keys[i] /\ j <= i)
Place(keys, i) == Cardinality({j \in DOMAIN keys : Ahead(keys, j, i)})
At(keys, n) == CHOOSE i \in DOMAIN keys : Place(keys, i) = n
Rearranged(items, keys) == [n \in DOMAIN items |-> items[At(keys, n)]]

(* So many byte strings. *)
Keys(keys, N) == DOMAIN keys = 1 .. N /\ \A i \in 1 .. N : keys[i] \in Bytes

(* Ahead is a total order of the positions. *)
LEMMA AheadIsTotal ==
    ASSUME NEW N \in Nat, NEW keys, Keys(keys, N), NEW i \in 1 .. N, NEW j \in 1 .. N
    PROVE  /\ Ahead(keys, i, i)
           /\ Ahead(keys, i, j) \/ Ahead(keys, j, i)
           /\ Ahead(keys, i, j) /\ Ahead(keys, j, i) => i = j
  <1>1. keys[i] \in Bytes /\ keys[j] \in Bytes
    BY DEF Keys
  <1>2. ~Before(keys[i], keys[i]) /\ ~Before(keys[j], keys[j])
    BY <1>1, BeforeStrict
  <1>3. keys[i] # keys[j] => Before(keys[i], keys[j]) \/ Before(keys[j], keys[i])
    BY <1>1, BeforeTotal
  <1>4. ~(Before(keys[i], keys[j]) /\ Before(keys[j], keys[i]))
    BY <1>1, <1>2, BeforeChain
  <1>5. i \in Nat /\ j \in Nat
    OBVIOUS
  <1> QED BY <1>2, <1>3, <1>4, <1>5 DEF Ahead

(* The order of items by key, and by position where keys agree, is         *)
(* transitive. *)
LEMMA AheadIsTransitive ==
    ASSUME NEW N \in Nat, NEW keys, Keys(keys, N),
           NEW i \in 1 .. N, NEW j \in 1 .. N, NEW k \in 1 .. N, Ahead(keys, i, j), Ahead(keys, j, k)
    PROVE  Ahead(keys, i, k)
  <1>1. keys[i] \in Bytes /\ keys[j] \in Bytes /\ keys[k] \in Bytes
    BY DEF Keys
  <1>2. Before(keys[i], keys[j]) /\ Before(keys[j], keys[k]) => Before(keys[i], keys[k])
    BY <1>1, BeforeChain
  <1>3. i \in Nat /\ j \in Nat /\ k \in Nat
    OBVIOUS
  <1> QED BY <1>2, <1>3 DEF Ahead

(* Every item has a place of its own, in the order of the keys. *)
LEMMA PlaceOrders ==
    ASSUME NEW N \in Nat, NEW keys, Keys(keys, N), NEW i \in 1 .. N, NEW j \in 1 .. N
    PROVE  /\ Place(keys, i) \in 1 .. N
           /\ Ahead(keys, j, i) <=> Place(keys, j) <= Place(keys, i)
           /\ Place(keys, i) = Place(keys, j) => i = j
  <1> DEFINE before(k) == {l \in DOMAIN keys : Ahead(keys, l, k)}
  <1>1. ASSUME NEW k \in 1 .. N
        PROVE  /\ before(k) \in SUBSET (1 .. N) /\ IsFiniteSet(before(k)) /\ k \in before(k)
               /\ Cardinality(before(k)) \in 1 .. N
    <2>1. before(k) \in SUBSET (1 .. N) /\ k \in before(k)
      BY AheadIsTotal DEF Keys
    <2>2. IsFiniteSet(1 .. N) /\ Cardinality(1 .. N) = N
      BY FS_Interval
    <2> HIDE DEF before
    <2>3. IsFiniteSet(before(k)) /\ Cardinality(before(k)) <= N
      BY <2>1, <2>2, FS_Subset
    <2>4. Cardinality(before(k)) \in Nat /\ Cardinality(before(k)) # 0
      BY <2>1, <2>3, FS_CardinalityType, FS_EmptySet
    <2> QED BY <2>1, <2>3, <2>4
  <1>2. ASSUME NEW k \in 1 .. N, NEW l \in 1 .. N, Ahead(keys, l, k), k # l
        PROVE  Cardinality(before(l)) < Cardinality(before(k))
    <2>1. before(l) \in SUBSET before(k)
      BY <1>2, AheadIsTransitive DEF Keys
    <2>2. k \notin before(l) /\ k \in before(k)
      BY <1>2, AheadIsTotal DEF Keys
    <2>3. IsFiniteSet(before(k)) /\ Cardinality(before(k)) \in Nat /\ Cardinality(before(l)) \in Nat
      BY <1>1, SMTT(60), ZenonT(60)
    <2> HIDE DEF before
    <2>4. Cardinality(before(l)) <= Cardinality(before(k))
      BY <2>1, <2>3, FS_Subset
    <2>5. Cardinality(before(l)) # Cardinality(before(k))
      BY <2>1, <2>2, <2>3, FS_Subset
    <2> QED BY <2>3, <2>4, <2>5
  <1>3. Place(keys, i) = Cardinality(before(i)) /\ Place(keys, j) = Cardinality(before(j))
    BY DEF Place
  <1> HIDE DEF before
  <1>4. Place(keys, i) \in Nat /\ Place(keys, j) \in Nat
    BY <1>1, <1>3
  <1>5. Place(keys, i) \in 1 .. N
    BY <1>1, <1>3
  <1>6. Ahead(keys, i, j) \/ Ahead(keys, j, i)
    BY AheadIsTotal
  <1>7. Ahead(keys, j, i) /\ i # j => Place(keys, j) < Place(keys, i)
    BY <1>2, <1>3
  <1>8. Ahead(keys, i, j) /\ i # j => Place(keys, i) < Place(keys, j)
    BY <1>2, <1>3
  <1>9. i = j => Ahead(keys, j, i)
    BY AheadIsTotal
  <1> QED BY <1>4, <1>5, <1>6, <1>7, <1>8, <1>9

(* Every place is some item's. *)
LEMMA PlacesFill ==
    ASSUME NEW N \in Nat, NEW keys, Keys(keys, N)
    PROVE  /\ \A n \in 1 .. N : At(keys, n) \in 1 .. N /\ Place(keys, At(keys, n)) = n
           /\ \A i \in 1 .. N : Place(keys, i) \in 1 .. N /\ At(keys, Place(keys, i)) = i
  <1> DEFINE f == [i \in 1 .. N |-> Place(keys, i)]
  <1>1. \A i \in 1 .. N : Place(keys, i) \in 1 .. N
    BY PlaceOrders
  <1>2. \A i, j \in 1 .. N : Place(keys, i) = Place(keys, j) => i = j
    BY PlaceOrders
  <1>3. f \in Injection(1 .. N, 1 .. N)
    BY <1>1, <1>2 DEF Injection, IsInjective
  <1>4. IsFiniteSet(1 .. N)
    BY FS_Interval
  <1> HIDE DEF f
  <1>5. f \in Surjection(1 .. N, 1 .. N)
    BY <1>3, <1>4, FS_Injection
  <1>6. \A n \in 1 .. N : \E i \in 1 .. N : f[i] = n
    BY <1>5 DEF Surjection
  <1>7. \A n \in 1 .. N : \E i \in 1 .. N : Place(keys, i) = n
    BY <1>6 DEF f
  <1>8. DOMAIN keys = 1 .. N
    BY DEF Keys
  <1>9. \A n \in 1 .. N : At(keys, n) \in 1 .. N /\ Place(keys, At(keys, n)) = n
    BY <1>7, <1>8 DEF At
  <1> QED BY <1>1, <1>2, <1>9

(* In order already. *)
InOrder(keys, N) == \A i, j \in 1 .. N : i < j => ~Before(keys[j], keys[i])

(* Sorting puts in order, and leaves alone what is. *)
LEMMA AtOrders ==
    ASSUME NEW N \in Nat, NEW keys, Keys(keys, N)
    PROVE  \A m, n \in 1 .. N : m < n => Ahead(keys, At(keys, m), At(keys, n)) /\ At(keys, m) # At(keys, n)
                                         /\ ~Before(keys[At(keys, n)], keys[At(keys, m)])
  <1> SUFFICES ASSUME NEW m \in 1 .. N, NEW n \in 1 .. N, m < n
               PROVE  Ahead(keys, At(keys, m), At(keys, n)) /\ At(keys, m) # At(keys, n)
                      /\ ~Before(keys[At(keys, n)], keys[At(keys, m)])
    OBVIOUS
  <1> DEFINE i == At(keys, m)
             j == At(keys, n)
  <1>1. i \in 1 .. N /\ j \in 1 .. N /\ Place(keys, i) = m /\ Place(keys, j) = n
    BY PlacesFill
  <1> HIDE DEF i, j
  <1>2. m \in Nat /\ n \in Nat /\ m <= n /\ ~(n <= m)
    OBVIOUS
  <1>3. Ahead(keys, i, j) /\ ~Ahead(keys, j, i)
    BY <1>1, <1>2, PlaceOrders
  <1>4. i # j
    BY <1>1, <1>2
  <1> QED BY <1>3, <1>4 DEF Ahead, i, j

(* A list in order is rearranged to itself. *)
LEMMA InOrderStays ==
    ASSUME NEW N \in Nat, NEW keys, Keys(keys, N), InOrder(keys, N)
    PROVE  \A n \in 1 .. N : At(keys, n) = n
  <1>1. ASSUME NEW i \in 1 .. N PROVE Place(keys, i) = i
    <2> DEFINE S == {j \in DOMAIN keys : Ahead(keys, j, i)}
    <2>1. ASSUME NEW j \in 1 .. N PROVE Ahead(keys, j, i) <=> j <= i
      <3>1. i \in Nat /\ j \in Nat
        OBVIOUS
      <3>2. i < j => ~Before(keys[j], keys[i])
        BY DEF InOrder
      <3>3. j < i => ~Before(keys[i], keys[j])
        BY DEF InOrder
      <3>4. Ahead(keys, i, i) /\ (Ahead(keys, i, j) \/ Ahead(keys, j, i)) /\ (Ahead(keys, i, j) /\ Ahead(keys, j, i) => i = j)
        BY AheadIsTotal
      <3> QED BY <3>1, <3>2, <3>3, <3>4 DEF Ahead
    <2>2. S = 1 .. i
      BY <2>1 DEF Keys
    <2>3. Cardinality(1 .. i) = i
      BY FS_Interval
    <2> QED BY <2>2, <2>3 DEF Place
  <1> QED BY <1>1, PlacesFill

(* Keys in their order stay. *)
LEMMA RearrangedKeys ==
    ASSUME NEW N \in Nat, NEW keys, Keys(keys, N)
    PROVE  /\ Keys(Rearranged(keys, keys), N) /\ InOrder(Rearranged(keys, keys), N)
           /\ \A n \in 1 .. N : Rearranged(keys, keys)[n] = keys[At(keys, n)]
  <1>1. DOMAIN keys = 1 .. N /\ \A i \in 1 .. N : keys[i] \in Bytes
    BY DEF Keys
  <1>2. \A n \in 1 .. N : At(keys, n) \in 1 .. N
    BY PlacesFill
  <1>3. \A n \in 1 .. N : Rearranged(keys, keys)[n] = keys[At(keys, n)]
    BY <1>1 DEF Rearranged
  <1>4. Keys(Rearranged(keys, keys), N)
    BY <1>1, <1>2 DEF Rearranged, Keys
  <1>5. InOrder(Rearranged(keys, keys), N)
    BY <1>3, AtOrders DEF InOrder
  <1> QED BY <1>3, <1>4, <1>5

-----------------------------------------------------------------------------
(* FlattenSeq, as far as the n-th sequence. *)
FlattenStep(w, f, i) == IF i = 1 THEN w[i] ELSE f[i - 1] \o w[i]
Flattened(w) == CHOOSE f : f = [i \in 1 .. Len(w) |-> FlattenStep(w, f, i)]
Heads(w, N, h) == h[0] = <<>> /\ \A i \in 1 .. N : h[i] = h[i - 1] \o w[i]

(* A flattened list is the last of its heads. *)
LEMMA FlattenSteps ==
    ASSUME NEW X, NEW w \in Seq(Seq(X))
    PROVE  \E h : Heads(w, Len(w), h) /\ FlattenSeq(w) = h[Len(w)]
  <1> DEFINE L == Len(w)
  <1>1. CASE L = 0
    <2>1. w = <<>> /\ FlattenSeq(w) = <<>>
      BY <1>1 DEF FlattenSeq
    <2> DEFINE h == [i \in 0 .. 0 |-> <<>>]
    <2>2. h[0] = <<>> /\ 1 .. L = {}
      BY <1>1
    <2> HIDE DEF h
    <2> QED BY <1>1, <2>1, <2>2 DEF Heads
  <1>2. CASE L # 0
    <2> DEFINE Fits(f, n) == \A i \in 1 .. n : i <= L => f[i] = FlattenStep(w, f, i)
               good == {n \in Nat : \E f : Fits(f, n)}
    <2>1. L \in Nat /\ L >= 1
      BY <1>2
    <2>2. 0 \in good
      OBVIOUS
    <2>3. ASSUME NEW n \in good PROVE n + 1 \in good
      <3>1. n \in Nat /\ \E f : Fits(f, n)
        OBVIOUS
      <3>2. PICK f : Fits(f, n)
        BY <3>1
      <3> DEFINE g == [i \in 1 .. n + 1 |-> FlattenStep(w, f, i)]
      <3>3. ASSUME NEW i \in 1 .. n + 1, i <= L PROVE g[i] = FlattenStep(w, g, i)
        <4>1. i # 1 => i - 1 \in 1 .. n /\ i - 1 <= L
          BY <3>1, <3>3, <2>1
        <4>2. i # 1 => g[i - 1] = f[i - 1]
          BY <3>1, <3>2, <4>1
        <4> QED BY <4>2 DEF FlattenStep
      <3>4. Fits(g, n + 1)
        BY <3>3
      <3> HIDE DEF g, Fits
      <3> QED BY <3>1, <3>4
    <2>4. L \in good
      <3> HIDE DEF good
      <3>1. good = Nat
        <4>1. good \in SUBSET Nat
          BY DEF good
        <4> QED BY <2>2, <2>3, <4>1, AllNaturals
      <3> QED BY <2>1, <3>1
    <2>5. PICK f : Fits(f, L)
      BY <2>4
    <2> DEFINE g == [i \in 1 .. L |-> f[i]]
    <2>6. ASSUME NEW i \in 1 .. L PROVE g[i] = FlattenStep(w, g, i)
      <3>1. i # 1 => i - 1 \in 1 .. L
        BY <2>1
      <3>2. i # 1 => g[i - 1] = f[i - 1]
        BY <3>1
      <3>3. f[i] = FlattenStep(w, f, i) /\ g[i] = f[i]
        BY <2>5, <2>1
      <3> HIDE DEF g, Fits
      <3> QED BY <3>2, <3>3 DEF FlattenStep
    <2>7. \E h : h = [i \in 1 .. L |-> FlattenStep(w, h, i)]
      <3>1. g = [i \in 1 .. L |-> FlattenStep(w, g, i)]
        <4>1. g = [i \in 1 .. L |-> g[i]]
          OBVIOUS
        <4> HIDE DEF g
        <4> QED BY <2>6, <4>1
      <3> QED BY <3>1
    <2> DEFINE k == Flattened(w)
               h == [i \in 0 .. L |-> IF i = 0 THEN <<>> ELSE k[i]]
    <2>8. k = [i \in 1 .. L |-> FlattenStep(w, k, i)]
      BY <2>7 DEF Flattened
    <2>9. FlattenSeq(w) = k[L]
      BY <1>2 DEF FlattenSeq, Flattened, FlattenStep
    <2> HIDE DEF k
    <2>10. h[0] = <<>> /\ h[L] = k[L]
      BY <2>1
    <2>11. ASSUME NEW i \in 1 .. L PROVE h[i] = h[i - 1] \o w[i]
      <3>0. i \in 0 .. L /\ i # 0 /\ i \in 1 .. Len(w)
        BY <2>1
      <3>1. h[i] = k[i] /\ w[i] \in Seq(X)
        BY <3>0
      <3>4. k[i] = FlattenStep(w, k, i)
        BY <2>8
      <3>2. CASE i = 1
        <4>1. h[i - 1] = <<>>
          BY <3>2, <2>1
        <4> HIDE DEF h
        <4>2. h[i - 1] \o w[i] = w[i]
          BY <3>1, <4>1
        <4> QED BY <3>1, <3>2, <3>4, <4>2 DEF FlattenStep
      <3>3. CASE i # 1
        <4>1. h[i - 1] = k[i - 1]
          BY <3>3, <2>1
        <4> HIDE DEF h
        <4> QED BY <3>1, <3>3, <3>4, <4>1 DEF FlattenStep
      <3> QED BY <3>2, <3>3
    <2> HIDE DEF h
    <2> QED BY <2>9, <2>10, <2>11 DEF Heads
  <1> QED BY <1>1, <1>2

(* What is left of a flattened sequence, and what follows it, after each   *)
(* of the sequences it was made of.                                        *)
Tails(w, N, s, t) ==
    /\ t[0] = FlattenSeq(w) \o s /\ t[N] = s
    /\ \A i \in 1 .. N : t[i - 1] = w[i] \o t[i]

(* What is left of a flattened list after each item, down to what follows  *)
(* it. *)
LEMMA FlattenTails ==
    ASSUME NEW X, NEW N \in Nat, NEW w \in [1 .. N -> Seq(X)],
           NEW s \in Seq(X)
    PROVE  \E t : Tails(w, N, s, t) /\ \A i \in 0 .. N : t[i] \in Seq(X)
  <1>1. w \in Seq(Seq(X)) /\ Len(w) = N
    OBVIOUS
  <1>2. PICK h : Heads(w, N, h) /\ FlattenSeq(w) = h[N]
    BY <1>1, FlattenSteps
  <1> DEFINE Ok(n, r, t) == /\ t[0] = h[n] \o r /\ t[n] = r
                            /\ \A i \in 1 .. n : t[i - 1] = w[i] \o t[i]
                            /\ \A i \in 0 .. n : t[i] \in Seq(X)
             P(n) == h[n] \in Seq(X) /\ \A r \in Seq(X) : \E t : Ok(n, r, t)
             good == {n \in Nat : n <= N => P(n)}
  <1>3. 0 \in good
    <2>1. h[0] = <<>>
      BY <1>2 DEF Heads
    <2>2. ASSUME NEW r \in Seq(X) PROVE \E t : Ok(0, r, t)
      <3> DEFINE t == [i \in 0 .. 0 |-> r]
      <3>1. t[0] = r /\ 1 .. 0 = {} /\ 0 .. 0 = {0} /\ h[0] \o r = r
        BY <2>1
      <3> HIDE DEF t
      <3>2. Ok(0, r, t)
        BY <3>1
      <3> QED BY <3>2
    <2>3. P(0)
      <3> HIDE DEF Ok
      <3> QED BY <2>1, <2>2
    <2> HIDE DEF P
    <2> QED BY <2>3
  <1>4. ASSUME NEW n \in good PROVE n + 1 \in good
    <2>1. n \in Nat /\ (n <= N => P(n))
      OBVIOUS
    <2> SUFFICES ASSUME n + 1 <= N PROVE P(n + 1)
      <3>1. n + 1 \in Nat
        BY <2>1
      <3> HIDE DEF P
      <3> QED BY <3>1
    <2> HIDE DEF good, Ok
    <2>2. h[n] \in Seq(X) /\ (\A r \in Seq(X) : \E t : Ok(n, r, t)) /\ n + 1 \in 1 .. N /\ (n + 1) - 1 = n
      BY <2>1
    <2>3. h[n + 1] = h[n] \o w[n + 1] /\ w[n + 1] \in Seq(X)
      BY <1>2, <2>2 DEF Heads
    <2>4. h[n + 1] \in Seq(X)
      BY <2>2, <2>3
    <2>5. ASSUME NEW r \in Seq(X) PROVE \E t : Ok(n + 1, r, t)
      <3>1. w[n + 1] \o r \in Seq(X)
        BY <2>3
      <3>2. PICK u : Ok(n, w[n + 1] \o r, u)
        BY <2>2, <3>1
      <3> DEFINE t == [i \in 0 .. n + 1 |-> IF i = n + 1 THEN r ELSE u[i]]
      <3>3. t[n + 1] = r /\ \A i \in 0 .. n : t[i] = u[i]
        BY <2>1
      <3> HIDE DEF t
      <3>4. /\ u[0] = h[n] \o (w[n + 1] \o r) /\ u[n] = w[n + 1] \o r
            /\ \A i \in 1 .. n : u[i - 1] = w[i] \o u[i]
            /\ \A i \in 0 .. n : u[i] \in Seq(X)
        BY <3>2 DEF Ok
      <3>5. h[n] \o (w[n + 1] \o r) = h[n + 1] \o r
        <4> DEFINE a == h[n]
                   b == w[n + 1]
        <4>1. a \in Seq(X) /\ b \in Seq(X) /\ h[n + 1] = a \o b
          BY <2>2, <2>3
        <4> HIDE DEF a, b
        <4>2. (a \o b) \o r = a \o (b \o r)
          BY <4>1, ConcatAssociative, SMTT(60), ZenonT(60)
        <4>3. a \o (b \o r) = h[n + 1] \o r
          BY <4>1, <4>2
        <4> QED BY <4>3 DEF a, b
      <3>6. 0 \in 0 .. n /\ n \in 0 .. n
        BY <2>1
      <3>7. t[0] = h[n + 1] \o r
        BY <3>3, <3>4, <3>5, <3>6
      <3>8. ASSUME NEW i \in 1 .. n + 1 PROVE t[i - 1] = w[i] \o t[i]
        <4>1. CASE i = n + 1
          BY <2>2, <3>3, <3>4, <3>6, <4>1
        <4>2. CASE i # n + 1
          <5>1. i \in 1 .. n /\ i \in 0 .. n /\ i - 1 \in 0 .. n
            BY <2>1, <4>2
          <5> QED BY <3>3, <3>4, <5>1
        <4> QED BY <4>1, <4>2
      <3>9. ASSUME NEW i \in 0 .. n + 1 PROVE t[i] \in Seq(X)
        <4>1. i = n + 1 \/ i \in 0 .. n
          BY <2>1
        <4> QED BY <3>3, <3>4, <4>1
      <3>10. Ok(n + 1, r, t)
        BY <3>3, <3>7, <3>8, <3>9 DEF Ok
      <3> QED BY <3>10
    <2> QED BY <2>4, <2>5
  <1>5. N \in good
    <2> HIDE DEF good
    <2>1. good \in SUBSET Nat
      BY DEF good
    <2> QED BY <1>3, <1>4, <2>1, AllNaturals
  <1>6. P(N)
    <2> HIDE DEF P
    <2> QED BY <1>5
  <1> QED BY <1>2, <1>6, SMTT(60), ZenonT(60) DEF Tails

(* A flattened sequence is of what the sequences were of. *)
LEMMA FlattenIsSeq ==
    ASSUME NEW X, NEW N \in Nat, NEW w \in [1 .. N -> Seq(X)]
    PROVE  FlattenSeq(w) \in Seq(X)
  <1>1. w \in Seq(Seq(X)) /\ Len(w) = N
    OBVIOUS
  <1>2. PICK h : Heads(w, N, h) /\ FlattenSeq(w) = h[N]
    BY <1>1, FlattenSteps
  <1> DEFINE P(n) == h[n] \in Seq(X)
             good == {n \in Nat : n <= N => P(n)}
  <1>3. 0 \in good
    <2>1. P(0)
      BY <1>2 DEF Heads
    <2> HIDE DEF P
    <2> QED BY <2>1
  <1>4. ASSUME NEW n \in good PROVE n + 1 \in good
    <2>1. n \in Nat /\ (n <= N => P(n))
      OBVIOUS
    <2> SUFFICES ASSUME n + 1 <= N PROVE P(n + 1)
      <3>1. n + 1 \in Nat
        BY <2>1
      <3> HIDE DEF P
      <3> QED BY <3>1
    <2> HIDE DEF good
    <2>2. h[n] \in Seq(X) /\ n + 1 \in 1 .. N /\ (n + 1) - 1 = n
      BY <2>1
    <2>3. h[n + 1] = h[n] \o w[n + 1] /\ w[n + 1] \in Seq(X)
      BY <1>2, <2>2 DEF Heads
    <2> QED BY <2>2, <2>3
  <1>5. N \in good
    <2> HIDE DEF good
    <2>1. good \in SUBSET Nat
      BY DEF good
    <2> QED BY <1>3, <1>4, <2>1, AllNaturals
  <1> QED BY <1>2, <1>5

(* Its length is between the least and the most its parts can have. *)
LEMMA FlattenLen ==
    ASSUME NEW X, NEW N \in Nat, NEW w \in [1 .. N -> Seq(X)],
           NEW lo \in Nat, NEW hi \in Nat, \A i \in 1 .. N : lo <= Len(w[i]) /\ Len(w[i]) <= hi
    PROVE  lo * N <= Len(FlattenSeq(w)) /\ Len(FlattenSeq(w)) <= hi * N
  <1>1. w \in Seq(Seq(X)) /\ Len(w) = N
    OBVIOUS
  <1>2. PICK h : Heads(w, N, h) /\ FlattenSeq(w) = h[N]
    BY <1>1, FlattenSteps
  <1> DEFINE P(n) == h[n] \in Seq(X) /\ lo * n <= Len(h[n]) /\ Len(h[n]) <= hi * n
             good == {n \in Nat : n <= N => P(n)}
  <1>3. 0 \in good
    <2>1. h[0] = <<>> /\ lo * 0 = 0 /\ hi * 0 = 0
      BY <1>2 DEF Heads
    <2>2. P(0)
      BY <2>1
    <2> HIDE DEF P
    <2> QED BY <2>2
  <1>4. ASSUME NEW n \in good PROVE n + 1 \in good
    <2>1. n \in Nat /\ (n <= N => P(n))
      OBVIOUS
    <2> SUFFICES ASSUME n + 1 <= N PROVE P(n + 1)
      <3>1. n + 1 \in Nat
        BY <2>1
      <3> HIDE DEF P
      <3> QED BY <3>1
    <2> HIDE DEF good
    <2>2. /\ h[n] \in Seq(X) /\ lo * n <= Len(h[n]) /\ Len(h[n]) <= hi * n
          /\ n + 1 \in 1 .. N /\ (n + 1) - 1 = n
      BY <2>1
    <2>3. h[n + 1] = h[n] \o w[n + 1] /\ w[n + 1] \in Seq(X) /\ lo <= Len(w[n + 1]) /\ Len(w[n + 1]) <= hi
      BY <1>2, <2>2 DEF Heads
    <2>4. h[n + 1] \in Seq(X) /\ Len(h[n + 1]) = Len(h[n]) + Len(w[n + 1])
      BY <2>2, <2>3
    <2>5. Len(h[n]) \in Nat /\ Len(w[n + 1]) \in Nat
      BY <2>2, <2>3
    <2>6. lo * (n + 1) = lo * n + lo /\ hi * (n + 1) = hi * n + hi /\ lo * n \in Nat /\ hi * n \in Nat
      BY <2>1
    <2> DEFINE a == lo * n
               b == hi * n
               c == Len(h[n])
               d == Len(w[n + 1])
    <2>7. a + lo <= c + d /\ c + d <= b + hi
      <3>1. a \in Nat /\ b \in Nat /\ c \in Nat /\ d \in Nat /\ a <= c /\ c <= b /\ lo <= d /\ d <= hi
        BY <2>2, <2>3, <2>5, <2>6
      <3> HIDE DEF a, b, c, d
      <3> QED BY <3>1
    <2> QED BY <2>4, <2>6, <2>7
  <1>5. N \in good
    <2> HIDE DEF good
    <2>1. good \in SUBSET Nat
      BY DEF good
    <2> QED BY <1>3, <1>4, <2>1, AllNaturals
  <1> QED BY <1>2, <1>5

(* One value each, and it is the sequence of those. *)
LEMMA FlattenSingles ==
    ASSUME NEW X, NEW N \in Nat, NEW w, DOMAIN w = 1 .. N, w \in Seq(Seq(X)), NEW s \in Seq(X), Len(s) = N,
           \A i \in 1 .. N : w[i] = <<s[i]>>
    PROVE  FlattenSeq(w) = s
  <1>1. w \in Seq(Seq(X)) /\ Len(w) = N /\ \A i \in 1 .. N : s[i] \in X /\ <<s[i]>> \in Seq(X)
    <2>1. \A i \in 1 .. N : s[i] \in X
      OBVIOUS
    <2> QED BY <2>1
  <1>2. PICK h : Heads(w, N, h) /\ FlattenSeq(w) = h[N]
    BY <1>1, FlattenSteps
  <1> DEFINE P(n) == h[n] \in Seq(X) /\ Len(h[n]) = n /\ \A i \in 1 .. n : h[n][i] = s[i]
             good == {n \in Nat : n <= N => P(n)}
  <1>3. 0 \in good
    <2>1. h[0] = <<>> /\ 1 .. 0 = {}
      BY <1>2 DEF Heads
    <2>2. P(0)
      BY <2>1
    <2> HIDE DEF P
    <2> QED BY <2>2
  <1>4. ASSUME NEW n \in good PROVE n + 1 \in good
    <2>1. n \in Nat /\ (n <= N => P(n))
      OBVIOUS
    <2> SUFFICES ASSUME n + 1 <= N PROVE P(n + 1)
      <3>1. n + 1 \in Nat
        BY <2>1
      <3> HIDE DEF P
      <3> QED BY <3>1
    <2> HIDE DEF good
    <2>2. /\ h[n] \in Seq(X) /\ Len(h[n]) = n /\ \A i \in 1 .. n : h[n][i] = s[i]
          /\ n + 1 \in 1 .. N /\ (n + 1) - 1 = n
      BY <2>1
    <2>3. h[n + 1] = h[n] \o <<s[n + 1]>> /\ s[n + 1] \in X
      BY <1>1, <1>2, <2>2 DEF Heads
    <2>4. h[n + 1] \in Seq(X) /\ Len(h[n + 1]) = n + 1 /\ h[n + 1][n + 1] = s[n + 1]
          /\ \A i \in 1 .. n : h[n + 1][i] = h[n][i]
      <3> DEFINE a == h[n]
                 e == s[n + 1]
      <3>1. a \in Seq(X) /\ Len(a) = n /\ e \in X /\ h[n + 1] = a \o <<e>> /\ n \in Nat
        BY <2>1, <2>2, <2>3
      <3> HIDE DEF a, e
      <3>2. a \o <<e>> \in Seq(X) /\ Len(a \o <<e>>) = n + 1 /\ (a \o <<e>>)[n + 1] = e
            /\ \A i \in 1 .. n : (a \o <<e>>)[i] = a[i]
        BY ONLY <3>1
      <3> QED BY <3>1, <3>2 DEF a, e
    <2>5. ASSUME NEW i \in 1 .. n + 1 PROVE h[n + 1][i] = s[i]
      <3>1. i = n + 1 \/ i \in 1 .. n
        BY <2>1
      <3> QED BY <2>2, <2>4, <3>1
    <2> QED BY <2>4, <2>5
  <1>5. N \in good
    <2> HIDE DEF good
    <2>1. good \in SUBSET Nat
      BY DEF good
    <2> QED BY <1>3, <1>4, <2>1, AllNaturals
  <1>6. h[N] \in Seq(X) /\ Len(h[N]) = N /\ \A i \in 1 .. N : h[N][i] = s[i]
    BY <1>5
  <1>7. h[N] = s
    BY <1>6, SeqEqual
  <1> QED BY <1>2, <1>7

-----------------------------------------------------------------------------
(* Strings, and the characters hived keeps as they are. *)
Unaffected == {c \in 0 .. 127 : ~Affected(c)}

(* What becomes of one character. *)
Escaped(c) ==
    CASE c = 8  -> <<98>>
      [] c = 12 -> <<102>>
      [] Affected(c) /\ c \notin {8, 12} -> <<117, 48, 48, HexDigit(c \div 16), HexDigit(c % 16)>>
      [] OTHER -> <<c>>

(* What becomes of one character in transport: up to five that nothing     *)
(* becomes of. *)
LEMMA EscapedIs ==
    ASSUME NEW c \in 0 .. 127
    PROVE  /\ Escaped(c) \in Seq(Unaffected) /\ Len(Escaped(c)) \in 1 .. 5
           /\ c \in Unaffected => Escaped(c) = <<c>>
  <1>1. CASE c = 8
    <2>1. Escaped(c) = <<98>> /\ 98 \in Unaffected /\ c \notin Unaffected
      BY <1>1 DEF Escaped, Unaffected, Affected
    <2> QED BY <2>1
  <1>2. CASE c = 12
    <2>1. Escaped(c) = <<102>> /\ 102 \in Unaffected /\ c \notin Unaffected
      BY <1>2 DEF Escaped, Unaffected, Affected
    <2> QED BY <2>1
  <1>3. CASE Affected(c) /\ c \notin {8, 12}
    <2> DEFINE a == HexDigit(c \div 16)
               b == HexDigit(c % 16)
    <2>1. Escaped(c) = <<117, 48, 48, a, b>> /\ c \notin Unaffected
      BY <1>3 DEF Escaped, Unaffected
    <2>2. c \div 16 \in 0 .. 1 /\ c % 16 \in 0 .. 15
      BY <1>3 DEF Affected
    <2>3. a \in 48 .. 102 /\ b \in 48 .. 102
      BY <2>2 DEF HexDigit
    <2> HIDE DEF a, b
    <2>4. 117 \in Unaffected /\ 48 \in Unaffected /\ a \in Unaffected /\ b \in Unaffected
      BY <2>3 DEF Unaffected, Affected
    <2> QED BY <2>1, <2>4
  <1>4. CASE ~Affected(c)
    <2>1. c # 8 /\ c # 12
      BY <1>4 DEF Affected
    <2>2. Escaped(c) = <<c>> /\ c \in Unaffected
      BY <1>4, <2>1 DEF Escaped, Unaffected
    <2> QED BY <2>2
  <1> QED BY <1>1, <1>2, <1>3, <1>4

(* The transport form of a string is of kept characters, and a string of   *)
(* those is its own: the form of the form is the form.                     *)
LEMMA FormIsKept ==
    ASSUME NEW s \in Text
    PROVE  /\ hived_transport_form(s) \in Seq(Unaffected)
           /\ Len(s) <= Len(hived_transport_form(s)) /\ Len(hived_transport_form(s)) <= 5 * Len(s)
  <1> DEFINE N == Len(s)
             w == [i \in 1 .. N |-> Escaped(s[i])]
  <1>1. hived_transport_form(s) = FlattenSeq(w)
    <2>1. hived_transport_form(s) = FlattenSeq([i \in DOMAIN s |-> Escaped(s[i])])
      BY DEF hived_transport_form, Escaped
    <2>2. DOMAIN s = 1 .. N
      BY DEF Text
    <2> QED BY <2>1, <2>2
  <1>2. ASSUME NEW i \in 1 .. N PROVE w[i] \in Seq(Unaffected) /\ Len(w[i]) \in 1 .. 5
    <2>1. s \in Seq(0 .. 127) /\ i \in 1 .. Len(s)
      BY DEF Text
    <2>2. s[i] \in 0 .. 127
      BY <2>1, ElementOfSeq
    <2> QED BY <2>2, EscapedIs
  <1>3. w \in [1 .. N -> Seq(Unaffected)] /\ N \in Nat
    BY <1>2 DEF Text
  <1>4. \A i \in 1 .. N : 1 <= Len(w[i]) /\ Len(w[i]) <= 5
    <2>1. \A k \in 1 .. 5 : 1 <= k /\ k <= 5
      OBVIOUS
    <2> HIDE DEF w, N
    <2> QED BY <1>2, <2>1
  <1> HIDE DEF w, N
  <1>5. FlattenSeq(w) \in Seq(Unaffected)
    BY <1>3, FlattenIsSeq
  <1>6. 1 * N <= Len(FlattenSeq(w)) /\ Len(FlattenSeq(w)) <= 5 * N
    BY <1>3, <1>4, FlattenLen
  <1>7. 1 * N = N
    BY <1>3
  <1> QED BY <1>1, <1>5, <1>6, <1>7 DEF N

(* A sequence over a set is one over a larger set. *)
LEMMA SeqMonotone ==
    ASSUME NEW A, NEW B, A \subseteq B, NEW s \in Seq(A)
    PROVE  s \in Seq(B)
  OBVIOUS

(* Characters that transport leaves alone are text, and text is bytes. *)
LEMMA KeptIsText == Seq(Unaffected) \subseteq Text /\ Text \subseteq Bytes /\ Seq(Unaffected) \subseteq Bytes
  <1>1. Unaffected \subseteq 0 .. 127 /\ 0 .. 127 \subseteq Nat
    BY DEF Unaffected
  <1> QED BY <1>1, SeqMonotone, SMTT(60), ZenonT(60) DEF Text, Bytes

(* Transport changes nothing in a string of characters it leaves alone. *)
LEMMA FormOfKept ==
    ASSUME NEW s \in Seq(Unaffected)
    PROVE  hived_transport_form(s) = s
  <1> DEFINE N == Len(s)
             w == [i \in 1 .. N |-> Escaped(s[i])]
  <1>1. hived_transport_form(s) = FlattenSeq(w)
    <2>1. hived_transport_form(s) = FlattenSeq([i \in DOMAIN s |-> Escaped(s[i])])
      BY DEF hived_transport_form, Escaped
    <2>2. DOMAIN s = 1 .. N
      OBVIOUS
    <2> QED BY <2>1, <2>2
  <1>2. ASSUME NEW i \in 1 .. N PROVE w[i] = <<s[i]>> /\ w[i] \in Seq(Unaffected)
    <2>1. s[i] \in Unaffected /\ s[i] \in 0 .. 127
      BY DEF Unaffected
    <2> QED BY <2>1, EscapedIs
  <1>3. w \in Seq(Seq(Unaffected)) /\ N \in Nat /\ DOMAIN w = 1 .. N
    BY <1>2
  <1> HIDE DEF w
  <1>4. FlattenSeq(w) = s
    <2> HIDE DEF N
    <2>1. Len(s) = N /\ \A i \in 1 .. N : w[i] = <<s[i]>>
      BY <1>2 DEF N
    <2> QED BY <1>3, <2>1, FlattenSingles, SMTT(60), ZenonT(60)
  <1> QED BY <1>1, <1>4

(* The forms in short. *)
LEMMA Forms ==
    ASSUME NEW s \in Text
    PROVE  LET f == hived_transport_form(s)
           IN  /\ f \in Text /\ f \in Bytes /\ hived_transport_form(f) = f
               /\ Len(s) <= Len(f) /\ Len(f) <= 5 * Len(s)
  BY FormIsKept, FormOfKept, KeptIsText

-----------------------------------------------------------------------------
(* Each sort of the codec is the stable sort by its keys. *)
ByFirst(e) == e[1]
ByItself(x) == x

(* Names, by their transport form. *)
LEMMA SortedByForm ==
    ASSUME NEW N \in Nat, NEW items, DOMAIN items = 1 .. N,
           NEW keys, keys = [i \in 1 .. N |-> hived_transport_form(items[i])], Keys(keys, N)
    PROVE  Sorted(items, hived_transport_form) = Rearranged(items, keys)
  <1> DEFINE place(i) == Cardinality({j \in DOMAIN items :
                            \/ Before(hived_transport_form(items[j]), hived_transport_form(items[i]))
                            \/ hived_transport_form(items[j]) = hived_transport_form(items[i]) /\ j <= i})
  <1>1. ASSUME NEW i \in 1 .. N PROVE place(i) = Place(keys, i)
    <2>1. \A j \in 1 .. N : keys[j] = hived_transport_form(items[j])
      OBVIOUS
    <2>2. DOMAIN keys = 1 .. N
      BY DEF Keys
    <2>3. {j \in DOMAIN items : \/ Before(hived_transport_form(items[j]), hived_transport_form(items[i]))
                                \/ hived_transport_form(items[j]) = hived_transport_form(items[i]) /\ j <= i}
            = {j \in DOMAIN keys : Ahead(keys, j, i)}
      BY <2>1, <2>2 DEF Ahead
    <2> QED BY <2>3 DEF Place
  <1>2. Sorted(items, hived_transport_form) = [n \in DOMAIN items |-> items[CHOOSE i \in DOMAIN items : place(i) = n]]
    BY DEF Sorted
  <1> HIDE DEF place
  <1>3. ASSUME NEW n \in 1 .. N PROVE (CHOOSE i \in DOMAIN items : place(i) = n) = At(keys, n)
    <2>1. At(keys, n) \in 1 .. N /\ place(At(keys, n)) = n
      BY <1>1, PlacesFill
    <2>2. ASSUME NEW i \in 1 .. N, place(i) = n PROVE i = At(keys, n)
      <3>1. Place(keys, i) = n
        BY <1>1, <2>2
      <3>2. At(keys, Place(keys, i)) = i
        BY PlacesFill
      <3> QED BY <3>1, <3>2
    <2> QED BY <2>1, <2>2
  <1> QED BY <1>2, <1>3 DEF Rearranged

(* Entries, by the transport form of their name. *)
LEMMA SortedByName ==
    ASSUME NEW N \in Nat, NEW items, DOMAIN items = 1 .. N,
           NEW keys, keys = [i \in 1 .. N |-> hived_transport_form(items[i][1])], Keys(keys, N)
    PROVE  Sorted(items, PropertyKey) = Rearranged(items, keys)
  <1> DEFINE place(i) == Cardinality({j \in DOMAIN items :
                            \/ Before(hived_transport_form(items[j][1]), hived_transport_form(items[i][1]))
                            \/ hived_transport_form(items[j][1]) = hived_transport_form(items[i][1]) /\ j <= i})
  <1>1. ASSUME NEW i \in 1 .. N PROVE place(i) = Place(keys, i)
    <2>1. \A j \in 1 .. N : keys[j] = hived_transport_form(items[j][1])
      OBVIOUS
    <2>2. DOMAIN keys = 1 .. N
      BY DEF Keys
    <2>3. {j \in DOMAIN items : \/ Before(hived_transport_form(items[j][1]), hived_transport_form(items[i][1]))
                                \/ hived_transport_form(items[j][1]) = hived_transport_form(items[i][1]) /\ j <= i}
            = {j \in DOMAIN keys : Ahead(keys, j, i)}
      BY <2>1, <2>2 DEF Ahead
    <2> QED BY <2>3 DEF Place
  <1>2. Sorted(items, PropertyKey) = [n \in DOMAIN items |-> items[CHOOSE i \in DOMAIN items : place(i) = n]]
    BY DEF Sorted, PropertyKey
  <1> HIDE DEF place
  <1>3. ASSUME NEW n \in 1 .. N PROVE (CHOOSE i \in DOMAIN items : place(i) = n) = At(keys, n)
    <2>1. At(keys, n) \in 1 .. N /\ place(At(keys, n)) = n
      BY <1>1, PlacesFill
    <2>2. ASSUME NEW i \in 1 .. N, place(i) = n PROVE i = At(keys, n)
      <3>1. Place(keys, i) = n
        BY <1>1, <2>2
      <3>2. At(keys, Place(keys, i)) = i
        BY PlacesFill
      <3> QED BY <3>1, <3>2
    <2> QED BY <2>1, <2>2
  <1> QED BY <1>2, <1>3 DEF Rearranged

(* Entries, by their name as it is. *)
LEMMA SortedByFirst ==
    ASSUME NEW N \in Nat, NEW items, DOMAIN items = 1 .. N,
           NEW keys, keys = [i \in 1 .. N |-> items[i][1]], Keys(keys, N)
    PROVE  Sorted(items, ByFirst) = Rearranged(items, keys)
  <1> DEFINE place(i) == Cardinality({j \in DOMAIN items :
                            \/ Before(items[j][1], items[i][1])
                            \/ items[j][1] = items[i][1] /\ j <= i})
  <1>1. ASSUME NEW i \in 1 .. N PROVE place(i) = Place(keys, i)
    <2>1. \A j \in 1 .. N : keys[j] = items[j][1]
      OBVIOUS
    <2>2. DOMAIN keys = 1 .. N
      BY DEF Keys
    <2>3. {j \in DOMAIN items : \/ Before(items[j][1], items[i][1])
                                \/ items[j][1] = items[i][1] /\ j <= i}
            = {j \in DOMAIN keys : Ahead(keys, j, i)}
      BY <2>1, <2>2 DEF Ahead
    <2> QED BY <2>3 DEF Place
  <1>2. Sorted(items, ByFirst) = [n \in DOMAIN items |-> items[CHOOSE i \in DOMAIN items : place(i) = n]]
    BY DEF Sorted, ByFirst
  <1> HIDE DEF place
  <1>3. ASSUME NEW n \in 1 .. N PROVE (CHOOSE i \in DOMAIN items : place(i) = n) = At(keys, n)
    <2>1. At(keys, n) \in 1 .. N /\ place(At(keys, n)) = n
      BY <1>1, PlacesFill
    <2>2. ASSUME NEW i \in 1 .. N, place(i) = n PROVE i = At(keys, n)
      <3>1. Place(keys, i) = n
        BY <1>1, <2>2
      <3>2. At(keys, Place(keys, i)) = i
        BY PlacesFill
      <3> QED BY <3>1, <3>2
    <2> QED BY <2>1, <2>2
  <1> QED BY <1>2, <1>3 DEF Rearranged

(* Names as they are. *)
LEMMA SortedByItself ==
    ASSUME NEW N \in Nat, NEW items, DOMAIN items = 1 .. N,
           NEW keys, keys = [i \in 1 .. N |-> items[i]], Keys(keys, N)
    PROVE  Sorted(items, ByItself) = Rearranged(items, keys)
  <1> DEFINE place(i) == Cardinality({j \in DOMAIN items :
                            \/ Before(items[j], items[i])
                            \/ items[j] = items[i] /\ j <= i})
  <1>1. ASSUME NEW i \in 1 .. N PROVE place(i) = Place(keys, i)
    <2>1. \A j \in 1 .. N : keys[j] = items[j]
      OBVIOUS
    <2>2. DOMAIN keys = 1 .. N
      BY DEF Keys
    <2>3. {j \in DOMAIN items : \/ Before(items[j], items[i])
                                \/ items[j] = items[i] /\ j <= i}
            = {j \in DOMAIN keys : Ahead(keys, j, i)}
      BY <2>1, <2>2 DEF Ahead
    <2> QED BY <2>3 DEF Place
  <1>2. Sorted(items, ByItself) = [n \in DOMAIN items |-> items[CHOOSE i \in DOMAIN items : place(i) = n]]
    BY DEF Sorted, ByItself
  <1> HIDE DEF place
  <1>3. ASSUME NEW n \in 1 .. N PROVE (CHOOSE i \in DOMAIN items : place(i) = n) = At(keys, n)
    <2>1. At(keys, n) \in 1 .. N /\ place(At(keys, n)) = n
      BY <1>1, PlacesFill
    <2>2. ASSUME NEW i \in 1 .. N, place(i) = n PROVE i = At(keys, n)
      <3>1. Place(keys, i) = n
        BY <1>1, <2>2
      <3>2. At(keys, Place(keys, i)) = i
        BY PlacesFill
      <3> QED BY <3>1, <3>2
    <2> QED BY <2>1, <2>2
  <1> QED BY <1>2, <1>3 DEF Rearranged

(* Proposal ids, by their value. *)
LEMMA SortedById ==
    ASSUME NEW N \in Nat, NEW items, DOMAIN items = 1 .. N,
           NEW keys, keys = [i \in 1 .. N |-> Reverse(items[i])], Keys(keys, N)
    PROVE  Sorted(items, ProposalOrder) = Rearranged(items, keys)
  <1> DEFINE place(i) == Cardinality({j \in DOMAIN items :
                            \/ Before(Reverse(items[j]), Reverse(items[i]))
                            \/ Reverse(items[j]) = Reverse(items[i]) /\ j <= i})
  <1>1. ASSUME NEW i \in 1 .. N PROVE place(i) = Place(keys, i)
    <2>1. \A j \in 1 .. N : keys[j] = Reverse(items[j])
      OBVIOUS
    <2>2. DOMAIN keys = 1 .. N
      BY DEF Keys
    <2>3. {j \in DOMAIN items : \/ Before(Reverse(items[j]), Reverse(items[i]))
                                \/ Reverse(items[j]) = Reverse(items[i]) /\ j <= i}
            = {j \in DOMAIN keys : Ahead(keys, j, i)}
      BY <2>1, <2>2 DEF Ahead
    <2> QED BY <2>3 DEF Place
  <1>2. Sorted(items, ProposalOrder) = [n \in DOMAIN items |-> items[CHOOSE i \in DOMAIN items : place(i) = n]]
    BY DEF Sorted, ProposalOrder
  <1> HIDE DEF place
  <1>3. ASSUME NEW n \in 1 .. N PROVE (CHOOSE i \in DOMAIN items : place(i) = n) = At(keys, n)
    <2>1. At(keys, n) \in 1 .. N /\ place(At(keys, n)) = n
      BY <1>1, PlacesFill
    <2>2. ASSUME NEW i \in 1 .. N, place(i) = n PROVE i = At(keys, n)
      <3>1. Place(keys, i) = n
        BY <1>1, <2>2
      <3>2. At(keys, Place(keys, i)) = i
        BY PlacesFill
      <3> QED BY <3>1, <3>2
    <2> QED BY <2>1, <2>2
  <1> QED BY <1>2, <1>3 DEF Rearranged

-----------------------------------------------------------------------------
(* Two items of the same key. *)
Same(keys, N) == \E i, j \in 1 .. N : i # j /\ keys[i] = keys[j]

(* A sort neither makes nor loses a repetition, and without one the keys   *)
(* come out strictly increasing.                                           *)
LEMMA SortedKeys ==
    ASSUME NEW N \in Nat, NEW keys, Keys(keys, N)
    PROVE  /\ Same(Rearranged(keys, keys), N) <=> Same(keys, N)
           /\ ~Same(keys, N) => \A n \in 1 .. N - 1 : Before(keys[At(keys, n)], keys[At(keys, n + 1)])
  <1>1. \A n \in 1 .. N : Rearranged(keys, keys)[n] = keys[At(keys, n)]
    BY RearrangedKeys
  <1>2. \A n \in 1 .. N : At(keys, n) \in 1 .. N /\ Place(keys, At(keys, n)) = n
    BY PlacesFill
  <1>3. \A i \in 1 .. N : Place(keys, i) \in 1 .. N /\ At(keys, Place(keys, i)) = i
    BY PlacesFill
  <1>4. Same(Rearranged(keys, keys), N) => Same(keys, N)
    <2> SUFFICES ASSUME NEW m \in 1 .. N, NEW n \in 1 .. N, m # n,
                        Rearranged(keys, keys)[m] = Rearranged(keys, keys)[n]
                 PROVE  Same(keys, N)
      BY DEF Same
    <2>1. At(keys, m) # At(keys, n)
      BY <1>2
    <2> QED BY <1>1, <1>2, <2>1 DEF Same
  <1>5. Same(keys, N) => Same(Rearranged(keys, keys), N)
    <2> SUFFICES ASSUME NEW i \in 1 .. N, NEW j \in 1 .. N, i # j, keys[i] = keys[j]
                 PROVE  Same(Rearranged(keys, keys), N)
      BY DEF Same
    <2>1. Place(keys, i) # Place(keys, j)
      BY <1>3
    <2> QED BY <1>1, <1>3, <2>1 DEF Same
  <1>6. ASSUME ~Same(keys, N), NEW n \in 1 .. N - 1
        PROVE  Before(keys[At(keys, n)], keys[At(keys, n + 1)])
    <2>1. n \in 1 .. N /\ n + 1 \in 1 .. N /\ n < n + 1
      OBVIOUS
    <2>2. Ahead(keys, At(keys, n), At(keys, n + 1)) /\ At(keys, n) # At(keys, n + 1)
      BY <2>1, AtOrders
    <2>3. keys[At(keys, n)] # keys[At(keys, n + 1)]
      BY <1>2, <1>6, <2>1, <2>2 DEF Same
    <2> QED BY <2>2, <2>3 DEF Ahead
  <1> QED BY <1>4, <1>5, <1>6

(* Items and the keys they are sorted by; what was sorted stays.           *)
LEMMA SortedItems ==
    ASSUME NEW N \in Nat, NEW keys, Keys(keys, N), NEW items, DOMAIN items = 1 .. N
    PROVE  LET w == Rearranged(items, keys)
               k == Rearranged(keys, keys)
           IN  /\ DOMAIN w = 1 .. N /\ Keys(k, N) /\ Rearranged(w, k) = w
               /\ \A n \in 1 .. N : At(keys, n) \in 1 .. N /\ w[n] = items[At(keys, n)] /\ k[n] = keys[At(keys, n)]
  <1> DEFINE w == Rearranged(items, keys)
             k == Rearranged(keys, keys)
  <1>1. DOMAIN w = 1 .. N /\ \A n \in 1 .. N : w[n] = items[At(keys, n)]
    BY DEF Rearranged
  <1>2. Keys(k, N) /\ InOrder(k, N) /\ \A n \in 1 .. N : k[n] = keys[At(keys, n)]
    BY RearrangedKeys
  <1>3. \A n \in 1 .. N : At(keys, n) \in 1 .. N
    BY PlacesFill
  <1>4. w = [n \in 1 .. N |-> w[n]]
    BY DEF Rearranged
  <1> HIDE DEF w, k
  <1>5. \A n \in 1 .. N : At(k, n) = n
    BY <1>2, InOrderStays
  <1>6. Rearranged(w, k) = [n \in 1 .. N |-> w[n]]
    BY <1>1, <1>5 DEF Rearranged
  <1> QED BY <1>1, <1>2, <1>3, <1>4, <1>6 DEF w, k

-----------------------------------------------------------------------------
(* An entry of a map, and a map, as hived has them from the wire. *)
CarriedEntry(e) == <<hived_transport_form(e[1]), e[2]>>
CarriedEntries(v) == [i \in DOMAIN v |-> CarriedEntry(v[i])]
Carried(v) == Sorted(CarriedEntries(v), ByFirst)
CarriedNames(v) == Sorted([i \in DOMAIN v |-> hived_transport_form(v[i])], ByItself)

(* So many entries with a name. *)
Entries(v, N) == DOMAIN v = 1 .. N /\ \A i \in 1 .. N : v[i][1] \in Text

(* A map is sorted by name, each entry goes over the wire, and what comes  *)
(* out is in order, under names that stay what they are.                   *)
LEMMA EntriesCarried ==
    ASSUME NEW N \in Nat, NEW v, Entries(v, N)
    PROVE  LET u == Carried(v)
               w == Sorted(v, PropertyKey)
           IN  /\ DOMAIN w = 1 .. N /\ Entries(u, N) /\ Entries(w, N)
               /\ \A n \in 1 .. N : /\ \E i \in 1 .. N : w[n] = v[i]
                                    /\ u[n] = CarriedEntry(w[n])
               /\ Sorted(u, PropertyKey) = u /\ Sorted(w, PropertyKey) = w /\ Carried(w) = u
               /\ Repeats(v, PropertyKey) <=> Repeats(w, PropertyKey)
               /\ Repeats(v, PropertyKey) <=> Repeats(u, PropertyKey)
               /\ ~Repeats(v, PropertyKey) => \A n \in 1 .. N - 1 : Before(u[n][1], u[n + 1][1])
  <1> DEFINE keys == [i \in 1 .. N |-> hived_transport_form(v[i][1])]
             m == CarriedEntries(v)
             u == Rearranged(m, keys)
             w == Rearranged(v, keys)
             k == Rearranged(keys, keys)
  <1>1. DOMAIN v = 1 .. N /\ \A i \in 1 .. N : v[i][1] \in Text
    BY DEF Entries
  <1>2. ASSUME NEW i \in 1 .. N
        PROVE  /\ keys[i] = hived_transport_form(v[i][1]) /\ keys[i] \in Text /\ keys[i] \in Bytes
               /\ hived_transport_form(keys[i]) = keys[i]
    BY <1>1, Forms
  <1>3. Keys(keys, N)
    BY <1>2 DEF Keys
  <1>4. DOMAIN m = 1 .. N /\ \A i \in 1 .. N : m[i] = <<keys[i], v[i][2]>> /\ m[i] = CarriedEntry(v[i])
    BY <1>1 DEF CarriedEntries, CarriedEntry
  <1>5. keys = [i \in 1 .. N |-> hived_transport_form(v[i][1])] /\ keys = [i \in 1 .. N |-> m[i][1]]
    <2>1. \A i \in 1 .. N : m[i][1] = keys[i]
      BY <1>4
    <2> QED BY <2>1
  <1> HIDE DEF keys, m
  <1>6. Sorted(v, PropertyKey) = w
    BY <1>1, <1>3, <1>5, SortedByName
  <1>7. Carried(v) = u
    BY <1>3, <1>4, <1>5, SortedByFirst DEF Carried, m
  <1>8. /\ DOMAIN w = 1 .. N /\ Keys(k, N) /\ Rearranged(w, k) = w
        /\ \A n \in 1 .. N : At(keys, n) \in 1 .. N /\ w[n] = v[At(keys, n)] /\ k[n] = keys[At(keys, n)]
    BY <1>1, <1>3, SortedItems
  <1>9. /\ DOMAIN u = 1 .. N /\ Rearranged(u, k) = u
        /\ \A n \in 1 .. N : u[n] = m[At(keys, n)]
    BY <1>3, <1>4, SortedItems
  <1> HIDE DEF u, w, k
  <1>10. ASSUME NEW n \in 1 .. N
         PROVE  /\ \E i \in 1 .. N : w[n] = v[i]
                /\ u[n] = CarriedEntry(w[n]) /\ u[n] = <<k[n], w[n][2]>> /\ u[n][1] = k[n]
                /\ k[n] = hived_transport_form(w[n][1]) /\ k[n] = hived_transport_form(u[n][1])
                /\ k[n] \in Text /\ w[n][1] \in Text
    <2>1. PICK i \in 1 .. N : i = At(keys, n)
      BY <1>8
    <2>2. w[n] = v[i] /\ u[n] = m[i] /\ k[n] = keys[i]
      BY <1>8, <1>9, <2>1
    <2> QED BY <1>1, <1>2, <1>4, <2>2
  <1>11. k = [n \in 1 .. N |-> hived_transport_form(w[n][1])] /\ k = [n \in 1 .. N |-> hived_transport_form(u[n][1])]
    <2>1. k = [n \in 1 .. N |-> k[n]]
      <3>1. DOMAIN keys = 1 .. N
        BY <1>3 DEF Keys
      <3> QED BY <3>1 DEF k, Rearranged
    <2>2. [n \in 1 .. N |-> k[n]] = [n \in 1 .. N |-> hived_transport_form(w[n][1])]
      BY <1>10
    <2>3. [n \in 1 .. N |-> k[n]] = [n \in 1 .. N |-> hived_transport_form(u[n][1])]
      BY <1>10
    <2> QED BY <2>1, <2>2, <2>3
  <1>12. Sorted(u, PropertyKey) = u
    BY <1>8, <1>9, <1>11, SortedByName
  <1>13. Sorted(w, PropertyKey) = w
    BY <1>8, <1>11, SortedByName
  <1>14. Carried(w) = u
    <2> DEFINE x == CarriedEntries(w)
    <2>1. DOMAIN x = 1 .. N /\ \A n \in 1 .. N : x[n] = u[n]
      BY <1>8, <1>10 DEF CarriedEntries
    <2>2. x = u
      <3>1. x = [n \in 1 .. N |-> x[n]]
        BY <1>8 DEF CarriedEntries
      <3>2. u = [n \in 1 .. N |-> u[n]]
        BY <1>4 DEF u, Rearranged
      <3>3. [n \in 1 .. N |-> x[n]] = [n \in 1 .. N |-> u[n]]
        BY <2>1
      <3> HIDE DEF x
      <3> QED BY <3>1, <3>2, <3>3
    <2>3. k = [n \in 1 .. N |-> u[n][1]]
      <3>1. [n \in 1 .. N |-> hived_transport_form(u[n][1])] = [n \in 1 .. N |-> u[n][1]]
        BY <1>10
      <3> QED BY <1>11, <3>1
    <2>4. Sorted(u, ByFirst) = u
      BY <1>8, <1>9, <2>3, SortedByFirst
    <2> QED BY <2>2, <2>4 DEF Carried
  <1>15. Same(k, N) <=> Same(keys, N)
    BY <1>3, SortedKeys DEF k
  <1>16. Repeats(v, PropertyKey) <=> Same(keys, N)
    BY <1>1, <1>2 DEF Repeats, PropertyKey, Same
  <1>17. Repeats(w, PropertyKey) <=> Same(k, N)
    <2>1. DOMAIN w = 1 .. N
      BY <1>8
    <2>2. \A n \in 1 .. N : k[n] = hived_transport_form(w[n][1])
      BY <1>10
    <2> QED BY ONLY <2>1, <2>2 DEF Repeats, PropertyKey, Same
  <1>18. Repeats(u, PropertyKey) <=> Same(k, N)
    <2>1. DOMAIN u = 1 .. N
      BY <1>9
    <2>2. \A n \in 1 .. N : k[n] = hived_transport_form(u[n][1])
      BY <1>10
    <2> QED BY ONLY <2>1, <2>2 DEF Repeats, PropertyKey, Same
  <1>19. ASSUME ~Repeats(v, PropertyKey), NEW n \in 1 .. N - 1 PROVE Before(u[n][1], u[n + 1][1])
    <2>1. n \in 1 .. N /\ n + 1 \in 1 .. N
      OBVIOUS
    <2>2. Before(keys[At(keys, n)], keys[At(keys, n + 1)])
      BY <1>3, <1>16, <1>19, SortedKeys
    <2> QED BY <1>8, <1>10, <2>1, <2>2
  <1>20. Entries(u, N) /\ Entries(w, N)
    BY <1>8, <1>9, <1>10 DEF Entries
  <1> QED BY <1>6, <1>7, <1>8, <1>10, <1>12, <1>13, <1>14, <1>15, <1>16, <1>17, <1>18, <1>19, <1>20

(* The same for a set of names. *)
Names(v, N) == DOMAIN v = 1 .. N /\ \A i \in 1 .. N : v[i] \in Text

(* A sorted list of names in transport: each is the form of one that was   *)
(* given. *)
LEMMA NamesCarried ==
    ASSUME NEW N \in Nat, NEW v, Names(v, N)
    PROVE  LET u == CarriedNames(v)
               w == Sorted(v, hived_transport_form)
           IN  /\ Names(u, N) /\ Names(w, N)
               /\ \A n \in 1 .. N : /\ \E i \in 1 .. N : w[n] = v[i]
                                    /\ u[n] = hived_transport_form(w[n])
               /\ Sorted(u, hived_transport_form) = u
               /\ ~Repeats(v, hived_transport_form) => \A n \in 1 .. N - 1 : Before(u[n], u[n + 1])
  <1> DEFINE keys == [i \in 1 .. N |-> hived_transport_form(v[i])]
             w == Rearranged(v, keys)
             k == Rearranged(keys, keys)
  <1>1. DOMAIN v = 1 .. N /\ \A i \in 1 .. N : v[i] \in Text
    BY DEF Names
  <1>2. ASSUME NEW i \in 1 .. N
        PROVE  /\ keys[i] = hived_transport_form(v[i]) /\ keys[i] \in Text /\ keys[i] \in Bytes
               /\ hived_transport_form(keys[i]) = keys[i]
    BY <1>1, Forms
  <1>3. Keys(keys, N)
    BY <1>2 DEF Keys
  <1>4. DOMAIN keys = 1 .. N /\ keys = [i \in 1 .. N |-> keys[i]] /\ keys = [i \in DOMAIN v |-> hived_transport_form(v[i])]
    BY <1>1
  <1>5. keys = [i \in 1 .. N |-> hived_transport_form(v[i])]
    OBVIOUS
  <1> HIDE DEF keys
  <1>6. Sorted(v, hived_transport_form) = w
    BY <1>1, <1>3, <1>5, SortedByForm
  <1>7. CarriedNames(v) = k
    BY <1>3, <1>4, SortedByItself DEF CarriedNames
  <1>8. /\ DOMAIN w = 1 .. N /\ Keys(k, N)
        /\ \A n \in 1 .. N : At(keys, n) \in 1 .. N /\ w[n] = v[At(keys, n)] /\ k[n] = keys[At(keys, n)]
    BY <1>1, <1>3, SortedItems
  <1>9. Rearranged(k, k) = k
    BY <1>3, <1>4, SortedItems
  <1> HIDE DEF w, k
  <1>10. ASSUME NEW n \in 1 .. N
         PROVE  /\ \E i \in 1 .. N : w[n] = v[i]
                /\ k[n] = hived_transport_form(w[n]) /\ k[n] = hived_transport_form(k[n])
                /\ k[n] \in Text /\ w[n] \in Text
    <2>1. PICK i \in 1 .. N : i = At(keys, n)
      BY <1>8
    <2>2. w[n] = v[i] /\ k[n] = keys[i]
      BY <1>8, <2>1
    <2> QED BY <1>1, <1>2, <2>2
  <1>11. k = [n \in 1 .. N |-> hived_transport_form(k[n])] /\ DOMAIN k = 1 .. N
    <2>1. k = [n \in 1 .. N |-> k[n]]
      BY <1>4 DEF k, Rearranged
    <2>2. [n \in 1 .. N |-> k[n]] = [n \in 1 .. N |-> hived_transport_form(k[n])]
      BY <1>10
    <2> QED BY <2>1, <2>2
  <1>12. Sorted(k, hived_transport_form) = k
    <2> DEFINE x == [n \in 1 .. N |-> hived_transport_form(k[n])]
    <2>1. DOMAIN k = 1 .. N /\ x = k
      BY <1>11
    <2>2. x = [n \in 1 .. N |-> hived_transport_form(k[n])]
      OBVIOUS
    <2> HIDE DEF x
    <2>3. Keys(x, N) /\ Rearranged(k, x) = k /\ DOMAIN k = 1 .. N
      BY <1>8, <1>9, <2>1
    <2>4. Sorted(k, hived_transport_form) = Rearranged(k, x)
      BY ONLY <2>2, <2>3, SortedByForm, N \in Nat
    <2> QED BY <2>3, <2>4
  <1>13. Repeats(v, hived_transport_form) <=> Same(keys, N)
    BY <1>1, <1>2 DEF Repeats, Same
  <1>14. ASSUME ~Repeats(v, hived_transport_form), NEW n \in 1 .. N - 1 PROVE Before(k[n], k[n + 1])
    <2>1. n \in 1 .. N /\ n + 1 \in 1 .. N
      OBVIOUS
    <2>2. Before(keys[At(keys, n)], keys[At(keys, n + 1)])
      BY <1>3, <1>13, <1>14, SortedKeys
    <2> QED BY <1>8, <2>1, <2>2
  <1>15. Names(k, N) /\ Names(w, N)
    BY <1>8, <1>10, <1>11 DEF Names
  <1> QED BY <1>6, <1>7, <1>10, <1>12, <1>14, <1>15

(* Entries sorted by their keys as they are. *)
LEMMA FirstsSorted ==
    ASSUME NEW N \in Nat, NEW v, DOMAIN v = 1 .. N, \A i \in 1 .. N : v[i][1] \in Bytes
    PROVE  LET w == Sorted(v, ByFirst)
           IN  /\ DOMAIN w = 1 .. N /\ Sorted(w, ByFirst) = w
               /\ \A n \in 1 .. N : \E i \in 1 .. N : w[n] = v[i]
               /\ Repeats(v, ByFirst) <=> Repeats(w, ByFirst)
               /\ ~Repeats(v, ByFirst) => \A n \in 1 .. N - 1 : Before(w[n][1], w[n + 1][1])
  <1> DEFINE keys == [i \in 1 .. N |-> v[i][1]]
             w == Rearranged(v, keys)
             k == Rearranged(keys, keys)
  <1>1. \A i \in 1 .. N : keys[i] = v[i][1] /\ keys[i] \in Bytes
    OBVIOUS
  <1>2. Keys(keys, N) /\ DOMAIN keys = 1 .. N
    BY <1>1 DEF Keys
  <1>3. keys = [i \in 1 .. N |-> v[i][1]]
    OBVIOUS
  <1> HIDE DEF keys
  <1>4. Sorted(v, ByFirst) = w
    BY <1>2, <1>3, SortedByFirst
  <1>5. /\ DOMAIN w = 1 .. N /\ Keys(k, N) /\ Rearranged(w, k) = w
        /\ \A n \in 1 .. N : At(keys, n) \in 1 .. N /\ w[n] = v[At(keys, n)] /\ k[n] = keys[At(keys, n)]
    BY <1>2, SortedItems
  <1>6. k = [n \in 1 .. N |-> k[n]]
    BY <1>2 DEF Rearranged
  <1>7. Same(k, N) <=> Same(keys, N)
    BY <1>2, SortedKeys
  <1> HIDE DEF w, k
  <1>8. ASSUME NEW n \in 1 .. N PROVE k[n] = w[n][1] /\ \E i \in 1 .. N : w[n] = v[i]
    <2>1. PICK i \in 1 .. N : i = At(keys, n)
      BY <1>5
    <2>2. w[n] = v[i] /\ k[n] = keys[i]
      BY <1>5, <2>1
    <2> QED BY <1>1, <2>2
  <1>9. k = [n \in 1 .. N |-> w[n][1]]
    <2>1. [n \in 1 .. N |-> k[n]] = [n \in 1 .. N |-> w[n][1]]
      BY <1>8
    <2> QED BY <1>6, <2>1
  <1>10. Sorted(w, ByFirst) = w
    BY <1>5, <1>9, SortedByFirst
  <1>11. Repeats(v, ByFirst) <=> Same(keys, N)
    BY <1>1 DEF Repeats, ByFirst, Same
  <1>12. Repeats(w, ByFirst) <=> Same(k, N)
    <2>1. DOMAIN w = 1 .. N
      BY <1>5
    <2>2. \A n \in 1 .. N : k[n] = w[n][1]
      BY <1>8
    <2> QED BY ONLY <2>1, <2>2 DEF Repeats, ByFirst, Same
  <1>13. ASSUME ~Repeats(v, ByFirst), NEW n \in 1 .. N - 1 PROVE Before(w[n][1], w[n + 1][1])
    <2>1. n \in 1 .. N /\ n + 1 \in 1 .. N
      OBVIOUS
    <2>2. Before(keys[At(keys, n)], keys[At(keys, n + 1)])
      BY <1>2, <1>11, <1>13, SortedKeys
    <2> QED BY <1>5, <1>8, <2>1, <2>2
  <1> QED BY <1>4, <1>5, <1>7, <1>8, <1>10, <1>11, <1>12, <1>13

(* Proposal ids, by their value. *)
LEMMA IdsSorted ==
    ASSUME NEW N \in Nat, NEW v, DOMAIN v = 1 .. N, \A i \in 1 .. N : v[i] \in Bytes
    PROVE  LET w == Sorted(v, ProposalOrder)
           IN  /\ DOMAIN w = 1 .. N /\ Sorted(w, ProposalOrder) = w
               /\ \A n \in 1 .. N : \E i \in 1 .. N : w[n] = v[i]
               /\ Repeats(v, ProposalOrder) <=> Repeats(w, ProposalOrder)
               /\ ~Repeats(v, ProposalOrder) => \A n \in 1 .. N - 1 : Before(Reverse(w[n]), Reverse(w[n + 1]))
  <1> DEFINE keys == [i \in 1 .. N |-> Reverse(v[i])]
             w == Rearranged(v, keys)
             k == Rearranged(keys, keys)
  <1>1. \A i \in 1 .. N : keys[i] = Reverse(v[i]) /\ keys[i] \in Bytes
    <2> SUFFICES ASSUME NEW i \in 1 .. N PROVE Reverse(v[i]) \in Bytes
      OBVIOUS
    <2>1. v[i] \in Seq(Nat)
      BY DEF Bytes
    <2>2. Reverse(v[i]) \in Seq(Nat)
      BY <2>1 DEF Reverse
    <2> QED BY <2>2 DEF Bytes
  <1>2. Keys(keys, N) /\ DOMAIN keys = 1 .. N
    BY <1>1 DEF Keys
  <1>3. keys = [i \in 1 .. N |-> Reverse(v[i])]
    OBVIOUS
  <1> HIDE DEF keys
  <1>4. Sorted(v, ProposalOrder) = w
    BY <1>2, <1>3, SortedById
  <1>5. /\ DOMAIN w = 1 .. N /\ Keys(k, N) /\ Rearranged(w, k) = w
        /\ \A n \in 1 .. N : At(keys, n) \in 1 .. N /\ w[n] = v[At(keys, n)] /\ k[n] = keys[At(keys, n)]
    BY <1>2, SortedItems
  <1>6. k = [n \in 1 .. N |-> k[n]]
    BY <1>2 DEF Rearranged
  <1>7. Same(k, N) <=> Same(keys, N)
    BY <1>2, SortedKeys
  <1> HIDE DEF w, k
  <1>8. ASSUME NEW n \in 1 .. N PROVE k[n] = Reverse(w[n]) /\ \E i \in 1 .. N : w[n] = v[i]
    <2>1. PICK i \in 1 .. N : i = At(keys, n)
      BY <1>5
    <2>2. w[n] = v[i] /\ k[n] = keys[i]
      BY <1>5, <2>1
    <2> QED BY <1>1, <2>2
  <1>9. k = [n \in 1 .. N |-> Reverse(w[n])]
    <2>1. [n \in 1 .. N |-> k[n]] = [n \in 1 .. N |-> Reverse(w[n])]
      BY <1>8
    <2> QED BY <1>6, <2>1
  <1>10. Sorted(w, ProposalOrder) = w
    BY <1>5, <1>9, SortedById
  <1>11. Repeats(v, ProposalOrder) <=> Same(keys, N)
    BY <1>1 DEF Repeats, ProposalOrder, Same
  <1>12. Repeats(w, ProposalOrder) <=> Same(k, N)
    <2>1. DOMAIN w = 1 .. N
      BY <1>5
    <2>2. \A n \in 1 .. N : k[n] = Reverse(w[n])
      BY <1>8
    <2> QED BY ONLY <2>1, <2>2 DEF Repeats, ProposalOrder, Same
  <1>13. ASSUME ~Repeats(v, ProposalOrder), NEW n \in 1 .. N - 1 PROVE Before(Reverse(w[n]), Reverse(w[n + 1]))
    <2>1. n \in 1 .. N /\ n + 1 \in 1 .. N
      OBVIOUS
    <2>2. Before(keys[At(keys, n)], keys[At(keys, n + 1)])
      BY <1>2, <1>11, <1>13, SortedKeys
    <2> QED BY <1>5, <1>8, <2>1, <2>2
  <1> QED BY <1>4, <1>5, <1>7, <1>8, <1>10, <1>11, <1>12, <1>13

-----------------------------------------------------------------------------
(* The recursion behind write_varint32, seven bits at a time. *)
VarStep(f, m) == IF m < 128 THEN <<m>> ELSE <<128 + (m % 128)>> \o f[m \div 128]
VarUpTo(f, n) == \A m \in 0 .. n : f[m] = VarStep(f, m)
Var == CHOOSE f : f = [m \in Nat |-> VarStep(f, m)]

(* What is left after seven bits is less. *)
LEMMA SevenBits ==
    ASSUME NEW m \in Nat
    PROVE  /\ m % 128 \in 0 .. 127 /\ m \div 128 \in Nat
           /\ m = (m % 128) + 128 * (m \div 128)
           /\ m >= 128 => m \div 128 < m /\ m \div 128 >= 1
  OBVIOUS

(* As far as two functions follow the recursion, they agree. *)
LEMMA VarAgree ==
    ASSUME NEW f, NEW g, NEW n \in Nat, VarUpTo(f, n), VarUpTo(g, n)
    PROVE  \A m \in 0 .. n : f[m] = g[m]
  <1> DEFINE bad == {m \in 0 .. n : f[m] # g[m]}
  <1> SUFFICES ASSUME bad # {} PROVE FALSE
    OBVIOUS
  <1>1. PICK x \in bad : \A y \in bad : x <= y
    <2>1. bad \in SUBSET Nat
      OBVIOUS
    <2> HIDE DEF bad
    <2> QED BY <2>1, LeastNatural
  <1>2. x \in Nat /\ x <= n /\ f[x] = VarStep(f, x) /\ g[x] = VarStep(g, x)
    BY DEF VarUpTo
  <1>3. CASE x < 128
    BY <1>2, <1>3 DEF VarStep
  <1>4. CASE x >= 128
    <2>1. x \div 128 \in 0 .. n /\ ~(x <= x \div 128)
      BY <1>2, <1>4, SevenBits
    <2>2. f[x \div 128] = g[x \div 128]
      BY <1>1, <2>1
    <2>3. VarStep(f, x) = VarStep(g, x)
      BY <2>2 DEF VarStep
    <2> QED BY <1>2, <2>3
  <1> QED BY <1>2, <1>3, <1>4

(* A function that follows it so far can be made to follow it further. *)
LEMMA VarExtends ==
    ASSUME NEW n \in Nat, NEW f, VarUpTo(f, n)
    PROVE  \E g : VarUpTo(g, n + 1)
  <1> DEFINE g == [m \in Nat |-> IF m <= n THEN f[m] ELSE VarStep(f, m)]
  <1>1. ASSUME NEW m \in 0 .. n + 1 PROVE g[m] = VarStep(g, m)
    <2>1. g[m] = VarStep(f, m)
      BY DEF VarUpTo
    <2>2. CASE m < 128
      BY <2>1, <2>2 DEF VarStep
    <2>3. CASE m >= 128
      <3>1. m \div 128 \in Nat /\ m \div 128 <= n
        BY <2>3, SevenBits
      <3>2. g[m \div 128] = f[m \div 128]
        BY <3>1
      <3> HIDE DEF g
      <3> QED BY <2>1, <3>2 DEF VarStep
    <2> QED BY <2>2, <2>3
  <1> HIDE DEF g
  <1> QED BY <1>1 DEF VarUpTo

(* So there is one that follows it everywhere. *)
LEMMA VarIsDefined == Var = [m \in Nat |-> VarStep(Var, m)]
  <1> DEFINE good == {n \in Nat : \E f : VarUpTo(f, n)}
             h == [m \in Nat |-> (CHOOSE f : VarUpTo(f, m))[m]]
  <1>1. 0 \in good
    <2> DEFINE f == [m \in Nat |-> <<0>>]
    <2>1. f[0] = VarStep(f, 0)
      BY DEF VarStep
    <2>2. VarUpTo(f, 0)
      BY <2>1 DEF VarUpTo
    <2> QED BY <2>2
  <1>2. \A n \in good : n + 1 \in good
    BY VarExtends
  <1>3. good = Nat
    <2> HIDE DEF good
    <2>1. good \in SUBSET Nat
      BY DEF good
    <2> QED BY <1>1, <1>2, <2>1, AllNaturals
  <1>4. ASSUME NEW m \in Nat PROVE h[m] = VarStep(h, m)
    <2> DEFINE f == CHOOSE f : VarUpTo(f, m)
    <2>1. VarUpTo(f, m)
      BY <1>3
    <2>2. h[m] = f[m] /\ f[m] = VarStep(f, m)
      BY <2>1 DEF VarUpTo
    <2>3. CASE m < 128
      BY <2>2, <2>3 DEF VarStep
    <2>4. CASE m >= 128
      <3> DEFINE d == m \div 128
                 k == CHOOSE k : VarUpTo(k, d)
      <3>1. d \in Nat /\ d <= m
        BY <2>4, SevenBits
      <3> HIDE DEF d
      <3>2. VarUpTo(k, d)
        BY <1>3, <3>1
      <3>3. h[d] = k[d]
        BY <3>1
      <3> HIDE DEF h, f, k
      <3>4. VarUpTo(f, d)
        BY <2>1, <3>1 DEF VarUpTo
      <3>5. k[d] = f[d]
        BY <3>1, <3>2, <3>4, VarAgree
      <3>6. h[m \div 128] = f[m \div 128]
        BY <3>3, <3>5 DEF d
      <3> QED BY <2>2, <3>6 DEF VarStep
    <2> QED BY <2>3, <2>4
  <1>5. h = [m \in Nat |-> VarStep(h, m)]
    <2>1. h = [m \in Nat |-> h[m]]
      OBVIOUS
    <2> HIDE DEF h
    <2> QED BY <1>4, <2>1
  <1> HIDE DEF h
  <1> QED BY <1>5 DEF Var

(* write_varint32 is that function. *)
LEMMA VarOf ==
    ASSUME NEW n \in Nat
    PROVE  write_varint32(n) = Var[n] /\ Var[n] = VarStep(Var, n)
  <1>1. write_varint32(n) = Var[n]
    BY DEF write_varint32, Var, VarStep
  <1>2. Var[n] = VarStep(Var, n)
    BY VarIsDefined
  <1> QED BY <1>1, <1>2

-----------------------------------------------------------------------------
(* A sequence is its beginning and the rest.                               *)
LEMMA Halves ==
    ASSUME NEW b \in Seq(Nat), NEW n \in 0 .. Len(b)
    PROVE  LET B == SubSeq(b, 1, n)
               s == SubSeq(b, n + 1, Len(b))
           IN  /\ B \in Seq(Nat) /\ Len(B) = n /\ \A i \in 1 .. n : B[i] = b[i]
               /\ s \in Seq(Nat) /\ Len(s) = Len(b) - n /\ b = B \o s
  <1> DEFINE B == SubSeq(b, 1, n)
             s == SubSeq(b, n + 1, Len(b))
  <1>1. Len(b) \in Nat /\ n \in Nat /\ n <= Len(b) /\ \A i \in 1 .. Len(b) : b[i] \in Nat
    OBVIOUS
  <1>2. B \in Seq(Nat) /\ Len(B) = n /\ \A i \in 1 .. n : B[i] = b[i]
    BY <1>1
  <1>3. s \in Seq(Nat) /\ Len(s) = Len(b) - n /\ \A i \in 1 .. Len(b) - n : s[i] = b[n + i]
    BY <1>1
  <1> HIDE DEF B, s
  <1>4. B \o s \in Seq(Nat) /\ Len(B \o s) = Len(b)
    BY <1>1, <1>2, <1>3
  <1>5. ASSUME NEW i \in 1 .. Len(b) PROVE (B \o s)[i] = b[i]
    <2>0. i \in Nat /\ i >= 1 /\ i <= Len(b) /\ i \in 1 .. Len(B) + Len(s)
      BY <1>1, <1>2, <1>3
    <2>4. (B \o s)[i] = IF i <= Len(B) THEN B[i] ELSE s[i - Len(B)]
      BY <1>2, <1>3, <2>0, ConcatProperties
    <2>1. CASE i <= n
      BY <1>1, <1>2, <2>0, <2>1, <2>4
    <2>2. CASE i > n
      <3>1. i - n \in 1 .. Len(b) - n /\ n + (i - n) = i /\ ~(i <= n)
        BY <1>1, <2>0, <2>2
      <3>2. (B \o s)[i] = s[i - n]
        BY <1>2, <2>4, <3>1
      <3> QED BY <1>3, <3>1, <3>2
    <2>3. i <= n \/ i > n
      BY <1>1, <2>0
    <2> QED BY <2>1, <2>2, <2>3
  <1>6. B \o s = b
    BY <1>4, <1>5, SeqEqual
  <1> QED BY <1>2, <1>3, <1>6 DEF B, s

(* The bytes of a varint: all but the last have their top bit set.         *)
IsVarint(B, k) ==
    /\ B \in Seq(Nat) /\ Len(B) = k /\ k \in 1 .. 5
    /\ \A i \in 1 .. k - 1 : B[i] >= 128
    /\ B[k] < 128

(* What they stand for, from the i-th on. *)
FromStep(b, n, f, i) == IF i > n THEN 0 ELSE (b[i] % 128) + 128 * f[i + 1]
Value5(b, n) == IF 5 > n THEN 0 ELSE (b[5] % 128) + 128 * 0
Value4(b, n) == IF 4 > n THEN 0 ELSE (b[4] % 128) + 128 * Value5(b, n)
Value3(b, n) == IF 3 > n THEN 0 ELSE (b[3] % 128) + 128 * Value4(b, n)
Value2(b, n) == IF 2 > n THEN 0 ELSE (b[2] % 128) + 128 * Value3(b, n)
Value1(b, n) == IF 1 > n THEN 0 ELSE (b[1] % 128) + 128 * Value2(b, n)

ValueOf(B, k) == IF k = 5 /\ B[5] > 7 THEN MaxInt ELSE Value1(B, k)

From(b, n) == CHOOSE f : f = [i \in 1 .. 6 |-> FromStep(b, n, f, i)]

(* The recursion of read_varint32, unfolded. *)
LEMMA FromIs ==
    ASSUME NEW b, NEW n \in 1 .. 5
    PROVE  From(b, n)[1] = Value1(b, n)
  <1> DEFINE g == From(b, n)
             h == [i \in 1 .. 6 |->
                     IF i = 1 THEN Value1(b, n) ELSE IF i = 2 THEN Value2(b, n)
                     ELSE IF i = 3 THEN Value3(b, n) ELSE IF i = 4 THEN Value4(b, n)
                     ELSE IF i = 5 THEN Value5(b, n) ELSE 0]
  <1>1. ASSUME NEW i \in 1 .. 6 PROVE h[i] = FromStep(b, n, h, i)
    <2>1. CASE i = 6
      BY <2>1 DEF FromStep
    <2>2. CASE i = 5
      BY <2>2 DEF FromStep, Value5
    <2>3. CASE i = 4
      BY <2>3 DEF FromStep, Value4
    <2>4. CASE i = 3
      BY <2>4 DEF FromStep, Value3
    <2>5. CASE i = 2
      BY <2>5 DEF FromStep, Value2
    <2>6. CASE i = 1
      BY <2>6 DEF FromStep, Value1
    <2> QED BY <2>1, <2>2, <2>3, <2>4, <2>5, <2>6
  <1>2. h = [i \in 1 .. 6 |-> FromStep(b, n, h, i)]
    <2>1. h = [i \in 1 .. 6 |-> h[i]]
      OBVIOUS
    <2> HIDE DEF h
    <2> QED BY <1>1, <2>1
  <1> HIDE DEF h
  <1>3. g = [i \in 1 .. 6 |-> FromStep(b, n, g, i)]
    BY <1>2 DEF From
  <1> HIDE DEF g
  <1>4. \A i \in 1 .. 6 : g[i] = FromStep(b, n, g, i)
    BY <1>3
  <1>5. g[6] = 0
    BY <1>4 DEF FromStep
  <1>6. g[5] = Value5(b, n)
    BY <1>4, <1>5 DEF FromStep, Value5
  <1>7. g[4] = Value4(b, n)
    BY <1>4, <1>6 DEF FromStep, Value4
  <1>8. g[3] = Value3(b, n)
    BY <1>4, <1>7 DEF FromStep, Value3
  <1>9. g[2] = Value2(b, n)
    BY <1>4, <1>8 DEF FromStep, Value2
  <1>10. g[1] = Value1(b, n)
    BY <1>4, <1>9 DEF FromStep, Value1
  <1> QED BY <1>10 DEF g, FromStep

(* What follows a known beginning of a sequence. *)
LEMMA SuffixIs ==
    ASSUME NEW b \in Seq(Nat), NEW s \in Seq(Nat), NEW k \in Nat, Len(b) = k + Len(s),
           \A i \in 1 .. Len(s) : b[k + i] = s[i]
    PROVE  SubSeq(b, k + 1, Len(b)) = s
  <1> DEFINE c == SubSeq(b, k + 1, Len(b))
  <1>1. Len(s) \in Nat /\ s = [i \in 1 .. Len(s) |-> s[i]]
    OBVIOUS
  <1>2. c = [i \in 1 .. Len(b) - k |-> b[k + i]]
    BY SMTT(30)
  <1>3. Len(b) - k = Len(s)
    BY <1>1
  <1> QED BY <1>1, <1>2, <1>3

(* A varint is read for what it stands for, and what follows it is left.   *)
LEMMA ReadIs ==
    ASSUME NEW B, NEW k, IsVarint(B, k), NEW s \in Seq(Nat), k = 5 => B[5] <= 15
    PROVE  read_varint32(B \o s) = Got(ValueOf(B, k), s)
  <1> DEFINE b == B \o s
             ends == {i \in DOMAIN b : b[i] < 128}
             n == CHOOSE i \in ends : \A j \in ends : i <= j
  <1>1. k \in Nat /\ k >= 1 /\ k <= 5 /\ DOMAIN B = 1 .. k /\ Len(B) = k
    BY DEF IsVarint
  <1>2. /\ b \in Seq(Nat) /\ Len(b) = k + Len(s) /\ DOMAIN b = 1 .. k + Len(s) /\ Len(s) \in Nat
        /\ \A i \in 1 .. k : b[i] = B[i]
        /\ \A i \in 1 .. Len(s) : b[k + i] = s[i]
    BY <1>1, ConcatProperties DEF IsVarint
  <1> HIDE DEF b
  <1>3. k \in ends /\ \A j \in ends : k <= j
    <2>1. k \in ends
      BY <1>1, <1>2 DEF IsVarint
    <2>2. ASSUME NEW j \in ends, j < k PROVE FALSE
      <3>1. j \in 1 .. k - 1 /\ b[j] < 128 /\ b[j] = B[j] /\ b[j] \in Nat
        BY <1>1, <1>2, <2>2
      <3>2. B[j] >= 128
        BY <3>1 DEF IsVarint
      <3> QED BY <3>1, <3>2
    <2> QED BY <1>1, <1>2, <2>1, <2>2
  <1>4. n = k
    <2>1. n \in ends /\ \A j \in ends : n <= j
      BY <1>3
    <2>2. n <= k /\ k <= n /\ n \in Int
      BY <1>2, <1>3, <2>1, SMTT(60), ZenonT(60)
    <2> QED BY <1>1, <2>2
  <1>5. From(b, k)[1] = Value1(b, k)
    BY <1>1, FromIs, SMTT(60), ZenonT(60)
  <1>6. Value1(b, k) = Value1(B, k)
    BY <1>1, <1>2, SMTT(60), ZenonT(60) DEF Value1, Value2, Value3, Value4, Value5
  <1>7. SubSeq(b, n + 1, Len(b)) = s
    <2>1. b \in Seq(Nat) /\ k \in Nat /\ Len(b) = k + Len(s) /\ \A i \in 1 .. Len(s) : b[k + i] = s[i]
      BY <1>1, <1>2
    <2>2. SubSeq(b, k + 1, Len(b)) = s
      BY <2>1, SuffixIs
    <2> QED BY <1>4, <2>2
  <1>8. ends # {}
    BY <1>3
  <1> HIDE DEF n, ends
  <1>9. ~(n > 5) /\ ~(n = 5 /\ b[5] > 15) /\ ((n = 5 /\ b[5] > 7) <=> (k = 5 /\ B[5] > 7))
    <2>1. k = 5 => b[5] = B[5] /\ B[5] \in Nat
      BY <1>1, <1>2 DEF IsVarint
    <2> QED BY <1>1, <1>4, <2>1
  <1>10. From(b, n)[1] = Value1(B, k)
    BY <1>4, <1>5, <1>6
  <1> QED
    BY <1>7, <1>8, <1>9, <1>10 DEF read_varint32, b, ends, n, From, FromStep, ValueOf

(* A number is written in k bytes. *)
HasVarint(n, k) ==
    IsVarint(Var[n], k) /\ Value1(Var[n], k) = n

(* Seven bits are written in one byte. *)
LEMMA OneByte ==
    ASSUME NEW n \in Nat, n < 128
    PROVE  HasVarint(n, 1)
  <1>1. Var[n] = <<n>>
    <2>1. Var[n] = VarStep(Var, n)
      BY VarOf
    <2> QED BY <2>1 DEF VarStep
  <1>2. n % 128 = n
    OBVIOUS
  <1>3. Value1(<<n>>, 1) = n
    BY <1>2 DEF Value1, Value2
  <1>4. IsVarint(<<n>>, 1)
    BY DEF IsVarint
  <1> QED BY <1>1, <1>3, <1>4 DEF HasVarint

(* Seven bits more take one byte more. *)
LEMMA OneByteMore ==
    ASSUME NEW n \in Nat, n >= 128, NEW k \in 1 .. 4, HasVarint(n \div 128, k)
    PROVE  HasVarint(n, k + 1)
  <1> DEFINE B == Var[n \div 128]
             d == 128 + (n % 128)
             C == <<d>> \o B
  <1>1. Var[n] = C
    <2>1. Var[n] = VarStep(Var, n)
      BY VarOf
    <2> QED BY <2>1 DEF VarStep
  <1>2. IsVarint(B, k) /\ Value1(B, k) = n \div 128
    BY DEF HasVarint
  <1>3. d \in Nat /\ d >= 128 /\ d % 128 = n % 128 /\ n = (n % 128) + 128 * (n \div 128)
        /\ n % 128 \in Nat /\ n \div 128 \in Nat
    BY SevenBits
  <1> HIDE DEF d, B
  <1>4. B \in Seq(Nat) /\ Len(B) = k /\ k \in Nat /\ \A i \in 1 .. k : B[i] \in Nat
    BY <1>2 DEF IsVarint
  <1>5. /\ C \in Seq(Nat) /\ Len(C) = k + 1 /\ C[1] = d
        /\ \A i \in 1 .. k : C[i + 1] = B[i]
    BY <1>3, <1>4
  <1> HIDE DEF C
  <1>6. IsVarint(C, k + 1)
    <2>1. C[k + 1] < 128
      BY <1>2, <1>4, <1>5 DEF IsVarint
    <2>2. ASSUME NEW i \in 1 .. k PROVE C[i] >= 128
      <3>1. CASE i = 1
        BY <1>3, <1>5, <3>1
      <3>2. CASE i # 1
        <4>1. i - 1 \in 1 .. k - 1 /\ (i - 1) + 1 = i /\ i - 1 \in 1 .. k
          BY <1>4, <3>2
        <4>2. C[(i - 1) + 1] = B[i - 1]
          BY <1>5, <4>1
        <4> QED BY <1>2, <4>1, <4>2 DEF IsVarint
      <3> QED BY <3>1, <3>2
    <2>3. (k + 1) - 1 = k /\ k + 1 \in 1 .. 5
      BY <1>4
    <2> QED BY <1>5, <2>1, <2>2, <2>3 DEF IsVarint
  <1>7. Value2(C, k + 1) = Value1(B, k)
    <2>1. CASE k = 1
      BY <1>5, <2>1 DEF Value1, Value2, Value3
    <2>2. CASE k = 2
      BY <1>5, <2>2 DEF Value1, Value2, Value3, Value4
    <2>3. CASE k = 3
      BY <1>5, <2>3 DEF Value1, Value2, Value3, Value4, Value5
    <2>4. CASE k = 4
      BY <1>5, <2>4 DEF Value1, Value2, Value3, Value4, Value5
    <2> QED BY <2>1, <2>2, <2>3, <2>4
  <1>8. Value1(C, k + 1) = n
    <2>1. ~(1 > k + 1)
      BY <1>4
    <2>2. Value1(C, k + 1) = (C[1] % 128) + 128 * Value2(C, k + 1)
      BY <2>1 DEF Value1
    <2> QED BY <1>2, <1>3, <1>5, <1>7, <2>2
  <1> QED BY <1>1, <1>6, <1>8 DEF HasVarint

(* A number of 31 bits takes five bytes at most. *)
LEMMA FiveBytes ==
    ASSUME NEW n \in Nat, n <= MaxInt
    PROVE  \E k \in 1 .. 5 : HasVarint(n, k)
  <1>1. ASSUME NEW m \in Nat, m <= 127
        PROVE  \E k \in 1 .. 1 : HasVarint(m, k)
    BY SMT, <1>1, OneByte
  <1>2. ASSUME NEW m \in Nat, m <= 16383
        PROVE  \E k \in 1 .. 2 : HasVarint(m, k)
    <2>1. m \div 128 \in Nat /\ m \div 128 <= 127
      BY SMT, <1>2
    <2>2. CASE m < 128
      BY SMT, <2>2, OneByte
    <2>3. CASE m >= 128
      BY SMT, <1>1, <2>1, <2>3, OneByteMore
    <2> QED BY SMT, <2>2, <2>3
  <1>3. ASSUME NEW m \in Nat, m <= 2097151
        PROVE  \E k \in 1 .. 3 : HasVarint(m, k)
    <2>1. m \div 128 \in Nat /\ m \div 128 <= 16383
      BY SMT, <1>3
    <2>2. CASE m < 128
      BY SMT, <2>2, OneByte
    <2>3. CASE m >= 128
      BY SMT, <1>2, <2>1, <2>3, OneByteMore
    <2> QED BY SMT, <2>2, <2>3
  <1>4. ASSUME NEW m \in Nat, m <= 268435455
        PROVE  \E k \in 1 .. 4 : HasVarint(m, k)
    <2>1. m \div 128 \in Nat /\ m \div 128 <= 2097151
      BY SMT, <1>4
    <2>2. CASE m < 128
      BY SMT, <2>2, OneByte
    <2>3. CASE m >= 128
      BY SMT, <1>3, <2>1, <2>3, OneByteMore
    <2> QED BY SMT, <2>2, <2>3
  <1>5. n \in Nat /\ n \div 128 \in Nat /\ n \div 128 <= 268435455
    <2>1. n \in Nat /\ n <= 2147483647
      BY SMT DEF MaxInt
    <2> QED BY SMT, <2>1
  <1>6. CASE n < 128
    BY SMT, <1>5, <1>6, OneByte
  <1>7. CASE n >= 128
    BY SMT, <1>4, <1>5, <1>7, OneByteMore
  <1> QED BY SMT, <1>5, <1>6, <1>7

(* The fifth byte holds what is left of 31 bits. *)
LEMMA FifthByte ==
    ASSUME NEW B \in Seq(Nat), Len(B) = 5, B[5] < 128, Value1(B, 5) <= MaxInt
    PROVE  B[5] <= 7
  <1>1. \A i \in 1 .. Len(B) : B[i] \in Nat
    BY ElementOfSeq
  <1>2. B[1] \in Nat /\ B[2] \in Nat /\ B[3] \in Nat /\ B[4] \in Nat /\ B[5] \in Nat
    BY <1>1
  <1>3. \A x \in Nat : x % 128 \in Nat /\ (x < 128 => x % 128 = x)
    OBVIOUS
  <1>4. (B[1] % 128) + 128 * ((B[2] % 128) + 128 * ((B[3] % 128)
          + 128 * ((B[4] % 128) + 128 * ((B[5] % 128) + 128 * 0)))) <= MaxInt
    BY DEF Value1, Value2, Value3, Value4, Value5
  <1>5. B[5] % 128 <= 7
    <2> DEFINE d(i) == B[i] % 128
    <2>1. d(1) \in Nat /\ d(2) \in Nat /\ d(3) \in Nat /\ d(4) \in Nat /\ d(5) \in Nat
      BY <1>2, <1>3
    <2>2. d(1) + 128 * (d(2) + 128 * (d(3) + 128 * (d(4) + 128 * (d(5) + 128 * 0)))) <= MaxInt
      BY <1>4
    <2> HIDE DEF d
    <2>3. d(5) <= 7
      BY SMTT(60), <2>1, <2>2 DEF MaxInt
    <2> QED BY <2>3 DEF d
  <1> QED BY <1>2, <1>3, <1>5

(* What write_varint32 writes, read_varint32 reads, whatever follows.      *)
LEMMA VarintReadsBack ==
    ASSUME NEW n \in Nat, n <= MaxInt, NEW s \in Seq(Nat)
    PROVE  /\ write_varint32(n) \in Seq(Nat) /\ write_varint32(n) # <<>>
           /\ read_varint32(write_varint32(n) \o s) = Got(n, s)
  <1>1. n \in Nat /\ write_varint32(n) = Var[n]
    BY VarOf
  <1>2. PICK k \in 1 .. 5 : HasVarint(n, k)
    BY FiveBytes
  <1> DEFINE B == Var[n]
  <1> HIDE DEF B
  <1>3. IsVarint(B, k) /\ Value1(B, k) = n
    BY <1>2 DEF HasVarint, B
  <1>4. k = 5 => B[5] <= 7
    <2> SUFFICES ASSUME k = 5 PROVE B[5] <= 7
      OBVIOUS
    <2>1. B \in Seq(Nat) /\ Len(B) = 5 /\ B[5] < 128
      BY <1>3 DEF IsVarint
    <2>2. Value1(B, 5) <= MaxInt
      BY <1>3
    <2> QED BY <2>1, <2>2, FifthByte
  <1>5. read_varint32(B \o s) = Got(n, s)
    <2>1. k = 5 => B[5] <= 15 /\ ~(B[5] > 7)
      <3>1. B \in Seq(Nat) /\ Len(B) = k
        BY <1>3 DEF IsVarint
      <3>2. ASSUME k = 5 PROVE B[5] \in Nat
        <4>1. 5 \in 1 .. Len(B)
          BY <3>1, <3>2
        <4> QED BY <3>1, <4>1, ElementOfSeq
      <3> QED BY <1>4, <3>2
    <2>2. read_varint32(B \o s) = Got(ValueOf(B, k), s)
      BY <1>3, <2>1, ReadIs
    <2> QED BY <1>3, <2>1, <2>2 DEF ValueOf
  <1>6. B \in Seq(Nat) /\ B # <<>>
    BY <1>3 DEF IsVarint
  <1> QED BY <1>1, <1>5, <1>6 DEF B

(* Whatever read_varint32 reads, it reads the same in front of more bytes, *)
(* and takes some of what there is.                                        *)
LEMMA VarintSound ==
    ASSUME NEW b \in Seq(Nat), read_varint32(b).ok
    PROVE  LET r == read_varint32(b)
           IN  /\ r = Got(r.val, r.rest) /\ r.val \in Nat /\ r.rest \in Seq(Nat) /\ Len(r.rest) < Len(b)
               /\ \A x \in Seq(Nat) : read_varint32(b \o x) = Got(r.val, r.rest \o x)
  <1> DEFINE ends == {i \in DOMAIN b : b[i] < 128}
             n == CHOOSE i \in ends : \A j \in ends : i <= j
  <1>1. /\ DOMAIN b = 1 .. Len(b) /\ Len(b) \in Nat /\ \A i \in 1 .. Len(b) : b[i] \in Nat
    OBVIOUS
  <1>2. ends # {} /\ ~(n > 5) /\ ~(n = 5 /\ b[5] > 15)
    BY DEF read_varint32, Fail
  <1>3. n \in ends /\ \A j \in ends : n <= j
    <2>1. ends \in SUBSET Nat
      BY <1>1
    <2> HIDE DEF ends
    <2>2. \E i \in ends : \A j \in ends : i <= j
      BY <1>2, <2>1, LeastNatural
    <2> QED BY <2>2
  <1> HIDE DEF n
  <1>4. n \in 1 .. Len(b) /\ n \in 1 .. 5 /\ b[n] < 128
    <2>1. n \in 1 .. Len(b) /\ b[n] < 128
      BY <1>1, <1>3
    <2> QED BY <1>1, <1>2, <2>1
  <1>5. ASSUME NEW i \in 1 .. n - 1 PROVE b[i] >= 128
    <2>0. i \in 1 .. Len(b) /\ i < n
      BY <1>1, <1>4
    <2>1. i \in 1 .. Len(b) /\ b[i] \in Nat /\ i < n
      BY <1>1, <2>0
    <2>2. i \notin ends
      <3> HIDE DEF ends
      <3> QED BY <1>3, <1>4, <2>1
    <2> QED BY <1>1, <2>1, <2>2
  <1> HIDE DEF ends
  <1> DEFINE B == SubSeq(b, 1, n)
             s == SubSeq(b, n + 1, Len(b))
  <1>6. /\ B \in Seq(Nat) /\ Len(B) = n /\ \A i \in 1 .. n : B[i] = b[i]
        /\ s \in Seq(Nat) /\ Len(s) = Len(b) - n /\ b = B \o s
    <2>1. n \in 0 .. Len(b)
      BY <1>1, <1>4
    <2> QED BY <2>1, Halves
  <1> HIDE DEF B, s
  <1>7. IsVarint(B, n)
    <2>1. \A i \in 1 .. n - 1 : i \in 1 .. n
      BY <1>4
    <2>2. n \in 1 .. n
      BY <1>4
    <2> QED BY <1>4, <1>5, <1>6, <2>1, <2>2 DEF IsVarint
  <1>8. n = 5 => B[5] <= 15
    <2>1. n = 5 => B[5] = b[5] /\ b[5] \in Nat
      BY <1>1, <1>4, <1>6
    <2> QED BY <1>2, <2>1
  <1>9. \A x \in Seq(Nat) : read_varint32(B \o x) = Got(ValueOf(B, n), x)
    BY <1>7, <1>8, ReadIs
  <1>10. read_varint32(b) = Got(ValueOf(B, n), s)
    BY <1>6, <1>9
  <1>11. ASSUME NEW x \in Seq(Nat) PROVE read_varint32(b \o x) = Got(ValueOf(B, n), s \o x)
    <2>1. (B \o s) \o x = B \o (s \o x) /\ s \o x \in Seq(Nat)
      BY <1>6, ConcatAssociative, SMTT(60), ZenonT(60)
    <2> QED BY <1>6, <1>9, <2>1
  <1>12. ValueOf(B, n) \in Nat
    <2>1. \A i \in 1 .. n : B[i] % 128 \in Nat
      BY <1>1, <1>4, <1>6
    <2>2. Value5(B, n) \in Nat
      BY <1>4, <2>1 DEF Value5
    <2>3. Value4(B, n) \in Nat
      BY <1>4, <2>1, <2>2 DEF Value4
    <2>4. Value3(B, n) \in Nat
      BY <1>4, <2>1, <2>3 DEF Value3
    <2>5. Value2(B, n) \in Nat
      BY <1>4, <2>1, <2>4 DEF Value2
    <2>6. Value1(B, n) \in Nat
      BY <1>4, <2>1, <2>5 DEF Value1
    <2>7. MaxInt \in Nat
      BY SMT DEF MaxInt
    <2> QED BY <2>6, <2>7 DEF ValueOf
  <1>13. Len(s) < Len(b)
    BY <1>1, <1>4, <1>6
  <1> DEFINE val == ValueOf(B, n)
  <1> HIDE DEF val
  <1>14. /\ read_varint32(b) = Got(val, s) /\ val \in Nat
         /\ \A x \in Seq(Nat) : read_varint32(b \o x) = Got(val, s \o x)
    BY <1>10, <1>11, <1>12 DEF val
  <1> QED BY <1>6, <1>13, <1>14 DEF Got

-----------------------------------------------------------------------------
(* A reader takes some of what there is, and what it takes does not depend *)
(* on what follows.                                                        *)
Took(r, b) == r = Got(r.val, r.rest) /\ r.rest \in Seq(Nat) /\ Len(r.rest) <= Len(b)

(* A function on an interval from one is a sequence. *)
LEMMA IsSequence ==
    ASSUME NEW S, NEW n \in Nat, NEW v \in [1 .. n -> S]
    PROVE  v \in Seq(S) /\ Len(v) = n
  OBVIOUS

(* The parts of a result. *)
LEMMA GotIs ==
    ASSUME NEW v, NEW rest
    PROVE  Got(v, rest).ok /\ Got(v, rest).val = v /\ Got(v, rest).rest = rest
  BY DEF Got

(* An error is not a result. *)
LEMMA FailIs == ~Fail.ok
  BY DEF Fail

(* The two parts of a concatenation are found again. *)
LEMMA Joins ==
    ASSUME NEW a \in Seq(Nat), NEW b \in Seq(Nat)
    PROVE  /\ a \o b \in Seq(Nat) /\ Len(a \o b) = Len(a) + Len(b) /\ Len(a) \in Nat /\ Len(b) \in Nat
           /\ SubSeq(a \o b, 1, Len(a)) = a /\ SubSeq(a \o b, Len(a) + 1, Len(a \o b)) = b
           /\ \A i \in 1 .. Len(a) : (a \o b)[i] = a[i]
  <1> DEFINE c == a \o b
  <1>1. /\ c \in Seq(Nat) /\ Len(c) = Len(a) + Len(b) /\ Len(a) \in Nat /\ Len(b) \in Nat
        /\ \A i \in 1 .. Len(a) : c[i] = a[i]
        /\ \A i \in 1 .. Len(b) : c[Len(a) + i] = b[i]
    BY ConcatProperties
  <1> HIDE DEF c
  <1>2. SubSeq(c, Len(a) + 1, Len(c)) = b
    BY <1>1, SuffixIs
  <1>3. SubSeq(c, 1, Len(a)) = a
    <2>1. Len(a) \in 0 .. Len(c)
      BY <1>1
    <2> DEFINE d == SubSeq(c, 1, Len(a))
    <2>2. d \in Seq(Nat) /\ Len(d) = Len(a) /\ \A i \in 1 .. Len(a) : d[i] = c[i]
      BY <1>1, <2>1, Halves
    <2> HIDE DEF d
    <2>3. d = a
      BY <1>1, <2>2, SeqEqual
    <2> QED BY <2>3 DEF d
  <1> QED BY <1>1, <1>2, <1>3 DEF c

(* Concatenation is associative. *)
LEMMA JoinedTwice ==
    ASSUME NEW a \in Seq(Nat), NEW b \in Seq(Nat), NEW c \in Seq(Nat)
    PROVE  (a \o b) \o c = a \o (b \o c)
  BY ConcatAssociative

(* As many bytes as were written are taken back. *)
LEMMA TakeBack ==
    ASSUME NEW n \in Nat, NEW u \in Fixed(n), NEW x \in Seq(Nat)
    PROVE  u \in Seq(Nat) /\ Len(u) = n /\ take(u \o x, n) = Got(u, x)
  <1>1. u \in Seq(Nat) /\ Len(u) = n
    BY DEF Fixed
  <1>2. /\ Len(u \o x) = n + Len(x) /\ Len(x) \in Nat
        /\ SubSeq(u \o x, 1, n) = u /\ SubSeq(u \o x, n + 1, Len(u \o x)) = x
    BY <1>1, Joins
  <1>3. ~(Len(u \o x) < n)
    BY <1>2
  <1> QED BY <1>1, <1>2, <1>3 DEF take

(* What take() takes it takes again, whatever follows. *)
LEMMA TakeSound ==
    ASSUME NEW n \in Nat, NEW b \in Seq(Nat), take(b, n).ok
    PROVE  LET r == take(b, n)
           IN  /\ Took(r, b) /\ r.val \in Fixed(n) /\ n <= Len(b)
               /\ \A x \in Seq(Nat) : take(b \o x, n) = Got(r.val, r.rest \o x)
  <1> DEFINE u == SubSeq(b, 1, n)
             s == SubSeq(b, n + 1, Len(b))
  <1>1. take(b, n) = Got(u, s) /\ n <= Len(b)
    BY FailIs DEF take
  <1>2. n \in 0 .. Len(b) /\ Len(b) \in Nat
    BY <1>1
  <1>3. u \in Seq(Nat) /\ Len(u) = n /\ s \in Seq(Nat) /\ Len(s) = Len(b) - n /\ b = u \o s
    BY <1>2, Halves
  <1> HIDE DEF u, s
  <1>4. u \in Fixed(n)
    BY <1>3 DEF Fixed
  <1>5. ASSUME NEW x \in Seq(Nat) PROVE take(b \o x, n) = Got(u, s \o x)
    <2>1. s \o x \in Seq(Nat) /\ b \o x = u \o (s \o x)
      BY <1>3, JoinedTwice
    <2> QED BY <1>4, <2>1, TakeBack
  <1>6. Len(s) <= Len(b)
    BY <1>2, <1>3
  <1>7. take(b, n).val = u /\ take(b, n).rest = s
    BY <1>1, GotIs
  <1> QED BY <1>1, <1>3, <1>4, <1>5, <1>6, <1>7 DEF Took

(* A bool. *)
LEMMA BoolBack ==
    ASSUME NEW v \in Bools, NEW x \in Seq(Nat)
    PROVE  v \in Seq(Nat) /\ Len(v) = 1 /\ read_bool(v \o x) = Got(v, x)
  <1>1. v \in Fixed(1) /\ v \in {<<0>>, <<1>>}
    <2>1. <<0>> \in Seq(Nat) /\ Len(<<0>>) = 1 /\ <<1>> \in Seq(Nat) /\ Len(<<1>>) = 1
      OBVIOUS
    <2>2. v \in Seq(Nat) /\ Len(v) = 1
      BY <2>1 DEF Bools
    <2> QED BY <2>2 DEF Fixed, Bools
  <1>2. v \in Seq(Nat) /\ Len(v) = 1 /\ take(v \o x, 1) = Got(v, x)
    BY <1>1, TakeBack
  <1> QED BY <1>1, <1>2, GotIs DEF read_bool, Then

(* What is read as a bool is one, whatever follows. *)
LEMMA BoolSound ==
    ASSUME NEW b \in Seq(Nat), read_bool(b).ok
    PROVE  LET r == read_bool(b)
           IN  /\ Took(r, b) /\ r.val \in Bools
               /\ \A x \in Seq(Nat) : read_bool(b \o x) = Got(r.val, r.rest \o x)
  <1> DEFINE t == take(b, 1)
  <1>1. t.ok /\ t.val \in {<<0>>, <<1>>} /\ read_bool(b) = Got(t.val, t.rest)
    BY FailIs DEF read_bool, Then
  <1>2. Took(t, b) /\ \A x \in Seq(Nat) : take(b \o x, 1) = Got(t.val, t.rest \o x)
    BY <1>1, TakeSound
  <1> HIDE DEF t
  <1>3. ASSUME NEW x \in Seq(Nat) PROVE read_bool(b \o x) = Got(t.val, t.rest \o x)
    <2>1. take(b \o x, 1) = Got(t.val, t.rest \o x)
      BY <1>2
    <2> QED BY <1>1, <2>1, GotIs DEF read_bool, Then
  <1>4. read_bool(b).val = t.val /\ read_bool(b).rest = t.rest
    BY <1>1, GotIs
  <1> QED BY <1>1, <1>2, <1>3, <1>4 DEF Took, Bools

(* A length, which must be no more than what follows it. *)
LEMMA LengthBack ==
    ASSUME NEW n \in Nat, n <= MaxInt, NEW x \in Seq(Nat), n <= Len(x)
    PROVE  /\ write_varint32(n) \in Seq(Nat) /\ Len(write_varint32(n)) >= 1
           /\ length(write_varint32(n) \o x) = Got(n, x)
  <1> DEFINE w == write_varint32(n)
  <1>1. w \in Seq(Nat) /\ w # <<>> /\ read_varint32(w \o x) = Got(n, x)
    BY VarintReadsBack
  <1> HIDE DEF w
  <1>2. Len(w) >= 1
    BY <1>1
  <1>3. length(w \o x) = Got(n, x)
    BY <1>1, GotIs DEF length, Then
  <1> QED BY <1>1, <1>2, <1>3 DEF w

(* A length that is read is no more than what is left, whatever follows. *)
LEMMA LengthSound ==
    ASSUME NEW b \in Seq(Nat), length(b).ok
    PROVE  LET r == length(b)
           IN  /\ Took(r, b) /\ r.val \in Nat /\ r.val <= Len(r.rest)
               /\ \A x \in Seq(Nat) : length(b \o x) = Got(r.val, r.rest \o x)
  <1> DEFINE t == read_varint32(b)
  <1>1. t.ok /\ t.val <= Len(t.rest) /\ length(b) = Got(t.val, t.rest)
    BY FailIs DEF length, Then
  <1>2. /\ t = Got(t.val, t.rest) /\ t.val \in Nat /\ t.rest \in Seq(Nat) /\ Len(t.rest) < Len(b)
        /\ \A x \in Seq(Nat) : read_varint32(b \o x) = Got(t.val, t.rest \o x)
    BY <1>1, VarintSound
  <1> HIDE DEF t
  <1>3. ASSUME NEW x \in Seq(Nat) PROVE length(b \o x) = Got(t.val, t.rest \o x)
    <2>1. read_varint32(b \o x) = Got(t.val, t.rest \o x)
      BY <1>2
    <2>2. t.val <= Len(t.rest \o x)
      <3>1. Len(t.rest \o x) = Len(t.rest) + Len(x) /\ Len(t.rest) \in Nat /\ Len(x) \in Nat
        BY <1>2, Joins
      <3> QED BY <1>1, <1>2, <3>1
    <2> DEFINE g == read_varint32(b \o x)
    <2>4. length(b \o x) = IF g.ok THEN IF g.val <= Len(g.rest) THEN Got(g.val, g.rest) ELSE Fail ELSE Fail
      BY DEF length, Then
    <2> HIDE DEF g
    <2>3. g.ok /\ g.val = t.val /\ g.rest = t.rest \o x
      <3>1. g = Got(t.val, t.rest \o x)
        BY <2>1 DEF g
      <3> QED BY <3>1 DEF Got
    <2> QED BY <2>2, <2>3, <2>4
  <1>4. length(b).val = t.val /\ length(b).rest = t.rest
    BY <1>1, GotIs
  <1>5. Len(t.rest) <= Len(b)
    BY <1>2
  <1> QED BY <1>1, <1>2, <1>3, <1>4, <1>5 DEF Took

(* Bytes behind their length. *)
LEMMA BytesBack ==
    ASSUME NEW s \in Blobs, NEW x \in Seq(Nat)
    PROVE  /\ write_bytes(s) \in Seq(Nat) /\ Len(write_bytes(s)) >= 1
           /\ read_bytes(write_bytes(s) \o x) = Got(s, x)
  <1> DEFINE w == write_varint32(Len(s))
  <1>1. s \in Seq(Nat) /\ Len(s) \in Nat /\ Len(s) <= MaxInt
    BY DEF Blobs
  <1>2. s \o x \in Seq(Nat) /\ Len(s) <= Len(s \o x)
    BY <1>1, Joins
  <1>3. w \in Seq(Nat) /\ Len(w) >= 1 /\ length(w \o (s \o x)) = Got(Len(s), s \o x)
    BY <1>1, <1>2, LengthBack
  <1> HIDE DEF w
  <1>4. write_bytes(s) = w \o s /\ (w \o s) \o x = w \o (s \o x)
    BY <1>1, <1>3, JoinedTwice DEF write_bytes, w
  <1>5. w \o s \in Seq(Nat) /\ Len(w \o s) >= 1
    BY <1>1, <1>3, Joins
  <1>6. take(s \o x, Len(s)) = Got(s, x)
    <2>1. s \in Fixed(Len(s))
      BY <1>1 DEF Fixed
    <2> QED BY <1>1, <2>1, TakeBack
  <1> QED BY <1>3, <1>4, <1>5, <1>6, GotIs DEF read_bytes, Then

(* What is read as a vector of bytes is one, whatever follows. *)
LEMMA BytesSound ==
    ASSUME NEW b \in Seq(Nat), read_bytes(b).ok
    PROVE  LET r == read_bytes(b)
           IN  /\ Took(r, b) /\ r.val \in Seq(Nat) /\ Len(r.val) <= Len(b)
               /\ \A x \in Seq(Nat) : read_bytes(b \o x) = Got(r.val, r.rest \o x)
  <1> DEFINE l == length(b)
             t == take(l.rest, l.val)
  <1>1. l.ok /\ read_bytes(b) = t
    BY FailIs DEF read_bytes, Then
  <1>2. /\ Took(l, b) /\ l.val \in Nat
        /\ \A x \in Seq(Nat) : length(b \o x) = Got(l.val, l.rest \o x)
    BY <1>1, LengthSound
  <1>3. l.rest \in Seq(Nat) /\ Len(l.rest) <= Len(b)
    BY <1>2 DEF Took
  <1> HIDE DEF l
  <1>4. /\ Took(t, l.rest) /\ t.val \in Fixed(l.val) /\ l.val <= Len(l.rest)
        /\ \A x \in Seq(Nat) : take(l.rest \o x, l.val) = Got(t.val, t.rest \o x)
    BY <1>1, <1>2, <1>3, TakeSound
  <1> HIDE DEF t
  <1>5. ASSUME NEW x \in Seq(Nat) PROVE read_bytes(b \o x) = Got(t.val, t.rest \o x)
    <2>1. length(b \o x) = Got(l.val, l.rest \o x) /\ take(l.rest \o x, l.val) = Got(t.val, t.rest \o x)
      BY <1>2, <1>4
    <2> QED BY <2>1, GotIs DEF read_bytes, Then
  <1>6. t.val \in Seq(Nat) /\ Len(t.val) <= Len(b)
    <2>1. t.val \in Seq(Nat) /\ Len(t.val) = l.val
      BY <1>4 DEF Fixed
    <2>2. Len(l.rest) \in Nat /\ Len(b) \in Nat
      BY <1>3
    <2> QED BY <1>2, <1>3, <1>4, <2>1, <2>2
  <1>7. Took(t, b)
    <2>1. t.rest \in Seq(Nat) /\ Len(t.rest) <= Len(l.rest) /\ t = Got(t.val, t.rest)
      BY <1>4 DEF Took
    <2>2. Len(l.rest) \in Nat /\ Len(b) \in Nat /\ Len(t.rest) \in Nat
      BY <1>3, <2>1
    <2>3. Len(t.rest) <= Len(b)
      BY <1>3, <2>1, <2>2
    <2> QED BY <2>1, <2>3 DEF Took
  <1> QED BY <1>1, <1>5, <1>6, <1>7

(* A string is written in its transport form, and read as that. *)
LEMMA StringBack ==
    ASSUME NEW s \in Strings, NEW x \in Seq(Nat)
    PROVE  /\ write_string(s) \in Seq(Nat) /\ Len(write_string(s)) >= 1
           /\ read_string(write_string(s) \o x) = Got(hived_transport_form(s), x)
  <1> DEFINE f == hived_transport_form(s)
  <1>1. s \in Text /\ Len(f) <= MaxInt
    BY DEF Strings
  <1>2. f \in Text /\ f \in Seq(Nat)
    BY <1>1, Forms DEF Bytes
  <1>3. \A i \in DOMAIN f : f[i] < 128
    <2> SUFFICES ASSUME NEW i \in DOMAIN f PROVE f[i] < 128
      OBVIOUS
    <2>1. f[i] \in 0 .. 127
      <3> HIDE DEF f
      <3>1. f \in Seq(0 .. 127) /\ i \in 1 .. Len(f)
        BY <1>2 DEF Text
      <3> QED BY <3>1, ElementOfSeq
    <2>2. \A k \in 0 .. 127 : k < 128
      OBVIOUS
    <2> HIDE DEF f
    <2> QED BY <2>1, <2>2
  <1>4. write_string(s) = write_bytes(f)
    BY DEF write_string
  <1> HIDE DEF f
  <1>5. f \in Blobs
    BY <1>1, <1>2 DEF Blobs
  <1>6. /\ write_bytes(f) \in Seq(Nat) /\ Len(write_bytes(f)) >= 1
        /\ read_bytes(write_bytes(f) \o x) = Got(f, x)
    BY <1>5, BytesBack
  <1>7. read_string(write_bytes(f) \o x) = Got(f, x)
    BY <1>3, <1>6, GotIs DEF read_string, Then
  <1> QED BY <1>4, <1>6, <1>7 DEF f

(* What is read as a string is text, of a length that can be written again *)
(* if memory held it. *)
LEMMA StringSound ==
    ASSUME NEW b \in Seq(Nat), read_string(b).ok
    PROVE  LET r == read_string(b)
           IN  /\ Took(r, b) /\ r.val \in Text /\ Len(r.val) <= Len(b)
               /\ Small(b) => r.val \in Strings
               /\ \A x \in Seq(Nat) : read_string(b \o x) = Got(r.val, r.rest \o x)
  <1> DEFINE t == read_bytes(b)
  <1>1. t.ok /\ (\A i \in DOMAIN t.val : t.val[i] < 128) /\ read_string(b) = Got(t.val, t.rest)
    BY FailIs DEF read_string, Then
  <1>2. /\ Took(t, b) /\ t.val \in Seq(Nat) /\ Len(t.val) <= Len(b)
        /\ \A x \in Seq(Nat) : read_bytes(b \o x) = Got(t.val, t.rest \o x)
    BY <1>1, BytesSound
  <1> DEFINE v == t.val
  <1> HIDE DEF t
  <1>3. ASSUME NEW x \in Seq(Nat) PROVE read_string(b \o x) = Got(v, t.rest \o x)
    <2>1. read_bytes(b \o x) = Got(t.val, t.rest \o x)
      BY <1>2
    <2> QED BY <1>1, <2>1, GotIs DEF read_string, Then
  <1>4. read_string(b).val = v /\ read_string(b).rest = t.rest
    BY <1>1, GotIs
  <1>5. v \in Seq(Nat) /\ Len(v) <= Len(b) /\ \A i \in DOMAIN v : v[i] < 128
    BY <1>1, <1>2
  <1> HIDE DEF v
  <1>6. v \in Text
    <2>1. ASSUME NEW i \in 1 .. Len(v) PROVE v[i] \in 0 .. 127
      <3>1. v[i] \in Nat
        BY <1>5, ElementOfSeq
      <3>2. DOMAIN v = 1 .. Len(v)
        BY <1>5
      <3>3. v[i] < 128
        BY <1>5, <3>2
      <3>4. \A k \in Nat : k < 128 => k \in 0 .. 127
        OBVIOUS
      <3> QED BY <3>1, <3>3, <3>4
    <2>2. Len(v) \in Nat /\ v \in [1 .. Len(v) -> Nat]
      BY <1>5
    <2>3. v \in [1 .. Len(v) -> 0 .. 127]
      BY <2>1, <2>2
    <2>4. v \in Seq(0 .. 127)
      BY <2>2, <2>3, IsSequence
    <2> QED BY <2>4 DEF Text
  <1>7. Small(b) => v \in Strings
    <2>1. Len(hived_transport_form(v)) <= 5 * Len(v) /\ hived_transport_form(v) \in Seq(Nat)
      BY <1>6, Forms DEF Bytes
    <2>2. Len(hived_transport_form(v)) \in Nat /\ Len(v) \in Nat /\ Len(b) \in Nat /\ MaxInt \in Nat
      BY SMT, <1>5, <2>1 DEF MaxInt
    <2>3. Small(b) => Len(hived_transport_form(v)) <= MaxInt
      BY <1>5, <2>1, <2>2 DEF Small
    <2> QED BY <1>6, <2>3 DEF Strings
  <1>8. Took(read_string(b), b)
    BY <1>1, <1>2, <1>4 DEF Took
  <1> QED BY <1>3, <1>4, <1>5, <1>6, <1>7, <1>8

-----------------------------------------------------------------------------
(* Arrays.  Those of one reader are values in turn, as many as their length *)
(* says.                                                                    *)
ArrayOf(w, N) == write_varint32(N) \o FlattenSeq(w)

(* An array's length is read back, and each item starts where the one      *)
(* before it ended. *)
LEMMA ArrayHeader ==
    ASSUME NEW N \in Nat, N <= MaxInt, NEW w \in [1 .. N -> Seq(Nat)], NEW x \in Seq(Nat),
           \A i \in 1 .. N : Len(w[i]) >= 1
    PROVE  /\ ArrayOf(w, N) \in Seq(Nat) /\ Len(ArrayOf(w, N)) >= 1
           /\ \E t : /\ \A i \in 0 .. N : t[i] \in Seq(Nat)
                     /\ \A i \in 1 .. N : t[i - 1] = w[i] \o t[i]
                     /\ t[N] = x /\ length(ArrayOf(w, N) \o x) = Got(N, t[0])
  <1>1. PICK t : Tails(w, N, x, t) /\ \A i \in 0 .. N : t[i] \in Seq(Nat)
    BY FlattenTails
  <1>2. t[0] = FlattenSeq(w) \o x /\ t[N] = x /\ \A i \in 1 .. N : t[i - 1] = w[i] \o t[i]
    BY <1>1 DEF Tails
  <1>3. FlattenSeq(w) \in Seq(Nat)
    BY FlattenIsSeq
  <1>4. N <= Len(FlattenSeq(w) \o x)
    <2> DEFINE F == FlattenSeq(w)
               mirror == [i \in 0 .. N |-> Len(t[N - i])]
    <2>1. ASSUME NEW i \in 1 .. N PROVE Len(t[i - 1]) >= 1 + Len(t[i])
      <3>1. t[i] \in Seq(Nat) /\ t[i - 1] = w[i] \o t[i] /\ w[i] \in Seq(Nat) /\ Len(w[i]) >= 1
        <4>1. i \in 0 .. N
          OBVIOUS
        <4> QED BY <1>1, <1>2, <4>1
      <3>2. Len(t[i - 1]) = Len(w[i]) + Len(t[i]) /\ Len(t[i]) \in Nat /\ Len(w[i]) \in Nat
        BY <3>1, Joins
      <3> QED BY <3>1, <3>2
    <2> DEFINE good == {n \in Nat : n <= N => Len(t[N - n]) >= n}
    <2>2. 0 \in good
      <3>1. N - 0 = N /\ Len(x) \in Nat
        OBVIOUS
      <3> QED BY <1>2, <3>1
    <2>3. ASSUME NEW n \in good PROVE n + 1 \in good
      <3>1. n \in Nat /\ (n <= N => Len(t[N - n]) >= n)
        OBVIOUS
      <3>2. ASSUME n + 1 <= N PROVE Len(t[N - (n + 1)]) >= n + 1
        <4>1. N - n \in 1 .. N /\ (N - n) - 1 = N - (n + 1) /\ n <= N /\ N - n \in 0 .. N
              /\ N - (n + 1) \in 0 .. N
          BY <3>1, <3>2
        <4>2. Len(t[N - (n + 1)]) >= 1 + Len(t[N - n])
          BY <2>1, <4>1
        <4>3. Len(t[N - n]) \in Nat /\ Len(t[N - (n + 1)]) \in Nat
          <5>1. t[N - n] \in Seq(Nat) /\ t[N - (n + 1)] \in Seq(Nat)
            BY <1>1, <4>1
          <5> QED BY <5>1
        <4> DEFINE p == Len(t[N - n])
                   q == Len(t[N - (n + 1)])
        <4>4. p \in Nat /\ q \in Nat /\ q >= 1 + p /\ p >= n
          BY <3>1, <4>1, <4>2, <4>3
        <4> HIDE DEF p, q
        <4>5. q >= n + 1
          BY <3>1, <4>4
        <4> QED BY <4>5 DEF q
      <3> QED BY <3>1, <3>2, SMTT(60), ZenonT(60)
    <2> HIDE DEF good
    <2>4. good = Nat
      <3>1. good \in SUBSET Nat
        BY DEF good
      <3> QED BY <2>2, <2>3, <3>1, AllNaturals
    <2>5. N - N = 0
      OBVIOUS
    <2>6. Len(t[0]) >= N
      <3>1. N \in good /\ N <= N
        BY <2>4
      <3>2. Len(t[N - N]) >= N
        BY <3>1 DEF good
      <3> QED BY <2>5, <3>2
    <2> QED BY <1>2, <2>6
  <1> DEFINE F == FlattenSeq(w)
             h == write_varint32(N)
  <1>5. F \o x \in Seq(Nat)
    BY <1>3, Joins
  <1>6. h \in Seq(Nat) /\ Len(h) >= 1 /\ length(h \o (F \o x)) = Got(N, F \o x)
    BY <1>4, <1>5, LengthBack
  <1>7. F \in Seq(Nat)
    BY <1>3
  <1>8. ArrayOf(w, N) = h \o F
    BY DEF ArrayOf
  <1> HIDE DEF F, h
  <1>9. (h \o F) \o x = h \o (F \o x)
    BY <1>6, <1>7, JoinedTwice
  <1>10. h \o F \in Seq(Nat) /\ Len(h \o F) >= 1
    BY <1>6, <1>7, Joins
  <1>11. length(ArrayOf(w, N) \o x) = Got(N, t[0])
    BY <1>2, <1>6, <1>8, <1>9 DEF F
  <1> QED BY <1>1, <1>2, <1>8, <1>10, <1>11

(* A part of bytes that memory holds is held by it too. *)
LEMMA SmallPart ==
    ASSUME NEW b \in Seq(Nat), NEW d \in Seq(Nat), NEW c \in Seq(Nat), Len(d) <= Len(b), Len(c) <= Len(d), Small(b)
    PROVE  Small(c)
  <1>1. Len(b) \in Nat /\ Len(c) \in Nat /\ Len(d) \in Nat /\ MaxInt \in Nat
    BY SMT DEF MaxInt
  <1>2. 5 * Len(b) <= MaxInt
    BY DEF Small
  <1>3. 5 * Len(c) <= MaxInt
    BY <1>1, <1>2
  <1> QED BY <1>3 DEF Small

(* There are no more items in bytes than a length can say. *)
LEMMA SmallCount ==
    ASSUME NEW b \in Seq(Nat), NEW d \in Seq(Nat), NEW n \in Nat, Len(d) <= Len(b), n <= Len(d), Small(b)
    PROVE  n <= MaxInt
  <1>1. Len(b) \in Nat /\ Len(d) \in Nat /\ MaxInt \in Nat
    BY SMT DEF MaxInt
  <1>2. 5 * Len(b) <= MaxInt
    BY DEF Small
  <1> QED BY <1>1, <1>2

-----------------------------------------------------------------------------
(* Arrays of strings. *)

OneString(p, i, c) == read_string(c)
StringTurns == INSTANCE InTurnProofs WITH R <- OneString
StringArray(b) ==
    IF length(b).ok THEN StringTurns!InTurnOf(0, length(b).rest, [i \in 1 .. length(b).val |-> i]) ELSE Fail

(* What the instance takes as known, from the library. *)
LEMMA StringBasics == StringTurns!Basics
  BY ForTurns DEF StringTurns!Basics, StringTurns!Least, StringTurns!Induction, StringTurns!Counted, StringTurns!Cardinality, Cardinality

(* read_array of strings, by name. *)
LEMMA StringsAre ==
    ASSUME NEW b
    PROVE  read_array(b, read_string) = StringArray(b)
  BY DEF StringArray, read_array, InTurn, FoldLeft, MapThenFoldSet, Then, Max, Got, Fail,
         StringTurns!InTurnOf, StringTurns!Turns, StringTurns!TurnStep, StringTurns!Turn, StringTurns!Got, StringTurns!Fail, StringTurns!Largest, OneString

(* What is written as an array of strings is read. *)
LEMMA StringArrayBack ==
    ASSUME NEW N \in Nat, N <= MaxInt, NEW w \in [1 .. N -> Seq(Nat)], NEW v, NEW x \in Seq(Nat),
           \A i \in 1 .. N : Len(w[i]) >= 1 /\ \A c \in Seq(Nat) : read_string(w[i] \o c) = Got(v[i], c)
    PROVE  /\ ArrayOf(w, N) \in Seq(Nat) /\ Len(ArrayOf(w, N)) >= 1
           /\ StringArray(ArrayOf(w, N) \o x) = Got([i \in 1 .. N |-> v[i]], x)
  <1>1. \A i \in 1 .. N : Len(w[i]) >= 1
    OBVIOUS
  <1>2. PICK t : /\ \A i \in 0 .. N : t[i] \in Seq(Nat)
                 /\ \A i \in 1 .. N : t[i - 1] = w[i] \o t[i]
                 /\ t[N] = x /\ length(ArrayOf(w, N) \o x) = Got(N, t[0])
    BY <1>1, ArrayHeader
  <1> DEFINE items == [i \in 1 .. N |-> i]
  <1>3. ASSUME NEW i \in 1 .. N
        PROVE  OneString(0, items[i], t[i - 1]) = [ok |-> TRUE, val |-> v[i], rest |-> t[i]]
    <2>1. t[i] \in Seq(Nat) /\ t[i - 1] = w[i] \o t[i]
      BY <1>2, SMTT(60), ZenonT(60)
    <2>2. read_string(t[i - 1]) = Got(v[i], t[i])
      BY <2>1
    <2> QED BY <2>2 DEF OneString, Got
  <1>4. DOMAIN items = 1 .. N
    OBVIOUS
  <1> HIDE DEF items
  <1>5. StringTurns!Reads(0, items, N, t, v)
    BY <1>3 DEF StringTurns!Reads
  <1>6. StringTurns!InTurnOf(0, t[0], items) = [ok |-> TRUE, val |-> [i \in 1 .. N |-> v[i]], rest |-> t[N]]
    BY <1>4, <1>5, StringBasics, StringTurns!InTurnFollows
  <1> DEFINE l == length(ArrayOf(w, N) \o x)
  <1>7. l.ok /\ l.val = N /\ l.rest = t[0]
    BY <1>2, GotIs
  <1>8. StringArray(ArrayOf(w, N) \o x) = IF l.ok THEN StringTurns!InTurnOf(0, l.rest, [i \in 1 .. l.val |-> i]) ELSE Fail
    BY DEF StringArray
  <1> HIDE DEF l
  <1>9. StringArray(ArrayOf(w, N) \o x) = Got([i \in 1 .. N |-> v[i]], x)
    BY <1>2, <1>6, <1>7, <1>8 DEF Got, items
  <1> QED BY <1>1, <1>9, ArrayHeader

(* And what is read was there. *)
LEMMA StringArraySound ==
    ASSUME NEW b \in Seq(Nat), StringArray(b).ok
    PROVE  LET r == StringArray(b)
           IN  /\ Took(r, b) /\ (Small(b) => r.val \in Lists(Strings))
               /\ \A x \in Seq(Nat) : StringArray(b \o x) = Got(r.val, r.rest \o x)
  <1> DEFINE l == length(b)
             items == [i \in 1 .. l.val |-> i]
             N == l.val
  <1>1. l.ok /\ StringArray(b) = StringTurns!InTurnOf(0, l.rest, items)
    BY FailIs DEF StringArray
  <1>2. /\ Took(l, b) /\ l.val \in Nat /\ l.val <= Len(l.rest)
        /\ \A x \in Seq(Nat) : length(b \o x) = Got(l.val, l.rest \o x)
    BY <1>1, LengthSound
  <1>3. l.rest \in Seq(Nat) /\ Len(l.rest) <= Len(b) /\ N \in Nat /\ N <= Len(l.rest) /\ DOMAIN items = 1 .. N
    BY <1>2 DEF Took
  <1>4. ASSUME NEW x \in Seq(Nat)
        PROVE  StringArray(b \o x) = StringTurns!InTurnOf(0, l.rest \o x, items)
    <2> DEFINE g == length(b \o x)
    <2>1. g = Got(l.val, l.rest \o x)
      BY <1>2
    <2>2. StringArray(b \o x) = IF g.ok THEN StringTurns!InTurnOf(0, g.rest, [i \in 1 .. g.val |-> i]) ELSE Fail
      BY DEF StringArray
    <2> HIDE DEF g
    <2>3. g.ok /\ g.val = l.val /\ g.rest = l.rest \o x
      BY <2>1 DEF Got
    <2> QED BY <2>2, <2>3
  <1> DEFINE d == l.rest
  <1> HIDE DEF l
  <1>5. d \in Seq(Nat) /\ Len(d) <= Len(b) /\ N \in Nat /\ N <= Len(d) /\ DOMAIN items = 1 .. N
    BY <1>3
  <1> HIDE DEF items, N, d
  <1>6. ASSUME NEW i \in 1 .. N, NEW c \in Seq(Nat), OneString(0, items[i], c).ok
        PROVE  /\ OneString(0, items[i], c).rest \in Seq(Nat) /\ Len(OneString(0, items[i], c).rest) <= Len(c)
               /\ Small(c) => OneString(0, items[i], c).val \in Strings
               /\ \A x \in Seq(Nat) : OneString(0, items[i], c \o x) =
                    [ok |-> TRUE, val |-> OneString(0, items[i], c).val, rest |-> OneString(0, items[i], c).rest \o x]
    <2>1. \A y : OneString(0, items[i], y) = read_string(y)
      BY DEF OneString
    <2>2. read_string(c).ok
      BY <1>6, <2>1
    <2>3. /\ Took(read_string(c), c) /\ (Small(c) => read_string(c).val \in Strings)
          /\ \A x \in Seq(Nat) : read_string(c \o x) = Got(read_string(c).val, read_string(c).rest \o x)
      BY <2>2, StringSound
    <2>4. read_string(c).rest \in Seq(Nat) /\ Len(read_string(c).rest) <= Len(c)
      BY ONLY <2>3 DEF Took
    <2> QED BY ONLY <2>1, <2>3, <2>4 DEF Got
  <1>7. PICK v, e : StringTurns!Comes(0, d, items, N, v, e)
    <2>1. StringTurns!InTurnOf(0, d, items).ok
      BY <1>1 DEF d
    <2>2. StringTurns!Prefixed(0, items, N)
      <3>1. \A i \in 1 .. N : \A c \in Seq(Nat) :
              OneString(0, items[i], c).ok =>
                /\ OneString(0, items[i], c).rest \in Seq(Nat) /\ Len(OneString(0, items[i], c).rest) <= Len(c)
                /\ \A x \in Seq(Nat) : OneString(0, items[i], c \o x) =
                     [ok |-> TRUE, val |-> OneString(0, items[i], c).val, rest |-> OneString(0, items[i], c).rest \o x]
        BY ONLY <1>6
      <3> QED BY <3>1 DEF StringTurns!Prefixed
    <2>3. N \in Nat /\ d \in Seq(Nat) /\ DOMAIN items = 1 .. N
      BY <1>5
    <2> QED BY ONLY <2>1, <2>2, <2>3, StringBasics, StringTurns!InTurnComes
  <1>71. /\ e \in Seq(Nat) /\ Len(e) <= Len(d) /\ v = [i \in 1 .. N |-> v[i]]
         /\ StringTurns!InTurnOf(0, d, items) = [ok |-> TRUE, val |-> v, rest |-> e]
         /\ \A x \in Seq(Nat) : StringTurns!InTurnOf(0, d \o x, items) = [ok |-> TRUE, val |-> v, rest |-> e \o x]
         /\ \A i \in 1 .. N : \E c \in Seq(Nat) :
              Len(c) <= Len(d) /\ OneString(0, items[i], c).ok /\ v[i] = OneString(0, items[i], c).val
    BY <1>7 DEF StringTurns!Comes
  <1>8. StringArray(b) = Got(v, e)
    BY <1>1, <1>71 DEF d, Got
  <1>9. StringArray(b).val = v /\ StringArray(b).rest = e
    BY <1>8, GotIs
  <1>10. e \in Seq(Nat) /\ Len(e) <= Len(b)
    <2>1. Len(e) \in Nat /\ Len(d) \in Nat /\ Len(b) \in Nat
      BY <1>5, <1>71
    <2> QED BY <1>5, <1>71, <2>1
  <1>11. ASSUME Small(b) PROVE v \in Lists(Strings)
    <2>1. ASSUME NEW i \in 1 .. N PROVE v[i] \in Strings
      <3>1. PICK c \in Seq(Nat) : Len(c) <= Len(d) /\ OneString(0, items[i], c).ok /\ v[i] = OneString(0, items[i], c).val
        BY <1>71
      <3>2. Small(c)
        BY <1>5, <1>11, <3>1, SmallPart
      <3> QED BY <1>6, <3>1, <3>2
    <2>2. v \in [1 .. N -> Strings]
      BY <1>71, <2>1
    <2>3. v \in Seq(Strings) /\ Len(v) = N
      BY <1>5, <2>2, IsSequence
    <2>4. N <= MaxInt
      BY <1>5, <1>11, SmallCount
    <2> QED BY <2>3, <2>4 DEF Lists
  <1>12. ASSUME NEW x \in Seq(Nat) PROVE StringArray(b \o x) = Got(v, e \o x)
    <2>1. StringArray(b \o x) = StringTurns!InTurnOf(0, d \o x, items)
      BY <1>4 DEF d
    <2> QED BY <1>71, <2>1 DEF Got
  <1> QED BY <1>8, <1>9, <1>10, <1>11, <1>12 DEF Took

-----------------------------------------------------------------------------
(* Keys, and the entries of the two maps of an authority. *)
account_entry(e) == write_string(e[1]) \o e[2]
key_entry(e) == e[1] \o e[2]

(* A key is read back. *)
LEMMA KeyBack ==
    ASSUME NEW k \in KeyBytes, NEW x \in Seq(Nat)
    PROVE  k \in Seq(Nat) /\ Len(k) = 33 /\ Len(k) >= 1 /\ read_key(k \o x) = Got(k, x)
  <1>1. k \in Fixed(33) /\ k[1] \in {2, 3}
    BY DEF KeyBytes
  <1>2. k \in Seq(Nat) /\ Len(k) = 33 /\ take(k \o x, 33) = Got(k, x)
    BY <1>1, TakeBack
  <1> QED BY <1>1, <1>2, GotIs DEF read_key, Then

(* What is read as a key is one, whatever follows. *)
LEMMA KeySound ==
    ASSUME NEW b \in Seq(Nat), read_key(b).ok
    PROVE  LET r == read_key(b)
           IN  /\ Took(r, b) /\ r.val \in KeyBytes
               /\ \A x \in Seq(Nat) : read_key(b \o x) = Got(r.val, r.rest \o x)
  <1> DEFINE t == take(b, 33)
  <1>1. t.ok /\ t.val[1] \in {2, 3} /\ read_key(b) = Got(t.val, t.rest)
    BY FailIs DEF read_key, Then
  <1>2. Took(t, b) /\ t.val \in Fixed(33) /\ \A x \in Seq(Nat) : take(b \o x, 33) = Got(t.val, t.rest \o x)
    BY <1>1, TakeSound
  <1> HIDE DEF t
  <1>3. ASSUME NEW x \in Seq(Nat) PROVE read_key(b \o x) = Got(t.val, t.rest \o x)
    <2>1. take(b \o x, 33) = Got(t.val, t.rest \o x)
      BY <1>2
    <2> QED BY <1>1, <2>1, GotIs DEF read_key, Then
  <1>4. read_key(b).val = t.val /\ read_key(b).rest = t.rest
    BY <1>1, GotIs
  <1> QED BY <1>1, <1>2, <1>3, <1>4 DEF Took, KeyBytes

(* Values of a fixed width. *)
LEMMA FixedIs ==
    ASSUME NEW n \in Nat, NEW u \in Fixed(n)
    PROVE  u \in Seq(Nat) /\ Len(u) = n
  BY DEF Fixed

(* How an entry with a weight is read. *)
LEMMA WeightedIs ==
    ASSUME NEW e
    PROVE  Weighted(e) = IF e.ok THEN IF take(e.rest, 2).ok
                                      THEN Got(<<e.val, take(e.rest, 2).val>>, take(e.rest, 2).rest) ELSE Fail
                         ELSE Fail
  BY DEF Weighted, Then

(* An entry whose weight is read is read. *)
LEMMA WeightedGot ==
    ASSUME NEW k, NEW y, NEW u, NEW x, take(y, 2) = Got(u, x)
    PROVE  Weighted(Got(k, y)) = Got(<<k, u>>, x)
  <1> DEFINE e == Got(k, y)
  <1>1. e.ok /\ e.val = k /\ e.rest = y
    BY GotIs
  <1> HIDE DEF e
  <1>2. take(e.rest, 2) = Got(u, x)
    BY <1>1
  <1>3. take(e.rest, 2).ok /\ take(e.rest, 2).val = u /\ take(e.rest, 2).rest = x
    BY <1>2, GotIs
  <1> QED BY <1>1, <1>3, WeightedIs DEF e

(* An account and its weight are read back, the name as transport has it. *)
LEMMA AccountAuthBack ==
    ASSUME NEW e \in AccountEntries, NEW x \in Seq(Nat)
    PROVE  /\ account_entry(e) \in Seq(Nat) /\ Len(account_entry(e)) >= 3
           /\ read_account_auth(account_entry(e) \o x) = Got(<<hived_transport_form(e[1]), e[2]>>, x)
  <1> DEFINE who == write_string(e[1])
             u == e[2]
  <1>1. e[1] \in Strings /\ u \in Fixed(2)
    BY DEF AccountEntries
  <1>2. u \in Seq(Nat) /\ Len(u) = 2
    BY <1>1, FixedIs
  <1>3. u \o x \in Seq(Nat)
    BY <1>2, Joins
  <1>4. who \in Seq(Nat) /\ Len(who) >= 1 /\ read_string(who \o (u \o x)) = Got(hived_transport_form(e[1]), u \o x)
    <2> DEFINE s == e[1]
    <2>1. s \in Strings
      BY <1>1
    <2> HIDE DEF s, u
    <2> DEFINE g == write_string(s)
    <2>2. g \in Seq(Nat) /\ Len(g) >= 1 /\ read_string(g \o (u \o x)) = Got(hived_transport_form(s), u \o x)
      BY <1>3, <2>1, StringBack
    <2> QED BY <2>2 DEF s
  <1>5. take(u \o x, 2) = Got(u, x)
    BY <1>1, TakeBack
  <1>6. account_entry(e) = who \o u
    BY DEF account_entry
  <1> DEFINE k == hived_transport_form(e[1])
  <1> HIDE DEF who, u, k
  <1>7. (who \o u) \o x = who \o (u \o x)
    BY <1>2, <1>4, JoinedTwice
  <1>8. who \o u \in Seq(Nat) /\ Len(who \o u) >= 3
    <2>1. who \o u \in Seq(Nat) /\ Len(who \o u) = Len(who) + Len(u) /\ Len(who) \in Nat
      BY <1>2, <1>4, Joins
    <2> QED BY <1>2, <1>4, <2>1
  <1>9. read_account_auth(who \o (u \o x)) = Got(<<k, u>>, x)
    <2>1. read_account_auth(who \o (u \o x)) = Weighted(read_string(who \o (u \o x)))
      BY DEF read_account_auth
    <2>2. read_string(who \o (u \o x)) = Got(k, u \o x)
      BY <1>4 DEF k
    <2> QED BY <1>5, <2>1, <2>2, WeightedGot
  <1> QED BY <1>6, <1>7, <1>8, <1>9 DEF k, u

(* What is read as an account with a weight is one, whatever follows. *)
LEMMA AccountAuthSound ==
    ASSUME NEW b \in Seq(Nat), read_account_auth(b).ok
    PROVE  LET r == read_account_auth(b)
           IN  /\ Took(r, b) /\ (Small(b) => r.val \in AccountEntries)
               /\ \A x \in Seq(Nat) : read_account_auth(b \o x) = Got(r.val, r.rest \o x)
  <1> DEFINE l == read_string(b)
             t == take(l.rest, 2)
  <1>1. l.ok /\ t.ok /\ read_account_auth(b) = Got(<<l.val, t.val>>, t.rest)
    <2>1. read_account_auth(b) = Weighted(read_string(b))
      BY DEF read_account_auth
    <2> QED BY <2>1, WeightedIs, FailIs
  <1>2. /\ Took(l, b) /\ (Small(b) => l.val \in Strings)
        /\ \A x \in Seq(Nat) : read_string(b \o x) = Got(l.val, l.rest \o x)
    BY <1>1, StringSound
  <1> HIDE DEF l
  <1>3. l.rest \in Seq(Nat) /\ Len(l.rest) <= Len(b)
    BY ONLY <1>2 DEF Took
  <1>4. /\ Took(t, l.rest) /\ t.val \in Fixed(2)
        /\ \A x \in Seq(Nat) : take(l.rest \o x, 2) = Got(t.val, t.rest \o x)
    BY <1>1, <1>3, TakeSound
  <1> HIDE DEF t
  <1>5. ASSUME NEW x \in Seq(Nat) PROVE read_account_auth(b \o x) = Got(<<l.val, t.val>>, t.rest \o x)
    <2>1. read_string(b \o x) = Got(l.val, l.rest \o x) /\ take(l.rest \o x, 2) = Got(t.val, t.rest \o x)
      BY <1>2, <1>4
    <2>2. read_account_auth(b \o x) = Weighted(read_string(b \o x))
      BY DEF read_account_auth
    <2> QED BY <2>1, <2>2, WeightedGot
  <1>6. t.rest \in Seq(Nat) /\ Len(t.rest) <= Len(b)
    <2>1. t.rest \in Seq(Nat) /\ Len(t.rest) <= Len(l.rest)
      BY <1>4 DEF Took
    <2>2. Len(l.rest) \in Nat /\ Len(b) \in Nat /\ Len(t.rest) \in Nat
      BY <1>3, <2>1
    <2> QED BY <1>3, <2>1, <2>2
  <1>7. Small(b) => <<l.val, t.val>> \in AccountEntries
    <2> SUFFICES ASSUME Small(b) PROVE <<l.val, t.val>> \in AccountEntries
      OBVIOUS
    <2>1. l.val \in Strings /\ t.val \in Fixed(2)
      BY <1>2, <1>4
    <2> QED BY ONLY <2>1 DEF AccountEntries
  <1>8. read_account_auth(b).val = <<l.val, t.val>> /\ read_account_auth(b).rest = t.rest
    BY <1>1, GotIs
  <1> QED BY <1>1, <1>5, <1>6, <1>7, <1>8 DEF Took

(* A key and its weight are read back. *)
LEMMA KeyAuthBack ==
    ASSUME NEW e \in KeyEntries, NEW x \in Seq(Nat)
    PROVE  /\ key_entry(e) \in Seq(Nat) /\ Len(key_entry(e)) >= 3
           /\ read_key_auth(key_entry(e) \o x) = Got(<<e[1], e[2]>>, x)
  <1> DEFINE who == e[1]
             u == e[2]
  <1>1. e[1] \in KeyBytes /\ u \in Fixed(2)
    BY DEF KeyEntries
  <1>2. u \in Seq(Nat) /\ Len(u) = 2
    BY <1>1, FixedIs
  <1>3. u \o x \in Seq(Nat)
    BY <1>2, Joins
  <1>4. who \in Seq(Nat) /\ Len(who) >= 1 /\ read_key(who \o (u \o x)) = Got(e[1], u \o x)
    <2> DEFINE s == e[1]
    <2>1. s \in KeyBytes
      BY <1>1
    <2> HIDE DEF s, u
    <2> DEFINE g == s
    <2>2. g \in Seq(Nat) /\ Len(g) >= 1 /\ read_key(g \o (u \o x)) = Got(s, u \o x)
      BY <1>3, <2>1, KeyBack
    <2> QED BY <2>2 DEF s
  <1>5. take(u \o x, 2) = Got(u, x)
    BY <1>1, TakeBack
  <1>6. key_entry(e) = who \o u
    BY DEF key_entry
  <1> DEFINE k == e[1]
  <1> HIDE DEF who, u, k
  <1>7. (who \o u) \o x = who \o (u \o x)
    BY <1>2, <1>4, JoinedTwice
  <1>8. who \o u \in Seq(Nat) /\ Len(who \o u) >= 3
    <2>1. who \o u \in Seq(Nat) /\ Len(who \o u) = Len(who) + Len(u) /\ Len(who) \in Nat
      BY <1>2, <1>4, Joins
    <2> QED BY <1>2, <1>4, <2>1
  <1>9. read_key_auth(who \o (u \o x)) = Got(<<k, u>>, x)
    <2>1. read_key_auth(who \o (u \o x)) = Weighted(read_key(who \o (u \o x)))
      BY DEF read_key_auth
    <2>2. read_key(who \o (u \o x)) = Got(k, u \o x)
      BY <1>4 DEF k
    <2> QED BY <1>5, <2>1, <2>2, WeightedGot
  <1> QED BY <1>6, <1>7, <1>8, <1>9 DEF k, u

(* What is read as a key with a weight is one, whatever follows. *)
LEMMA KeyAuthSound ==
    ASSUME NEW b \in Seq(Nat), read_key_auth(b).ok
    PROVE  LET r == read_key_auth(b)
           IN  /\ Took(r, b) /\ (Small(b) => r.val \in KeyEntries)
               /\ \A x \in Seq(Nat) : read_key_auth(b \o x) = Got(r.val, r.rest \o x)
  <1> DEFINE l == read_key(b)
             t == take(l.rest, 2)
  <1>1. l.ok /\ t.ok /\ read_key_auth(b) = Got(<<l.val, t.val>>, t.rest)
    <2>1. read_key_auth(b) = Weighted(read_key(b))
      BY DEF read_key_auth
    <2> QED BY <2>1, WeightedIs, FailIs
  <1>2. /\ Took(l, b) /\ (l.val \in KeyBytes)
        /\ \A x \in Seq(Nat) : read_key(b \o x) = Got(l.val, l.rest \o x)
    BY <1>1, KeySound
  <1> HIDE DEF l
  <1>3. l.rest \in Seq(Nat) /\ Len(l.rest) <= Len(b)
    BY ONLY <1>2 DEF Took
  <1>4. /\ Took(t, l.rest) /\ t.val \in Fixed(2)
        /\ \A x \in Seq(Nat) : take(l.rest \o x, 2) = Got(t.val, t.rest \o x)
    BY <1>1, <1>3, TakeSound
  <1> HIDE DEF t
  <1>5. ASSUME NEW x \in Seq(Nat) PROVE read_key_auth(b \o x) = Got(<<l.val, t.val>>, t.rest \o x)
    <2>1. read_key(b \o x) = Got(l.val, l.rest \o x) /\ take(l.rest \o x, 2) = Got(t.val, t.rest \o x)
      BY <1>2, <1>4
    <2>2. read_key_auth(b \o x) = Weighted(read_key(b \o x))
      BY DEF read_key_auth
    <2> QED BY <2>1, <2>2, WeightedGot
  <1>6. t.rest \in Seq(Nat) /\ Len(t.rest) <= Len(b)
    <2>1. t.rest \in Seq(Nat) /\ Len(t.rest) <= Len(l.rest)
      BY <1>4 DEF Took
    <2>2. Len(l.rest) \in Nat /\ Len(b) \in Nat /\ Len(t.rest) \in Nat
      BY <1>3, <2>1
    <2> QED BY <1>3, <2>1, <2>2
  <1>7. Small(b) => <<l.val, t.val>> \in KeyEntries
    <2> SUFFICES ASSUME Small(b) PROVE <<l.val, t.val>> \in KeyEntries
      OBVIOUS
    <2>1. l.val \in KeyBytes /\ t.val \in Fixed(2)
      BY <1>2, <1>4
    <2> QED BY ONLY <2>1 DEF KeyEntries
  <1>8. read_key_auth(b).val = <<l.val, t.val>> /\ read_key_auth(b).rest = t.rest
    BY <1>1, GotIs
  <1> QED BY <1>1, <1>5, <1>6, <1>7, <1>8 DEF Took

OneAccount(p, i, c) == read_account_auth(c)
AccountTurns == INSTANCE InTurnProofs WITH R <- OneAccount
AccountArray(b) ==
    IF length(b).ok THEN AccountTurns!InTurnOf(0, length(b).rest, [i \in 1 .. length(b).val |-> i]) ELSE Fail

(* What the instance takes as known, from the library. *)
LEMMA AccountBasics == AccountTurns!Basics
  BY ForTurns DEF AccountTurns!Basics, AccountTurns!Least, AccountTurns!Induction, AccountTurns!Counted, AccountTurns!Cardinality, Cardinality

(* read_array of accounts, by name. *)
LEMMA AccountsAre ==
    ASSUME NEW b
    PROVE  read_array(b, read_account_auth) = AccountArray(b)
  BY DEF AccountArray, read_array, InTurn, FoldLeft, MapThenFoldSet, Then, Max, Got, Fail,
         AccountTurns!InTurnOf, AccountTurns!Turns, AccountTurns!TurnStep, AccountTurns!Turn, AccountTurns!Got, AccountTurns!Fail, AccountTurns!Largest, OneAccount

(* What is written as an array of weighted accounts is read. *)
LEMMA AccountArrayBack ==
    ASSUME NEW N \in Nat, N <= MaxInt, NEW w \in [1 .. N -> Seq(Nat)], NEW v, NEW x \in Seq(Nat),
           \A i \in 1 .. N : Len(w[i]) >= 1 /\ \A c \in Seq(Nat) : read_account_auth(w[i] \o c) = Got(v[i], c)
    PROVE  /\ ArrayOf(w, N) \in Seq(Nat) /\ Len(ArrayOf(w, N)) >= 1
           /\ AccountArray(ArrayOf(w, N) \o x) = Got([i \in 1 .. N |-> v[i]], x)
  <1>1. \A i \in 1 .. N : Len(w[i]) >= 1
    OBVIOUS
  <1>2. PICK t : /\ \A i \in 0 .. N : t[i] \in Seq(Nat)
                 /\ \A i \in 1 .. N : t[i - 1] = w[i] \o t[i]
                 /\ t[N] = x /\ length(ArrayOf(w, N) \o x) = Got(N, t[0])
    BY <1>1, ArrayHeader
  <1> DEFINE items == [i \in 1 .. N |-> i]
  <1>3. ASSUME NEW i \in 1 .. N
        PROVE  OneAccount(0, items[i], t[i - 1]) = [ok |-> TRUE, val |-> v[i], rest |-> t[i]]
    <2>1. t[i] \in Seq(Nat) /\ t[i - 1] = w[i] \o t[i]
      BY <1>2, SMTT(60), ZenonT(60)
    <2>2. read_account_auth(t[i - 1]) = Got(v[i], t[i])
      BY <2>1
    <2> QED BY <2>2 DEF OneAccount, Got
  <1>4. DOMAIN items = 1 .. N
    OBVIOUS
  <1> HIDE DEF items
  <1>5. AccountTurns!Reads(0, items, N, t, v)
    BY <1>3 DEF AccountTurns!Reads
  <1>6. AccountTurns!InTurnOf(0, t[0], items) = [ok |-> TRUE, val |-> [i \in 1 .. N |-> v[i]], rest |-> t[N]]
    BY <1>4, <1>5, AccountBasics, AccountTurns!InTurnFollows
  <1> DEFINE l == length(ArrayOf(w, N) \o x)
  <1>7. l.ok /\ l.val = N /\ l.rest = t[0]
    BY <1>2, GotIs
  <1>8. AccountArray(ArrayOf(w, N) \o x) = IF l.ok THEN AccountTurns!InTurnOf(0, l.rest, [i \in 1 .. l.val |-> i]) ELSE Fail
    BY DEF AccountArray
  <1> HIDE DEF l
  <1>9. AccountArray(ArrayOf(w, N) \o x) = Got([i \in 1 .. N |-> v[i]], x)
    BY <1>2, <1>6, <1>7, <1>8 DEF Got, items
  <1> QED BY <1>1, <1>9, ArrayHeader

(* And what is read was there. *)
LEMMA AccountArraySound ==
    ASSUME NEW b \in Seq(Nat), AccountArray(b).ok
    PROVE  LET r == AccountArray(b)
           IN  /\ Took(r, b) /\ (Small(b) => r.val \in Lists(AccountEntries))
               /\ \A x \in Seq(Nat) : AccountArray(b \o x) = Got(r.val, r.rest \o x)
  <1> DEFINE l == length(b)
             items == [i \in 1 .. l.val |-> i]
             N == l.val
  <1>1. l.ok /\ AccountArray(b) = AccountTurns!InTurnOf(0, l.rest, items)
    BY FailIs DEF AccountArray
  <1>2. /\ Took(l, b) /\ l.val \in Nat /\ l.val <= Len(l.rest)
        /\ \A x \in Seq(Nat) : length(b \o x) = Got(l.val, l.rest \o x)
    BY <1>1, LengthSound
  <1>3. l.rest \in Seq(Nat) /\ Len(l.rest) <= Len(b) /\ N \in Nat /\ N <= Len(l.rest) /\ DOMAIN items = 1 .. N
    BY <1>2 DEF Took
  <1>4. ASSUME NEW x \in Seq(Nat)
        PROVE  AccountArray(b \o x) = AccountTurns!InTurnOf(0, l.rest \o x, items)
    <2> DEFINE g == length(b \o x)
    <2>1. g = Got(l.val, l.rest \o x)
      BY <1>2
    <2>2. AccountArray(b \o x) = IF g.ok THEN AccountTurns!InTurnOf(0, g.rest, [i \in 1 .. g.val |-> i]) ELSE Fail
      BY DEF AccountArray
    <2> HIDE DEF g
    <2>3. g.ok /\ g.val = l.val /\ g.rest = l.rest \o x
      BY <2>1 DEF Got
    <2> QED BY <2>2, <2>3
  <1> DEFINE d == l.rest
  <1> HIDE DEF l
  <1>5. d \in Seq(Nat) /\ Len(d) <= Len(b) /\ N \in Nat /\ N <= Len(d) /\ DOMAIN items = 1 .. N
    BY <1>3
  <1> HIDE DEF items, N, d
  <1>6. ASSUME NEW i \in 1 .. N, NEW c \in Seq(Nat), OneAccount(0, items[i], c).ok
        PROVE  /\ OneAccount(0, items[i], c).rest \in Seq(Nat) /\ Len(OneAccount(0, items[i], c).rest) <= Len(c)
               /\ Small(c) => OneAccount(0, items[i], c).val \in AccountEntries
               /\ \A x \in Seq(Nat) : OneAccount(0, items[i], c \o x) =
                    [ok |-> TRUE, val |-> OneAccount(0, items[i], c).val, rest |-> OneAccount(0, items[i], c).rest \o x]
    <2>1. \A y : OneAccount(0, items[i], y) = read_account_auth(y)
      BY DEF OneAccount
    <2>2. read_account_auth(c).ok
      BY <1>6, <2>1
    <2>3. /\ Took(read_account_auth(c), c) /\ (Small(c) => read_account_auth(c).val \in AccountEntries)
          /\ \A x \in Seq(Nat) : read_account_auth(c \o x) = Got(read_account_auth(c).val, read_account_auth(c).rest \o x)
      BY <2>2, AccountAuthSound
    <2>4. read_account_auth(c).rest \in Seq(Nat) /\ Len(read_account_auth(c).rest) <= Len(c)
      BY ONLY <2>3 DEF Took
    <2> QED BY ONLY <2>1, <2>3, <2>4 DEF Got
  <1>7. PICK v, e : AccountTurns!Comes(0, d, items, N, v, e)
    <2>1. AccountTurns!InTurnOf(0, d, items).ok
      BY <1>1 DEF d
    <2>2. AccountTurns!Prefixed(0, items, N)
      <3>1. \A i \in 1 .. N : \A c \in Seq(Nat) :
              OneAccount(0, items[i], c).ok =>
                /\ OneAccount(0, items[i], c).rest \in Seq(Nat) /\ Len(OneAccount(0, items[i], c).rest) <= Len(c)
                /\ \A x \in Seq(Nat) : OneAccount(0, items[i], c \o x) =
                     [ok |-> TRUE, val |-> OneAccount(0, items[i], c).val, rest |-> OneAccount(0, items[i], c).rest \o x]
        BY ONLY <1>6
      <3> QED BY <3>1 DEF AccountTurns!Prefixed
    <2>3. N \in Nat /\ d \in Seq(Nat) /\ DOMAIN items = 1 .. N
      BY <1>5
    <2> QED BY ONLY <2>1, <2>2, <2>3, AccountBasics, AccountTurns!InTurnComes
  <1>71. /\ e \in Seq(Nat) /\ Len(e) <= Len(d) /\ v = [i \in 1 .. N |-> v[i]]
         /\ AccountTurns!InTurnOf(0, d, items) = [ok |-> TRUE, val |-> v, rest |-> e]
         /\ \A x \in Seq(Nat) : AccountTurns!InTurnOf(0, d \o x, items) = [ok |-> TRUE, val |-> v, rest |-> e \o x]
         /\ \A i \in 1 .. N : \E c \in Seq(Nat) :
              Len(c) <= Len(d) /\ OneAccount(0, items[i], c).ok /\ v[i] = OneAccount(0, items[i], c).val
    BY <1>7 DEF AccountTurns!Comes
  <1>8. AccountArray(b) = Got(v, e)
    BY <1>1, <1>71 DEF d, Got
  <1>9. AccountArray(b).val = v /\ AccountArray(b).rest = e
    BY <1>8, GotIs
  <1>10. e \in Seq(Nat) /\ Len(e) <= Len(b)
    <2>1. Len(e) \in Nat /\ Len(d) \in Nat /\ Len(b) \in Nat
      BY <1>5, <1>71
    <2> QED BY <1>5, <1>71, <2>1
  <1>11. ASSUME Small(b) PROVE v \in Lists(AccountEntries)
    <2>1. ASSUME NEW i \in 1 .. N PROVE v[i] \in AccountEntries
      <3>1. PICK c \in Seq(Nat) : Len(c) <= Len(d) /\ OneAccount(0, items[i], c).ok /\ v[i] = OneAccount(0, items[i], c).val
        BY <1>71
      <3>2. Small(c)
        BY <1>5, <1>11, <3>1, SmallPart
      <3> QED BY <1>6, <3>1, <3>2
    <2>2. v \in [1 .. N -> AccountEntries]
      BY <1>71, <2>1
    <2>3. v \in Seq(AccountEntries) /\ Len(v) = N
      BY <1>5, <2>2, IsSequence
    <2>4. N <= MaxInt
      BY <1>5, <1>11, SmallCount
    <2> QED BY <2>3, <2>4 DEF Lists
  <1>12. ASSUME NEW x \in Seq(Nat) PROVE AccountArray(b \o x) = Got(v, e \o x)
    <2>1. AccountArray(b \o x) = AccountTurns!InTurnOf(0, d \o x, items)
      BY <1>4 DEF d
    <2> QED BY <1>71, <2>1 DEF Got
  <1> QED BY <1>8, <1>9, <1>10, <1>11, <1>12 DEF Took

OneKey(p, i, c) == read_key_auth(c)
KeyTurns == INSTANCE InTurnProofs WITH R <- OneKey
KeyArray(b) ==
    IF length(b).ok THEN KeyTurns!InTurnOf(0, length(b).rest, [i \in 1 .. length(b).val |-> i]) ELSE Fail

(* What the instance takes as known, from the library. *)
LEMMA KeyBasics == KeyTurns!Basics
  BY ForTurns DEF KeyTurns!Basics, KeyTurns!Least, KeyTurns!Induction, KeyTurns!Counted, KeyTurns!Cardinality, Cardinality

(* read_array of keys, by name. *)
LEMMA KeysAre ==
    ASSUME NEW b
    PROVE  read_array(b, read_key_auth) = KeyArray(b)
  BY DEF KeyArray, read_array, InTurn, FoldLeft, MapThenFoldSet, Then, Max, Got, Fail,
         KeyTurns!InTurnOf, KeyTurns!Turns, KeyTurns!TurnStep, KeyTurns!Turn, KeyTurns!Got, KeyTurns!Fail, KeyTurns!Largest, OneKey

(* What is written as an array of weighted keys is read. *)
LEMMA KeyArrayBack ==
    ASSUME NEW N \in Nat, N <= MaxInt, NEW w \in [1 .. N -> Seq(Nat)], NEW v, NEW x \in Seq(Nat),
           \A i \in 1 .. N : Len(w[i]) >= 1 /\ \A c \in Seq(Nat) : read_key_auth(w[i] \o c) = Got(v[i], c)
    PROVE  /\ ArrayOf(w, N) \in Seq(Nat) /\ Len(ArrayOf(w, N)) >= 1
           /\ KeyArray(ArrayOf(w, N) \o x) = Got([i \in 1 .. N |-> v[i]], x)
  <1>1. \A i \in 1 .. N : Len(w[i]) >= 1
    OBVIOUS
  <1>2. PICK t : /\ \A i \in 0 .. N : t[i] \in Seq(Nat)
                 /\ \A i \in 1 .. N : t[i - 1] = w[i] \o t[i]
                 /\ t[N] = x /\ length(ArrayOf(w, N) \o x) = Got(N, t[0])
    BY <1>1, ArrayHeader
  <1> DEFINE items == [i \in 1 .. N |-> i]
  <1>3. ASSUME NEW i \in 1 .. N
        PROVE  OneKey(0, items[i], t[i - 1]) = [ok |-> TRUE, val |-> v[i], rest |-> t[i]]
    <2>1. t[i] \in Seq(Nat) /\ t[i - 1] = w[i] \o t[i]
      BY <1>2, SMTT(60), ZenonT(60)
    <2>2. read_key_auth(t[i - 1]) = Got(v[i], t[i])
      BY <2>1
    <2> QED BY <2>2 DEF OneKey, Got
  <1>4. DOMAIN items = 1 .. N
    OBVIOUS
  <1> HIDE DEF items
  <1>5. KeyTurns!Reads(0, items, N, t, v)
    BY <1>3 DEF KeyTurns!Reads
  <1>6. KeyTurns!InTurnOf(0, t[0], items) = [ok |-> TRUE, val |-> [i \in 1 .. N |-> v[i]], rest |-> t[N]]
    BY <1>4, <1>5, KeyBasics, KeyTurns!InTurnFollows
  <1> DEFINE l == length(ArrayOf(w, N) \o x)
  <1>7. l.ok /\ l.val = N /\ l.rest = t[0]
    BY <1>2, GotIs
  <1>8. KeyArray(ArrayOf(w, N) \o x) = IF l.ok THEN KeyTurns!InTurnOf(0, l.rest, [i \in 1 .. l.val |-> i]) ELSE Fail
    BY DEF KeyArray
  <1> HIDE DEF l
  <1>9. KeyArray(ArrayOf(w, N) \o x) = Got([i \in 1 .. N |-> v[i]], x)
    BY <1>2, <1>6, <1>7, <1>8 DEF Got, items
  <1> QED BY <1>1, <1>9, ArrayHeader

(* And what is read was there. *)
LEMMA KeyArraySound ==
    ASSUME NEW b \in Seq(Nat), KeyArray(b).ok
    PROVE  LET r == KeyArray(b)
           IN  /\ Took(r, b) /\ (Small(b) => r.val \in Lists(KeyEntries))
               /\ \A x \in Seq(Nat) : KeyArray(b \o x) = Got(r.val, r.rest \o x)
  <1> DEFINE l == length(b)
             items == [i \in 1 .. l.val |-> i]
             N == l.val
  <1>1. l.ok /\ KeyArray(b) = KeyTurns!InTurnOf(0, l.rest, items)
    BY FailIs DEF KeyArray
  <1>2. /\ Took(l, b) /\ l.val \in Nat /\ l.val <= Len(l.rest)
        /\ \A x \in Seq(Nat) : length(b \o x) = Got(l.val, l.rest \o x)
    BY <1>1, LengthSound
  <1>3. l.rest \in Seq(Nat) /\ Len(l.rest) <= Len(b) /\ N \in Nat /\ N <= Len(l.rest) /\ DOMAIN items = 1 .. N
    BY <1>2 DEF Took
  <1>4. ASSUME NEW x \in Seq(Nat)
        PROVE  KeyArray(b \o x) = KeyTurns!InTurnOf(0, l.rest \o x, items)
    <2> DEFINE g == length(b \o x)
    <2>1. g = Got(l.val, l.rest \o x)
      BY <1>2
    <2>2. KeyArray(b \o x) = IF g.ok THEN KeyTurns!InTurnOf(0, g.rest, [i \in 1 .. g.val |-> i]) ELSE Fail
      BY DEF KeyArray
    <2> HIDE DEF g
    <2>3. g.ok /\ g.val = l.val /\ g.rest = l.rest \o x
      BY <2>1 DEF Got
    <2> QED BY <2>2, <2>3
  <1> DEFINE d == l.rest
  <1> HIDE DEF l
  <1>5. d \in Seq(Nat) /\ Len(d) <= Len(b) /\ N \in Nat /\ N <= Len(d) /\ DOMAIN items = 1 .. N
    BY <1>3
  <1> HIDE DEF items, N, d
  <1>6. ASSUME NEW i \in 1 .. N, NEW c \in Seq(Nat), OneKey(0, items[i], c).ok
        PROVE  /\ OneKey(0, items[i], c).rest \in Seq(Nat) /\ Len(OneKey(0, items[i], c).rest) <= Len(c)
               /\ Small(c) => OneKey(0, items[i], c).val \in KeyEntries
               /\ \A x \in Seq(Nat) : OneKey(0, items[i], c \o x) =
                    [ok |-> TRUE, val |-> OneKey(0, items[i], c).val, rest |-> OneKey(0, items[i], c).rest \o x]
    <2>1. \A y : OneKey(0, items[i], y) = read_key_auth(y)
      BY DEF OneKey
    <2>2. read_key_auth(c).ok
      BY <1>6, <2>1
    <2>3. /\ Took(read_key_auth(c), c) /\ (Small(c) => read_key_auth(c).val \in KeyEntries)
          /\ \A x \in Seq(Nat) : read_key_auth(c \o x) = Got(read_key_auth(c).val, read_key_auth(c).rest \o x)
      BY <2>2, KeyAuthSound
    <2>4. read_key_auth(c).rest \in Seq(Nat) /\ Len(read_key_auth(c).rest) <= Len(c)
      BY ONLY <2>3 DEF Took
    <2> QED BY ONLY <2>1, <2>3, <2>4 DEF Got
  <1>7. PICK v, e : KeyTurns!Comes(0, d, items, N, v, e)
    <2>1. KeyTurns!InTurnOf(0, d, items).ok
      BY <1>1 DEF d
    <2>2. KeyTurns!Prefixed(0, items, N)
      <3>1. \A i \in 1 .. N : \A c \in Seq(Nat) :
              OneKey(0, items[i], c).ok =>
                /\ OneKey(0, items[i], c).rest \in Seq(Nat) /\ Len(OneKey(0, items[i], c).rest) <= Len(c)
                /\ \A x \in Seq(Nat) : OneKey(0, items[i], c \o x) =
                     [ok |-> TRUE, val |-> OneKey(0, items[i], c).val, rest |-> OneKey(0, items[i], c).rest \o x]
        BY ONLY <1>6
      <3> QED BY <3>1 DEF KeyTurns!Prefixed
    <2>3. N \in Nat /\ d \in Seq(Nat) /\ DOMAIN items = 1 .. N
      BY <1>5
    <2> QED BY ONLY <2>1, <2>2, <2>3, KeyBasics, KeyTurns!InTurnComes
  <1>71. /\ e \in Seq(Nat) /\ Len(e) <= Len(d) /\ v = [i \in 1 .. N |-> v[i]]
         /\ KeyTurns!InTurnOf(0, d, items) = [ok |-> TRUE, val |-> v, rest |-> e]
         /\ \A x \in Seq(Nat) : KeyTurns!InTurnOf(0, d \o x, items) = [ok |-> TRUE, val |-> v, rest |-> e \o x]
         /\ \A i \in 1 .. N : \E c \in Seq(Nat) :
              Len(c) <= Len(d) /\ OneKey(0, items[i], c).ok /\ v[i] = OneKey(0, items[i], c).val
    BY <1>7 DEF KeyTurns!Comes
  <1>8. KeyArray(b) = Got(v, e)
    BY <1>1, <1>71 DEF d, Got
  <1>9. KeyArray(b).val = v /\ KeyArray(b).rest = e
    BY <1>8, GotIs
  <1>10. e \in Seq(Nat) /\ Len(e) <= Len(b)
    <2>1. Len(e) \in Nat /\ Len(d) \in Nat /\ Len(b) \in Nat
      BY <1>5, <1>71
    <2> QED BY <1>5, <1>71, <2>1
  <1>11. ASSUME Small(b) PROVE v \in Lists(KeyEntries)
    <2>1. ASSUME NEW i \in 1 .. N PROVE v[i] \in KeyEntries
      <3>1. PICK c \in Seq(Nat) : Len(c) <= Len(d) /\ OneKey(0, items[i], c).ok /\ v[i] = OneKey(0, items[i], c).val
        BY <1>71
      <3>2. Small(c)
        BY <1>5, <1>11, <3>1, SmallPart
      <3> QED BY <1>6, <3>1, <3>2
    <2>2. v \in [1 .. N -> KeyEntries]
      BY <1>71, <2>1
    <2>3. v \in Seq(KeyEntries) /\ Len(v) = N
      BY <1>5, <2>2, IsSequence
    <2>4. N <= MaxInt
      BY <1>5, <1>11, SmallCount
    <2> QED BY <2>3, <2>4 DEF Lists
  <1>12. ASSUME NEW x \in Seq(Nat) PROVE KeyArray(b \o x) = Got(v, e \o x)
    <2>1. KeyArray(b \o x) = KeyTurns!InTurnOf(0, d \o x, items)
      BY <1>4 DEF d
    <2> QED BY <1>71, <2>1 DEF Got
  <1> QED BY <1>8, <1>9, <1>10, <1>11, <1>12 DEF Took

OneId(p, i, c) == take(c, 8)
IdTurns == INSTANCE InTurnProofs WITH R <- OneId
IdArray(b) ==
    IF length(b).ok THEN IdTurns!InTurnOf(0, length(b).rest, [i \in 1 .. length(b).val |-> i]) ELSE Fail

(* What the instance takes as known, from the library. *)
LEMMA IdBasics == IdTurns!Basics
  BY ForTurns DEF IdTurns!Basics, IdTurns!Least, IdTurns!Induction, IdTurns!Counted, IdTurns!Cardinality, Cardinality

(* read_array of ids, by name. *)
LEMMA IdsAre ==
    ASSUME NEW b
    PROVE  read_array(b, LAMBDA c : take(c, 8)) = IdArray(b)
  BY DEF IdArray, read_array, InTurn, FoldLeft, MapThenFoldSet, Then, Max, Got, Fail,
         IdTurns!InTurnOf, IdTurns!Turns, IdTurns!TurnStep, IdTurns!Turn, IdTurns!Got, IdTurns!Fail, IdTurns!Largest, OneId

(* What is written as an array of proposal ids is read. *)
LEMMA IdArrayBack ==
    ASSUME NEW N \in Nat, N <= MaxInt, NEW w \in [1 .. N -> Seq(Nat)], NEW v, NEW x \in Seq(Nat),
           \A i \in 1 .. N : Len(w[i]) >= 1 /\ \A c \in Seq(Nat) : take(w[i] \o c, 8) = Got(v[i], c)
    PROVE  /\ ArrayOf(w, N) \in Seq(Nat) /\ Len(ArrayOf(w, N)) >= 1
           /\ IdArray(ArrayOf(w, N) \o x) = Got([i \in 1 .. N |-> v[i]], x)
  <1>1. \A i \in 1 .. N : Len(w[i]) >= 1
    OBVIOUS
  <1>2. PICK t : /\ \A i \in 0 .. N : t[i] \in Seq(Nat)
                 /\ \A i \in 1 .. N : t[i - 1] = w[i] \o t[i]
                 /\ t[N] = x /\ length(ArrayOf(w, N) \o x) = Got(N, t[0])
    BY <1>1, ArrayHeader
  <1> DEFINE items == [i \in 1 .. N |-> i]
  <1>3. ASSUME NEW i \in 1 .. N
        PROVE  OneId(0, items[i], t[i - 1]) = [ok |-> TRUE, val |-> v[i], rest |-> t[i]]
    <2>1. t[i] \in Seq(Nat) /\ t[i - 1] = w[i] \o t[i]
      BY <1>2, SMTT(60), ZenonT(60)
    <2>2. take(t[i - 1], 8) = Got(v[i], t[i])
      BY <2>1
    <2> QED BY <2>2 DEF OneId, Got
  <1>4. DOMAIN items = 1 .. N
    OBVIOUS
  <1> HIDE DEF items
  <1>5. IdTurns!Reads(0, items, N, t, v)
    BY <1>3 DEF IdTurns!Reads
  <1>6. IdTurns!InTurnOf(0, t[0], items) = [ok |-> TRUE, val |-> [i \in 1 .. N |-> v[i]], rest |-> t[N]]
    BY <1>4, <1>5, IdBasics, IdTurns!InTurnFollows
  <1> DEFINE l == length(ArrayOf(w, N) \o x)
  <1>7. l.ok /\ l.val = N /\ l.rest = t[0]
    BY <1>2, GotIs
  <1>8. IdArray(ArrayOf(w, N) \o x) = IF l.ok THEN IdTurns!InTurnOf(0, l.rest, [i \in 1 .. l.val |-> i]) ELSE Fail
    BY DEF IdArray
  <1> HIDE DEF l
  <1>9. IdArray(ArrayOf(w, N) \o x) = Got([i \in 1 .. N |-> v[i]], x)
    BY <1>2, <1>6, <1>7, <1>8 DEF Got, items
  <1> QED BY <1>1, <1>9, ArrayHeader

(* And what is read was there. *)
LEMMA IdArraySound ==
    ASSUME NEW b \in Seq(Nat), IdArray(b).ok
    PROVE  LET r == IdArray(b)
           IN  /\ Took(r, b) /\ (Small(b) => r.val \in Lists(Fixed(8)))
               /\ \A x \in Seq(Nat) : IdArray(b \o x) = Got(r.val, r.rest \o x)
  <1> DEFINE l == length(b)
             items == [i \in 1 .. l.val |-> i]
             N == l.val
  <1>1. l.ok /\ IdArray(b) = IdTurns!InTurnOf(0, l.rest, items)
    BY FailIs DEF IdArray
  <1>2. /\ Took(l, b) /\ l.val \in Nat /\ l.val <= Len(l.rest)
        /\ \A x \in Seq(Nat) : length(b \o x) = Got(l.val, l.rest \o x)
    BY <1>1, LengthSound
  <1>3. l.rest \in Seq(Nat) /\ Len(l.rest) <= Len(b) /\ N \in Nat /\ N <= Len(l.rest) /\ DOMAIN items = 1 .. N
    BY <1>2 DEF Took
  <1>4. ASSUME NEW x \in Seq(Nat)
        PROVE  IdArray(b \o x) = IdTurns!InTurnOf(0, l.rest \o x, items)
    <2> DEFINE g == length(b \o x)
    <2>1. g = Got(l.val, l.rest \o x)
      BY <1>2
    <2>2. IdArray(b \o x) = IF g.ok THEN IdTurns!InTurnOf(0, g.rest, [i \in 1 .. g.val |-> i]) ELSE Fail
      BY DEF IdArray
    <2> HIDE DEF g
    <2>3. g.ok /\ g.val = l.val /\ g.rest = l.rest \o x
      BY <2>1 DEF Got
    <2> QED BY <2>2, <2>3
  <1> DEFINE d == l.rest
  <1> HIDE DEF l
  <1>5. d \in Seq(Nat) /\ Len(d) <= Len(b) /\ N \in Nat /\ N <= Len(d) /\ DOMAIN items = 1 .. N
    BY <1>3
  <1> HIDE DEF items, N, d
  <1>6. ASSUME NEW i \in 1 .. N, NEW c \in Seq(Nat), OneId(0, items[i], c).ok
        PROVE  /\ OneId(0, items[i], c).rest \in Seq(Nat) /\ Len(OneId(0, items[i], c).rest) <= Len(c)
               /\ Small(c) => OneId(0, items[i], c).val \in Fixed(8)
               /\ \A x \in Seq(Nat) : OneId(0, items[i], c \o x) =
                    [ok |-> TRUE, val |-> OneId(0, items[i], c).val, rest |-> OneId(0, items[i], c).rest \o x]
    <2>1. \A y : OneId(0, items[i], y) = take(y, 8)
      BY DEF OneId
    <2>2. take(c, 8).ok
      BY <1>6, <2>1
    <2>3. /\ Took(take(c, 8), c) /\ (Small(c) => take(c, 8).val \in Fixed(8))
          /\ \A x \in Seq(Nat) : take(c \o x, 8) = Got(take(c, 8).val, take(c, 8).rest \o x)
      BY <2>2, TakeSound
    <2>4. take(c, 8).rest \in Seq(Nat) /\ Len(take(c, 8).rest) <= Len(c)
      BY ONLY <2>3 DEF Took
    <2> QED BY ONLY <2>1, <2>3, <2>4 DEF Got
  <1>7. PICK v, e : IdTurns!Comes(0, d, items, N, v, e)
    <2>1. IdTurns!InTurnOf(0, d, items).ok
      BY <1>1 DEF d
    <2>2. IdTurns!Prefixed(0, items, N)
      <3>1. \A i \in 1 .. N : \A c \in Seq(Nat) :
              OneId(0, items[i], c).ok =>
                /\ OneId(0, items[i], c).rest \in Seq(Nat) /\ Len(OneId(0, items[i], c).rest) <= Len(c)
                /\ \A x \in Seq(Nat) : OneId(0, items[i], c \o x) =
                     [ok |-> TRUE, val |-> OneId(0, items[i], c).val, rest |-> OneId(0, items[i], c).rest \o x]
        BY ONLY <1>6
      <3> QED BY <3>1 DEF IdTurns!Prefixed
    <2>3. N \in Nat /\ d \in Seq(Nat) /\ DOMAIN items = 1 .. N
      BY <1>5
    <2> QED BY ONLY <2>1, <2>2, <2>3, IdBasics, IdTurns!InTurnComes
  <1>71. /\ e \in Seq(Nat) /\ Len(e) <= Len(d) /\ v = [i \in 1 .. N |-> v[i]]
         /\ IdTurns!InTurnOf(0, d, items) = [ok |-> TRUE, val |-> v, rest |-> e]
         /\ \A x \in Seq(Nat) : IdTurns!InTurnOf(0, d \o x, items) = [ok |-> TRUE, val |-> v, rest |-> e \o x]
         /\ \A i \in 1 .. N : \E c \in Seq(Nat) :
              Len(c) <= Len(d) /\ OneId(0, items[i], c).ok /\ v[i] = OneId(0, items[i], c).val
    BY <1>7 DEF IdTurns!Comes
  <1>8. IdArray(b) = Got(v, e)
    BY <1>1, <1>71 DEF d, Got
  <1>9. IdArray(b).val = v /\ IdArray(b).rest = e
    BY <1>8, GotIs
  <1>10. e \in Seq(Nat) /\ Len(e) <= Len(b)
    <2>1. Len(e) \in Nat /\ Len(d) \in Nat /\ Len(b) \in Nat
      BY <1>5, <1>71
    <2> QED BY <1>5, <1>71, <2>1
  <1>11. ASSUME Small(b) PROVE v \in Lists(Fixed(8))
    <2>1. ASSUME NEW i \in 1 .. N PROVE v[i] \in Fixed(8)
      <3>1. PICK c \in Seq(Nat) : Len(c) <= Len(d) /\ OneId(0, items[i], c).ok /\ v[i] = OneId(0, items[i], c).val
        BY <1>71
      <3>2. Small(c)
        BY <1>5, <1>11, <3>1, SmallPart
      <3> QED BY <1>6, <3>1, <3>2
    <2>2. v \in [1 .. N -> Fixed(8)]
      BY <1>71, <2>1
    <2>3. v \in Seq(Fixed(8)) /\ Len(v) = N
      BY <1>5, <2>2, IsSequence
    <2>4. N <= MaxInt
      BY <1>5, <1>11, SmallCount
    <2> QED BY <2>3, <2>4 DEF Lists
  <1>12. ASSUME NEW x \in Seq(Nat) PROVE IdArray(b \o x) = Got(v, e \o x)
    <2>1. IdArray(b \o x) = IdTurns!InTurnOf(0, d \o x, items)
      BY <1>4 DEF d
    <2> QED BY <1>71, <2>1 DEF Got
  <1> QED BY <1>8, <1>9, <1>10, <1>11, <1>12 DEF Took

-----------------------------------------------------------------------------
(* Lists, sorted and carried. *)
LEMMA ListIs ==
    ASSUME NEW S, NEW v \in Lists(S)
    PROVE  /\ v \in Seq(S) /\ Len(v) \in Nat /\ Len(v) <= MaxInt /\ DOMAIN v = 1 .. Len(v)
           /\ v = [i \in 1 .. Len(v) |-> v[i]] /\ \A i \in 1 .. Len(v) : v[i] \in S
  <1>1. v \in Seq(S) /\ Len(v) <= MaxInt
    BY DEF Lists
  <1>2. Len(v) \in Nat /\ DOMAIN v = 1 .. Len(v) /\ v \in [1 .. Len(v) -> S]
    BY <1>1
  <1>3. \A i \in 1 .. Len(v) : v[i] \in S
    BY <1>2
  <1>4. v = [i \in 1 .. Len(v) |-> v[i]]
    BY <1>2
  <1> QED BY <1>1, <1>2, <1>3, <1>4

(* A list of items of a kind, no longer than a length can say. *)
LEMMA IsList ==
    ASSUME NEW S, NEW N \in Nat, N <= MaxInt, NEW v, v = [i \in 1 .. N |-> v[i]], \A i \in 1 .. N : v[i] \in S
    PROVE  v \in Lists(S) /\ Len(v) = N
  <1>1. v \in [1 .. N -> S]
    OBVIOUS
  <1>2. v \in Seq(S) /\ Len(v) = N
    BY <1>1, IsSequence
  <1> QED BY <1>2 DEF Lists

(* A sorted list is a function on the positions of the list, whatever it   *)
(* was sorted by. *)
LEMMA SortedIsFunction ==
    ASSUME NEW v
    PROVE  /\ Sorted(v, PropertyKey) = [n \in DOMAIN v |-> Sorted(v, PropertyKey)[n]]
           /\ Sorted(v, ByFirst) = [n \in DOMAIN v |-> Sorted(v, ByFirst)[n]]
           /\ Sorted(v, ByItself) = [n \in DOMAIN v |-> Sorted(v, ByItself)[n]]
           /\ Sorted(v, hived_transport_form) = [n \in DOMAIN v |-> Sorted(v, hived_transport_form)[n]]
           /\ Sorted(v, ProposalOrder) = [n \in DOMAIN v |-> Sorted(v, ProposalOrder)[n]]
  BY DEF Sorted

(* A string in transport is a string, stays as it is, and is written to    *)
(* the same bytes. *)
LEMMA StringForm ==
    ASSUME NEW s \in Strings
    PROVE  LET f == hived_transport_form(s)
           IN  /\ s \in Text /\ f \in Strings /\ f \in Text /\ f \in Seq(Nat) /\ hived_transport_form(f) = f
               /\ write_string(f) = write_string(s)
  <1> DEFINE f == hived_transport_form(s)
  <1>1. s \in Text /\ Len(f) <= MaxInt
    BY DEF Strings
  <1>2. f \in Text /\ f \in Seq(Nat) /\ hived_transport_form(f) = f
    BY <1>1, Forms DEF Bytes
  <1>3. write_string(f) = write_string(s)
    BY <1>2 DEF write_string
  <1>4. f \in Strings
    <2> HIDE DEF f
    <2> QED BY <1>1, <1>2 DEF Strings
  <1> QED BY <1>1, <1>2, <1>3, <1>4

(* The two ways a name is followed by something: a weight or a value. *)
LEMMA CarriedList ==
    ASSUME NEW T, NEW v \in Lists(Strings \X T)
    PROVE  LET u == Carried(v)
               w == Sorted(v, PropertyKey)
               N == Len(v)
           IN  /\ u \in Lists(Strings \X T) /\ w \in Lists(Strings \X T) /\ Len(u) = N /\ Len(w) = N
               /\ u = [n \in 1 .. N |-> CarriedEntry(w[n])]
               /\ Sorted(u, PropertyKey) = u /\ Sorted(w, PropertyKey) = w /\ Carried(w) = u
               /\ Repeats(v, PropertyKey) <=> Repeats(w, PropertyKey)
               /\ Repeats(v, PropertyKey) <=> Repeats(u, PropertyKey)
               /\ ~Repeats(v, PropertyKey) => \A n \in 1 .. N - 1 : Before(u[n][1], u[n + 1][1])
  <1> DEFINE u == Carried(v)
             w == Sorted(v, PropertyKey)
             N == Len(v)
             S == Strings \X T
  <1>1. /\ v \in Seq(S) /\ N \in Nat /\ N <= MaxInt /\ DOMAIN v = 1 .. N
        /\ \A i \in 1 .. N : v[i] \in S
    BY ListIs
  <1>2. \A i \in 1 .. N : v[i][1] \in Strings
    <2> HIDE DEF N
    <2> QED BY <1>1
  <1>3. \A i \in 1 .. N : v[i][1] \in Text
    BY <1>2, StringForm
  <1>4. Entries(v, N)
    BY <1>1, <1>3 DEF Entries
  <1>5. /\ DOMAIN w = 1 .. N /\ Entries(u, N) /\ Entries(w, N)
        /\ \A n \in 1 .. N : /\ \E i \in 1 .. N : w[n] = v[i]
                             /\ u[n] = CarriedEntry(w[n])
        /\ Sorted(u, PropertyKey) = u /\ Sorted(w, PropertyKey) = w /\ Carried(w) = u
        /\ Repeats(v, PropertyKey) <=> Repeats(w, PropertyKey)
        /\ Repeats(v, PropertyKey) <=> Repeats(u, PropertyKey)
        /\ ~Repeats(v, PropertyKey) => \A n \in 1 .. N - 1 : Before(u[n][1], u[n + 1][1])
    BY <1>1, <1>4, EntriesCarried
  <1>6. w = [n \in 1 .. N |-> w[n]]
    BY <1>1, SortedIsFunction
  <1>7. u = [n \in 1 .. N |-> u[n]]
    <2>1. DOMAIN u = 1 .. N
      BY <1>5 DEF Entries
    <2>2. u = [n \in DOMAIN CarriedEntries(v) |-> u[n]]
      BY SortedIsFunction DEF Carried
    <2>3. DOMAIN CarriedEntries(v) = 1 .. N
      BY <1>1 DEF CarriedEntries
    <2> HIDE DEF u, N
    <2> QED BY <2>2, <2>3
  <1> HIDE DEF u, w, N
  <1>8. \A n \in 1 .. N : w[n] \in S
    BY <1>1, <1>5
  <1>9. \A n \in 1 .. N : u[n] \in S
    <2> SUFFICES ASSUME NEW n \in 1 .. N PROVE u[n] \in S
      OBVIOUS
    <2>1. w[n][1] \in Strings /\ w[n][2] \in T
      BY <1>8
    <2>2. hived_transport_form(w[n][1]) \in Strings
      BY <2>1, StringForm
    <2>3. u[n] = <<hived_transport_form(w[n][1]), w[n][2]>>
      BY <1>5 DEF CarriedEntry
    <2> QED BY <2>1, <2>2, <2>3
  <1>10. u \in Lists(S) /\ Len(u) = N
    <2> HIDE DEF S
    <2> QED BY <1>1, <1>7, <1>9, IsList
  <1>11. w \in Lists(S) /\ Len(w) = N
    <2> HIDE DEF S
    <2> QED BY <1>1, <1>6, <1>8, IsList
  <1>12. u = [n \in 1 .. N |-> CarriedEntry(w[n])]
    <2>1. \A n \in 1 .. N : u[n] = CarriedEntry(w[n])
      BY <1>5
    <2> QED BY ONLY <1>7, <2>1
  <1> QED BY ONLY <1>5, <1>10, <1>11, <1>12 DEF u, w, N, S

-----------------------------------------------------------------------------
(* Authorities: those that Authority::new makes, and leaves as they are. *)
Zero(t) == \A i \in DOMAIN t : t[i] = 0
AuthorityOf(t, acc, keys) ==
    [weight_threshold |-> t, account_auths |-> Sorted(acc, PropertyKey), key_auths |-> Sorted(keys, ByFirst)]
Allowed(t, acc, keys) ==
    /\ ~Repeats(acc, PropertyKey) /\ ~Repeats(keys, ByFirst) /\ ~Zero(t)
    /\ ~(Len(acc) + Len(keys) > MaxAuthorityMembership)
CarriedAuthority(a) == [a EXCEPT !.account_auths = Carried(@)]

(* Authority::new, with its refusals in one condition. *)
LEMMA AuthorityIs ==
    ASSUME NEW t, NEW acc, NEW keys
    PROVE  Authority(t, acc, keys) = IF Allowed(t, acc, keys) THEN Got(AuthorityOf(t, acc, keys), <<>>) ELSE Fail
  <1>1. Authority(t, acc, keys) =
          IF Repeats(acc, PropertyKey) \/ Repeats(keys, ByFirst) \/ Zero(t)
             \/ Len(acc) + Len(keys) > MaxAuthorityMembership
          THEN Fail ELSE Got(AuthorityOf(t, acc, keys), <<>>)
    BY DEF Authority, Repeats, Sorted, PropertyKey, ByFirst, Zero, AuthorityOf
  <1> QED BY <1>1 DEF Allowed

(* A sorted list of keys is sorted for good, and repeats a key if the list *)
(* did. *)
LEMMA KeyList ==
    ASSUME NEW v \in Lists(KeyEntries)
    PROVE  LET w == Sorted(v, ByFirst)
           IN  /\ w \in Lists(KeyEntries) /\ Len(w) = Len(v) /\ Sorted(w, ByFirst) = w
               /\ Repeats(v, ByFirst) <=> Repeats(w, ByFirst)
  <1> DEFINE w == Sorted(v, ByFirst)
             N == Len(v)
  <1>1. /\ v \in Seq(KeyEntries) /\ N \in Nat /\ N <= MaxInt /\ DOMAIN v = 1 .. N
        /\ \A i \in 1 .. N : v[i] \in KeyEntries
    BY ListIs
  <1>2. w = [n \in 1 .. N |-> w[n]]
    BY <1>1, SortedIsFunction
  <1>3. \A i \in 1 .. N : v[i][1] \in Bytes
    <2> SUFFICES ASSUME NEW i \in 1 .. N PROVE v[i][1] \in Bytes
      OBVIOUS
    <2>1. v[i] \in KeyEntries
      BY <1>1
    <2>2. v[i][1] \in KeyBytes
      BY <2>1 DEF KeyEntries
    <2> QED BY <2>2 DEF KeyBytes, Fixed, Bytes
  <1>4. /\ DOMAIN w = 1 .. N /\ Sorted(w, ByFirst) = w
        /\ \A n \in 1 .. N : \E i \in 1 .. N : w[n] = v[i]
        /\ Repeats(v, ByFirst) <=> Repeats(w, ByFirst)
    BY <1>1, <1>3, FirstsSorted
  <1> HIDE DEF w, N
  <1>5. \A n \in 1 .. N : w[n] \in KeyEntries
    BY <1>1, <1>4
  <1>6. w \in Lists(KeyEntries) /\ Len(w) = N
    BY <1>1, <1>2, <1>5, IsList
  <1> QED BY ONLY <1>4, <1>6 DEF w, N

(* What was made is as it would be made again. *)
LEMMA AuthorityMade ==
    ASSUME NEW t \in Fixed(4), NEW acc \in Lists(AccountEntries), NEW keys \in Lists(KeyEntries),
           Allowed(t, acc, keys)
    PROVE  AuthorityOf(t, acc, keys) \in Authorities
  <1> DEFINE w == Sorted(acc, PropertyKey)
             k == Sorted(keys, ByFirst)
  <1>1. /\ w \in Lists(AccountEntries) /\ Len(w) = Len(acc) /\ Sorted(w, PropertyKey) = w
        /\ Repeats(acc, PropertyKey) <=> Repeats(w, PropertyKey)
    BY CarriedList DEF AccountEntries
  <1>2. /\ k \in Lists(KeyEntries) /\ Len(k) = Len(keys) /\ Sorted(k, ByFirst) = k
        /\ Repeats(keys, ByFirst) <=> Repeats(k, ByFirst)
    BY KeyList
  <1>3. AuthorityOf(t, acc, keys) = [weight_threshold |-> t, account_auths |-> w, key_auths |-> k]
    BY DEF AuthorityOf
  <1> HIDE DEF w, k
  <1> DEFINE a == [weight_threshold |-> t, account_auths |-> w, key_auths |-> k]
  <1>4. a.weight_threshold = t /\ a.account_auths = w /\ a.key_auths = k /\ a \in AuthorityFields
    BY <1>1, <1>2 DEF AuthorityFields
  <1>5. Allowed(t, w, k)
    BY <1>1, <1>2 DEF Allowed
  <1>6. AuthorityOf(t, w, k) = a
    BY <1>1, <1>2 DEF AuthorityOf
  <1> HIDE DEF a
  <1>7. Authority(a.weight_threshold, a.account_auths, a.key_auths) = Got(a, <<>>)
    BY <1>4, <1>5, <1>6, AuthorityIs
  <1> QED BY <1>3, <1>4, <1>7 DEF Authorities, a

(* An authority that Authority::new returned is what it makes of that      *)
(* authority's entries. *)
LEMMA AuthorityKept ==
    ASSUME NEW a \in Authorities
    PROVE  /\ a.weight_threshold \in Fixed(4) /\ a.account_auths \in Lists(AccountEntries)
           /\ a.key_auths \in Lists(KeyEntries)
           /\ Authority(a.weight_threshold, a.account_auths, a.key_auths) = Got(a, <<>>)
           /\ Allowed(a.weight_threshold, a.account_auths, a.key_auths)
           /\ Sorted(a.account_auths, PropertyKey) = a.account_auths
           /\ Sorted(a.key_auths, ByFirst) = a.key_auths
           /\ a = [weight_threshold |-> a.weight_threshold, account_auths |-> a.account_auths,
                   key_auths |-> a.key_auths]
  <1> DEFINE t == a.weight_threshold
             acc == a.account_auths
             keys == a.key_auths
  <1>1. a \in AuthorityFields /\ Authority(t, acc, keys) = Got(a, <<>>)
    BY DEF Authorities
  <1>2. /\ t \in Fixed(4) /\ acc \in Lists(AccountEntries) /\ keys \in Lists(KeyEntries)
        /\ a = [weight_threshold |-> t, account_auths |-> acc, key_auths |-> keys]
    BY <1>1 DEF AuthorityFields
  <1> HIDE DEF t, acc, keys
  <1>3. Allowed(t, acc, keys) /\ Got(AuthorityOf(t, acc, keys), <<>>) = Got(a, <<>>)
    <2>1. Authority(t, acc, keys).ok
      BY <1>1, GotIs
    <2> QED BY <1>1, <2>1, AuthorityIs, FailIs
  <1>4. AuthorityOf(t, acc, keys) = a
    <2> DEFINE o == AuthorityOf(t, acc, keys)
    <2>1. Got(o, <<>>).val = o /\ Got(a, <<>>).val = a
      BY GotIs
    <2> HIDE DEF o
    <2> QED BY <1>3, <2>1 DEF o
  <1>5. AuthorityOf(t, acc, keys).account_auths = Sorted(acc, PropertyKey)
        /\ AuthorityOf(t, acc, keys).key_auths = Sorted(keys, ByFirst)
    BY DEF AuthorityOf
  <1>6. Sorted(acc, PropertyKey) = acc /\ Sorted(keys, ByFirst) = keys
    BY <1>4, <1>5 DEF acc, keys
  <1> QED BY <1>1, <1>2, <1>3, <1>6 DEF t, acc, keys

(* An authority's accounts take their transport form on the way. *)
LEMMA AuthorityCarried ==
    ASSUME NEW a \in Authorities
    PROVE  LET s == CarriedAuthority(a)
               acc == a.account_auths
               u == Carried(acc)
               N == Len(acc)
           IN  /\ s \in Authorities /\ s.account_auths = u
               /\ s.weight_threshold = a.weight_threshold /\ s.key_auths = a.key_auths
               /\ u \in Lists(AccountEntries) /\ Len(u) = N
               /\ u = [n \in 1 .. N |-> CarriedEntry(acc[n])]
               /\ Authority(a.weight_threshold, u, a.key_auths) = Got(s, <<>>)
  <1> DEFINE t == a.weight_threshold
             acc == a.account_auths
             keys == a.key_auths
             u == Carried(acc)
             s == CarriedAuthority(a)
             N == Len(acc)
  <1>1. /\ t \in Fixed(4) /\ acc \in Lists(AccountEntries) /\ keys \in Lists(KeyEntries)
        /\ Allowed(t, acc, keys) /\ Sorted(acc, PropertyKey) = acc /\ Sorted(keys, ByFirst) = keys
        /\ a = [weight_threshold |-> t, account_auths |-> acc, key_auths |-> keys]
    BY AuthorityKept
  <1> HIDE DEF t, acc, keys
  <1>2. /\ u \in Lists(AccountEntries) /\ Len(u) = N /\ Sorted(u, PropertyKey) = u
        /\ u = [n \in 1 .. N |-> CarriedEntry(acc[n])]
        /\ Repeats(acc, PropertyKey) <=> Repeats(u, PropertyKey)
    BY <1>1, CarriedList DEF AccountEntries
  <1>3. Allowed(t, u, keys)
    BY <1>1, <1>2 DEF Allowed
  <1>4. s = [weight_threshold |-> t, account_auths |-> u, key_auths |-> keys]
    <2>1. s = [a EXCEPT !.account_auths = u]
      BY DEF CarriedAuthority, acc
    <2> HIDE DEF u, s
    <2> QED BY <1>1, <2>1
  <1>5. AuthorityOf(t, u, keys) = s
    BY <1>1, <1>2, <1>4 DEF AuthorityOf
  <1>6. s \in Authorities
    <2>1. AuthorityOf(t, u, keys) \in Authorities
      <3> HIDE DEF u
      <3> QED BY <1>1, <1>2, <1>3, AuthorityMade
    <2> QED BY <1>5, <2>1
  <1>7. Authority(t, u, keys) = Got(s, <<>>)
    BY <1>3, <1>5, AuthorityIs
  <1>8. s.account_auths = u /\ s.weight_threshold = t /\ s.key_auths = keys
    BY <1>4
  <1> QED BY <1>2, <1>6, <1>7, <1>8 DEF t, acc, keys

-----------------------------------------------------------------------------
(* What is written of an authority is read as the authority it is carried as. *)
AccountWires(v) == [i \in DOMAIN v |-> account_entry(v[i])]
KeyWires(v) == [i \in DOMAIN v |-> key_entry(v[i])]

(* Accounts with weights are read back, as transport has their names. *)
LEMMA AccountEntriesBack ==
    ASSUME NEW v \in Lists(AccountEntries), NEW x \in Seq(Nat)
    PROVE  LET N == Len(v)
               A == ArrayOf(AccountWires(v), N)
           IN  /\ A \in Seq(Nat) /\ Len(A) >= 1
               /\ AccountArray(A \o x) = Got([i \in 1 .. N |-> CarriedEntry(v[i])], x)
  <1> DEFINE N == Len(v)
             w == AccountWires(v)
             u == [i \in 1 .. N |-> CarriedEntry(v[i])]
  <1>1. N \in Nat /\ N <= MaxInt /\ DOMAIN v = 1 .. N /\ \A i \in 1 .. N : v[i] \in AccountEntries
    BY ListIs
  <1>2. w = [i \in 1 .. N |-> account_entry(v[i])]
    BY <1>1 DEF AccountWires
  <1> HIDE DEF N, w
  <1>3. ASSUME NEW i \in 1 .. N
        PROVE  /\ w[i] = account_entry(v[i]) /\ w[i] \in Seq(Nat) /\ Len(w[i]) >= 1
               /\ \A c \in Seq(Nat) : read_account_auth(w[i] \o c) = Got(u[i], c)
    <2>1. w[i] = account_entry(v[i]) /\ v[i] \in AccountEntries
      BY <1>1, <1>2
    <2>2. u[i] = <<hived_transport_form(v[i][1]), v[i][2]>>
      BY DEF CarriedEntry
    <2>3. \A c \in Seq(Nat) : /\ account_entry(v[i]) \in Seq(Nat) /\ Len(account_entry(v[i])) >= 3
                              /\ read_account_auth(account_entry(v[i]) \o c) = Got(<<hived_transport_form(v[i][1]), v[i][2]>>, c)
      BY <2>1, AccountAuthBack
    <2>4. <<>> \in Seq(Nat)
      OBVIOUS
    <2>5. account_entry(v[i]) \in Seq(Nat) /\ Len(account_entry(v[i])) >= 3
      BY <2>3, <2>4
    <2>6. Len(account_entry(v[i])) >= 1
      <3>1. Len(account_entry(v[i])) \in Nat
        BY <2>5
      <3> QED BY <2>5, <3>1
    <2> QED BY <2>1, <2>2, <2>3, <2>5, <2>6
  <1>4. w \in [1 .. N -> Seq(Nat)]
    BY <1>2, <1>3
  <1>5. \A i \in 1 .. N : Len(w[i]) >= 1 /\ \A c \in Seq(Nat) : read_account_auth(w[i] \o c) = Got(u[i], c)
    BY <1>3
  <1> HIDE DEF u
  <1>6. /\ ArrayOf(w, N) \in Seq(Nat) /\ Len(ArrayOf(w, N)) >= 1
        /\ AccountArray(ArrayOf(w, N) \o x) = Got([i \in 1 .. N |-> u[i]], x)
    BY ONLY <1>1, <1>4, <1>5, AccountArrayBack
  <1>7. [i \in 1 .. N |-> u[i]] = u
    BY DEF u
  <1> QED BY <1>6, <1>7 DEF N, w, u

(* Keys with weights are read back. *)
LEMMA KeyEntriesBack ==
    ASSUME NEW v \in Lists(KeyEntries), NEW x \in Seq(Nat)
    PROVE  LET N == Len(v)
               A == ArrayOf(KeyWires(v), N)
           IN  /\ A \in Seq(Nat) /\ Len(A) >= 1
               /\ KeyArray(A \o x) = Got(v, x)
  <1> DEFINE N == Len(v)
             w == KeyWires(v)
  <1>1. N \in Nat /\ N <= MaxInt /\ DOMAIN v = 1 .. N /\ \A i \in 1 .. N : v[i] \in KeyEntries
    BY ListIs
  <1>2. w = [i \in 1 .. N |-> key_entry(v[i])]
    BY <1>1 DEF KeyWires
  <1>7. [i \in 1 .. N |-> v[i]] = v
    BY ListIs
  <1> HIDE DEF N, w
  <1>3. ASSUME NEW i \in 1 .. N
        PROVE  /\ w[i] = key_entry(v[i]) /\ w[i] \in Seq(Nat) /\ Len(w[i]) >= 1
               /\ \A c \in Seq(Nat) : read_key_auth(w[i] \o c) = Got(v[i], c)
    <2>1. w[i] = key_entry(v[i]) /\ v[i] \in KeyEntries
      BY <1>1, <1>2
    <2>2. v[i] = <<v[i][1], v[i][2]>>
      BY <2>1 DEF KeyEntries
    <2>3. \A c \in Seq(Nat) : /\ key_entry(v[i]) \in Seq(Nat) /\ Len(key_entry(v[i])) >= 3
                              /\ read_key_auth(key_entry(v[i]) \o c) = Got(<<v[i][1], v[i][2]>>, c)
      BY <2>1, KeyAuthBack
    <2>4. <<>> \in Seq(Nat)
      OBVIOUS
    <2>5. key_entry(v[i]) \in Seq(Nat) /\ Len(key_entry(v[i])) >= 3
      BY <2>3, <2>4
    <2>6. Len(key_entry(v[i])) >= 1
      <3>1. Len(key_entry(v[i])) \in Nat
        BY <2>5
      <3> QED BY <2>5, <3>1
    <2> DEFINE e == <<v[i][1], v[i][2]>>
    <2>7. e = v[i]
      BY <2>2
    <2> HIDE DEF e
    <2>8. \A c \in Seq(Nat) : read_key_auth(key_entry(v[i]) \o c) = Got(e, c)
      BY <2>3 DEF e
    <2> QED BY ONLY <2>1, <2>5, <2>6, <2>7, <2>8
  <1>4. w \in [1 .. N -> Seq(Nat)]
    BY <1>2, <1>3
  <1>5. \A i \in 1 .. N : Len(w[i]) >= 1 /\ \A c \in Seq(Nat) : read_key_auth(w[i] \o c) = Got(v[i], c)
    BY <1>3
  <1>6. /\ ArrayOf(w, N) \in Seq(Nat) /\ Len(ArrayOf(w, N)) >= 1
        /\ KeyArray(ArrayOf(w, N) \o x) = Got([i \in 1 .. N |-> v[i]], x)
    BY ONLY <1>1, <1>4, <1>5, KeyArrayBack
  <1> QED BY <1>6, <1>7 DEF N, w

(* The bytes of an authority: threshold, accounts, keys. *)
LEMMA AuthorityWritten ==
    ASSUME NEW a
    PROVE  write_authority(a) =
             (a.weight_threshold \o ArrayOf(AccountWires(a.account_auths), Len(a.account_auths)))
               \o ArrayOf(KeyWires(a.key_auths), Len(a.key_auths))
  BY DEF write_authority, write_array, ArrayOf, AccountWires, KeyWires, account_entry, key_entry

(* How an authority is read: threshold, accounts, keys, and then           *)
(* Authority::new. *)
LEMMA AuthorityRead ==
    ASSUME NEW b
    PROVE  LET t == take(b, 4)
               acc == AccountArray(t.rest)
               keys == KeyArray(acc.rest)
               a == Authority(t.val, acc.val, keys.val)
           IN  read_authority(b) = IF t.ok /\ acc.ok /\ keys.ok /\ a.ok THEN Got(a.val, keys.rest) ELSE Fail
  BY AccountsAre, KeysAre DEF read_authority, Then

(* An authority whose parts are read and allowed is read. *)
LEMMA AuthorityReadIs ==
    ASSUME NEW b, NEW t, NEW b1, take(b, 4) = Got(t, b1),
           NEW acc, NEW b2, AccountArray(b1) = Got(acc, b2),
           NEW keys, NEW rest, KeyArray(b2) = Got(keys, rest),
           NEW a, Authority(t, acc, keys) = Got(a, <<>>)
    PROVE  read_authority(b) = Got(a, rest)
  <1>1. take(b, 4).ok /\ take(b, 4).val = t /\ take(b, 4).rest = b1
    BY GotIs
  <1>2. AccountArray(b1).ok /\ AccountArray(b1).val = acc /\ AccountArray(b1).rest = b2
    BY GotIs
  <1>3. KeyArray(b2).ok /\ KeyArray(b2).val = keys /\ KeyArray(b2).rest = rest
    BY GotIs
  <1>4. Authority(t, acc, keys).ok /\ Authority(t, acc, keys).val = a
    BY GotIs
  <1> QED BY <1>1, <1>2, <1>3, <1>4, AuthorityRead

(* An authority is read back, its accounts' names as transport has them    *)
(* and in their order. *)
LEMMA AuthorityBack ==
    ASSUME NEW a \in Authorities, NEW x \in Seq(Nat)
    PROVE  /\ write_authority(a) \in Seq(Nat) /\ Len(write_authority(a)) >= 1
           /\ read_authority(write_authority(a) \o x) = Got(CarriedAuthority(a), x)
  <1> DEFINE t == a.weight_threshold
             acc == a.account_auths
             keys == a.key_auths
             s == CarriedAuthority(a)
             A == ArrayOf(AccountWires(acc), Len(acc))
             K == ArrayOf(KeyWires(keys), Len(keys))
             u == [n \in 1 .. Len(acc) |-> CarriedEntry(acc[n])]
  <1>1. /\ t \in Fixed(4) /\ acc \in Lists(AccountEntries) /\ keys \in Lists(KeyEntries)
        /\ Authority(t, u, keys) = Got(s, <<>>)
    BY AuthorityKept, AuthorityCarried
  <1>2. write_authority(a) = (t \o A) \o K
    BY AuthorityWritten
  <1> HIDE DEF t, acc, keys, s
  <1>3. K \in Seq(Nat) /\ Len(K) >= 1 /\ KeyArray(K \o x) = Got(keys, x)
    BY <1>1, KeyEntriesBack
  <1> HIDE DEF K
  <1>4. K \o x \in Seq(Nat)
    BY <1>3, Joins
  <1>5. A \in Seq(Nat) /\ Len(A) >= 1 /\ AccountArray(A \o (K \o x)) = Got(u, K \o x)
    BY <1>1, <1>4, AccountEntriesBack
  <1> HIDE DEF A, u
  <1>6. A \o (K \o x) \in Seq(Nat)
    BY <1>4, <1>5, Joins
  <1>7. t \in Seq(Nat) /\ Len(t) = 4 /\ take(t \o (A \o (K \o x)), 4) = Got(t, A \o (K \o x))
    BY <1>1, <1>6, TakeBack
  <1>8. read_authority(t \o (A \o (K \o x))) = Got(s, x)
    BY ONLY <1>1, <1>3, <1>5, <1>7, AuthorityReadIs
  <1>9. /\ t \o A \in Seq(Nat) /\ (t \o A) \o K \in Seq(Nat)
        /\ ((t \o A) \o K) \o x = (t \o A) \o (K \o x)
        /\ (t \o A) \o (K \o x) = t \o (A \o (K \o x))
    <2>1. t \o A \in Seq(Nat)
      BY <1>5, <1>7, Joins
    <2> DEFINE d == t \o A
    <2> HIDE DEF d
    <2>2. d \o K \in Seq(Nat) /\ (d \o K) \o x = d \o (K \o x)
      BY <1>3, <2>1, Joins, JoinedTwice DEF d
    <2>3. (t \o A) \o (K \o x) = t \o (A \o (K \o x))
      BY <1>4, <1>5, <1>7, JoinedTwice
    <2> QED BY <2>1, <2>2, <2>3 DEF d
  <1>10. Len((t \o A) \o K) >= 1
    <2>1. Len(t \o A) = Len(t) + Len(A) /\ Len(A) \in Nat
      BY <1>5, <1>7, Joins
    <2>2. Len((t \o A) \o K) = Len(t \o A) + Len(K) /\ Len(K) \in Nat
      BY <1>3, <1>9, Joins
    <2> QED BY <1>7, <2>1, <2>2
  <1> QED BY <1>2, <1>8, <1>9, <1>10 DEF s

(* What is read as an authority is one that Authority::new returned,       *)
(* whatever follows. *)
LEMMA AuthoritySound ==
    ASSUME NEW b \in Seq(Nat), read_authority(b).ok
    PROVE  LET r == read_authority(b)
           IN  /\ Took(r, b) /\ (Small(b) => r.val \in Authorities)
               /\ \A x \in Seq(Nat) : read_authority(b \o x) = Got(r.val, r.rest \o x)
  <1> DEFINE t == take(b, 4)
             acc == AccountArray(t.rest)
             keys == KeyArray(acc.rest)
             a == Authority(t.val, acc.val, keys.val)
  <1>1. t.ok /\ acc.ok /\ keys.ok /\ a.ok /\ read_authority(b) = Got(a.val, keys.rest)
    BY AuthorityRead, FailIs
  <1>2. Took(t, b) /\ t.val \in Fixed(4) /\ \A x \in Seq(Nat) : take(b \o x, 4) = Got(t.val, t.rest \o x)
    BY <1>1, TakeSound
  <1> HIDE DEF t
  <1>3. t.rest \in Seq(Nat) /\ Len(t.rest) <= Len(b)
    BY <1>2 DEF Took
  <1>4. /\ Took(acc, t.rest) /\ (Small(t.rest) => acc.val \in Lists(AccountEntries))
        /\ \A x \in Seq(Nat) : AccountArray(t.rest \o x) = Got(acc.val, acc.rest \o x)
    BY <1>1, <1>3, AccountArraySound
  <1> HIDE DEF acc
  <1>5. acc.rest \in Seq(Nat) /\ Len(acc.rest) <= Len(t.rest)
    BY <1>4 DEF Took
  <1>6. /\ Took(keys, acc.rest) /\ (Small(acc.rest) => keys.val \in Lists(KeyEntries))
        /\ \A x \in Seq(Nat) : KeyArray(acc.rest \o x) = Got(keys.val, keys.rest \o x)
    BY <1>1, <1>5, KeyArraySound
  <1> HIDE DEF keys
  <1>7. keys.rest \in Seq(Nat) /\ Len(keys.rest) <= Len(acc.rest)
    BY <1>6 DEF Took
  <1>8. Allowed(t.val, acc.val, keys.val) /\ a = Got(AuthorityOf(t.val, acc.val, keys.val), <<>>)
    BY <1>1, AuthorityIs, FailIs
  <1> HIDE DEF a
  <1>9. a = Got(a.val, <<>>) /\ a.val = AuthorityOf(t.val, acc.val, keys.val)
    BY <1>8, GotIs
  <1>10. ASSUME Small(b) PROVE a.val \in Authorities
    <2>1. Small(t.rest)
      BY <1>3, <1>10, SmallPart
    <2>2. Small(acc.rest)
      BY <1>3, <1>5, <1>10, SmallPart
    <2> QED BY <1>2, <1>4, <1>6, <1>8, <1>9, <2>1, <2>2, AuthorityMade
  <1>11. ASSUME NEW x \in Seq(Nat) PROVE read_authority(b \o x) = Got(a.val, keys.rest \o x)
    <2>1. take(b \o x, 4) = Got(t.val, t.rest \o x)
      BY <1>2
    <2>2. AccountArray(t.rest \o x) = Got(acc.val, acc.rest \o x)
      BY <1>4
    <2>3. KeyArray(acc.rest \o x) = Got(keys.val, keys.rest \o x)
      BY <1>6
    <2>4. Authority(t.val, acc.val, keys.val) = Got(a.val, <<>>)
      BY <1>9 DEF a
    <2> QED BY ONLY <2>1, <2>2, <2>3, <2>4, AuthorityReadIs
  <1>12. Len(keys.rest) <= Len(b)
    <2>1. Len(keys.rest) \in Nat /\ Len(acc.rest) \in Nat /\ Len(t.rest) \in Nat /\ Len(b) \in Nat
      BY <1>3, <1>5, <1>7
    <2> QED BY <1>3, <1>5, <1>7, <2>1
  <1>13. read_authority(b).val = a.val /\ read_authority(b).rest = keys.rest
    BY <1>1, GotIs DEF a
  <1>14. read_authority(b) = Got(a.val, keys.rest)
    BY <1>1 DEF a
  <1>15. Took(read_authority(b), b)
    BY <1>7, <1>12, <1>13, <1>14 DEF Took
  <1> QED BY <1>10, <1>11, <1>13, <1>15

-----------------------------------------------------------------------------
(* Tags. *)
LEMMA TagBack ==
    ASSUME NEW x \in Seq(Nat), NEW tag \in {0, 1}
    PROVE  /\ write_varint32(tag) = <<tag>> /\ <<tag>> \in Seq(Nat) /\ Len(<<tag>>) = 1
           /\ read_varint32(<<tag>> \o x) = Got(tag, x)
  <1>1. tag \in Nat /\ tag < 128
    OBVIOUS
  <1>2. write_varint32(tag) = <<tag>>
    BY <1>1, VarOf DEF VarStep
  <1>3. tag <= MaxInt
    BY SMT, <1>1 DEF MaxInt
  <1>4. read_varint32(write_varint32(tag) \o x) = Got(tag, x)
    BY <1>1, <1>3, VarintReadsBack
  <1>5. <<tag>> \in Seq(Nat) /\ Len(<<tag>>) = 1
    BY <1>1
  <1> QED BY <1>2, <1>4, <1>5

(* The pair id of a recurrent transfer. *)
PairId(b) ==
    IF read_varint32(b).ok THEN IF read_varint32(b).val = 1 THEN take(read_varint32(b).rest, 1) ELSE Fail ELSE Fail

(* The reader of a recurrent transfer's extension, by name. *)
LEMMA PairIdIs ==
    ASSUME NEW b
    PROVE  read_pair_id(b) = PairId(b)
  BY DEF read_pair_id, Tagged, Then, PairId

(* The id of a recurrent transfer is read back. *)
LEMMA PairIdBack ==
    ASSUME NEW p \in Fixed(1), NEW x \in Seq(Nat)
    PROVE  /\ write_pair_id(p) \in Seq(Nat) /\ Len(write_pair_id(p)) >= 1
           /\ PairId(write_pair_id(p) \o x) = Got(p, x)
  <1>1. p \in Seq(Nat) /\ Len(p) = 1 /\ take(p \o x, 1) = Got(p, x)
    BY TakeBack
  <1>2. p \o x \in Seq(Nat)
    BY <1>1, Joins
  <1> DEFINE g == <<1>>
  <1>3. g \in Seq(Nat) /\ Len(g) = 1 /\ read_varint32(g \o (p \o x)) = Got(1, p \o x)
    BY <1>2, TagBack
  <1>4. write_pair_id(p) = g \o p
    BY DEF write_pair_id
  <1> HIDE DEF g
  <1>5. (g \o p) \o x = g \o (p \o x) /\ g \o p \in Seq(Nat)
    BY <1>1, <1>3, Joins, JoinedTwice
  <1>6. Len(g \o p) >= 1
    <2>1. Len(g \o p) = Len(g) + Len(p)
      BY <1>1, <1>3, Joins
    <2> QED BY <1>1, <1>3, <2>1
  <1>7. PairId(g \o (p \o x)) = Got(p, x)
    <2> DEFINE r == read_varint32(g \o (p \o x))
    <2>0. r = Got(1, p \o x)
      BY <1>3
    <2> HIDE DEF r
    <2>1. r.ok /\ r.val = 1 /\ r.rest = p \o x
      BY <2>0, GotIs, SMTT(60), ZenonT(60)
    <2> QED BY <1>1, <2>1 DEF PairId, r
  <1> QED BY <1>4, <1>5, <1>6, <1>7

(* What is read as that extension is one, whatever follows. *)
LEMMA PairIdSound ==
    ASSUME NEW b \in Seq(Nat), PairId(b).ok
    PROVE  LET r == PairId(b)
           IN  /\ Took(r, b) /\ r.val \in Fixed(1)
               /\ \A x \in Seq(Nat) : PairId(b \o x) = Got(r.val, r.rest \o x)
  <1> DEFINE n == read_varint32(b)
             t == take(n.rest, 1)
  <1>1. n.ok /\ n.val = 1 /\ PairId(b) = t
    BY FailIs DEF PairId
  <1>2. /\ n = Got(n.val, n.rest) /\ n.rest \in Seq(Nat) /\ Len(n.rest) < Len(b)
        /\ \A x \in Seq(Nat) : read_varint32(b \o x) = Got(n.val, n.rest \o x)
    BY <1>1, VarintSound
  <1> HIDE DEF n
  <1>3. /\ Took(t, n.rest) /\ t.val \in Fixed(1)
        /\ \A x \in Seq(Nat) : take(n.rest \o x, 1) = Got(t.val, t.rest \o x)
    BY <1>1, <1>2, TakeSound
  <1> HIDE DEF t
  <1>4. ASSUME NEW x \in Seq(Nat) PROVE PairId(b \o x) = Got(t.val, t.rest \o x)
    <2> DEFINE m == read_varint32(b \o x)
    <2>1. m = Got(n.val, n.rest \o x)
      BY <1>2
    <2> HIDE DEF m
    <2>2. m.ok /\ m.val = 1 /\ m.rest = n.rest \o x
      BY <1>1, <2>1, GotIs, SMTT(60), ZenonT(60)
    <2>3. PairId(b \o x) = take(n.rest \o x, 1)
      BY <2>2 DEF PairId, m
    <2> QED BY <1>3, <2>3
  <1>5. t = Got(t.val, t.rest) /\ t.rest \in Seq(Nat) /\ Len(t.rest) <= Len(n.rest)
    BY <1>3 DEF Took
  <1>6. Len(t.rest) <= Len(b)
    <2>1. Len(t.rest) \in Nat /\ Len(n.rest) \in Nat /\ Len(b) \in Nat
      BY <1>2, <1>5
    <2> QED BY <1>2, <1>5, <2>1
  <1>7. Took(t, b)
    BY <1>5, <1>6 DEF Took
  <1> QED BY <1>1, <1>3, <1>4, <1>7

(* The beneficiaries of a comment. *)
Beneficiaries(b) ==
    IF read_varint32(b).ok THEN IF read_varint32(b).val = 0 THEN AccountArray(read_varint32(b).rest) ELSE Fail ELSE Fail

(* The reader of a comment's beneficiaries, by name. *)
LEMMA BeneficiariesAre ==
    ASSUME NEW b
    PROVE  read_beneficiaries(b) = Beneficiaries(b)
  BY AccountsAre DEF read_beneficiaries, Tagged, Then, Beneficiaries

(* The bytes of beneficiaries: a tag and the sorted list. *)
LEMMA BeneficiariesWritten ==
    ASSUME NEW v
    PROVE  /\ write_beneficiaries(v) =
                <<0>> \o ArrayOf(AccountWires(Sorted(v, PropertyKey)), Len(Sorted(v, PropertyKey)))
           /\ Sorted(v, BeneficiaryAccount) = Sorted(v, PropertyKey)
  BY DEF write_beneficiaries, write_array, ArrayOf, AccountWires, account_entry, Sorted, PropertyKey, BeneficiaryAccount

(* Beneficiaries are read back in their order, as transport has their      *)
(* names. *)
LEMMA BeneficiariesBack ==
    ASSUME NEW v \in Lists(AccountEntries), NEW x \in Seq(Nat)
    PROVE  /\ write_beneficiaries(v) \in Seq(Nat) /\ Len(write_beneficiaries(v)) >= 1
           /\ Beneficiaries(write_beneficiaries(v) \o x) = Got(Carried(v), x)
  <1> DEFINE w == Sorted(v, PropertyKey)
             u == Carried(v)
             N == Len(v)
             A == ArrayOf(AccountWires(w), Len(w))
             g == <<0>>
  <1>1. /\ w \in Lists(AccountEntries) /\ Len(w) = N
        /\ u = [n \in 1 .. N |-> CarriedEntry(w[n])]
    BY CarriedList DEF AccountEntries
  <1>2. write_beneficiaries(v) = g \o A
    BY BeneficiariesWritten
  <1> HIDE DEF w, u, N
  <1>3. A \in Seq(Nat) /\ Len(A) >= 1 /\ AccountArray(A \o x) = Got(u, x)
    BY <1>1, AccountEntriesBack
  <1> HIDE DEF A
  <1>4. A \o x \in Seq(Nat)
    BY <1>3, Joins
  <1>5. g \in Seq(Nat) /\ Len(g) = 1 /\ read_varint32(g \o (A \o x)) = Got(0, A \o x)
    BY <1>4, TagBack
  <1> HIDE DEF g
  <1>6. (g \o A) \o x = g \o (A \o x) /\ g \o A \in Seq(Nat)
    BY <1>3, <1>5, Joins, JoinedTwice
  <1>7. Len(g \o A) >= 1
    <2>1. Len(g \o A) = Len(g) + Len(A) /\ Len(A) \in Nat
      BY <1>3, <1>5, Joins
    <2> QED BY <1>3, <1>5, <2>1
  <1>8. Beneficiaries(g \o (A \o x)) = Got(u, x)
    <2> DEFINE r == read_varint32(g \o (A \o x))
    <2>0. r = Got(0, A \o x)
      BY <1>5
    <2> HIDE DEF r
    <2>1. r.ok /\ r.val = 0 /\ r.rest = A \o x
      BY <2>0, GotIs, SMTT(60), ZenonT(60)
    <2> QED BY <1>3, <2>1 DEF Beneficiaries, r
  <1> QED BY <1>2, <1>6, <1>7, <1>8 DEF u

(* What is read as beneficiaries is a list of them, whatever follows. *)
LEMMA BeneficiariesSound ==
    ASSUME NEW b \in Seq(Nat), Beneficiaries(b).ok
    PROVE  LET r == Beneficiaries(b)
           IN  /\ Took(r, b) /\ (Small(b) => r.val \in Lists(AccountEntries))
               /\ \A x \in Seq(Nat) : Beneficiaries(b \o x) = Got(r.val, r.rest \o x)
  <1> DEFINE n == read_varint32(b)
             t == AccountArray(n.rest)
  <1>1. n.ok /\ n.val = 0 /\ Beneficiaries(b) = t
    BY FailIs DEF Beneficiaries
  <1>2. /\ n = Got(n.val, n.rest) /\ n.rest \in Seq(Nat) /\ Len(n.rest) < Len(b)
        /\ \A x \in Seq(Nat) : read_varint32(b \o x) = Got(n.val, n.rest \o x)
    BY <1>1, VarintSound
  <1> HIDE DEF n
  <1>3. /\ Took(t, n.rest) /\ (Small(n.rest) => t.val \in Lists(AccountEntries))
        /\ \A x \in Seq(Nat) : AccountArray(n.rest \o x) = Got(t.val, t.rest \o x)
    BY <1>1, <1>2, AccountArraySound, FailIs
  <1> HIDE DEF t
  <1>4. ASSUME NEW x \in Seq(Nat) PROVE Beneficiaries(b \o x) = Got(t.val, t.rest \o x)
    <2> DEFINE m == read_varint32(b \o x)
    <2>1. m = Got(n.val, n.rest \o x)
      BY <1>2
    <2> HIDE DEF m
    <2>2. m.ok /\ m.val = 0 /\ m.rest = n.rest \o x
      BY <1>1, <2>1, GotIs
    <2>3. Beneficiaries(b \o x) = AccountArray(n.rest \o x)
      BY <2>2 DEF Beneficiaries, m
    <2> QED BY <1>3, <2>3
  <1>5. t = Got(t.val, t.rest) /\ t.rest \in Seq(Nat) /\ Len(t.rest) <= Len(n.rest)
    BY <1>3 DEF Took
  <1>0. Len(n.rest) \in Nat /\ Len(b) \in Nat
    BY <1>2
  <1>6. Len(t.rest) <= Len(b) /\ Len(n.rest) <= Len(b)
    <2>1. Len(t.rest) \in Nat
      BY <1>5
    <2> QED BY <1>0, <1>2, <1>5, <2>1
  <1>7. Took(t, b)
    BY <1>5, <1>6 DEF Took
  <1>8. ASSUME Small(b) PROVE t.val \in Lists(AccountEntries)
    <2>1. Small(n.rest)
      BY <1>0, <1>2, <1>6, <1>8, SmallPart
    <2> QED BY <1>3, <2>1
  <1> QED BY <1>1, <1>4, <1>7, <1>8

-----------------------------------------------------------------------------
(* Arrays of these. *)

OneAuthority(p, i, c) == read_authority(c)
AuthorityTurns == INSTANCE InTurnProofs WITH R <- OneAuthority
AuthorityArray(b) ==
    IF length(b).ok THEN AuthorityTurns!InTurnOf(0, length(b).rest, [i \in 1 .. length(b).val |-> i]) ELSE Fail

(* What the instance takes as known, from the library. *)
LEMMA AuthorityBasics == AuthorityTurns!Basics
  BY ForTurns DEF AuthorityTurns!Basics, AuthorityTurns!Least, AuthorityTurns!Induction, AuthorityTurns!Counted, AuthorityTurns!Cardinality, Cardinality

(* read_array of authorities, by name. *)
LEMMA AuthoritiesAre ==
    ASSUME NEW b
    PROVE  read_array(b, read_authority) = AuthorityArray(b)
  BY DEF AuthorityArray, read_array, InTurn, FoldLeft, MapThenFoldSet, Then, Max, Got, Fail,
         AuthorityTurns!InTurnOf, AuthorityTurns!Turns, AuthorityTurns!TurnStep, AuthorityTurns!Turn, AuthorityTurns!Got, AuthorityTurns!Fail, AuthorityTurns!Largest, OneAuthority

(* What is written as an array of authorities is read. *)
LEMMA AuthorityArrayBack ==
    ASSUME NEW N \in Nat, N <= MaxInt, NEW w \in [1 .. N -> Seq(Nat)], NEW v, NEW x \in Seq(Nat),
           \A i \in 1 .. N : Len(w[i]) >= 1 /\ \A c \in Seq(Nat) : read_authority(w[i] \o c) = Got(v[i], c)
    PROVE  /\ ArrayOf(w, N) \in Seq(Nat) /\ Len(ArrayOf(w, N)) >= 1
           /\ AuthorityArray(ArrayOf(w, N) \o x) = Got([i \in 1 .. N |-> v[i]], x)
  <1>1. \A i \in 1 .. N : Len(w[i]) >= 1
    OBVIOUS
  <1>2. PICK t : /\ \A i \in 0 .. N : t[i] \in Seq(Nat)
                 /\ \A i \in 1 .. N : t[i - 1] = w[i] \o t[i]
                 /\ t[N] = x /\ length(ArrayOf(w, N) \o x) = Got(N, t[0])
    BY <1>1, ArrayHeader
  <1> DEFINE items == [i \in 1 .. N |-> i]
  <1>3. ASSUME NEW i \in 1 .. N
        PROVE  OneAuthority(0, items[i], t[i - 1]) = [ok |-> TRUE, val |-> v[i], rest |-> t[i]]
    <2>1. t[i] \in Seq(Nat) /\ t[i - 1] = w[i] \o t[i]
      BY <1>2, SMTT(60), ZenonT(60)
    <2>2. read_authority(t[i - 1]) = Got(v[i], t[i])
      BY <2>1
    <2> QED BY <2>2 DEF OneAuthority, Got
  <1>4. DOMAIN items = 1 .. N
    OBVIOUS
  <1> HIDE DEF items
  <1>5. AuthorityTurns!Reads(0, items, N, t, v)
    BY <1>3 DEF AuthorityTurns!Reads
  <1>6. AuthorityTurns!InTurnOf(0, t[0], items) = [ok |-> TRUE, val |-> [i \in 1 .. N |-> v[i]], rest |-> t[N]]
    BY <1>4, <1>5, AuthorityBasics, AuthorityTurns!InTurnFollows
  <1> DEFINE l == length(ArrayOf(w, N) \o x)
  <1>7. l.ok /\ l.val = N /\ l.rest = t[0]
    BY <1>2, GotIs
  <1>8. AuthorityArray(ArrayOf(w, N) \o x) = IF l.ok THEN AuthorityTurns!InTurnOf(0, l.rest, [i \in 1 .. l.val |-> i]) ELSE Fail
    BY DEF AuthorityArray
  <1> HIDE DEF l
  <1>9. AuthorityArray(ArrayOf(w, N) \o x) = Got([i \in 1 .. N |-> v[i]], x)
    BY <1>2, <1>6, <1>7, <1>8 DEF Got, items
  <1> QED BY <1>1, <1>9, ArrayHeader

(* And what is read was there. *)
LEMMA AuthorityArraySound ==
    ASSUME NEW b \in Seq(Nat), AuthorityArray(b).ok
    PROVE  LET r == AuthorityArray(b)
           IN  /\ Took(r, b) /\ (Small(b) => r.val \in Lists(Authorities))
               /\ \A x \in Seq(Nat) : AuthorityArray(b \o x) = Got(r.val, r.rest \o x)
  <1> DEFINE l == length(b)
             items == [i \in 1 .. l.val |-> i]
             N == l.val
  <1>1. l.ok /\ AuthorityArray(b) = AuthorityTurns!InTurnOf(0, l.rest, items)
    BY FailIs DEF AuthorityArray
  <1>2. /\ Took(l, b) /\ l.val \in Nat /\ l.val <= Len(l.rest)
        /\ \A x \in Seq(Nat) : length(b \o x) = Got(l.val, l.rest \o x)
    BY <1>1, LengthSound
  <1>3. l.rest \in Seq(Nat) /\ Len(l.rest) <= Len(b) /\ N \in Nat /\ N <= Len(l.rest) /\ DOMAIN items = 1 .. N
    BY <1>2 DEF Took
  <1>4. ASSUME NEW x \in Seq(Nat)
        PROVE  AuthorityArray(b \o x) = AuthorityTurns!InTurnOf(0, l.rest \o x, items)
    <2> DEFINE g == length(b \o x)
    <2>1. g = Got(l.val, l.rest \o x)
      BY <1>2
    <2>2. AuthorityArray(b \o x) = IF g.ok THEN AuthorityTurns!InTurnOf(0, g.rest, [i \in 1 .. g.val |-> i]) ELSE Fail
      BY DEF AuthorityArray
    <2> HIDE DEF g
    <2>3. g.ok /\ g.val = l.val /\ g.rest = l.rest \o x
      BY <2>1 DEF Got
    <2> QED BY <2>2, <2>3
  <1> DEFINE d == l.rest
  <1> HIDE DEF l
  <1>5. d \in Seq(Nat) /\ Len(d) <= Len(b) /\ N \in Nat /\ N <= Len(d) /\ DOMAIN items = 1 .. N
    BY <1>3
  <1> HIDE DEF items, N, d
  <1>6. ASSUME NEW i \in 1 .. N, NEW c \in Seq(Nat), OneAuthority(0, items[i], c).ok
        PROVE  /\ OneAuthority(0, items[i], c).rest \in Seq(Nat) /\ Len(OneAuthority(0, items[i], c).rest) <= Len(c)
               /\ Small(c) => OneAuthority(0, items[i], c).val \in Authorities
               /\ \A x \in Seq(Nat) : OneAuthority(0, items[i], c \o x) =
                    [ok |-> TRUE, val |-> OneAuthority(0, items[i], c).val, rest |-> OneAuthority(0, items[i], c).rest \o x]
    <2>1. \A y : OneAuthority(0, items[i], y) = read_authority(y)
      BY DEF OneAuthority
    <2>2. read_authority(c).ok
      BY <1>6, <2>1
    <2>3. /\ Took(read_authority(c), c) /\ (Small(c) => read_authority(c).val \in Authorities)
          /\ \A x \in Seq(Nat) : read_authority(c \o x) = Got(read_authority(c).val, read_authority(c).rest \o x)
      BY <2>2, AuthoritySound
    <2>4. read_authority(c).rest \in Seq(Nat) /\ Len(read_authority(c).rest) <= Len(c)
      BY ONLY <2>3 DEF Took
    <2> QED BY ONLY <2>1, <2>3, <2>4 DEF Got
  <1>7. PICK v, e : AuthorityTurns!Comes(0, d, items, N, v, e)
    <2>1. AuthorityTurns!InTurnOf(0, d, items).ok
      BY <1>1 DEF d
    <2>2. AuthorityTurns!Prefixed(0, items, N)
      <3>1. \A i \in 1 .. N : \A c \in Seq(Nat) :
              OneAuthority(0, items[i], c).ok =>
                /\ OneAuthority(0, items[i], c).rest \in Seq(Nat) /\ Len(OneAuthority(0, items[i], c).rest) <= Len(c)
                /\ \A x \in Seq(Nat) : OneAuthority(0, items[i], c \o x) =
                     [ok |-> TRUE, val |-> OneAuthority(0, items[i], c).val, rest |-> OneAuthority(0, items[i], c).rest \o x]
        BY ONLY <1>6
      <3> QED BY <3>1 DEF AuthorityTurns!Prefixed
    <2>3. N \in Nat /\ d \in Seq(Nat) /\ DOMAIN items = 1 .. N
      BY <1>5
    <2> QED BY ONLY <2>1, <2>2, <2>3, AuthorityBasics, AuthorityTurns!InTurnComes
  <1>71. /\ e \in Seq(Nat) /\ Len(e) <= Len(d) /\ v = [i \in 1 .. N |-> v[i]]
         /\ AuthorityTurns!InTurnOf(0, d, items) = [ok |-> TRUE, val |-> v, rest |-> e]
         /\ \A x \in Seq(Nat) : AuthorityTurns!InTurnOf(0, d \o x, items) = [ok |-> TRUE, val |-> v, rest |-> e \o x]
         /\ \A i \in 1 .. N : \E c \in Seq(Nat) :
              Len(c) <= Len(d) /\ OneAuthority(0, items[i], c).ok /\ v[i] = OneAuthority(0, items[i], c).val
    BY <1>7 DEF AuthorityTurns!Comes
  <1>8. AuthorityArray(b) = Got(v, e)
    BY <1>1, <1>71 DEF d, Got
  <1>9. AuthorityArray(b).val = v /\ AuthorityArray(b).rest = e
    BY <1>8, GotIs
  <1>10. e \in Seq(Nat) /\ Len(e) <= Len(b)
    <2>1. Len(e) \in Nat /\ Len(d) \in Nat /\ Len(b) \in Nat
      BY <1>5, <1>71
    <2> QED BY <1>5, <1>71, <2>1
  <1>11. ASSUME Small(b) PROVE v \in Lists(Authorities)
    <2>1. ASSUME NEW i \in 1 .. N PROVE v[i] \in Authorities
      <3>1. PICK c \in Seq(Nat) : Len(c) <= Len(d) /\ OneAuthority(0, items[i], c).ok /\ v[i] = OneAuthority(0, items[i], c).val
        BY <1>71
      <3>2. Small(c)
        BY <1>5, <1>11, <3>1, SmallPart
      <3> QED BY <1>6, <3>1, <3>2
    <2>2. v \in [1 .. N -> Authorities]
      BY <1>71, <2>1
    <2>3. v \in Seq(Authorities) /\ Len(v) = N
      BY <1>5, <2>2, IsSequence
    <2>4. N <= MaxInt
      BY <1>5, <1>11, SmallCount
    <2> QED BY <2>3, <2>4 DEF Lists
  <1>12. ASSUME NEW x \in Seq(Nat) PROVE AuthorityArray(b \o x) = Got(v, e \o x)
    <2>1. AuthorityArray(b \o x) = AuthorityTurns!InTurnOf(0, d \o x, items)
      BY <1>4 DEF d
    <2> QED BY <1>71, <2>1 DEF Got
  <1> QED BY <1>8, <1>9, <1>10, <1>11, <1>12 DEF Took

OnePairId(p, i, c) == PairId(c)
PairIdTurns == INSTANCE InTurnProofs WITH R <- OnePairId
PairIdArray(b) ==
    IF length(b).ok THEN PairIdTurns!InTurnOf(0, length(b).rest, [i \in 1 .. length(b).val |-> i]) ELSE Fail

(* What the instance takes as known, from the library. *)
LEMMA PairIdBasics == PairIdTurns!Basics
  BY ForTurns DEF PairIdTurns!Basics, PairIdTurns!Least, PairIdTurns!Induction, PairIdTurns!Counted, PairIdTurns!Cardinality, Cardinality

(* read_array of a recurrent transfer's extensions, by name. *)
LEMMA PairIdsAre ==
    ASSUME NEW b
    PROVE  read_array(b, read_pair_id) = PairIdArray(b)
  BY DEF read_pair_id, Tagged, PairId, PairIdArray, read_array, InTurn, FoldLeft, MapThenFoldSet, Then, Max, Got, Fail,
         PairIdTurns!InTurnOf, PairIdTurns!Turns, PairIdTurns!TurnStep, PairIdTurns!Turn, PairIdTurns!Got, PairIdTurns!Fail, PairIdTurns!Largest, OnePairId

(* What is written as an array of pair ids is read. *)
LEMMA PairIdArrayBack ==
    ASSUME NEW N \in Nat, N <= MaxInt, NEW w \in [1 .. N -> Seq(Nat)], NEW v, NEW x \in Seq(Nat),
           \A i \in 1 .. N : Len(w[i]) >= 1 /\ \A c \in Seq(Nat) : PairId(w[i] \o c) = Got(v[i], c)
    PROVE  /\ ArrayOf(w, N) \in Seq(Nat) /\ Len(ArrayOf(w, N)) >= 1
           /\ PairIdArray(ArrayOf(w, N) \o x) = Got([i \in 1 .. N |-> v[i]], x)
  <1>1. \A i \in 1 .. N : Len(w[i]) >= 1
    OBVIOUS
  <1>2. PICK t : /\ \A i \in 0 .. N : t[i] \in Seq(Nat)
                 /\ \A i \in 1 .. N : t[i - 1] = w[i] \o t[i]
                 /\ t[N] = x /\ length(ArrayOf(w, N) \o x) = Got(N, t[0])
    BY <1>1, ArrayHeader
  <1> DEFINE items == [i \in 1 .. N |-> i]
  <1>3. ASSUME NEW i \in 1 .. N
        PROVE  OnePairId(0, items[i], t[i - 1]) = [ok |-> TRUE, val |-> v[i], rest |-> t[i]]
    <2>1. t[i] \in Seq(Nat) /\ t[i - 1] = w[i] \o t[i]
      BY <1>2
    <2>2. PairId(t[i - 1]) = Got(v[i], t[i])
      BY <2>1
    <2> QED BY <2>2 DEF OnePairId, Got
  <1>4. DOMAIN items = 1 .. N
    OBVIOUS
  <1> HIDE DEF items
  <1>5. PairIdTurns!Reads(0, items, N, t, v)
    BY <1>3 DEF PairIdTurns!Reads
  <1>6. PairIdTurns!InTurnOf(0, t[0], items) = [ok |-> TRUE, val |-> [i \in 1 .. N |-> v[i]], rest |-> t[N]]
    BY <1>4, <1>5, PairIdBasics, PairIdTurns!InTurnFollows
  <1> DEFINE l == length(ArrayOf(w, N) \o x)
  <1>7. l.ok /\ l.val = N /\ l.rest = t[0]
    BY <1>2, GotIs
  <1>8. PairIdArray(ArrayOf(w, N) \o x) = IF l.ok THEN PairIdTurns!InTurnOf(0, l.rest, [i \in 1 .. l.val |-> i]) ELSE Fail
    BY DEF PairIdArray
  <1> HIDE DEF l
  <1>9. PairIdArray(ArrayOf(w, N) \o x) = Got([i \in 1 .. N |-> v[i]], x)
    BY <1>2, <1>6, <1>7, <1>8 DEF Got, items
  <1> QED BY <1>1, <1>9, ArrayHeader

(* And what is read was there. *)
LEMMA PairIdArraySound ==
    ASSUME NEW b \in Seq(Nat), PairIdArray(b).ok
    PROVE  LET r == PairIdArray(b)
           IN  /\ Took(r, b) /\ (Small(b) => r.val \in Lists(Fixed(1)))
               /\ \A x \in Seq(Nat) : PairIdArray(b \o x) = Got(r.val, r.rest \o x)
  <1> DEFINE l == length(b)
             items == [i \in 1 .. l.val |-> i]
             N == l.val
  <1>1. l.ok /\ PairIdArray(b) = PairIdTurns!InTurnOf(0, l.rest, items)
    BY FailIs DEF PairIdArray
  <1>2. /\ Took(l, b) /\ l.val \in Nat /\ l.val <= Len(l.rest)
        /\ \A x \in Seq(Nat) : length(b \o x) = Got(l.val, l.rest \o x)
    BY <1>1, LengthSound
  <1>3. l.rest \in Seq(Nat) /\ Len(l.rest) <= Len(b) /\ N \in Nat /\ N <= Len(l.rest) /\ DOMAIN items = 1 .. N
    BY <1>2 DEF Took
  <1>4. ASSUME NEW x \in Seq(Nat)
        PROVE  PairIdArray(b \o x) = PairIdTurns!InTurnOf(0, l.rest \o x, items)
    <2> DEFINE g == length(b \o x)
    <2>1. g = Got(l.val, l.rest \o x)
      BY <1>2
    <2>2. PairIdArray(b \o x) = IF g.ok THEN PairIdTurns!InTurnOf(0, g.rest, [i \in 1 .. g.val |-> i]) ELSE Fail
      BY DEF PairIdArray
    <2> HIDE DEF g
    <2>3. g.ok /\ g.val = l.val /\ g.rest = l.rest \o x
      BY <2>1 DEF Got
    <2> QED BY <2>2, <2>3
  <1> DEFINE d == l.rest
  <1> HIDE DEF l
  <1>5. d \in Seq(Nat) /\ Len(d) <= Len(b) /\ N \in Nat /\ N <= Len(d) /\ DOMAIN items = 1 .. N
    BY <1>3
  <1> HIDE DEF items, N, d
  <1>6. ASSUME NEW i \in 1 .. N, NEW c \in Seq(Nat), OnePairId(0, items[i], c).ok
        PROVE  /\ OnePairId(0, items[i], c).rest \in Seq(Nat) /\ Len(OnePairId(0, items[i], c).rest) <= Len(c)
               /\ Small(c) => OnePairId(0, items[i], c).val \in Fixed(1)
               /\ \A x \in Seq(Nat) : OnePairId(0, items[i], c \o x) =
                    [ok |-> TRUE, val |-> OnePairId(0, items[i], c).val, rest |-> OnePairId(0, items[i], c).rest \o x]
    <2>1. \A y : OnePairId(0, items[i], y) = PairId(y)
      BY DEF OnePairId
    <2>2. PairId(c).ok
      BY <1>6, <2>1
    <2>3. /\ Took(PairId(c), c) /\ (Small(c) => PairId(c).val \in Fixed(1))
          /\ \A x \in Seq(Nat) : PairId(c \o x) = Got(PairId(c).val, PairId(c).rest \o x)
      BY <2>2, PairIdSound
    <2>4. PairId(c).rest \in Seq(Nat) /\ Len(PairId(c).rest) <= Len(c)
      BY ONLY <2>3 DEF Took
    <2> QED BY ONLY <2>1, <2>3, <2>4 DEF Got
  <1>7. PICK v, e : PairIdTurns!Comes(0, d, items, N, v, e)
    <2>1. PairIdTurns!InTurnOf(0, d, items).ok
      BY <1>1 DEF d
    <2>2. PairIdTurns!Prefixed(0, items, N)
      <3>1. \A i \in 1 .. N : \A c \in Seq(Nat) :
              OnePairId(0, items[i], c).ok =>
                /\ OnePairId(0, items[i], c).rest \in Seq(Nat) /\ Len(OnePairId(0, items[i], c).rest) <= Len(c)
                /\ \A x \in Seq(Nat) : OnePairId(0, items[i], c \o x) =
                     [ok |-> TRUE, val |-> OnePairId(0, items[i], c).val, rest |-> OnePairId(0, items[i], c).rest \o x]
        BY ONLY <1>6
      <3> QED BY <3>1 DEF PairIdTurns!Prefixed
    <2>3. N \in Nat /\ d \in Seq(Nat) /\ DOMAIN items = 1 .. N
      BY <1>5
    <2> QED BY ONLY <2>1, <2>2, <2>3, PairIdBasics, PairIdTurns!InTurnComes
  <1>71. /\ e \in Seq(Nat) /\ Len(e) <= Len(d) /\ v = [i \in 1 .. N |-> v[i]]
         /\ PairIdTurns!InTurnOf(0, d, items) = [ok |-> TRUE, val |-> v, rest |-> e]
         /\ \A x \in Seq(Nat) : PairIdTurns!InTurnOf(0, d \o x, items) = [ok |-> TRUE, val |-> v, rest |-> e \o x]
         /\ \A i \in 1 .. N : \E c \in Seq(Nat) :
              Len(c) <= Len(d) /\ OnePairId(0, items[i], c).ok /\ v[i] = OnePairId(0, items[i], c).val
    BY <1>7 DEF PairIdTurns!Comes
  <1>8. PairIdArray(b) = Got(v, e)
    BY <1>1, <1>71 DEF d, Got
  <1>9. PairIdArray(b).val = v /\ PairIdArray(b).rest = e
    BY <1>8, GotIs
  <1>10. e \in Seq(Nat) /\ Len(e) <= Len(b)
    <2>1. Len(e) \in Nat /\ Len(d) \in Nat /\ Len(b) \in Nat
      BY <1>5, <1>71
    <2> QED BY <1>5, <1>71, <2>1
  <1>11. ASSUME Small(b) PROVE v \in Lists(Fixed(1))
    <2>1. ASSUME NEW i \in 1 .. N PROVE v[i] \in Fixed(1)
      <3>1. PICK c \in Seq(Nat) : Len(c) <= Len(d) /\ OnePairId(0, items[i], c).ok /\ v[i] = OnePairId(0, items[i], c).val
        BY <1>71
      <3>2. Small(c)
        BY <1>5, <1>11, <3>1, SmallPart
      <3> QED BY <1>6, <3>1, <3>2
    <2>2. v \in [1 .. N -> Fixed(1)]
      BY <1>71, <2>1
    <2>3. v \in Seq(Fixed(1)) /\ Len(v) = N
      BY <1>5, <2>2, IsSequence
    <2>4. N <= MaxInt
      BY <1>5, <1>11, SmallCount
    <2> QED BY <2>3, <2>4 DEF Lists
  <1>12. ASSUME NEW x \in Seq(Nat) PROVE PairIdArray(b \o x) = Got(v, e \o x)
    <2>1. PairIdArray(b \o x) = PairIdTurns!InTurnOf(0, d \o x, items)
      BY <1>4 DEF d
    <2> QED BY <1>71, <2>1 DEF Got
  <1> QED BY <1>8, <1>9, <1>10, <1>11, <1>12 DEF Took

OneBeneficiaries(p, i, c) == Beneficiaries(c)
BeneficiariesTurns == INSTANCE InTurnProofs WITH R <- OneBeneficiaries
BeneficiariesArray(b) ==
    IF length(b).ok THEN BeneficiariesTurns!InTurnOf(0, length(b).rest, [i \in 1 .. length(b).val |-> i]) ELSE Fail

(* What the instance takes as known, from the library. *)
LEMMA BeneficiariesBasics == BeneficiariesTurns!Basics
  BY ForTurns DEF BeneficiariesTurns!Basics, BeneficiariesTurns!Least, BeneficiariesTurns!Induction, BeneficiariesTurns!Counted, BeneficiariesTurns!Cardinality, Cardinality

(* read_array of a comment's extensions, by name. *)
LEMMA BeneficiariesListsAre ==
    ASSUME NEW b
    PROVE  read_array(b, read_beneficiaries) = BeneficiariesArray(b)
  BY DEF read_beneficiaries, Tagged, Beneficiaries, AccountArray, OneAccount,
         AccountTurns!InTurnOf, AccountTurns!Turns, AccountTurns!TurnStep, AccountTurns!Turn, AccountTurns!Got,
         AccountTurns!Fail, AccountTurns!Largest, BeneficiariesArray, read_array, InTurn, FoldLeft, MapThenFoldSet, Then, Max, Got, Fail,
         BeneficiariesTurns!InTurnOf, BeneficiariesTurns!Turns, BeneficiariesTurns!TurnStep, BeneficiariesTurns!Turn, BeneficiariesTurns!Got, BeneficiariesTurns!Fail, BeneficiariesTurns!Largest, OneBeneficiaries

(* What is written as an array of lists of beneficiaries is read. *)
LEMMA BeneficiariesArrayBack ==
    ASSUME NEW N \in Nat, N <= MaxInt, NEW w \in [1 .. N -> Seq(Nat)], NEW v, NEW x \in Seq(Nat),
           \A i \in 1 .. N : Len(w[i]) >= 1 /\ \A c \in Seq(Nat) : Beneficiaries(w[i] \o c) = Got(v[i], c)
    PROVE  /\ ArrayOf(w, N) \in Seq(Nat) /\ Len(ArrayOf(w, N)) >= 1
           /\ BeneficiariesArray(ArrayOf(w, N) \o x) = Got([i \in 1 .. N |-> v[i]], x)
  <1>1. \A i \in 1 .. N : Len(w[i]) >= 1
    OBVIOUS
  <1>2. PICK t : /\ \A i \in 0 .. N : t[i] \in Seq(Nat)
                 /\ \A i \in 1 .. N : t[i - 1] = w[i] \o t[i]
                 /\ t[N] = x /\ length(ArrayOf(w, N) \o x) = Got(N, t[0])
    BY <1>1, ArrayHeader
  <1> DEFINE items == [i \in 1 .. N |-> i]
  <1>3. ASSUME NEW i \in 1 .. N
        PROVE  OneBeneficiaries(0, items[i], t[i - 1]) = [ok |-> TRUE, val |-> v[i], rest |-> t[i]]
    <2>1. t[i] \in Seq(Nat) /\ t[i - 1] = w[i] \o t[i]
      BY <1>2
    <2>2. Beneficiaries(t[i - 1]) = Got(v[i], t[i])
      BY <2>1
    <2> QED BY <2>2 DEF OneBeneficiaries, Got
  <1>4. DOMAIN items = 1 .. N
    OBVIOUS
  <1> HIDE DEF items
  <1>5. BeneficiariesTurns!Reads(0, items, N, t, v)
    BY <1>3 DEF BeneficiariesTurns!Reads
  <1>6. BeneficiariesTurns!InTurnOf(0, t[0], items) = [ok |-> TRUE, val |-> [i \in 1 .. N |-> v[i]], rest |-> t[N]]
    BY <1>4, <1>5, BeneficiariesBasics, BeneficiariesTurns!InTurnFollows
  <1> DEFINE l == length(ArrayOf(w, N) \o x)
  <1>7. l.ok /\ l.val = N /\ l.rest = t[0]
    BY <1>2, GotIs
  <1>8. BeneficiariesArray(ArrayOf(w, N) \o x) = IF l.ok THEN BeneficiariesTurns!InTurnOf(0, l.rest, [i \in 1 .. l.val |-> i]) ELSE Fail
    BY DEF BeneficiariesArray
  <1> HIDE DEF l
  <1>9. BeneficiariesArray(ArrayOf(w, N) \o x) = Got([i \in 1 .. N |-> v[i]], x)
    BY <1>2, <1>6, <1>7, <1>8 DEF Got, items
  <1> QED BY <1>1, <1>9, ArrayHeader

(* And what is read was there. *)
LEMMA BeneficiariesArraySound ==
    ASSUME NEW b \in Seq(Nat), BeneficiariesArray(b).ok
    PROVE  LET r == BeneficiariesArray(b)
           IN  /\ Took(r, b) /\ (Small(b) => r.val \in Lists(Lists(AccountEntries)))
               /\ \A x \in Seq(Nat) : BeneficiariesArray(b \o x) = Got(r.val, r.rest \o x)
  <1> DEFINE l == length(b)
             items == [i \in 1 .. l.val |-> i]
             N == l.val
  <1>1. l.ok /\ BeneficiariesArray(b) = BeneficiariesTurns!InTurnOf(0, l.rest, items)
    BY FailIs DEF BeneficiariesArray
  <1>2. /\ Took(l, b) /\ l.val \in Nat /\ l.val <= Len(l.rest)
        /\ \A x \in Seq(Nat) : length(b \o x) = Got(l.val, l.rest \o x)
    BY <1>1, LengthSound
  <1>3. l.rest \in Seq(Nat) /\ Len(l.rest) <= Len(b) /\ N \in Nat /\ N <= Len(l.rest) /\ DOMAIN items = 1 .. N
    BY <1>2 DEF Took
  <1>4. ASSUME NEW x \in Seq(Nat)
        PROVE  BeneficiariesArray(b \o x) = BeneficiariesTurns!InTurnOf(0, l.rest \o x, items)
    <2> DEFINE g == length(b \o x)
    <2>1. g = Got(l.val, l.rest \o x)
      BY <1>2
    <2>2. BeneficiariesArray(b \o x) = IF g.ok THEN BeneficiariesTurns!InTurnOf(0, g.rest, [i \in 1 .. g.val |-> i]) ELSE Fail
      BY DEF BeneficiariesArray
    <2> HIDE DEF g
    <2>3. g.ok /\ g.val = l.val /\ g.rest = l.rest \o x
      BY <2>1 DEF Got
    <2> QED BY <2>2, <2>3
  <1> DEFINE d == l.rest
  <1> HIDE DEF l
  <1>5. d \in Seq(Nat) /\ Len(d) <= Len(b) /\ N \in Nat /\ N <= Len(d) /\ DOMAIN items = 1 .. N
    BY <1>3
  <1> HIDE DEF items, N, d
  <1>6. ASSUME NEW i \in 1 .. N, NEW c \in Seq(Nat), OneBeneficiaries(0, items[i], c).ok
        PROVE  /\ OneBeneficiaries(0, items[i], c).rest \in Seq(Nat) /\ Len(OneBeneficiaries(0, items[i], c).rest) <= Len(c)
               /\ Small(c) => OneBeneficiaries(0, items[i], c).val \in Lists(AccountEntries)
               /\ \A x \in Seq(Nat) : OneBeneficiaries(0, items[i], c \o x) =
                    [ok |-> TRUE, val |-> OneBeneficiaries(0, items[i], c).val, rest |-> OneBeneficiaries(0, items[i], c).rest \o x]
    <2>1. \A y : OneBeneficiaries(0, items[i], y) = Beneficiaries(y)
      BY DEF OneBeneficiaries
    <2>2. Beneficiaries(c).ok
      BY <1>6, <2>1
    <2>3. /\ Took(Beneficiaries(c), c) /\ (Small(c) => Beneficiaries(c).val \in Lists(AccountEntries))
          /\ \A x \in Seq(Nat) : Beneficiaries(c \o x) = Got(Beneficiaries(c).val, Beneficiaries(c).rest \o x)
      BY <2>2, BeneficiariesSound
    <2>4. Beneficiaries(c).rest \in Seq(Nat) /\ Len(Beneficiaries(c).rest) <= Len(c)
      BY ONLY <2>3 DEF Took
    <2> QED BY ONLY <2>1, <2>3, <2>4 DEF Got
  <1>7. PICK v, e : BeneficiariesTurns!Comes(0, d, items, N, v, e)
    <2>1. BeneficiariesTurns!InTurnOf(0, d, items).ok
      BY <1>1 DEF d
    <2>2. BeneficiariesTurns!Prefixed(0, items, N)
      <3>1. \A i \in 1 .. N : \A c \in Seq(Nat) :
              OneBeneficiaries(0, items[i], c).ok =>
                /\ OneBeneficiaries(0, items[i], c).rest \in Seq(Nat) /\ Len(OneBeneficiaries(0, items[i], c).rest) <= Len(c)
                /\ \A x \in Seq(Nat) : OneBeneficiaries(0, items[i], c \o x) =
                     [ok |-> TRUE, val |-> OneBeneficiaries(0, items[i], c).val, rest |-> OneBeneficiaries(0, items[i], c).rest \o x]
        BY ONLY <1>6
      <3> QED BY <3>1 DEF BeneficiariesTurns!Prefixed
    <2>3. N \in Nat /\ d \in Seq(Nat) /\ DOMAIN items = 1 .. N
      BY <1>5
    <2> QED BY ONLY <2>1, <2>2, <2>3, BeneficiariesBasics, BeneficiariesTurns!InTurnComes
  <1>71. /\ e \in Seq(Nat) /\ Len(e) <= Len(d) /\ v = [i \in 1 .. N |-> v[i]]
         /\ BeneficiariesTurns!InTurnOf(0, d, items) = [ok |-> TRUE, val |-> v, rest |-> e]
         /\ \A x \in Seq(Nat) : BeneficiariesTurns!InTurnOf(0, d \o x, items) = [ok |-> TRUE, val |-> v, rest |-> e \o x]
         /\ \A i \in 1 .. N : \E c \in Seq(Nat) :
              Len(c) <= Len(d) /\ OneBeneficiaries(0, items[i], c).ok /\ v[i] = OneBeneficiaries(0, items[i], c).val
    BY <1>7 DEF BeneficiariesTurns!Comes
  <1>8. BeneficiariesArray(b) = Got(v, e)
    BY <1>1, <1>71 DEF d, Got
  <1>9. BeneficiariesArray(b).val = v /\ BeneficiariesArray(b).rest = e
    BY <1>8, GotIs
  <1>10. e \in Seq(Nat) /\ Len(e) <= Len(b)
    <2>1. Len(e) \in Nat /\ Len(d) \in Nat /\ Len(b) \in Nat
      BY <1>5, <1>71
    <2> QED BY <1>5, <1>71, <2>1
  <1>11. ASSUME Small(b) PROVE v \in Lists(Lists(AccountEntries))
    <2>1. ASSUME NEW i \in 1 .. N PROVE v[i] \in Lists(AccountEntries)
      <3>1. PICK c \in Seq(Nat) : Len(c) <= Len(d) /\ OneBeneficiaries(0, items[i], c).ok /\ v[i] = OneBeneficiaries(0, items[i], c).val
        BY <1>71
      <3>2. Small(c)
        BY <1>5, <1>11, <3>1, SmallPart
      <3> QED BY <1>6, <3>1, <3>2
    <2>2. v \in [1 .. N -> Lists(AccountEntries)]
      BY <1>71, <2>1
    <2>3. v \in Seq(Lists(AccountEntries)) /\ Len(v) = N
      BY <1>5, <2>2, IsSequence
    <2>4. N <= MaxInt
      BY <1>5, <1>11, SmallCount
    <2> QED BY <2>3, <2>4 DEF Lists
  <1>12. ASSUME NEW x \in Seq(Nat) PROVE BeneficiariesArray(b \o x) = Got(v, e \o x)
    <2>1. BeneficiariesArray(b \o x) = BeneficiariesTurns!InTurnOf(0, d \o x, items)
      BY <1>4 DEF d
    <2> QED BY <1>71, <2>1 DEF Got
  <1> QED BY <1>8, <1>9, <1>10, <1>11, <1>12 DEF Took

-----------------------------------------------------------------------------
(* The properties of a witness: a name and the bytes of its value. *)
property_wire(p) == write_string(p[1]) \o write_bytes(p[2])
OneHalf(p, i, d) == IF i = 1 THEN read_string(d) ELSE read_bytes(d)
HalfTurns == INSTANCE InTurnProofs WITH R <- OneHalf

(* What the instance takes as known, from the library. *)
LEMMA HalfBasics == HalfTurns!Basics
  BY ForTurns DEF HalfTurns!Basics, HalfTurns!Least, HalfTurns!Induction, HalfTurns!Counted, HalfTurns!Cardinality, Cardinality
Property(c) == HalfTurns!InTurnOf(0, c, <<1, 2>>)

(* A part of bytes that memory holds can be written again. *)
LEMMA BytesFit ==
    ASSUME NEW b \in Seq(Nat), NEW v \in Seq(Nat), Len(v) <= Len(b), Small(b)
    PROVE  v \in Blobs
  <1>1. Len(v) \in Nat /\ Len(b) \in Nat /\ MaxInt \in Nat
    BY SMT DEF MaxInt
  <1>2. 5 * Len(b) <= MaxInt
    BY DEF Small
  <1>3. Len(v) <= MaxInt
    BY <1>1, <1>2
  <1> QED BY <1>3 DEF Blobs

(* A witness property is read back, its name as transport has it. *)
LEMMA PropertyBack ==
    ASSUME NEW p \in Properties, NEW x \in Seq(Nat)
    PROVE  /\ property_wire(p) \in Seq(Nat) /\ Len(property_wire(p)) >= 1
           /\ Property(property_wire(p) \o x) = Got(CarriedEntry(p), x)
  <1> DEFINE s == p[1]
             v == p[2]
             f == hived_transport_form(s)
             g == write_string(s)
             h == write_bytes(v)
  <1>1. s \in Strings /\ v \in Blobs
    BY DEF Properties
  <1>2. property_wire(p) = g \o h /\ CarriedEntry(p) = <<f, v>>
    BY DEF property_wire, CarriedEntry
  <1> HIDE DEF s, v
  <1>3. h \in Seq(Nat) /\ Len(h) >= 1 /\ read_bytes(h \o x) = Got(v, x)
    BY <1>1, BytesBack
  <1> HIDE DEF h
  <1>4. h \o x \in Seq(Nat)
    BY <1>3, Joins
  <1>5. g \in Seq(Nat) /\ Len(g) >= 1 /\ read_string(g \o (h \o x)) = Got(f, h \o x)
    BY <1>1, <1>4, StringBack
  <1> HIDE DEF g, f
  <1>6. g \o h \in Seq(Nat) /\ (g \o h) \o x = g \o (h \o x)
    BY <1>3, <1>5, Joins, JoinedTwice, SMTT(60), ZenonT(60)
  <1>7. Len(g \o h) >= 1
    <2>1. Len(g \o h) = Len(g) + Len(h) /\ Len(h) \in Nat /\ Len(g) \in Nat
      BY <1>3, <1>5, Joins
    <2> QED BY <1>3, <1>5, <2>1
  <1>8. Property(g \o (h \o x)) = Got(<<f, v>>, x)
    <2> DEFINE items == <<1, 2>>
    <2>1. DOMAIN items = 1 .. 2 /\ items[1] = 1 /\ items[2] = 2
      OBVIOUS
    <2>2. Property(g \o (h \o x)) = HalfTurns!InTurnOf(0, g \o (h \o x), items)
      BY DEF Property
    <2> HIDE DEF items
    <2>3. OneHalf(0, items[1], g \o (h \o x)) = [ok |-> TRUE, val |-> f, rest |-> h \o x]
      BY <1>5, <2>1 DEF OneHalf, Got
    <2>4. OneHalf(0, items[2], h \o x) = [ok |-> TRUE, val |-> v, rest |-> x]
      BY <1>3, <2>1 DEF OneHalf, Got
    <2>5. HalfTurns!InTurnOf(0, g \o (h \o x), items) = [ok |-> TRUE, val |-> <<f, v>>, rest |-> x]
      <3> DEFINE B == g \o (h \o x)
                 C == h \o x
      <3>1. /\ OneHalf(0, items[1], B) = [ok |-> TRUE, val |-> f, rest |-> C]
            /\ OneHalf(0, items[2], C) = [ok |-> TRUE, val |-> v, rest |-> x]
        BY <2>3, <2>4
      <3>2. DOMAIN items = 1 .. 2
        BY <2>1
      <3> HIDE DEF B, C
      <3>3. HalfTurns!InTurnOf(0, B, items) = [ok |-> TRUE, val |-> <<f, v>>, rest |-> x]
        BY <3>1, <3>2, HalfBasics, HalfTurns!TwoFollow
      <3> QED BY <3>3 DEF B
    <2> QED BY <2>2, <2>5 DEF Got
  <1> QED BY <1>2, <1>6, <1>7, <1>8

(* What is read as a witness property is one, whatever follows. *)
LEMMA PropertySound ==
    ASSUME NEW b \in Seq(Nat), Property(b).ok
    PROVE  LET r == Property(b)
           IN  /\ Took(r, b) /\ (Small(b) => r.val \in Properties)
               /\ \A x \in Seq(Nat) : Property(b \o x) = Got(r.val, r.rest \o x)
  <1> DEFINE items == <<1, 2>>
             N == 2
  <1>1. DOMAIN items = 1 .. N /\ items[1] = 1 /\ items[2] = 2 /\ N \in Nat /\ N = 2
    OBVIOUS
  <1>2. \A c : Property(c) = HalfTurns!InTurnOf(0, c, items)
    BY DEF Property
  <1> HIDE DEF items, N
  <1>3. ASSUME NEW i \in 1 .. N, NEW c \in Seq(Nat), OneHalf(0, items[i], c).ok
        PROVE  /\ OneHalf(0, items[i], c).rest \in Seq(Nat) /\ Len(OneHalf(0, items[i], c).rest) <= Len(c)
               /\ i = 1 => (Small(c) => OneHalf(0, items[i], c).val \in Strings)
               /\ i = 2 => (Small(c) => OneHalf(0, items[i], c).val \in Blobs)
               /\ \A x \in Seq(Nat) : OneHalf(0, items[i], c \o x) =
                    [ok |-> TRUE, val |-> OneHalf(0, items[i], c).val, rest |-> OneHalf(0, items[i], c).rest \o x]
    <2>1. i = 1 \/ i = 2
      BY <1>1
    <2>2. CASE i = 1
      <3>1. \A y : OneHalf(0, items[i], y) = read_string(y)
        BY <1>1, <2>2 DEF OneHalf
      <3>2. read_string(c).ok
        BY <1>3, <3>1
      <3>3. /\ Took(read_string(c), c) /\ (Small(c) => read_string(c).val \in Strings)
            /\ \A x \in Seq(Nat) : read_string(c \o x) = Got(read_string(c).val, read_string(c).rest \o x)
        BY <3>2, StringSound
      <3>4. read_string(c).rest \in Seq(Nat) /\ Len(read_string(c).rest) <= Len(c)
        BY ONLY <3>3 DEF Took
      <3>5. i # 2
        BY <2>2
      <3> QED BY ONLY <3>1, <3>3, <3>4, <3>5 DEF Got
    <2>3. CASE i = 2
      <3>1. \A y : OneHalf(0, items[i], y) = read_bytes(y)
        BY <1>1, <2>3 DEF OneHalf
      <3>2. read_bytes(c).ok
        BY <1>3, <3>1
      <3>3. /\ Took(read_bytes(c), c) /\ read_bytes(c).val \in Seq(Nat) /\ Len(read_bytes(c).val) <= Len(c)
            /\ \A x \in Seq(Nat) : read_bytes(c \o x) = Got(read_bytes(c).val, read_bytes(c).rest \o x)
        BY <3>2, BytesSound
      <3>4. read_bytes(c).rest \in Seq(Nat) /\ Len(read_bytes(c).rest) <= Len(c)
        BY ONLY <3>3 DEF Took
      <3>5. i # 1
        BY <2>3
      <3>6. Small(c) => read_bytes(c).val \in Blobs
        BY <3>3, BytesFit
      <3> QED BY ONLY <3>1, <3>3, <3>4, <3>5, <3>6 DEF Got
    <2> QED BY <2>1, <2>2, <2>3
  <1>4. PICK v, e : HalfTurns!Comes(0, b, items, N, v, e)
    <2>1. HalfTurns!InTurnOf(0, b, items).ok
      BY <1>2
    <2>2. HalfTurns!Prefixed(0, items, N)
      <3>1. \A i \in 1 .. N : \A c \in Seq(Nat) :
              OneHalf(0, items[i], c).ok =>
                /\ OneHalf(0, items[i], c).rest \in Seq(Nat) /\ Len(OneHalf(0, items[i], c).rest) <= Len(c)
                /\ \A x \in Seq(Nat) : OneHalf(0, items[i], c \o x) =
                     [ok |-> TRUE, val |-> OneHalf(0, items[i], c).val, rest |-> OneHalf(0, items[i], c).rest \o x]
        BY ONLY <1>3
      <3> QED BY <3>1 DEF HalfTurns!Prefixed
    <2>3. N \in Nat /\ DOMAIN items = 1 .. N
      BY <1>1
    <2> QED BY ONLY <2>1, <2>2, <2>3, HalfBasics, HalfTurns!InTurnComes
  <1>5. /\ e \in Seq(Nat) /\ Len(e) <= Len(b) /\ v = [i \in 1 .. N |-> v[i]]
        /\ HalfTurns!InTurnOf(0, b, items) = [ok |-> TRUE, val |-> v, rest |-> e]
        /\ \A x \in Seq(Nat) : HalfTurns!InTurnOf(0, b \o x, items) = [ok |-> TRUE, val |-> v, rest |-> e \o x]
        /\ \A i \in 1 .. N : \E c \in Seq(Nat) :
             Len(c) <= Len(b) /\ OneHalf(0, items[i], c).ok /\ v[i] = OneHalf(0, items[i], c).val
    BY <1>4 DEF HalfTurns!Comes
  <1>6. Property(b) = Got(v, e)
    BY <1>2, <1>5 DEF Got
  <1>7. ASSUME Small(b) PROVE v \in Properties
    <2>1. ASSUME NEW i \in 1 .. N PROVE (i = 1 => v[i] \in Strings) /\ (i = 2 => v[i] \in Blobs)
      <3>1. PICK c \in Seq(Nat) : Len(c) <= Len(b) /\ OneHalf(0, items[i], c).ok /\ v[i] = OneHalf(0, items[i], c).val
        BY <1>5
      <3>2. Small(c)
        <4>1. Len(b) <= Len(b)
          <5>1. Len(b) \in Nat
            OBVIOUS
          <5> QED BY <5>1
        <4> QED BY <1>7, <3>1, <4>1, SmallPart
      <3> QED BY <1>3, <3>1, <3>2
    <2>2. v[1] \in Strings /\ v[2] \in Blobs
      <3>1. 1 \in 1 .. N /\ 2 \in 1 .. N
        BY <1>1
      <3> QED BY <2>1, <3>1
    <2>3. v = <<v[1], v[2]>>
      <3>1. v = [i \in 1 .. 2 |-> v[i]]
        BY <1>1, <1>5
      <3> DEFINE c1 == v[1]
                 c2 == v[2]
      <3>2. [i \in 1 .. 2 |-> v[i]] = <<c1, c2>>
        OBVIOUS
      <3> QED BY <3>1, <3>2
    <2> QED BY <2>2, <2>3 DEF Properties
  <1>8. Property(b).val = v /\ Property(b).rest = e
    BY <1>6, GotIs
  <1>9. \A x \in Seq(Nat) : Property(b \o x) = Got(v, e \o x)
    BY <1>2, <1>5 DEF Got
  <1>10. Took(Property(b), b)
    BY <1>5, <1>6, <1>8 DEF Took
  <1> QED BY <1>7, <1>8, <1>9, <1>10

OneProperty(p, i, c) == Property(c)
PropertyTurns == INSTANCE InTurnProofs WITH R <- OneProperty
PropertyArray(b) ==
    IF length(b).ok THEN PropertyTurns!InTurnOf(0, length(b).rest, [i \in 1 .. length(b).val |-> i]) ELSE Fail

(* What the instance takes as known, from the library. *)
LEMMA PropertyBasics == PropertyTurns!Basics
  BY ForTurns DEF PropertyTurns!Basics, PropertyTurns!Least, PropertyTurns!Induction, PropertyTurns!Counted, PropertyTurns!Cardinality, Cardinality

(* read_array of witness properties, by name. *)
LEMMA PropertiesAre ==
    ASSUME NEW b
    PROVE  read_array(b, LAMBDA c : InTurn(c, <<1, 2>>, LAMBDA i, d : IF i = 1 THEN read_string(d) ELSE read_bytes(d)))
             = PropertyArray(b)
  BY DEF Property, OneHalf, HalfTurns!InTurnOf, HalfTurns!Turns, HalfTurns!TurnStep, HalfTurns!Turn, HalfTurns!Got,
         HalfTurns!Fail, HalfTurns!Largest,
         PropertyArray, read_array, InTurn, FoldLeft, MapThenFoldSet, Then, Max, Got, Fail,
         PropertyTurns!InTurnOf, PropertyTurns!Turns, PropertyTurns!TurnStep, PropertyTurns!Turn, PropertyTurns!Got, PropertyTurns!Fail, PropertyTurns!Largest, OneProperty

(* What is written as an array of properties is read. *)
LEMMA PropertyArrayBack ==
    ASSUME NEW N \in Nat, N <= MaxInt, NEW w \in [1 .. N -> Seq(Nat)], NEW v, NEW x \in Seq(Nat),
           \A i \in 1 .. N : Len(w[i]) >= 1 /\ \A c \in Seq(Nat) : Property(w[i] \o c) = Got(v[i], c)
    PROVE  /\ ArrayOf(w, N) \in Seq(Nat) /\ Len(ArrayOf(w, N)) >= 1
           /\ PropertyArray(ArrayOf(w, N) \o x) = Got([i \in 1 .. N |-> v[i]], x)
  <1>1. \A i \in 1 .. N : Len(w[i]) >= 1
    OBVIOUS
  <1>2. PICK t : /\ \A i \in 0 .. N : t[i] \in Seq(Nat)
                 /\ \A i \in 1 .. N : t[i - 1] = w[i] \o t[i]
                 /\ t[N] = x /\ length(ArrayOf(w, N) \o x) = Got(N, t[0])
    BY <1>1, ArrayHeader
  <1> DEFINE items == [i \in 1 .. N |-> i]
  <1>3. ASSUME NEW i \in 1 .. N
        PROVE  OneProperty(0, items[i], t[i - 1]) = [ok |-> TRUE, val |-> v[i], rest |-> t[i]]
    <2>1. t[i] \in Seq(Nat) /\ t[i - 1] = w[i] \o t[i]
      BY <1>2
    <2>2. Property(t[i - 1]) = Got(v[i], t[i])
      BY <2>1
    <2> QED BY <2>2 DEF OneProperty, Got
  <1>4. DOMAIN items = 1 .. N
    OBVIOUS
  <1> HIDE DEF items
  <1>5. PropertyTurns!Reads(0, items, N, t, v)
    BY <1>3 DEF PropertyTurns!Reads
  <1>6. PropertyTurns!InTurnOf(0, t[0], items) = [ok |-> TRUE, val |-> [i \in 1 .. N |-> v[i]], rest |-> t[N]]
    BY <1>4, <1>5, PropertyBasics, PropertyTurns!InTurnFollows
  <1> DEFINE l == length(ArrayOf(w, N) \o x)
  <1>7. l.ok /\ l.val = N /\ l.rest = t[0]
    BY <1>2, GotIs
  <1>8. PropertyArray(ArrayOf(w, N) \o x) = IF l.ok THEN PropertyTurns!InTurnOf(0, l.rest, [i \in 1 .. l.val |-> i]) ELSE Fail
    BY DEF PropertyArray
  <1> HIDE DEF l
  <1>9. PropertyArray(ArrayOf(w, N) \o x) = Got([i \in 1 .. N |-> v[i]], x)
    BY <1>2, <1>6, <1>7, <1>8 DEF Got, items
  <1> QED BY <1>1, <1>9, ArrayHeader

(* And what is read was there. *)
LEMMA PropertyArraySound ==
    ASSUME NEW b \in Seq(Nat), PropertyArray(b).ok
    PROVE  LET r == PropertyArray(b)
           IN  /\ Took(r, b) /\ (Small(b) => r.val \in Lists(Properties))
               /\ \A x \in Seq(Nat) : PropertyArray(b \o x) = Got(r.val, r.rest \o x)
  <1> DEFINE l == length(b)
             items == [i \in 1 .. l.val |-> i]
             N == l.val
  <1>1. l.ok /\ PropertyArray(b) = PropertyTurns!InTurnOf(0, l.rest, items)
    BY FailIs DEF PropertyArray
  <1>2. /\ Took(l, b) /\ l.val \in Nat /\ l.val <= Len(l.rest)
        /\ \A x \in Seq(Nat) : length(b \o x) = Got(l.val, l.rest \o x)
    BY <1>1, LengthSound
  <1>3. l.rest \in Seq(Nat) /\ Len(l.rest) <= Len(b) /\ N \in Nat /\ N <= Len(l.rest) /\ DOMAIN items = 1 .. N
    BY <1>2 DEF Took
  <1>4. ASSUME NEW x \in Seq(Nat)
        PROVE  PropertyArray(b \o x) = PropertyTurns!InTurnOf(0, l.rest \o x, items)
    <2> DEFINE g == length(b \o x)
    <2>1. g = Got(l.val, l.rest \o x)
      BY <1>2
    <2>2. PropertyArray(b \o x) = IF g.ok THEN PropertyTurns!InTurnOf(0, g.rest, [i \in 1 .. g.val |-> i]) ELSE Fail
      BY DEF PropertyArray
    <2> HIDE DEF g
    <2>3. g.ok /\ g.val = l.val /\ g.rest = l.rest \o x
      BY <2>1 DEF Got
    <2> QED BY <2>2, <2>3
  <1> DEFINE d == l.rest
  <1> HIDE DEF l
  <1>5. d \in Seq(Nat) /\ Len(d) <= Len(b) /\ N \in Nat /\ N <= Len(d) /\ DOMAIN items = 1 .. N
    BY <1>3
  <1> HIDE DEF items, N, d
  <1>6. ASSUME NEW i \in 1 .. N, NEW c \in Seq(Nat), OneProperty(0, items[i], c).ok
        PROVE  /\ OneProperty(0, items[i], c).rest \in Seq(Nat) /\ Len(OneProperty(0, items[i], c).rest) <= Len(c)
               /\ Small(c) => OneProperty(0, items[i], c).val \in Properties
               /\ \A x \in Seq(Nat) : OneProperty(0, items[i], c \o x) =
                    [ok |-> TRUE, val |-> OneProperty(0, items[i], c).val, rest |-> OneProperty(0, items[i], c).rest \o x]
    <2>1. \A y : OneProperty(0, items[i], y) = Property(y)
      BY DEF OneProperty
    <2>2. Property(c).ok
      BY <1>6, <2>1
    <2>3. /\ Took(Property(c), c) /\ (Small(c) => Property(c).val \in Properties)
          /\ \A x \in Seq(Nat) : Property(c \o x) = Got(Property(c).val, Property(c).rest \o x)
      BY <2>2, PropertySound
    <2>4. Property(c).rest \in Seq(Nat) /\ Len(Property(c).rest) <= Len(c)
      BY ONLY <2>3 DEF Took
    <2> QED BY ONLY <2>1, <2>3, <2>4 DEF Got
  <1>7. PICK v, e : PropertyTurns!Comes(0, d, items, N, v, e)
    <2>1. PropertyTurns!InTurnOf(0, d, items).ok
      BY <1>1 DEF d
    <2>2. PropertyTurns!Prefixed(0, items, N)
      <3>1. \A i \in 1 .. N : \A c \in Seq(Nat) :
              OneProperty(0, items[i], c).ok =>
                /\ OneProperty(0, items[i], c).rest \in Seq(Nat) /\ Len(OneProperty(0, items[i], c).rest) <= Len(c)
                /\ \A x \in Seq(Nat) : OneProperty(0, items[i], c \o x) =
                     [ok |-> TRUE, val |-> OneProperty(0, items[i], c).val, rest |-> OneProperty(0, items[i], c).rest \o x]
        BY ONLY <1>6
      <3> QED BY <3>1 DEF PropertyTurns!Prefixed
    <2>3. N \in Nat /\ d \in Seq(Nat) /\ DOMAIN items = 1 .. N
      BY <1>5
    <2> QED BY ONLY <2>1, <2>2, <2>3, PropertyBasics, PropertyTurns!InTurnComes
  <1>71. /\ e \in Seq(Nat) /\ Len(e) <= Len(d) /\ v = [i \in 1 .. N |-> v[i]]
         /\ PropertyTurns!InTurnOf(0, d, items) = [ok |-> TRUE, val |-> v, rest |-> e]
         /\ \A x \in Seq(Nat) : PropertyTurns!InTurnOf(0, d \o x, items) = [ok |-> TRUE, val |-> v, rest |-> e \o x]
         /\ \A i \in 1 .. N : \E c \in Seq(Nat) :
              Len(c) <= Len(d) /\ OneProperty(0, items[i], c).ok /\ v[i] = OneProperty(0, items[i], c).val
    BY <1>7 DEF PropertyTurns!Comes
  <1>8. PropertyArray(b) = Got(v, e)
    BY <1>1, <1>71 DEF d, Got
  <1>9. PropertyArray(b).val = v /\ PropertyArray(b).rest = e
    BY <1>8, GotIs
  <1>10. e \in Seq(Nat) /\ Len(e) <= Len(b)
    <2>1. Len(e) \in Nat /\ Len(d) \in Nat /\ Len(b) \in Nat
      BY <1>5, <1>71
    <2> QED BY <1>5, <1>71, <2>1
  <1>11. ASSUME Small(b) PROVE v \in Lists(Properties)
    <2>1. ASSUME NEW i \in 1 .. N PROVE v[i] \in Properties
      <3>1. PICK c \in Seq(Nat) : Len(c) <= Len(d) /\ OneProperty(0, items[i], c).ok /\ v[i] = OneProperty(0, items[i], c).val
        BY <1>71
      <3>2. Small(c)
        BY <1>5, <1>11, <3>1, SmallPart
      <3> QED BY <1>6, <3>1, <3>2
    <2>2. v \in [1 .. N -> Properties]
      BY <1>71, <2>1
    <2>3. v \in Seq(Properties) /\ Len(v) = N
      BY <1>5, <2>2, IsSequence
    <2>4. N <= MaxInt
      BY <1>5, <1>11, SmallCount
    <2> QED BY <2>3, <2>4 DEF Lists
  <1>12. ASSUME NEW x \in Seq(Nat) PROVE PropertyArray(b \o x) = Got(v, e \o x)
    <2>1. PropertyArray(b \o x) = PropertyTurns!InTurnOf(0, d \o x, items)
      BY <1>4 DEF d
    <2> QED BY <1>71, <2>1 DEF Got
  <1> QED BY <1>8, <1>9, <1>10, <1>11, <1>12 DEF Took

-----------------------------------------------------------------------------
(* An optional authority and an optional key. *)

OptAuthority(b) ==
    IF read_bool(b).ok
    THEN IF read_bool(b).val = <<0>> THEN Got(<<>>, read_bool(b).rest)
         ELSE IF read_authority(read_bool(b).rest).ok
              THEN Got(<<read_authority(read_bool(b).rest).val>>, read_authority(read_bool(b).rest).rest) ELSE Fail
    ELSE Fail

(* read_optional of an authority, by name. *)
LEMMA OptAuthorityIs ==
    ASSUME NEW b
    PROVE  read_optional(b, read_authority) = OptAuthority(b)
  BY DEF read_optional, Then, OptAuthority

(* An optional authority is read back, there or not. *)
LEMMA OptAuthorityBack ==
    ASSUME NEW x \in Seq(Nat)
    PROVE  /\ <<0>> \in Seq(Nat) /\ Len(<<0>>) >= 1 /\ OptAuthority(<<0>> \o x) = Got(<<>>, x)
           /\ \A a \in Authorities : LET w == <<1>> \o write_authority(a)
                             IN  w \in Seq(Nat) /\ Len(w) >= 1 /\ OptAuthority(w \o x) = Got(<<CarriedAuthority(a)>>, x)
  <1> DEFINE g == <<0>>
             h == <<1>>
  <1>1. g \in Bools /\ h \in Bools /\ g = <<0>> /\ h # <<0>>
    BY DEF Bools
  <1> HIDE DEF g, h
  <1>2. \A y \in Seq(Nat) : g \in Seq(Nat) /\ Len(g) = 1 /\ read_bool(g \o y) = Got(g, y)
    BY <1>1, BoolBack
  <1>3. \A y \in Seq(Nat) : h \in Seq(Nat) /\ Len(h) = 1 /\ read_bool(h \o y) = Got(h, y)
    BY <1>1, BoolBack
  <1>4. OptAuthority(g \o x) = Got(<<>>, x)
    <2> DEFINE r == read_bool(g \o x)
    <2>0. r = Got(g, x)
      BY <1>2
    <2> HIDE DEF r
    <2>1. r.ok /\ r.val = <<0>> /\ r.rest = x
      BY <1>1, <2>0, GotIs
    <2> QED BY <2>1 DEF OptAuthority, r
  <1>5. ASSUME NEW a \in Authorities
        PROVE  LET w == h \o write_authority(a)
               IN  w \in Seq(Nat) /\ Len(w) >= 1 /\ OptAuthority(w \o x) = Got(<<CarriedAuthority(a)>>, x)
    <2> DEFINE u == write_authority(a)
               k == CarriedAuthority(a)
    <2>1. u \in Seq(Nat) /\ read_authority(u \o x) = Got(k, x)
      BY AuthorityBack
    <2> HIDE DEF u, k
    <2>2. u \o x \in Seq(Nat) /\ h \o u \in Seq(Nat) /\ (h \o u) \o x = h \o (u \o x)
      BY <1>3, <2>1, Joins, JoinedTwice, SMTT(60), ZenonT(60)
    <2>3. Len(h \o u) >= 1
      <3>1. Len(h \o u) = Len(h) + Len(u) /\ Len(u) \in Nat /\ Len(h) = 1
        BY <1>3, <2>1, Joins
      <3> QED BY <3>1
    <2>4. OptAuthority(h \o (u \o x)) = Got(<<k>>, x)
      <3> DEFINE r == read_bool(h \o (u \o x))
                 q == read_authority(u \o x)
      <3>0. r = Got(h, u \o x) /\ q = Got(k, x)
        BY <1>3, <2>1, <2>2
      <3>1. OptAuthority(h \o (u \o x)) = IF r.ok THEN IF r.val = <<0>> THEN Got(<<>>, r.rest)
                                   ELSE IF read_authority(r.rest).ok THEN Got(<<read_authority(r.rest).val>>, read_authority(r.rest).rest)
                                        ELSE Fail ELSE Fail
        BY DEF OptAuthority
      <3> HIDE DEF r
      <3>2. r.ok /\ r.val = h /\ r.rest = u \o x
        BY <3>0, GotIs, SMTT(60), ZenonT(60)
      <3>3. read_authority(r.rest) = q
        BY <3>2
      <3> HIDE DEF q
      <3>4. q.ok /\ q.val = k /\ q.rest = x
        BY <3>0, GotIs
      <3> QED BY <1>1, <3>1, <3>2, <3>3, <3>4
    <2> QED BY <2>2, <2>3, <2>4 DEF u, k
  <1>6. Len(g) >= 1 /\ g \in Seq(Nat)
    <2>1. g \in Seq(Nat) /\ Len(g) = 1 /\ read_bool(g \o x) = Got(g, x)
      BY <1>2
    <2> QED BY <2>1
  <1> QED BY <1>4, <1>5, <1>6 DEF g, h

(* What is read as an optional authority is one, whatever follows. *)
LEMMA OptAuthoritySound ==
    ASSUME NEW b \in Seq(Nat), OptAuthority(b).ok
    PROVE  LET r == OptAuthority(b)
           IN  /\ Took(r, b) /\ (Small(b) => r.val = <<>> \/ \E a \in Authorities : r.val = <<a>>)
               /\ \A x \in Seq(Nat) : OptAuthority(b \o x) = Got(r.val, r.rest \o x)
  <1> DEFINE p == read_bool(b)
             q == read_authority(p.rest)
  <1>1. /\ p.ok
        /\ \/ p.val = <<0>> /\ OptAuthority(b) = Got(<<>>, p.rest)
           \/ p.val # <<0>> /\ q.ok /\ OptAuthority(b) = Got(<<q.val>>, q.rest)
    BY FailIs DEF OptAuthority
  <1>2. Took(p, b) /\ \A x \in Seq(Nat) : read_bool(b \o x) = Got(p.val, p.rest \o x)
    BY <1>1, BoolSound
  <1> HIDE DEF p
  <1>3. p.rest \in Seq(Nat) /\ Len(p.rest) <= Len(b)
    BY <1>2 DEF Took
  <1>4. ASSUME NEW x \in Seq(Nat)
        PROVE  OptAuthority(b \o x) = IF p.val = <<0>> THEN Got(<<>>, p.rest \o x)
                                ELSE IF read_authority(p.rest \o x).ok
                                     THEN Got(<<read_authority(p.rest \o x).val>>, read_authority(p.rest \o x).rest) ELSE Fail
    <2> DEFINE r == read_bool(b \o x)
    <2>0. r = Got(p.val, p.rest \o x)
      BY <1>2
    <2>1. OptAuthority(b \o x) = IF r.ok THEN IF r.val = <<0>> THEN Got(<<>>, r.rest)
                           ELSE IF read_authority(r.rest).ok THEN Got(<<read_authority(r.rest).val>>, read_authority(r.rest).rest)
                                ELSE Fail ELSE Fail
      BY DEF OptAuthority
    <2> HIDE DEF r
    <2>2. r.ok /\ r.val = p.val /\ r.rest = p.rest \o x
      BY <2>0, GotIs, SMTT(60), ZenonT(60)
    <2> QED BY <2>1, <2>2
  <1>5. CASE p.val = <<0>>
    <2>1. OptAuthority(b) = Got(<<>>, p.rest)
      BY <1>1, <1>5
    <2>2. OptAuthority(b).val = <<>> /\ OptAuthority(b).rest = p.rest
      BY <2>1, GotIs
    <2>3. \A x \in Seq(Nat) : OptAuthority(b \o x) = Got(<<>>, p.rest \o x)
      BY <1>4, <1>5
    <2> QED BY <1>3, <2>1, <2>2, <2>3 DEF Took
  <1>6. CASE p.val # <<0>>
    <2>1. q.ok /\ OptAuthority(b) = Got(<<q.val>>, q.rest)
      BY <1>1, <1>6
    <2>2. /\ Took(q, p.rest) /\ (Small(p.rest) => q.val \in Authorities)
          /\ \A x \in Seq(Nat) : read_authority(p.rest \o x) = Got(q.val, q.rest \o x)
      BY <1>3, <2>1, AuthoritySound
    <2> HIDE DEF q
    <2>3. q.rest \in Seq(Nat) /\ Len(q.rest) <= Len(p.rest)
      BY <2>2 DEF Took
    <2>4. Len(q.rest) <= Len(b) /\ Len(b) <= Len(b)
      <3>1. Len(q.rest) \in Nat /\ Len(p.rest) \in Nat /\ Len(b) \in Nat
        BY <1>3, <2>3
      <3> QED BY <1>3, <2>3, <3>1
    <2>5. Small(b) => q.val \in Authorities
      BY <1>3, <2>2, <2>4, SmallPart
    <2>6. OptAuthority(b).val = <<q.val>> /\ OptAuthority(b).rest = q.rest
      BY <2>1, GotIs
    <2>7. ASSUME NEW x \in Seq(Nat) PROVE OptAuthority(b \o x) = Got(<<q.val>>, q.rest \o x)
      <3> DEFINE r == read_authority(p.rest \o x)
      <3>1. r = Got(q.val, q.rest \o x)
        BY <2>2
      <3>2. OptAuthority(b \o x) = IF r.ok THEN Got(<<r.val>>, r.rest) ELSE Fail
        BY <1>4, <1>6
      <3> HIDE DEF r
      <3> QED BY <3>1, <3>2, GotIs
    <2> QED BY <2>1, <2>3, <2>4, <2>5, <2>6, <2>7 DEF Took
  <1> QED BY <1>5, <1>6

OptKey(b) ==
    IF read_bool(b).ok
    THEN IF read_bool(b).val = <<0>> THEN Got(<<>>, read_bool(b).rest)
         ELSE IF read_key(read_bool(b).rest).ok
              THEN Got(<<read_key(read_bool(b).rest).val>>, read_key(read_bool(b).rest).rest) ELSE Fail
    ELSE Fail

(* read_optional of a key, by name. *)
LEMMA OptKeyIs ==
    ASSUME NEW b
    PROVE  read_optional(b, read_key) = OptKey(b)
  BY DEF read_optional, Then, OptKey

(* An optional key is read back, there or not. *)
LEMMA OptKeyBack ==
    ASSUME NEW x \in Seq(Nat)
    PROVE  /\ <<0>> \in Seq(Nat) /\ Len(<<0>>) >= 1 /\ OptKey(<<0>> \o x) = Got(<<>>, x)
           /\ \A a \in KeyBytes : LET w == <<1>> \o a
                             IN  w \in Seq(Nat) /\ Len(w) >= 1 /\ OptKey(w \o x) = Got(<<a>>, x)
  <1> DEFINE g == <<0>>
             h == <<1>>
  <1>1. g \in Bools /\ h \in Bools /\ g = <<0>> /\ h # <<0>>
    BY DEF Bools
  <1> HIDE DEF g, h
  <1>2. \A y \in Seq(Nat) : g \in Seq(Nat) /\ Len(g) = 1 /\ read_bool(g \o y) = Got(g, y)
    BY <1>1, BoolBack
  <1>3. \A y \in Seq(Nat) : h \in Seq(Nat) /\ Len(h) = 1 /\ read_bool(h \o y) = Got(h, y)
    BY <1>1, BoolBack
  <1>4. OptKey(g \o x) = Got(<<>>, x)
    <2> DEFINE r == read_bool(g \o x)
    <2>0. r = Got(g, x)
      BY <1>2
    <2> HIDE DEF r
    <2>1. r.ok /\ r.val = <<0>> /\ r.rest = x
      BY <1>1, <2>0, GotIs
    <2> QED BY <2>1 DEF OptKey, r
  <1>5. ASSUME NEW a \in KeyBytes
        PROVE  LET w == h \o a
               IN  w \in Seq(Nat) /\ Len(w) >= 1 /\ OptKey(w \o x) = Got(<<a>>, x)
    <2> DEFINE u == a
               k == a
    <2>1. u \in Seq(Nat) /\ read_key(u \o x) = Got(k, x)
      BY KeyBack
    <2> HIDE DEF u, k
    <2>2. u \o x \in Seq(Nat) /\ h \o u \in Seq(Nat) /\ (h \o u) \o x = h \o (u \o x)
      BY <1>3, <2>1, Joins, JoinedTwice, SMTT(60), ZenonT(60)
    <2>3. Len(h \o u) >= 1
      <3>1. Len(h \o u) = Len(h) + Len(u) /\ Len(u) \in Nat /\ Len(h) = 1
        BY <1>3, <2>1, Joins
      <3> QED BY <3>1
    <2>4. OptKey(h \o (u \o x)) = Got(<<k>>, x)
      <3> DEFINE r == read_bool(h \o (u \o x))
                 q == read_key(u \o x)
      <3>0. r = Got(h, u \o x) /\ q = Got(k, x)
        BY <1>3, <2>1, <2>2
      <3>1. OptKey(h \o (u \o x)) = IF r.ok THEN IF r.val = <<0>> THEN Got(<<>>, r.rest)
                                   ELSE IF read_key(r.rest).ok THEN Got(<<read_key(r.rest).val>>, read_key(r.rest).rest)
                                        ELSE Fail ELSE Fail
        BY DEF OptKey
      <3> HIDE DEF r
      <3>2. r.ok /\ r.val = h /\ r.rest = u \o x
        BY <3>0, GotIs, SMTT(60), ZenonT(60)
      <3>3. read_key(r.rest) = q
        BY <3>2
      <3> HIDE DEF q
      <3>4. q.ok /\ q.val = k /\ q.rest = x
        BY <3>0, GotIs
      <3> QED BY <1>1, <3>1, <3>2, <3>3, <3>4
    <2> QED BY <2>2, <2>3, <2>4 DEF u, k
  <1>6. Len(g) >= 1 /\ g \in Seq(Nat)
    <2>1. g \in Seq(Nat) /\ Len(g) = 1 /\ read_bool(g \o x) = Got(g, x)
      BY <1>2
    <2> QED BY <2>1
  <1> QED BY <1>4, <1>5, <1>6 DEF g, h

(* What is read as an optional key is one, whatever follows. *)
LEMMA OptKeySound ==
    ASSUME NEW b \in Seq(Nat), OptKey(b).ok
    PROVE  LET r == OptKey(b)
           IN  /\ Took(r, b) /\ (Small(b) => r.val = <<>> \/ \E a \in KeyBytes : r.val = <<a>>)
               /\ \A x \in Seq(Nat) : OptKey(b \o x) = Got(r.val, r.rest \o x)
  <1> DEFINE p == read_bool(b)
             q == read_key(p.rest)
  <1>1. /\ p.ok
        /\ \/ p.val = <<0>> /\ OptKey(b) = Got(<<>>, p.rest)
           \/ p.val # <<0>> /\ q.ok /\ OptKey(b) = Got(<<q.val>>, q.rest)
    BY FailIs DEF OptKey
  <1>2. Took(p, b) /\ \A x \in Seq(Nat) : read_bool(b \o x) = Got(p.val, p.rest \o x)
    BY <1>1, BoolSound
  <1> HIDE DEF p
  <1>3. p.rest \in Seq(Nat) /\ Len(p.rest) <= Len(b)
    BY <1>2 DEF Took
  <1>4. ASSUME NEW x \in Seq(Nat)
        PROVE  OptKey(b \o x) = IF p.val = <<0>> THEN Got(<<>>, p.rest \o x)
                                ELSE IF read_key(p.rest \o x).ok
                                     THEN Got(<<read_key(p.rest \o x).val>>, read_key(p.rest \o x).rest) ELSE Fail
    <2> DEFINE r == read_bool(b \o x)
    <2>0. r = Got(p.val, p.rest \o x)
      BY <1>2
    <2>1. OptKey(b \o x) = IF r.ok THEN IF r.val = <<0>> THEN Got(<<>>, r.rest)
                           ELSE IF read_key(r.rest).ok THEN Got(<<read_key(r.rest).val>>, read_key(r.rest).rest)
                                ELSE Fail ELSE Fail
      BY DEF OptKey
    <2> HIDE DEF r
    <2>2. r.ok /\ r.val = p.val /\ r.rest = p.rest \o x
      BY <2>0, GotIs, SMTT(60), ZenonT(60)
    <2> QED BY <2>1, <2>2
  <1>5. CASE p.val = <<0>>
    <2>1. OptKey(b) = Got(<<>>, p.rest)
      BY <1>1, <1>5
    <2>2. OptKey(b).val = <<>> /\ OptKey(b).rest = p.rest
      BY <2>1, GotIs
    <2>3. \A x \in Seq(Nat) : OptKey(b \o x) = Got(<<>>, p.rest \o x)
      BY <1>4, <1>5
    <2> QED BY <1>3, <2>1, <2>2, <2>3 DEF Took
  <1>6. CASE p.val # <<0>>
    <2>1. q.ok /\ OptKey(b) = Got(<<q.val>>, q.rest)
      BY <1>1, <1>6
    <2>2. /\ Took(q, p.rest) /\ (Small(p.rest) => q.val \in KeyBytes)
          /\ \A x \in Seq(Nat) : read_key(p.rest \o x) = Got(q.val, q.rest \o x)
      BY <1>3, <2>1, KeySound
    <2> HIDE DEF q
    <2>3. q.rest \in Seq(Nat) /\ Len(q.rest) <= Len(p.rest)
      BY <2>2 DEF Took
    <2>4. Len(q.rest) <= Len(b) /\ Len(b) <= Len(b)
      <3>1. Len(q.rest) \in Nat /\ Len(p.rest) \in Nat /\ Len(b) \in Nat
        BY <1>3, <2>3
      <3> QED BY <1>3, <2>3, <3>1
    <2>5. Small(b) => q.val \in KeyBytes
      BY <1>3, <2>2, <2>4, SmallPart
    <2>6. OptKey(b).val = <<q.val>> /\ OptKey(b).rest = q.rest
      BY <2>1, GotIs
    <2>7. ASSUME NEW x \in Seq(Nat) PROVE OptKey(b \o x) = Got(<<q.val>>, q.rest \o x)
      <3> DEFINE r == read_key(p.rest \o x)
      <3>1. r = Got(q.val, q.rest \o x)
        BY <2>2
      <3>2. OptKey(b \o x) = IF r.ok THEN Got(<<r.val>>, r.rest) ELSE Fail
        BY <1>4, <1>6
      <3> HIDE DEF r
      <3> QED BY <3>1, <3>2, GotIs
    <2> QED BY <2>1, <2>3, <2>4, <2>5, <2>6, <2>7 DEF Took
  <1> QED BY <1>5, <1>6

-----------------------------------------------------------------------------
(* The symbols of all chains are different ones, none of them a NAI. *)
Symbols == {HBD, SBD, TBD, HIVE, STEEM, TESTS, VESTS}
SymbolOf(s, n, first) == s \in Seq(1 .. 127) /\ Len(s) = n /\ s[1] = first

(* The symbols of the chains are text of up to seven characters, no two    *)
(* alike, none a NAI. *)
LEMMA SymbolsDiffer ==
    /\ \A s \in Symbols : s \in Seq(1 .. 127) /\ Len(s) \in 1 .. 7 /\ s \notin {<<13>>, <<21>>, <<37>>}
    /\ HBD \notin {SBD, TBD, HIVE, STEEM, TESTS, VESTS}
    /\ SBD \notin {TBD, HIVE, STEEM, TESTS, VESTS}
    /\ TBD \notin {HIVE, STEEM, TESTS, VESTS}
    /\ HIVE \notin {STEEM, TESTS, VESTS}
    /\ STEEM \notin {TESTS, VESTS} /\ TESTS # VESTS
  <1>1. SymbolOf(HBD, 3, 72)
    BY DEF HBD, SymbolOf
  <1>2. SymbolOf(SBD, 3, 83)
    BY DEF SBD, SymbolOf
  <1>3. SymbolOf(TBD, 3, 84)
    BY DEF TBD, SymbolOf
  <1>4. SymbolOf(HIVE, 4, 72)
    BY DEF HIVE, SymbolOf
  <1>5. SymbolOf(STEEM, 5, 83)
    BY DEF STEEM, SymbolOf
  <1>6. SymbolOf(TESTS, 5, 84)
    BY DEF TESTS, SymbolOf
  <1>7. SymbolOf(VESTS, 5, 86)
    BY DEF VESTS, SymbolOf
  <1>8. ASSUME NEW s, NEW t, NEW m, NEW n, NEW x, NEW y, SymbolOf(s, m, x), SymbolOf(t, n, y), m # n \/ x # y
        PROVE  s # t
    BY ONLY <1>8 DEF SymbolOf
  <1>9. 3 # 4 /\ 3 # 5 /\ 4 # 5 /\ 72 # 83 /\ 72 # 84 /\ 83 # 84 /\ 83 # 86 /\ 84 # 86
    OBVIOUS
  <1>10. \A s \in Symbols : \E n \in 3 .. 5, x \in Nat : SymbolOf(s, n, x)
    <2>1. 3 \in 3 .. 5 /\ 4 \in 3 .. 5 /\ 5 \in 3 .. 5 /\ 72 \in Nat /\ 83 \in Nat /\ 84 \in Nat /\ 86 \in Nat
      OBVIOUS
    <2> QED BY ONLY <1>1, <1>2, <1>3, <1>4, <1>5, <1>6, <1>7, <2>1 DEF Symbols
  <1>11. ASSUME NEW s \in Symbols
         PROVE  s \in Seq(1 .. 127) /\ Len(s) \in 1 .. 7 /\ s \notin {<<13>>, <<21>>, <<37>>}
    <2>1. PICK n \in 3 .. 5, x \in Nat : SymbolOf(s, n, x)
      BY <1>10
    <2>2. s \in Seq(1 .. 127) /\ Len(s) = n
      BY ONLY <2>1 DEF SymbolOf
    <2>3. Len(s) \in 1 .. 7 /\ Len(s) # 1
      BY ONLY <2>1, <2>2
    <2>4. Len(<<13>>) = 1 /\ Len(<<21>>) = 1 /\ Len(<<37>>) = 1
      OBVIOUS
    <2> QED BY ONLY <2>2, <2>3, <2>4
  <1>12. HBD \notin {SBD, TBD, HIVE, STEEM, TESTS, VESTS}
    BY ONLY <1>1, <1>2, <1>3, <1>4, <1>5, <1>6, <1>7, <1>8, <1>9
  <1>13. SBD \notin {TBD, HIVE, STEEM, TESTS, VESTS}
    BY ONLY <1>2, <1>3, <1>4, <1>5, <1>6, <1>7, <1>8, <1>9
  <1>14. TBD \notin {HIVE, STEEM, TESTS, VESTS}
    BY ONLY <1>3, <1>4, <1>5, <1>6, <1>7, <1>8, <1>9
  <1>15. HIVE \notin {STEEM, TESTS, VESTS}
    BY ONLY <1>4, <1>5, <1>6, <1>7, <1>8, <1>9
  <1>16. STEEM \notin {TESTS, VESTS} /\ TESTS # VESTS
    BY ONLY <1>5, <1>6, <1>7, <1>8, <1>9
  <1> QED BY ONLY <1>11, <1>12, <1>13, <1>14, <1>15, <1>16

(* Which asset a symbol, a NAI or a wire symbol finds: the first it is of. *)
IsOf(a, s) == s \in {a.symbol, a.nai, a.wire_symbol}

(* Every chain has three assets. *)
LEMMA ThreeAssets ==
    ASSUME NEW chain \in DOMAIN Assets
    PROVE  DOMAIN Assets[chain] = 1 .. 3
  BY DEF Assets

(* The asset that a symbol names is the first that has it in any of its    *)
(* three names. *)
LEMMA AssetIs ==
    ASSUME NEW chain \in DOMAIN Assets, NEW s
    PROVE  asset(chain, s) = IF IsOf(Assets[chain][1], s) THEN <<Assets[chain][1]>>
                             ELSE IF IsOf(Assets[chain][2], s) THEN <<Assets[chain][2]>>
                             ELSE IF IsOf(Assets[chain][3], s) THEN <<Assets[chain][3]>> ELSE <<>>
  <1> DEFINE k == Assets[chain]
             named == {i \in DOMAIN k : IsOf(k[i], s)}
             least == CHOOSE i \in named : \A j \in named : i <= j
  <1>1. asset(chain, s) = IF named = {} THEN <<>> ELSE <<k[least]>>
    BY DEF asset, IsOf
  <1>0. named = {i \in 1 .. 3 : IsOf(k[i], s)}
    BY ThreeAssets
  <1>10. (\E i \in named : \A j \in named : i <= j) => least \in named /\ \A j \in named : least <= j
    OBVIOUS
  <1> HIDE DEF k, named, least
  <1>2. \A i \in 1 .. 3 : i = 1 \/ i = 2 \/ i = 3
    OBVIOUS
  <1>3. CASE IsOf(k[1], s)
    <2>1. 1 \in named /\ \A j \in named : 1 <= j
      BY <1>0, <1>3
    <2>2. least \in named /\ least <= 1
      BY <1>10, <2>1
    <2>3. least = 1
      BY <1>0, <2>1, <2>2
    <2> QED BY <1>1, <1>3, <2>1, <2>3 DEF k
  <1>4. CASE ~IsOf(k[1], s) /\ IsOf(k[2], s)
    <2>1. 2 \in named /\ \A j \in named : 2 <= j
      BY <1>0, <1>2, <1>4
    <2>2. least \in named /\ least <= 2
      BY <1>10, <2>1
    <2>3. least = 2
      BY <1>0, <2>1, <2>2
    <2> QED BY <1>1, <1>4, <2>1, <2>3 DEF k
  <1>5. CASE ~IsOf(k[1], s) /\ ~IsOf(k[2], s) /\ IsOf(k[3], s)
    <2>1. 3 \in named /\ \A j \in named : j = 3
      BY <1>0, <1>2, <1>5
    <2>2. least = 3
      BY <1>10, <2>1
    <2> QED BY <1>1, <1>5, <2>1, <2>2 DEF k
  <1>6. CASE ~IsOf(k[1], s) /\ ~IsOf(k[2], s) /\ ~IsOf(k[3], s)
    <2>1. named = {}
      BY <1>0, <1>2, <1>6
    <2> QED BY <1>1, <1>6, <2>1 DEF k
  <1> QED BY <1>3, <1>4, <1>5, <1>6

(* The assets of each chain, field by field. *)
AssetFields(a, nai, symbol, wire, precision) ==
    a.nai = nai /\ a.symbol = symbol /\ a.wire_symbol = wire /\ a.precision = precision

(* The assets of the chains. *)
LEMMA AssetsOf ==
    /\ AssetFields(Assets["Hive"][1], <<13>>, HBD, SBD, 3)
    /\ AssetFields(Assets["Hive"][2], <<21>>, HIVE, STEEM, 3)
    /\ AssetFields(Assets["Hive"][3], <<37>>, VESTS, VESTS, 6)
    /\ AssetFields(Assets["HiveTestnet"][1], <<13>>, TBD, TBD, 3)
    /\ AssetFields(Assets["HiveTestnet"][2], <<21>>, TESTS, TESTS, 3)
    /\ AssetFields(Assets["HiveTestnet"][3], <<37>>, VESTS, VESTS, 6)
    /\ AssetFields(Assets["SteemLegacy"][1], <<13>>, SBD, SBD, 3)
    /\ AssetFields(Assets["SteemLegacy"][2], <<21>>, STEEM, STEEM, 3)
    /\ AssetFields(Assets["SteemLegacy"][3], <<37>>, VESTS, VESTS, 6)
    /\ DOMAIN Assets = {"Hive", "HiveTestnet", "SteemLegacy"}
  BY DEF Assets, ChainAsset, AssetFields

(* Nothing of one asset names another of the same chain on the wire. *)
Apart(k) ==
    \A i, j \in 1 .. 3 : IsOf(k[j], k[i].wire_symbol) => i = j

(* An asset's name on the wire is no other asset's, on the same chain. *)
LEMMA AssetsApart ==
    ASSUME NEW chain \in DOMAIN Assets
    PROVE  Apart(Assets[chain])
  <1> SUFFICES ASSUME NEW i \in 1 .. 3, NEW j \in 1 .. 3, i # j
               PROVE  ~IsOf(Assets[chain][j], Assets[chain][i].wire_symbol)
    BY DEF Apart
  <1>1. <<i, j>> \in {<<1, 2>>, <<1, 3>>, <<2, 1>>, <<2, 3>>, <<3, 1>>, <<3, 2>>}
    OBVIOUS
  <1>2. CASE chain = "Hive"
    <2> DEFINE k == Assets["Hive"]
    <2>1. /\ AssetFields(k[1], <<13>>, HBD, SBD, 3) /\ AssetFields(k[2], <<21>>, HIVE, STEEM, 3)
          /\ AssetFields(k[3], <<37>>, VESTS, VESTS, 6)
      BY AssetsOf
    <2> HIDE DEF k
    <2>2. /\ SBD \notin {<<21>>, <<37>>, HIVE, STEEM, VESTS}
          /\ STEEM \notin {<<13>>, <<37>>, HBD, SBD, VESTS}
          /\ VESTS \notin {<<13>>, <<21>>, HBD, SBD, HIVE, STEEM}
      BY ONLY SymbolsDiffer DEF Symbols
    <2>3. ~IsOf(k[j], k[i].wire_symbol)
      BY ONLY <1>1, <2>1, <2>2 DEF AssetFields, IsOf
    <2> QED BY <1>2, <2>3 DEF k
  <1>3. CASE chain = "HiveTestnet"
    <2> DEFINE k == Assets["HiveTestnet"]
    <2>1. /\ AssetFields(k[1], <<13>>, TBD, TBD, 3) /\ AssetFields(k[2], <<21>>, TESTS, TESTS, 3)
          /\ AssetFields(k[3], <<37>>, VESTS, VESTS, 6)
      BY AssetsOf
    <2> HIDE DEF k
    <2>2. /\ TBD \notin {<<21>>, <<37>>, TESTS, TESTS, VESTS}
          /\ TESTS \notin {<<13>>, <<37>>, TBD, TBD, VESTS}
          /\ VESTS \notin {<<13>>, <<21>>, TBD, TBD, TESTS, TESTS}
      BY ONLY SymbolsDiffer DEF Symbols
    <2>3. ~IsOf(k[j], k[i].wire_symbol)
      BY ONLY <1>1, <2>1, <2>2 DEF AssetFields, IsOf
    <2> QED BY <1>3, <2>3 DEF k
  <1>4. CASE chain = "SteemLegacy"
    <2> DEFINE k == Assets["SteemLegacy"]
    <2>1. /\ AssetFields(k[1], <<13>>, SBD, SBD, 3) /\ AssetFields(k[2], <<21>>, STEEM, STEEM, 3)
          /\ AssetFields(k[3], <<37>>, VESTS, VESTS, 6)
      BY AssetsOf
    <2> HIDE DEF k
    <2>2. /\ SBD \notin {<<21>>, <<37>>, STEEM, STEEM, VESTS}
          /\ STEEM \notin {<<13>>, <<37>>, SBD, SBD, VESTS}
          /\ VESTS \notin {<<13>>, <<21>>, SBD, SBD, STEEM, STEEM}
      BY ONLY SymbolsDiffer DEF Symbols
    <2>3. ~IsOf(k[j], k[i].wire_symbol)
      BY ONLY <1>1, <2>1, <2>2 DEF AssetFields, IsOf
    <2> QED BY <1>4, <2>3 DEF k
  <1> QED BY <1>2, <1>3, <1>4, AssetsOf

(* What the symbol on the wire finds is the asset of that wire symbol. *)
LEMMA WireSymbolFinds ==
    ASSUME NEW chain \in DOMAIN Assets, NEW i \in 1 .. 3
    PROVE  asset(chain, Assets[chain][i].wire_symbol) = <<Assets[chain][i]>>
  <1> DEFINE k == Assets[chain]
             s == k[i].wire_symbol
  <1>1. i = 1 \/ i = 2 \/ i = 3
    OBVIOUS
  <1>3. asset(chain, s) = IF IsOf(k[1], s) THEN <<k[1]>> ELSE IF IsOf(k[2], s) THEN <<k[2]>>
                          ELSE IF IsOf(k[3], s) THEN <<k[3]>> ELSE <<>>
    BY AssetIs
  <1>4. IsOf(k[i], s) /\ \A j \in 1 .. 3 : IsOf(k[j], s) => i = j
    BY AssetsApart DEF Apart, IsOf
  <1> HIDE DEF k, s
  <1>5. 1 \in 1 .. 3 /\ 2 \in 1 .. 3 /\ 3 \in 1 .. 3
    OBVIOUS
  <1>6. asset(chain, s) = <<k[i]>>
    BY <1>1, <1>3, <1>4, <1>5
  <1> QED BY <1>6 DEF k, s

(* The assets there are, and those a chain can read. *)
LEMMA AssetTyped ==
    ASSUME NEW chain \in DOMAIN Assets, NEW i \in 1 .. 3
    PROVE  LET a == Assets[chain][i]
           IN  /\ a.symbol \in Symbols /\ a.wire_symbol \in Symbols /\ a.precision \in Nat
               /\ a \in KnownAssets /\ a \in Denominations(chain)
  <1> DEFINE a == Assets[chain][i]
  <1>1. i = 1 \/ i = 2 \/ i = 3
    OBVIOUS
  <1>2. 3 \in Nat /\ 6 \in Nat
    OBVIOUS
  <1>3. a.symbol \in Symbols /\ a.wire_symbol \in Symbols /\ a.precision \in Nat
    <2>1. /\ AssetFields(Assets["Hive"][1], <<13>>, HBD, SBD, 3)
          /\ AssetFields(Assets["Hive"][2], <<21>>, HIVE, STEEM, 3)
          /\ AssetFields(Assets["Hive"][3], <<37>>, VESTS, VESTS, 6)
      BY AssetsOf
    <2>2. /\ AssetFields(Assets["HiveTestnet"][1], <<13>>, TBD, TBD, 3)
          /\ AssetFields(Assets["HiveTestnet"][2], <<21>>, TESTS, TESTS, 3)
          /\ AssetFields(Assets["HiveTestnet"][3], <<37>>, VESTS, VESTS, 6)
      BY AssetsOf
    <2>3. /\ AssetFields(Assets["SteemLegacy"][1], <<13>>, SBD, SBD, 3)
          /\ AssetFields(Assets["SteemLegacy"][2], <<21>>, STEEM, STEEM, 3)
          /\ AssetFields(Assets["SteemLegacy"][3], <<37>>, VESTS, VESTS, 6)
      BY AssetsOf
    <2>4. chain = "Hive" \/ chain = "HiveTestnet" \/ chain = "SteemLegacy"
      BY AssetsOf
    <2>5. ASSUME NEW b, NEW n, NEW s, NEW w, NEW p, AssetFields(b, n, s, w, p), s \in Symbols, w \in Symbols, p \in Nat
          PROVE  b.symbol \in Symbols /\ b.wire_symbol \in Symbols /\ b.precision \in Nat
      BY ONLY <2>5 DEF AssetFields
    <2>6. /\ HBD \in Symbols /\ SBD \in Symbols /\ TBD \in Symbols /\ HIVE \in Symbols /\ STEEM \in Symbols
          /\ TESTS \in Symbols /\ VESTS \in Symbols
      BY DEF Symbols
    <2> DEFINE Good(b) == b.symbol \in Symbols /\ b.wire_symbol \in Symbols /\ b.precision \in Nat
    <2>7. Good(Assets["Hive"][1]) /\ Good(Assets["Hive"][2]) /\ Good(Assets["Hive"][3])
      BY ONLY <1>2, <2>1, <2>5, <2>6
    <2>8. Good(Assets["HiveTestnet"][1]) /\ Good(Assets["HiveTestnet"][2]) /\ Good(Assets["HiveTestnet"][3])
      BY ONLY <1>2, <2>2, <2>5, <2>6
    <2>9. Good(Assets["SteemLegacy"][1]) /\ Good(Assets["SteemLegacy"][2]) /\ Good(Assets["SteemLegacy"][3])
      BY ONLY <1>2, <2>3, <2>5, <2>6
    <2> HIDE DEF Good
    <2>10. Good(Assets[chain][i])
      BY ONLY <1>1, <2>4, <2>7, <2>8, <2>9
    <2> QED BY <2>10 DEF Good
  <1>4. i \in DOMAIN Assets[chain]
    BY ThreeAssets
  <1>5. a \in KnownAssets
    BY <1>4 DEF KnownAssets
  <1> QED BY <1>3, <1>4, <1>5 DEF Denominations

(* A known asset is one of some chain. *)
LEMMA KnownIs ==
    ASSUME NEW a \in KnownAssets
    PROVE  \E c \in DOMAIN Assets, i \in 1 .. 3 : a = Assets[c][i]
  BY ThreeAssets DEF KnownAssets

(* A denomination: its symbol on the wire finds an asset of the same one. *)
LEMMA DenominationFound ==
    ASSUME NEW chain \in DOMAIN Assets, NEW a \in Denominations(chain)
    PROVE  /\ a.symbol \in Symbols /\ a.wire_symbol \in Symbols /\ a.precision \in Nat
           /\ \E e \in Denominations(chain) :
                /\ asset(chain, a.wire_symbol) = <<e>>
                /\ e.wire_symbol = a.wire_symbol /\ e.precision = a.precision
  <1>1. PICK i \in 1 .. 3 : /\ Assets[chain][i].wire_symbol = a.wire_symbol
                            /\ Assets[chain][i].precision = a.precision
    BY ThreeAssets DEF Denominations
  <1>2. asset(chain, a.wire_symbol) = <<Assets[chain][i]>>
    BY <1>1, WireSymbolFinds
  <1>3. Assets[chain][i] \in Denominations(chain)
    BY AssetTyped
  <1>4. a \in KnownAssets
    BY DEF Denominations
  <1>5. PICK c \in DOMAIN Assets, j \in 1 .. 3 : a = Assets[c][j]
    BY <1>4, KnownIs
  <1>6. a.symbol \in Symbols /\ a.wire_symbol \in Symbols /\ a.precision \in Nat
    BY <1>5, AssetTyped
  <1> QED BY <1>1, <1>2, <1>3, <1>6

(* Whatever is found is a denomination. *)
LEMMA FoundIsDenomination ==
    ASSUME NEW chain \in DOMAIN Assets, NEW s, asset(chain, s) # <<>>
    PROVE  \E e \in Denominations(chain) : asset(chain, s) = <<e>>
  <1>1. 1 \in 1 .. 3 /\ 2 \in 1 .. 3 /\ 3 \in 1 .. 3
    OBVIOUS
  <1> QED BY <1>1, AssetIs, AssetTyped

(* Hive's own names, and Steem's, find the asset of the wire symbol on     *)
(* Hive; the testnet's do not.                                             *)
LEMMA HiveFinds ==
    LET k == Assets["Hive"]
    IN  /\ asset("Hive", HBD) = <<k[1]>> /\ asset("Hive", SBD) = <<k[1]>>
        /\ asset("Hive", HIVE) = <<k[2]>> /\ asset("Hive", STEEM) = <<k[2]>>
        /\ asset("Hive", VESTS) = <<k[3]>> /\ asset("Hive", TBD) = <<>> /\ asset("Hive", TESTS) = <<>>
  <1> DEFINE k == Assets["Hive"]
  <1>1. /\ AssetFields(k[1], <<13>>, HBD, SBD, 3) /\ AssetFields(k[2], <<21>>, HIVE, STEEM, 3)
        /\ AssetFields(k[3], <<37>>, VESTS, VESTS, 6)
    BY AssetsOf
  <1>2. "Hive" \in DOMAIN Assets
    BY AssetsOf
  <1>3. \A s : asset("Hive", s) = IF IsOf(k[1], s) THEN <<k[1]>> ELSE IF IsOf(k[2], s) THEN <<k[2]>>
                                  ELSE IF IsOf(k[3], s) THEN <<k[3]>> ELSE <<>>
    BY <1>2, AssetIs
  <1> HIDE DEF k
  <1>4. \A s \in Symbols : s \notin {<<13>>, <<21>>, <<37>>}
    BY SymbolsDiffer
  <1>5. /\ HBD \in Symbols /\ SBD \in Symbols /\ TBD \in Symbols /\ HIVE \in Symbols /\ STEEM \in Symbols
        /\ TESTS \in Symbols /\ VESTS \in Symbols
    BY DEF Symbols
  <1>6. /\ \A s \in Symbols : IsOf(k[1], s) <=> s \in {HBD, SBD}
        /\ \A s \in Symbols : IsOf(k[2], s) <=> s \in {HIVE, STEEM}
        /\ \A s \in Symbols : IsOf(k[3], s) <=> s = VESTS
    BY ONLY <1>1, <1>4 DEF AssetFields, IsOf
  <1> QED BY ONLY <1>3, <1>5, <1>6, SymbolsDiffer DEF k

-----------------------------------------------------------------------------
(* The symbol an asset has on a chain, on Hive. *)
LEMMA SymbolOnHive ==
    ASSUME NEW chain \in DOMAIN Assets, NEW a \in Denominations(chain)
    PROVE  /\ chain # "HiveTestnet" => asset("Hive", a.symbol) # <<>>
           /\ asset("Hive", a.symbol) # <<>> =>
                \E h \in Denominations(chain) :
                  /\ asset("Hive", a.symbol) = <<h>>
                  /\ h.wire_symbol = a.wire_symbol /\ h.precision = a.precision
  <1> DEFINE k == Assets["Hive"]
             Alike(h, b) == h.wire_symbol = b.wire_symbol /\ h.precision = b.precision
             Finds(b) == asset("Hive", b.symbol) # <<>> =>
                           \E h \in KnownAssets : asset("Hive", b.symbol) = <<h>> /\ Alike(h, b)
             Named(b) == b.wire_symbol \in {SBD, STEEM, VESTS} => asset("Hive", b.symbol) # <<>>
  <1>1. k[1] \in KnownAssets /\ k[2] \in KnownAssets /\ k[3] \in KnownAssets
    <2>1. 1 \in 1 .. 3 /\ 2 \in 1 .. 3 /\ 3 \in 1 .. 3 /\ "Hive" \in DOMAIN Assets
      BY AssetsOf
    <2> QED BY <2>1, AssetTyped
  <1>2. /\ AssetFields(k[1], <<13>>, HBD, SBD, 3) /\ AssetFields(k[2], <<21>>, HIVE, STEEM, 3)
        /\ AssetFields(k[3], <<37>>, VESTS, VESTS, 6)
    BY AssetsOf
  <1>3. /\ asset("Hive", HBD) = <<k[1]>> /\ asset("Hive", SBD) = <<k[1]>>
        /\ asset("Hive", HIVE) = <<k[2]>> /\ asset("Hive", STEEM) = <<k[2]>>
        /\ asset("Hive", VESTS) = <<k[3]>> /\ asset("Hive", TBD) = <<>> /\ asset("Hive", TESTS) = <<>>
    BY HiveFinds
  <1>4. ASSUME NEW b, NEW n, NEW s, NEW w, NEW p, AssetFields(b, n, s, w, p),
               NEW h, asset("Hive", s) = <<h>>, h \in KnownAssets, NEW m, NEW t, AssetFields(h, m, t, w, p)
        PROVE  Finds(b) /\ Named(b)
    BY ONLY <1>4 DEF AssetFields
  <1>5. ASSUME NEW b, NEW n, NEW s, NEW w, NEW p, AssetFields(b, n, s, w, p),
               asset("Hive", s) = <<>>, w \notin {SBD, STEEM, VESTS}
        PROVE  Finds(b) /\ Named(b)
    BY ONLY <1>5 DEF AssetFields
  <1> DEFINE Both(b) == Finds(b) /\ Named(b)
  <1>6. ASSUME NEW c \in DOMAIN Assets, NEW i \in 1 .. 3 PROVE Both(Assets[c][i])
    <2>1. i = 1 \/ i = 2 \/ i = 3
      OBVIOUS
    <2>2. c = "Hive" \/ c = "HiveTestnet" \/ c = "SteemLegacy"
      BY AssetsOf
    <2> DEFINE t == Assets["HiveTestnet"]
               l == Assets["SteemLegacy"]
    <2>3. /\ AssetFields(t[1], <<13>>, TBD, TBD, 3) /\ AssetFields(t[2], <<21>>, TESTS, TESTS, 3)
          /\ AssetFields(t[3], <<37>>, VESTS, VESTS, 6)
      BY AssetsOf
    <2>4. /\ AssetFields(l[1], <<13>>, SBD, SBD, 3) /\ AssetFields(l[2], <<21>>, STEEM, STEEM, 3)
          /\ AssetFields(l[3], <<37>>, VESTS, VESTS, 6)
      BY AssetsOf
    <2>5. TBD \notin {SBD, STEEM, VESTS} /\ TESTS \notin {SBD, STEEM, VESTS}
      BY ONLY SymbolsDiffer
    <2> HIDE DEF k, t, l, Finds, Named
    <2>6. Both(k[1]) /\ Both(k[2]) /\ Both(k[3])
      BY ONLY <1>1, <1>2, <1>3, <1>4
    <2>7. Both(t[1]) /\ Both(t[2])
      BY ONLY <2>3, <2>5, <1>3, <1>5
    <2>8. Both(t[3])
      BY ONLY <1>1, <1>2, <2>3, <1>3, <1>4
    <2>9. Both(l[1]) /\ Both(l[2]) /\ Both(l[3])
      BY ONLY <1>1, <1>2, <2>4, <1>3, <1>4
    <2> HIDE DEF Both
    <2>10. /\ c = "Hive" => Both(Assets[c][1]) /\ Both(Assets[c][2]) /\ Both(Assets[c][3])
           /\ c = "HiveTestnet" => Both(Assets[c][1]) /\ Both(Assets[c][2]) /\ Both(Assets[c][3])
           /\ c = "SteemLegacy" => Both(Assets[c][1]) /\ Both(Assets[c][2]) /\ Both(Assets[c][3])
      BY ONLY <2>6, <2>7, <2>8, <2>9 DEF k, t, l
    <2> QED BY ONLY <2>1, <2>2, <2>10
  <1>7. a \in KnownAssets
    BY DEF Denominations
  <1>8. PICK c \in DOMAIN Assets, i \in 1 .. 3 : a = Assets[c][i]
    BY <1>7, KnownIs
  <1>9. Finds(a) /\ Named(a)
    BY ONLY <1>6, <1>8
  <1>10. ASSUME chain # "HiveTestnet" PROVE a.wire_symbol \in {SBD, STEEM, VESTS}
    <2>1. PICK j \in 1 .. 3 : Assets[chain][j].wire_symbol = a.wire_symbol
      BY ThreeAssets DEF Denominations
    <2>2. j = 1 \/ j = 2 \/ j = 3
      OBVIOUS
    <2>3. CASE chain = "Hive"
      BY ONLY <1>2, <2>1, <2>2, <2>3 DEF AssetFields
    <2>4. CASE chain = "SteemLegacy"
      <3>1. /\ AssetFields(Assets[chain][1], <<13>>, SBD, SBD, 3) /\ AssetFields(Assets[chain][2], <<21>>, STEEM, STEEM, 3)
            /\ AssetFields(Assets[chain][3], <<37>>, VESTS, VESTS, 6)
        BY <2>4, AssetsOf
      <3> QED BY ONLY <2>1, <2>2, <3>1 DEF AssetFields
    <2> QED BY <1>10, <2>3, <2>4, AssetsOf
  <1>11. \A h \in KnownAssets : Alike(h, a) => h \in Denominations(chain)
    BY DEF Denominations
  <1> QED BY <1>9, <1>10, <1>11

(* Amounts, and what they are made of. *)
LEMMA AmountIs ==
    ASSUME NEW chain, NEW v \in Amounts(chain)
    PROVE  /\ v.units \in Fixed(8)
           /\ \E a \in Denominations(chain) : /\ v = Amount(v.units, a) /\ v.precision = a.precision
                                              /\ v.symbol = a.symbol /\ v.wire_symbol = a.wire_symbol
  <1>1. v \in AmountFields
    BY DEF Amounts
  <1>2. v.units \in Fixed(8)
    BY <1>1 DEF AmountFields
  <1>3. PICK a \in Denominations(chain) : v = Amount(v.units, a)
    BY DEF Amounts
  <1>4. v.precision = a.precision /\ v.symbol = a.symbol /\ v.wire_symbol = a.wire_symbol
    <2> DEFINE u == v.units
               w == Amount(u, a)
    <2>1. w.precision = a.precision /\ w.symbol = a.symbol /\ w.wire_symbol = a.wire_symbol
      BY DEF Amount
    <2> HIDE DEF u
    <2>2. v = w
      BY <1>3 DEF u
    <2> QED BY <2>1, <2>2
  <1> QED BY <1>2, <1>3, <1>4

(* An amount of an asset that the chain has on the wire is one the chain   *)
(* takes. *)
LEMMA AmountMade ==
    ASSUME NEW chain \in DOMAIN Assets, NEW u \in Fixed(8), NEW a \in Denominations(chain)
    PROVE  LET v == Amount(u, a)
           IN  /\ v \in Amounts(chain) /\ v.units = u /\ v.precision = a.precision
               /\ v.symbol = a.symbol /\ v.wire_symbol = a.wire_symbol
  <1>1. a.symbol \in Seq(Nat) /\ a.wire_symbol \in Seq(Nat) /\ a.precision \in Nat
    <2>1. a.symbol \in Symbols /\ a.wire_symbol \in Symbols /\ a.precision \in Nat
      BY DenominationFound
    <2>2. \A s \in Symbols : s \in Seq(1 .. 127)
      BY SymbolsDiffer
    <2>3. (1 .. 127) \subseteq Nat
      OBVIOUS
    <2> QED BY <2>1, <2>2, <2>3, SeqMonotone
  <1> DEFINE v == Amount(u, a)
  <1>2. v.units = u /\ v.precision = a.precision /\ v.symbol = a.symbol /\ v.wire_symbol = a.wire_symbol
    BY DEF Amount
  <1>3. v \in AmountFields
    BY <1>1 DEF Amount, AmountFields
  <1>4. v = Amount(v.units, a)
    BY <1>2
  <1> HIDE DEF v
  <1>5. v \in Amounts(chain)
    BY <1>3, <1>4 DEF Amounts
  <1> QED BY <1>2, <1>5 DEF v

(* A symbol is padded to seven bytes and found again. *)
Padded(w) == [i \in 1 .. 7 |-> IF i <= Len(w) THEN w[i] ELSE 0]
Ends(raw) == Cardinality({i \in 1 .. 7 : \A j \in 1 .. i : raw[j] # 0})

(* A symbol ends where the zeros begin. *)
LEMMA PaddedIs ==
    ASSUME NEW w \in Seq(1 .. 127), Len(w) \in 1 .. 7
    PROVE  LET raw == Padded(w)
           IN  /\ raw \in Fixed(7) /\ Ends(raw) = Len(w) /\ SubSeq(raw, 1, Len(w)) = w
               /\ \A i \in (Len(w) + 1) .. 7 : raw[i] = 0
               /\ \A i \in 1 .. Len(w) : raw[i] < 128
  <1> DEFINE n == Len(w)
             raw == Padded(w)
  <1>1. n \in 1 .. 7 /\ n \in Nat /\ DOMAIN w = 1 .. n
    OBVIOUS
  <1> DEFINE Char == 1 .. 127
  <1>0. \A c \in Char : c \in Nat /\ c # 0 /\ c < 128
    OBVIOUS
  <1>2. \A i \in 1 .. n : w[i] \in Char
    BY ElementOfSeq
  <1>3. w = [i \in 1 .. n |-> w[i]]
    OBVIOUS
  <1> HIDE DEF n, Char
  <1>4. DOMAIN raw = 1 .. 7 /\ \A i \in 1 .. 7 : raw[i] = IF i <= n THEN w[i] ELSE 0
    BY DEF Padded, n
  <1>5. raw = [i \in 1 .. 7 |-> raw[i]]
    BY DEF Padded
  <1> HIDE DEF raw
  <1>6. \A i \in 1 .. 7 : raw[i] \in Nat /\ (i <= n => raw[i] \in Char /\ raw[i] = w[i]) /\ (~(i <= n) => raw[i] = 0)
    <2>1. \A i \in 1 .. 7 : i <= n => i \in 1 .. n
      BY <1>1
    <2> QED BY <1>0, <1>2, <1>4, <2>1, SMTT(60), ZenonT(60)
  <1>7. raw \in Fixed(7)
    <2>1. raw \in [1 .. 7 -> Nat]
      BY <1>5, <1>6
    <2>2. raw \in Seq(Nat) /\ Len(raw) = 7
      BY <2>1, IsSequence, SMTT(60), ZenonT(60)
    <2> QED BY <2>2 DEF Fixed
  <1>8. {i \in 1 .. 7 : \A j \in 1 .. i : raw[j] # 0} = 1 .. n
    <2>1. ASSUME NEW i \in 1 .. 7 PROVE (\A j \in 1 .. i : raw[j] # 0) <=> i <= n
      <3>1. CASE i <= n
        <4>1. ASSUME NEW j \in 1 .. i PROVE raw[j] # 0
          <5>1. j \in 1 .. 7 /\ j <= n
            BY <1>1, <3>1
          <5>2. raw[j] \in Char
            BY <1>6, <5>1
          <5> QED BY <1>0, <5>2
        <4> QED BY <3>1, <4>1
      <3>2. CASE ~(i <= n)
        <4>1. i \in 1 .. i
          OBVIOUS
        <4>2. raw[i] = 0
          BY <1>6, <3>2
        <4> QED BY <3>2, <4>1, <4>2
      <3> QED BY <3>1, <3>2
    <2>2. \A i \in 1 .. 7 : i \in 1 .. n <=> i <= n
      BY <1>1
    <2>3. \A i \in 1 .. n : i \in 1 .. 7
      BY <1>1
    <2> QED BY <2>1, <2>2, <2>3
  <1>9. Ends(raw) = n
    <2>1. n - 1 + 1 = n /\ 1 \in Int /\ n \in Int /\ ~(1 > n)
      BY <1>1
    <2> QED BY <1>8, <2>1, FS_Interval DEF Ends
  <1>10. SubSeq(raw, 1, n) = w
    <2>1. raw \in Seq(Nat) /\ n \in 0 .. Len(raw)
      BY <1>1, <1>7 DEF Fixed
    <2> DEFINE B == SubSeq(raw, 1, n)
    <2>2. B \in Seq(Nat) /\ Len(B) = n /\ \A i \in 1 .. n : B[i] = raw[i]
      BY <2>1, Halves
    <2>3. \A i \in 1 .. n : i \in 1 .. 7 /\ i <= n
      BY <1>1
    <2>4. w \in Seq(Nat) /\ Len(w) = n
      <3>1. Char \subseteq Nat /\ w \in Seq(Char)
        BY <1>0 DEF Char
      <3> QED BY <3>1, SeqMonotone DEF n
    <2> HIDE DEF B
    <2>5. \A i \in 1 .. n : B[i] = w[i]
      BY <1>6, <2>2, <2>3
    <2> QED BY <2>2, <2>4, <2>5, SeqEqual DEF B
  <1>11. \A i \in (n + 1) .. 7 : raw[i] = 0
    <2>1. \A i \in (n + 1) .. 7 : i \in 1 .. 7 /\ ~(i <= n)
      BY <1>1
    <2> QED BY <1>6, <2>1
  <1>12. \A i \in 1 .. n : raw[i] < 128
    <2>1. \A i \in 1 .. n : i \in 1 .. 7 /\ i <= n
      BY <1>1
    <2> QED BY <1>0, <1>6, <2>1
  <1> QED BY <1>7, <1>9, <1>10, <1>11, <1>12 DEF n, raw

-----------------------------------------------------------------------------
(* An amount on the wire: eight bytes, the precision, the padded symbol. *)
AmountBytes(u, p, raw) == u \o <<p>> \o raw

(* The three parts of an amount's sixteen bytes are found again. *)
LEMMA AmountWritten ==
    ASSUME NEW u \in Fixed(8), NEW p \in Nat, NEW raw \in Fixed(7)
    PROVE  LET W == AmountBytes(u, p, raw)
           IN  /\ W \in Fixed(16) /\ SubSeq(W, 1, 8) = u /\ W[9] = p /\ SubSeq(W, 10, 16) = raw
  <1> DEFINE q == <<p>>
             W == (u \o q) \o raw
  <1>1. u \in Seq(Nat) /\ Len(u) = 8 /\ raw \in Seq(Nat) /\ Len(raw) = 7
    BY DEF Fixed
  <1>2. q \in Seq(Nat) /\ Len(q) = 1 /\ q[1] = p
    OBVIOUS
  <1> HIDE DEF q
  <1>3. u \o q \in Seq(Nat) /\ Len(u \o q) = 9
    <2>1. u \o q \in Seq(Nat) /\ Len(u \o q) = Len(u) + Len(q)
      BY <1>1, <1>2, Joins
    <2> QED BY <1>1, <1>2, <2>1
  <1>4. /\ W \in Seq(Nat) /\ Len(W) = 16 /\ SubSeq(W, 10, 16) = raw
    <2> DEFINE a == u \o q
    <2>1. a \in Seq(Nat) /\ Len(a) = 9 /\ 9 + 7 = 16 /\ 9 + 1 = 10
      BY <1>3
    <2> HIDE DEF a
    <2>2. a \o raw \in Seq(Nat) /\ Len(a \o raw) = Len(a) + Len(raw) /\ SubSeq(a \o raw, Len(a) + 1, Len(a \o raw)) = raw
      BY <1>1, <2>1, Joins
    <2>3. Len(a \o raw) = 16 /\ SubSeq(a \o raw, 10, 16) = raw
      BY <1>1, <2>1, <2>2
    <2> QED BY <2>2, <2>3 DEF a
  <1>5. W = u \o (q \o raw) /\ q \o raw \in Seq(Nat)
    <2>1. q \o raw \in Seq(Nat)
      BY <1>1, <1>2, Joins
    <2>2. (u \o q) \o raw = u \o (q \o raw)
      BY <1>1, <1>2, JoinedTwice
    <2> QED BY <2>1, <2>2
  <1>6. SubSeq(u \o (q \o raw), 1, Len(u)) = u
    <2> DEFINE c == q \o raw
    <2>1. c \in Seq(Nat)
      BY <1>5
    <2> HIDE DEF c
    <2>2. SubSeq(u \o c, 1, Len(u)) = u
      BY <1>1, <2>1, Joins
    <2> QED BY <2>2 DEF c
  <1>7. W[9] = p
    <2>1. 9 \in 1 .. (Len(u) + Len(q)) /\ ~(9 <= Len(u)) /\ 9 - Len(u) = 1
      <3>1. 8 + 1 = 9 /\ 9 \in 1 .. 9 /\ ~(9 <= 8) /\ 9 - 8 = 1
        OBVIOUS
      <3> QED BY ONLY <1>1, <1>2, <3>1
    <2>2. (u \o q)[9] = q[1]
      <3>1. (u \o q)[9] = IF 9 <= Len(u) THEN u[9] ELSE q[9 - Len(u)]
        BY ONLY <1>1, <1>2, <2>1, ConcatProperties
      <3> QED BY ONLY <2>1, <3>1
    <2> DEFINE a == u \o q
    <2>3. a \in Seq(Nat) /\ Len(a) = 9 /\ a[9] = p
      BY <1>2, <1>3, <2>2
    <2> HIDE DEF a
    <2>4. 9 \in 1 .. Len(a)
      BY <2>3
    <2>5. (a \o raw)[9] = a[9]
      BY <1>1, <2>3, <2>4, Joins
    <2> QED BY <2>3, <2>5 DEF a
  <1> QED BY <1>1, <1>4, <1>5, <1>6, <1>7 DEF Fixed, q, AmountBytes

(* How an amount is read: sixteen bytes, in three parts. *)
LEMMA ReadAmountIs ==
    ASSUME NEW chain, NEW b
    PROVE  LET t == take(b, 16)
               v == t.val
               g == AmountOf(chain, SubSeq(v, 1, 8), v[9], SubSeq(v, 10, 16))
           IN  read_amount(chain, b) = IF t.ok /\ g.ok THEN Got(g.val, t.rest) ELSE Fail
  BY DEF read_amount, Then

(* What the parts of an amount make: a symbol of the chain, padded by      *)
(* zeros, with its precision. *)
LEMMA AmountOfIs ==
    ASSUME NEW chain, NEW u, NEW p, NEW raw
    PROVE  LET end == Ends(raw)
               found == asset(chain, SubSeq(raw, 1, end))
           IN  AmountOf(chain, u, p, raw) =
                 IF /\ \A i \in (end + 1) .. 7 : raw[i] = 0
                    /\ \A i \in 1 .. end : raw[i] < 128
                    /\ found # <<>> /\ found[1].precision = p
                 THEN Got(Amount(u, found[1]), <<>>) ELSE Fail
  BY DEF AmountOf, Ends

(* The amount as a reader on the chain names it. *)
AmountOn(chain, v) == [v EXCEPT !.symbol = asset(chain, v.wire_symbol)[1].symbol]

(* An amount under the chain's own symbol is the same on the wire, and is  *)
(* what is read from there. *)
LEMMA AmountNamed ==
    ASSUME NEW chain \in DOMAIN Assets, NEW v \in Amounts(chain)
    PROVE  /\ AmountOn(chain, v) \in Amounts(chain) /\ write_amount(AmountOn(chain, v)) = write_amount(v)
           /\ AmountOf(chain, v.units, v.precision, Padded(v.wire_symbol)) = Got(AmountOn(chain, v), <<>>)
           /\ v.units \in Fixed(8) /\ v.precision \in Nat /\ Padded(v.wire_symbol) \in Fixed(7)
  <1>1. PICK a \in Denominations(chain) : /\ v = Amount(v.units, a) /\ v.precision = a.precision
                                          /\ v.symbol = a.symbol /\ v.wire_symbol = a.wire_symbol
    BY AmountIs
  <1>2. v.units \in Fixed(8)
    BY AmountIs
  <1>3. PICK e \in Denominations(chain) :
          asset(chain, a.wire_symbol) = <<e>> /\ e.wire_symbol = a.wire_symbol /\ e.precision = a.precision
    BY DenominationFound
  <1> DEFINE w == v.wire_symbol
             u == v.units
  <1>4. w \in Seq(1 .. 127) /\ Len(w) \in 1 .. 7 /\ v.precision \in Nat
    BY <1>1, DenominationFound, SymbolsDiffer
  <1>5. AmountOn(chain, v) = Amount(u, e)
    <2>1. asset(chain, v.wire_symbol)[1] = e
      BY <1>1, <1>3
    <2>2. AmountOn(chain, v) = [v EXCEPT !.symbol = e.symbol]
      BY <2>1 DEF AmountOn
    <2> HIDE DEF u
    <2>3. v = Amount(u, a)
      BY <1>1 DEF u
    <2>4. v = [units |-> u, precision |-> a.precision, symbol |-> a.symbol, wire_symbol |-> a.wire_symbol]
      BY <2>3 DEF Amount
    <2>5. [v EXCEPT !.symbol = e.symbol] =
            [units |-> u, precision |-> a.precision, symbol |-> e.symbol, wire_symbol |-> a.wire_symbol]
      BY ONLY <2>4
    <2> QED BY <1>3, <2>2, <2>5 DEF Amount
  <1>6. LET x == Amount(u, e)
        IN  x \in Amounts(chain) /\ x.units = u /\ x.precision = v.precision /\ x.wire_symbol = w
    BY <1>1, <1>2, <1>3, AmountMade
  <1>7. write_amount(Amount(u, e)) = write_amount(v)
    BY <1>6 DEF write_amount
  <1> DEFINE raw == Padded(w)
  <1> HIDE DEF w
  <1>8. /\ raw \in Fixed(7) /\ Ends(raw) = Len(w) /\ SubSeq(raw, 1, Len(w)) = w
        /\ \A i \in (Len(w) + 1) .. 7 : raw[i] = 0
        /\ \A i \in 1 .. Len(w) : raw[i] < 128
    BY <1>4, PaddedIs
  <1> HIDE DEF raw
  <1>9. AmountOf(chain, u, v.precision, raw) = Got(Amount(u, e), <<>>)
    <2> DEFINE found == asset(chain, SubSeq(raw, 1, Ends(raw)))
    <2>1. found = <<e>>
      BY <1>1, <1>3, <1>8 DEF w
    <2>2. AmountOf(chain, u, v.precision, raw) =
                 IF /\ \A i \in (Ends(raw) + 1) .. 7 : raw[i] = 0
                    /\ \A i \in 1 .. Ends(raw) : raw[i] < 128
                    /\ found # <<>> /\ found[1].precision = v.precision
                 THEN Got(Amount(u, found[1]), <<>>) ELSE Fail
      BY AmountOfIs
    <2> HIDE DEF found
    <2>3. found # <<>> /\ found[1] = e /\ e.precision = v.precision
      BY <1>1, <1>3, <2>1
    <2> QED BY <1>8, <2>2, <2>3
  <1> QED BY <1>2, <1>4, <1>5, <1>6, <1>7, <1>8, <1>9 DEF raw, w

(* An amount that is written is read, under the reader's symbol. *)
LEMMA AmountBack ==
    ASSUME NEW chain \in DOMAIN Assets, NEW v \in Amounts(chain), NEW x \in Seq(Nat)
    PROVE  /\ write_amount(v) \in Seq(Nat) /\ Len(write_amount(v)) >= 1
           /\ read_amount(chain, write_amount(v) \o x) = Got(AmountOn(chain, v), x)
  <1> DEFINE u == v.units
             p == v.precision
             raw == Padded(v.wire_symbol)
             W == AmountBytes(u, p, raw)
             s == AmountOn(chain, v)
  <1>1. u \in Fixed(8) /\ p \in Nat /\ raw \in Fixed(7) /\ AmountOf(chain, u, p, raw) = Got(s, <<>>)
    BY AmountNamed
  <1>2. write_amount(v) = W
    BY DEF write_amount, Padded, AmountBytes
  <1> HIDE DEF u, p, raw, s
  <1>3. W \in Fixed(16) /\ SubSeq(W, 1, 8) = u /\ W[9] = p /\ SubSeq(W, 10, 16) = raw
    BY <1>1, AmountWritten
  <1> HIDE DEF W
  <1>4. W \in Seq(Nat) /\ Len(W) = 16 /\ take(W \o x, 16) = Got(W, x)
    <2>1. 16 \in Nat
      OBVIOUS
    <2> QED BY <1>3, <2>1, TakeBack
  <1>5. read_amount(chain, W \o x) = Got(s, x)
    <2> DEFINE t == take(W \o x, 16)
               g == AmountOf(chain, SubSeq(t.val, 1, 8), t.val[9], SubSeq(t.val, 10, 16))
    <2>1. read_amount(chain, W \o x) = IF t.ok /\ g.ok THEN Got(g.val, t.rest) ELSE Fail
      BY ReadAmountIs
    <2>2. t = Got(W, x)
      BY <1>4
    <2> HIDE DEF t
    <2>3. t.ok /\ t.val = W /\ t.rest = x
      BY <2>2, GotIs
    <2>4. g = Got(s, <<>>)
      BY <1>1, <1>3, <2>3
    <2> HIDE DEF g
    <2>5. g.ok /\ g.val = s
      BY <2>4, GotIs
    <2> QED BY <2>1, <2>3, <2>5
  <1> QED BY <1>2, <1>4, <1>5 DEF s

(* And an amount that is read was there. *)
LEMMA AmountSound ==
    ASSUME NEW chain \in DOMAIN Assets, NEW b \in Seq(Nat), read_amount(chain, b).ok
    PROVE  LET r == read_amount(chain, b)
           IN  /\ Took(r, b) /\ r.val \in Amounts(chain)
               /\ \A x \in Seq(Nat) : read_amount(chain, b \o x) = Got(r.val, r.rest \o x)
  <1> DEFINE t == take(b, 16)
             u == SubSeq(t.val, 1, 8)
             p == t.val[9]
             raw == SubSeq(t.val, 10, 16)
             g == AmountOf(chain, u, p, raw)
  <1>1. t.ok /\ g.ok /\ read_amount(chain, b) = Got(g.val, t.rest)
    BY ReadAmountIs, FailIs
  <1>2. Took(t, b) /\ t.val \in Fixed(16) /\ \A x \in Seq(Nat) : take(b \o x, 16) = Got(t.val, t.rest \o x)
    <2>1. 16 \in Nat
      OBVIOUS
    <2> QED BY <1>1, <2>1, TakeSound
  <1>3. u \in Fixed(8)
    <2> HIDE DEF t
    <2>1. t.val \in Seq(Nat) /\ 8 \in 0 .. Len(t.val)
      <3>1. t.val \in Seq(Nat) /\ Len(t.val) = 16
        BY <1>2 DEF Fixed
      <3>2. 8 \in 0 .. 16
        OBVIOUS
      <3> QED BY ONLY <3>1, <3>2
    <2> QED BY <2>1, Halves, SMTT(60), ZenonT(60) DEF Fixed
  <1>4. g.val \in Amounts(chain)
    <2> DEFINE found == asset(chain, SubSeq(raw, 1, Ends(raw)))
    <2>1. found # <<>> /\ g = Got(Amount(u, found[1]), <<>>)
      BY <1>1, AmountOfIs, FailIs
    <2>2. PICK e \in Denominations(chain) : found = <<e>>
      BY <2>1, FoundIsDenomination
    <2> HIDE DEF found
    <2>3. found[1] = e
      BY <2>2
    <2> HIDE DEF g, u
    <2>4. g.val = Amount(u, e)
      BY <2>1, <2>3, GotIs
    <2> QED BY <1>3, <2>4, AmountMade
  <1>5. ASSUME NEW x \in Seq(Nat) PROVE read_amount(chain, b \o x) = Got(g.val, t.rest \o x)
    <2> DEFINE s == take(b \o x, 16)
               h == AmountOf(chain, SubSeq(s.val, 1, 8), s.val[9], SubSeq(s.val, 10, 16))
    <2>1. read_amount(chain, b \o x) = IF s.ok /\ h.ok THEN Got(h.val, s.rest) ELSE Fail
      BY ReadAmountIs
    <2>2. s = Got(t.val, t.rest \o x)
      BY <1>2
    <2> HIDE DEF s, t
    <2>3. s.ok /\ s.val = t.val /\ s.rest = t.rest \o x
      BY <2>2, GotIs, SMTT(60), ZenonT(60)
    <2>4. h = g
      BY <2>3
    <2> QED BY <1>1, <2>1, <2>3, <2>4
  <1> DEFINE r == read_amount(chain, b)
  <1>6. r = Got(g.val, t.rest) /\ t.rest \in Seq(Nat) /\ Len(t.rest) <= Len(b)
    BY <1>1, <1>2 DEF Took
  <1> HIDE DEF r, g, t
  <1>7. r.val = g.val /\ r.rest = t.rest
    BY <1>6, GotIs
  <1> QED BY <1>4, <1>5, <1>6, <1>7 DEF Took, r

-----------------------------------------------------------------------------
(* A price is two amounts, the chain's properties an amount and two numbers. *)

OnePrice(p, w, c) == read_amount(p, c)
PriceTurns == INSTANCE InTurnProofs WITH R <- OnePrice

(* What the instance takes as known, from the library. *)
LEMMA PriceBasics == PriceTurns!Basics
  BY ForTurns DEF PriceTurns!Basics, PriceTurns!Least, PriceTurns!Induction, PriceTurns!Counted, PriceTurns!Cardinality, Cardinality
Price(p, b) == PriceTurns!InTurnOf(p, b, <<1, 2>>)
(* A price that is read was there. *)
LEMMA PriceSound ==
    ASSUME NEW chain \in DOMAIN Assets, NEW b \in Seq(Nat), Price(chain, b).ok
    PROVE  LET r == Price(chain, b)
           IN  /\ Took(r, b) /\ r.val \in Amounts(chain) \X Amounts(chain)
               /\ \A x \in Seq(Nat) : Price(chain, b \o x) = Got(r.val, r.rest \o x)
  <1> DEFINE items == <<1, 2>>
             N == 2
             Type(i) == IF i = 1 THEN Amounts(chain) ELSE Amounts(chain)
  <1>1. DOMAIN items = 1 .. N /\ N \in Nat /\ N = 2 /\ items[1] = 1 /\ items[2] = 2
    OBVIOUS
  <1>2. \A c : Price(chain, c) = PriceTurns!InTurnOf(chain, c, items)
    BY DEF Price
  <1>20. Type(1) = Amounts(chain) /\ Type(2) = Amounts(chain)
    OBVIOUS
  <1> HIDE DEF items, N, Type
  <1>3. ASSUME NEW i \in 1 .. N, NEW c \in Seq(Nat), OnePrice(chain, items[i], c).ok
        PROVE  /\ OnePrice(chain, items[i], c).rest \in Seq(Nat) /\ Len(OnePrice(chain, items[i], c).rest) <= Len(c)
               /\ OnePrice(chain, items[i], c).val \in Type(i)
               /\ \A x \in Seq(Nat) : OnePrice(chain, items[i], c \o x) =
                    [ok |-> TRUE, val |-> OnePrice(chain, items[i], c).val, rest |-> OnePrice(chain, items[i], c).rest \o x]
    <2>1. i = 1 \/ i = 2
      BY <1>1
    <2>2. CASE i = 1
      <3>1. \A y : OnePrice(chain, items[i], y) = read_amount(chain, y)
        BY <1>1, <2>2 DEF OnePrice
      <3>2. read_amount(chain, c).ok
        BY <1>3, <3>1
      <3>3. /\ Took(read_amount(chain, c), c) /\ read_amount(chain, c).val \in Amounts(chain)
            /\ \A x \in Seq(Nat) : read_amount(chain, c \o x) = Got(read_amount(chain, c).val, read_amount(chain, c).rest \o x)
        <4>1. 1 \in Nat
          OBVIOUS
        <4> QED BY <3>2, <4>1, AmountSound
      <3>4. read_amount(chain, c).rest \in Seq(Nat) /\ Len(read_amount(chain, c).rest) <= Len(c)
        BY ONLY <3>3 DEF Took
      <3>5. Type(i) = Amounts(chain)
        BY <1>20, <2>2
      <3> QED BY ONLY <3>1, <3>3, <3>4, <3>5 DEF Got
    <2>3. CASE i = 2
      <3>1. \A y : OnePrice(chain, items[i], y) = read_amount(chain, y)
        BY <1>1, <2>3 DEF OnePrice
      <3>2. read_amount(chain, c).ok
        BY <1>3, <3>1
      <3>3. /\ Took(read_amount(chain, c), c) /\ read_amount(chain, c).val \in Amounts(chain)
            /\ \A x \in Seq(Nat) : read_amount(chain, c \o x) = Got(read_amount(chain, c).val, read_amount(chain, c).rest \o x)
        <4>1. 2 \in Nat
          OBVIOUS
        <4> QED BY <3>2, <4>1, AmountSound
      <3>4. read_amount(chain, c).rest \in Seq(Nat) /\ Len(read_amount(chain, c).rest) <= Len(c)
        BY ONLY <3>3 DEF Took
      <3>5. Type(i) = Amounts(chain)
        BY <1>20, <2>3
      <3> QED BY ONLY <3>1, <3>3, <3>4, <3>5 DEF Got
    <2> QED BY <2>1, <2>2, <2>3
  <1>4. PICK v, e : PriceTurns!Comes(chain, b, items, N, v, e)
    <2>1. PriceTurns!InTurnOf(chain, b, items).ok
      BY <1>2
    <2>2. PriceTurns!Prefixed(chain, items, N)
      <3>1. \A i \in 1 .. N : \A c \in Seq(Nat) :
              OnePrice(chain, items[i], c).ok =>
                /\ OnePrice(chain, items[i], c).rest \in Seq(Nat) /\ Len(OnePrice(chain, items[i], c).rest) <= Len(c)
                /\ \A x \in Seq(Nat) : OnePrice(chain, items[i], c \o x) =
                     [ok |-> TRUE, val |-> OnePrice(chain, items[i], c).val, rest |-> OnePrice(chain, items[i], c).rest \o x]
        BY ONLY <1>3
      <3> QED BY <3>1 DEF PriceTurns!Prefixed
    <2>3. N \in Nat /\ DOMAIN items = 1 .. N
      BY <1>1
    <2> QED BY ONLY <2>1, <2>2, <2>3, PriceBasics, PriceTurns!InTurnComes
  <1>5. /\ e \in Seq(Nat) /\ Len(e) <= Len(b) /\ v = [i \in 1 .. N |-> v[i]]
        /\ PriceTurns!InTurnOf(chain, b, items) = [ok |-> TRUE, val |-> v, rest |-> e]
        /\ \A x \in Seq(Nat) : PriceTurns!InTurnOf(chain, b \o x, items) = [ok |-> TRUE, val |-> v, rest |-> e \o x]
        /\ \A i \in 1 .. N : \E c \in Seq(Nat) :
             Len(c) <= Len(b) /\ OnePrice(chain, items[i], c).ok /\ v[i] = OnePrice(chain, items[i], c).val
    BY <1>4 DEF PriceTurns!Comes
  <1>6. Price(chain, b) = Got(v, e)
    BY <1>2, <1>5 DEF Got
  <1>7. v \in Amounts(chain) \X Amounts(chain)
    <2>1. ASSUME NEW i \in 1 .. N PROVE v[i] \in Type(i)
      BY <1>3, <1>5
    <2>2. v[1] \in Amounts(chain) /\ v[2] \in Amounts(chain)
      <3>1. 1 \in 1 .. N /\ 2 \in 1 .. N
        BY <1>1
      <3> QED BY <1>20, <2>1, <3>1
    <2>3. v = <<v[1], v[2]>>
      <3>1. v = [i \in 1 .. 2 |-> v[i]]
        BY <1>1, <1>5
      <3> DEFINE c1 == v[1]
                 c2 == v[2]
      <3>2. [i \in 1 .. 2 |-> v[i]] = <<c1, c2>>
        OBVIOUS
      <3> QED BY <3>1, <3>2
    <2> QED BY <2>2, <2>3
  <1>8. Price(chain, b).val = v /\ Price(chain, b).rest = e
    BY <1>6, GotIs
  <1>9. \A x \in Seq(Nat) : Price(chain, b \o x) = Got(v, e \o x)
    BY <1>2, <1>5 DEF Got
  <1>10. Took(Price(chain, b), b)
    BY <1>5, <1>6, <1>8 DEF Took
  <1> QED BY <1>7, <1>8, <1>9, <1>10

OneProps(p, w, c) == IF w = 16 THEN read_amount(p, c) ELSE take(c, w)
PropsTurns == INSTANCE InTurnProofs WITH R <- OneProps

(* What the instance takes as known, from the library. *)
LEMMA PropsBasics == PropsTurns!Basics
  BY ForTurns DEF PropsTurns!Basics, PropsTurns!Least, PropsTurns!Induction, PropsTurns!Counted, PropsTurns!Cardinality, Cardinality
Props(p, b) == PropsTurns!InTurnOf(p, b, <<16, 4, 2>>)
(* So were the properties. *)
LEMMA PropsSound ==
    ASSUME NEW chain \in DOMAIN Assets, NEW b \in Seq(Nat), Props(chain, b).ok
    PROVE  LET r == Props(chain, b)
           IN  /\ Took(r, b) /\ r.val \in Amounts(chain) \X Fixed(4) \X Fixed(2)
               /\ \A x \in Seq(Nat) : Props(chain, b \o x) = Got(r.val, r.rest \o x)
  <1> DEFINE items == <<16, 4, 2>>
             N == 3
             Type(i) == IF i = 1 THEN Amounts(chain)
                        ELSE IF i = 2 THEN Fixed(4) ELSE Fixed(2)
  <1>1. DOMAIN items = 1 .. N /\ N \in Nat /\ N = 3 /\ items[1] = 16 /\ items[2] = 4 /\ items[3] = 2
    OBVIOUS
  <1>2. \A c : Props(chain, c) = PropsTurns!InTurnOf(chain, c, items)
    BY DEF Props
  <1>20. Type(1) = Amounts(chain) /\ Type(2) = Fixed(4) /\ Type(3) = Fixed(2)
    OBVIOUS
  <1> HIDE DEF items, N, Type
  <1>3. ASSUME NEW i \in 1 .. N, NEW c \in Seq(Nat), OneProps(chain, items[i], c).ok
        PROVE  /\ OneProps(chain, items[i], c).rest \in Seq(Nat) /\ Len(OneProps(chain, items[i], c).rest) <= Len(c)
               /\ OneProps(chain, items[i], c).val \in Type(i)
               /\ \A x \in Seq(Nat) : OneProps(chain, items[i], c \o x) =
                    [ok |-> TRUE, val |-> OneProps(chain, items[i], c).val, rest |-> OneProps(chain, items[i], c).rest \o x]
    <2>1. i = 1 \/ i = 2 \/ i = 3
      BY <1>1
    <2>2. CASE i = 1
      <3>1. \A y : OneProps(chain, items[i], y) = read_amount(chain, y)
        BY <1>1, <2>2 DEF OneProps
      <3>2. read_amount(chain, c).ok
        BY <1>3, <3>1
      <3>3. /\ Took(read_amount(chain, c), c) /\ read_amount(chain, c).val \in Amounts(chain)
            /\ \A x \in Seq(Nat) : read_amount(chain, c \o x) = Got(read_amount(chain, c).val, read_amount(chain, c).rest \o x)
        <4>1. 16 \in Nat
          OBVIOUS
        <4> QED BY <3>2, <4>1, AmountSound
      <3>4. read_amount(chain, c).rest \in Seq(Nat) /\ Len(read_amount(chain, c).rest) <= Len(c)
        BY ONLY <3>3 DEF Took
      <3>5. Type(i) = Amounts(chain)
        BY <1>20, <2>2
      <3> QED BY ONLY <3>1, <3>3, <3>4, <3>5 DEF Got
    <2>3. CASE i = 2
      <3>1. \A y : OneProps(chain, items[i], y) = take(y, 4)
        BY <1>1, <2>3 DEF OneProps
      <3>2. take(c, 4).ok
        BY <1>3, <3>1
      <3>3. /\ Took(take(c, 4), c) /\ take(c, 4).val \in Fixed(4)
            /\ \A x \in Seq(Nat) : take(c \o x, 4) = Got(take(c, 4).val, take(c, 4).rest \o x)
        <4>1. 4 \in Nat
          OBVIOUS
        <4> QED BY <3>2, <4>1, TakeSound
      <3>4. take(c, 4).rest \in Seq(Nat) /\ Len(take(c, 4).rest) <= Len(c)
        BY ONLY <3>3 DEF Took
      <3>5. Type(i) = Fixed(4)
        BY <1>20, <2>3
      <3> QED BY ONLY <3>1, <3>3, <3>4, <3>5 DEF Got
    <2>4. CASE i = 3
      <3>1. \A y : OneProps(chain, items[i], y) = take(y, 2)
        BY <1>1, <2>4 DEF OneProps
      <3>2. take(c, 2).ok
        BY <1>3, <3>1
      <3>3. /\ Took(take(c, 2), c) /\ take(c, 2).val \in Fixed(2)
            /\ \A x \in Seq(Nat) : take(c \o x, 2) = Got(take(c, 2).val, take(c, 2).rest \o x)
        <4>1. 2 \in Nat
          OBVIOUS
        <4> QED BY <3>2, <4>1, TakeSound
      <3>4. take(c, 2).rest \in Seq(Nat) /\ Len(take(c, 2).rest) <= Len(c)
        BY ONLY <3>3 DEF Took
      <3>5. Type(i) = Fixed(2)
        BY <1>20, <2>4
      <3> QED BY ONLY <3>1, <3>3, <3>4, <3>5 DEF Got
    <2> QED BY <2>1, <2>2, <2>3, <2>4
  <1>4. PICK v, e : PropsTurns!Comes(chain, b, items, N, v, e)
    <2>1. PropsTurns!InTurnOf(chain, b, items).ok
      BY <1>2
    <2>2. PropsTurns!Prefixed(chain, items, N)
      <3>1. \A i \in 1 .. N : \A c \in Seq(Nat) :
              OneProps(chain, items[i], c).ok =>
                /\ OneProps(chain, items[i], c).rest \in Seq(Nat) /\ Len(OneProps(chain, items[i], c).rest) <= Len(c)
                /\ \A x \in Seq(Nat) : OneProps(chain, items[i], c \o x) =
                     [ok |-> TRUE, val |-> OneProps(chain, items[i], c).val, rest |-> OneProps(chain, items[i], c).rest \o x]
        BY ONLY <1>3
      <3> QED BY <3>1 DEF PropsTurns!Prefixed
    <2>3. N \in Nat /\ DOMAIN items = 1 .. N
      BY <1>1
    <2> QED BY ONLY <2>1, <2>2, <2>3, PropsBasics, PropsTurns!InTurnComes
  <1>5. /\ e \in Seq(Nat) /\ Len(e) <= Len(b) /\ v = [i \in 1 .. N |-> v[i]]
        /\ PropsTurns!InTurnOf(chain, b, items) = [ok |-> TRUE, val |-> v, rest |-> e]
        /\ \A x \in Seq(Nat) : PropsTurns!InTurnOf(chain, b \o x, items) = [ok |-> TRUE, val |-> v, rest |-> e \o x]
        /\ \A i \in 1 .. N : \E c \in Seq(Nat) :
             Len(c) <= Len(b) /\ OneProps(chain, items[i], c).ok /\ v[i] = OneProps(chain, items[i], c).val
    BY <1>4 DEF PropsTurns!Comes
  <1>6. Props(chain, b) = Got(v, e)
    BY <1>2, <1>5 DEF Got
  <1>7. v \in Amounts(chain) \X Fixed(4) \X Fixed(2)
    <2>1. ASSUME NEW i \in 1 .. N PROVE v[i] \in Type(i)
      BY <1>3, <1>5
    <2>2. v[1] \in Amounts(chain) /\ v[2] \in Fixed(4) /\ v[3] \in Fixed(2)
      <3>1. 1 \in 1 .. N /\ 2 \in 1 .. N /\ 3 \in 1 .. N
        BY <1>1
      <3> QED BY <1>20, <2>1, <3>1
    <2>3. v = <<v[1], v[2], v[3]>>
      <3>1. v = [i \in 1 .. 3 |-> v[i]]
        BY <1>1, <1>5
      <3> DEFINE c1 == v[1]
                 c2 == v[2]
                 c3 == v[3]
      <3>2. [i \in 1 .. 3 |-> v[i]] = <<c1, c2, c3>>
        OBVIOUS
      <3> QED BY <3>1, <3>2
    <2> QED BY <2>2, <2>3
  <1>8. Props(chain, b).val = v /\ Props(chain, b).rest = e
    BY <1>6, GotIs
  <1>9. \A x \in Seq(Nat) : Props(chain, b \o x) = Got(v, e \o x)
    BY <1>2, <1>5 DEF Got
  <1>10. Took(Props(chain, b), b)
    BY <1>5, <1>6, <1>8 DEF Took
  <1> QED BY <1>7, <1>8, <1>9, <1>10

(* And what is written of them is read. *)
LEMMA PriceBack ==
    ASSUME NEW chain \in DOMAIN Assets, NEW v1 \in Amounts(chain), NEW v2 \in Amounts(chain), NEW x \in Seq(Nat)
    PROVE  LET w == write_amount(v1) \o write_amount(v2)
           IN  /\ w \in Seq(Nat) /\ Len(w) >= 1
               /\ Price(chain, w \o x) = Got(<<AmountOn(chain, v1), AmountOn(chain, v2)>>, x)
  <1> DEFINE g == write_amount(v1)
             h == write_amount(v2)
             k1 == AmountOn(chain, v1)
             k2 == AmountOn(chain, v2)
             C == h \o x
             B == g \o C
             items == <<1, 2>>
  <1>1. h \in Seq(Nat) /\ Len(h) >= 1 /\ read_amount(chain, h \o x) = Got(k2, x)
    BY AmountBack
  <1> HIDE DEF h, k2
  <1>2. C \in Seq(Nat)
    BY <1>1, Joins
  <1> HIDE DEF C
  <1>3. g \in Seq(Nat) /\ Len(g) >= 1 /\ read_amount(chain, g \o C) = Got(k1, C)
    BY <1>2, AmountBack
  <1> HIDE DEF g, k1
  <1>4. g \o h \in Seq(Nat) /\ (g \o h) \o x = B /\ Len(g \o h) = Len(g) + Len(h) /\ Len(g) \in Nat /\ Len(h) \in Nat
    BY <1>1, <1>3, Joins, JoinedTwice, SMTT(60), ZenonT(60) DEF C
  <1>5. DOMAIN items = 1 .. 2 /\ items[1] = 1 /\ items[2] = 2
    OBVIOUS
  <1>6. Price(chain, B) = PriceTurns!InTurnOf(chain, B, items)
    BY DEF Price
  <1> HIDE DEF items
  <1>7. /\ OnePrice(chain, items[1], B) = [ok |-> TRUE, val |-> k1, rest |-> C]
        /\ OnePrice(chain, items[2], C) = [ok |-> TRUE, val |-> k2, rest |-> x]
    BY <1>1, <1>3 DEF OnePrice, Got, C
  <1> HIDE DEF B
  <1>8. PriceTurns!InTurnOf(chain, B, items) = [ok |-> TRUE, val |-> <<k1, k2>>, rest |-> x]
    BY <1>5, <1>7, PriceBasics, PriceTurns!TwoFollow
  <1>9. Len(g \o h) >= 1
    BY <1>1, <1>3, <1>4
  <1> QED BY <1>4, <1>6, <1>8, <1>9 DEF Got, g, h, k1, k2

(* The properties of a chain that a witness votes for are read back. *)
LEMMA PropsBack ==
    ASSUME NEW chain \in DOMAIN Assets, NEW v1 \in Amounts(chain), NEW v2 \in Fixed(4), NEW v3 \in Fixed(2), NEW x \in Seq(Nat)
    PROVE  LET w == write_amount(v1) \o v2 \o v3
           IN  /\ w \in Seq(Nat) /\ Len(w) >= 1
               /\ Props(chain, w \o x) = Got(<<AmountOn(chain, v1), v2, v3>>, x)
  <1> DEFINE g == write_amount(v1)
             k1 == AmountOn(chain, v1)
             D == v3 \o x
             C == v2 \o D
             B == g \o C
             items == <<16, 4, 2>>
  <1>0. 4 \in Nat /\ 2 \in Nat
    OBVIOUS
  <1>1. v3 \in Seq(Nat) /\ Len(v3) = 2 /\ take(v3 \o x, 2) = Got(v3, x)
    BY <1>0, TakeBack
  <1>2. D \in Seq(Nat) /\ take(D, 2) = Got(v3, x)
    BY <1>1, Joins
  <1> HIDE DEF D
  <1>3. v2 \in Seq(Nat) /\ Len(v2) = 4 /\ take(v2 \o D, 4) = Got(v2, D)
    BY <1>0, <1>2, TakeBack
  <1>4. C \in Seq(Nat) /\ take(C, 4) = Got(v2, D)
    BY <1>2, <1>3, Joins
  <1>50. C = v2 \o D
    OBVIOUS
  <1> HIDE DEF C
  <1>5. g \in Seq(Nat) /\ Len(g) >= 1 /\ read_amount(chain, g \o C) = Got(k1, C)
    BY <1>4, AmountBack
  <1> HIDE DEF g, k1
  <1>6. /\ (g \o v2) \o v3 \in Seq(Nat) /\ ((g \o v2) \o v3) \o x = B
        /\ Len((g \o v2) \o v3) >= 1
    <2> DEFINE gv == g \o v2
    <2>1. gv \in Seq(Nat) /\ Len(gv) = Len(g) + Len(v2) /\ Len(g) \in Nat /\ Len(v2) \in Nat
      BY <1>3, <1>5, Joins
    <2>2. gv \o D = g \o (v2 \o D)
      BY <1>2, <1>3, <1>5, JoinedTwice, SMTT(60), ZenonT(60)
    <2> HIDE DEF gv
    <2>3. gv \o v3 \in Seq(Nat) /\ Len(gv \o v3) = Len(gv) + Len(v3) /\ Len(v3) \in Nat /\ Len(gv) \in Nat
      BY <1>1, <2>1, Joins
    <2>4. (gv \o v3) \o x = gv \o (v3 \o x)
      BY <1>1, <2>1, JoinedTwice
    <2>5. Len(gv \o v3) >= 1
      BY <1>5, <2>1, <2>3
    <2> QED BY <1>50, <2>2, <2>3, <2>4, <2>5 DEF gv, D
  <1>7. DOMAIN items = 1 .. 3 /\ items[1] = 16 /\ items[2] = 4 /\ items[3] = 2
    OBVIOUS
  <1>8. Props(chain, B) = PropsTurns!InTurnOf(chain, B, items)
    BY DEF Props
  <1> HIDE DEF items
  <1>9. /\ OneProps(chain, items[1], B) = [ok |-> TRUE, val |-> k1, rest |-> C]
        /\ OneProps(chain, items[2], C) = [ok |-> TRUE, val |-> v2, rest |-> D]
        /\ OneProps(chain, items[3], D) = [ok |-> TRUE, val |-> v3, rest |-> x]
    <2>1. 4 # 16 /\ 2 # 16
      OBVIOUS
    <2>2. OneProps(chain, items[1], B) = read_amount(chain, B) /\ OneProps(chain, items[2], C) = take(C, 4)
          /\ OneProps(chain, items[3], D) = take(D, 2)
      BY <1>7, <2>1 DEF OneProps
    <2> QED BY <1>2, <1>4, <1>5, <2>2 DEF Got
  <1> HIDE DEF B
  <1>10. PropsTurns!InTurnOf(chain, B, items) = [ok |-> TRUE, val |-> <<k1, v2, v3>>, rest |-> x]
    <2>1. PropsTurns!ThreeRead(chain, items, B, k1, C, v2, D, v3, x)
      BY <1>7, <1>9 DEF PropsTurns!ThreeRead
    <2> QED BY ONLY <2>1, PropsBasics, PropsTurns!ThreeFollow
  <1> QED BY <1>6, <1>8, <1>10 DEF Got, g, k1

-----------------------------------------------------------------------------
(* The tables of WireFormat, kind by kind. *)
LEMMA WidthIs ==
    /\ DOMAIN Width = {"bool", "u8", "i16", "u16", "u32", "time", "u64", "blockid"}
    /\ Width.bool = 1 /\ Width.u8 = 1 /\ Width.i16 = 2 /\ Width.u16 = 2 /\ Width.u32 = 4 /\ Width.time = 4 /\ Width.u64 = 8 /\ Width.blockid = 20
  BY DEF Width

(* Kinds of a fixed width: the bytes are the value. *)
LEMMA FixedKinds ==
    ASSUME NEW chain, NEW kind \in DOMAIN Width, NEW v, NEW b
    PROVE  /\ Write(kind, v) = v
           /\ kind # "bool" => ReadKind(chain, kind, b) = take(b, Width[kind]) /\ Values(chain, kind) = Fixed(Width[kind])
  BY WidthIs DEF Write, ReadKind, Values

(* Write, kind by kind. *)
LEMMA WriteIs ==
    ASSUME NEW v
    PROVE  /\ Write("str", v) = write_string(v)
           /\ Write("hex", v) = write_bytes(v)
           /\ Write("amount", v) = write_amount(v)
           /\ Write("price", v) = write_amount(v[1]) \o write_amount(v[2])
           /\ Write("props", v) = write_amount(v[1]) \o v[2] \o v[3]
           /\ Write("auth", v) = write_authority(v)
           /\ Write("auths", v) = write_array(v, write_authority)
           /\ Write("optauth", v) = write_optional(v, write_authority)
           /\ Write("optkey", v) = write_optional(v, LAMBDA k : k)
           /\ Write("noext", v) = <<0>>
           /\ Write("coext", v) = write_array(v, write_beneficiaries)
           /\ Write("rtext", v) = write_array(v, write_pair_id)
           /\ Write("accounts", v) = write_array(Sorted(v, hived_transport_form), write_string)
           /\ Write("ids", v) = write_array(Sorted(v, ProposalOrder), LAMBDA p : p)
           /\ Write("sortedprops", v) = write_array(Sorted(v, PropertyKey), LAMBDA p : write_string(p[1]) \o write_bytes(p[2]))
           /\ Write("key", v) = v
  <1>1. Write("str", v) = write_string(v)
    BY WidthIs DEF Write
  <1>2. Write("hex", v) = write_bytes(v)
    BY WidthIs DEF Write
  <1>3. Write("amount", v) = write_amount(v)
    BY WidthIs DEF Write
  <1>4. Write("price", v) = write_amount(v[1]) \o write_amount(v[2])
    BY WidthIs DEF Write
  <1>5. Write("props", v) = write_amount(v[1]) \o v[2] \o v[3]
    BY WidthIs DEF Write
  <1>6. Write("auth", v) = write_authority(v)
    BY WidthIs DEF Write
  <1>7. Write("auths", v) = write_array(v, write_authority)
    BY WidthIs DEF Write
  <1>8. Write("optauth", v) = write_optional(v, write_authority)
    BY WidthIs DEF Write
  <1>9. Write("optkey", v) = write_optional(v, LAMBDA k : k)
    BY WidthIs DEF Write
  <1>10. Write("noext", v) = <<0>>
    BY WidthIs DEF Write
  <1>11. Write("coext", v) = write_array(v, write_beneficiaries)
    BY WidthIs DEF Write
  <1>12. Write("rtext", v) = write_array(v, write_pair_id)
    BY WidthIs DEF Write
  <1>13. Write("accounts", v) = write_array(Sorted(v, hived_transport_form), write_string)
    BY WidthIs DEF Write
  <1>14. Write("ids", v) = write_array(Sorted(v, ProposalOrder), LAMBDA p : p)
    BY WidthIs DEF Write
  <1>15. Write("sortedprops", v) = write_array(Sorted(v, PropertyKey), LAMBDA p : write_string(p[1]) \o write_bytes(p[2]))
    BY WidthIs DEF Write
  <1>16. Write("key", v) = v
    BY WidthIs DEF Write
  <1> QED BY ONLY <1>1, <1>2, <1>3, <1>4, <1>5, <1>6, <1>7, <1>8, <1>9, <1>10, <1>11, <1>12, <1>13, <1>14, <1>15, <1>16

(* ReadKind, kind by kind. *)
LEMMA ReadKindIs ==
    ASSUME NEW chain, NEW b
    PROVE  /\ ReadKind(chain, "bool", b) = read_bool(b)
           /\ ReadKind(chain, "key", b) = read_key(b)
           /\ ReadKind(chain, "str", b) = read_string(b)
           /\ ReadKind(chain, "hex", b) = read_bytes(b)
           /\ ReadKind(chain, "amount", b) = read_amount(chain, b)
           /\ ReadKind(chain, "price", b) = InTurn(b, <<1, 2>>, LAMBDA i, c : read_amount(chain, c))
           /\ ReadKind(chain, "props", b) = InTurn(b, <<16, 4, 2>>, LAMBDA w, c : IF w = 16 THEN read_amount(chain, c) ELSE take(c, w))
           /\ ReadKind(chain, "auth", b) = read_authority(b)
           /\ ReadKind(chain, "auths", b) = read_array(b, read_authority)
           /\ ReadKind(chain, "optauth", b) = read_optional(b, read_authority)
           /\ ReadKind(chain, "optkey", b) = read_optional(b, read_key)
           /\ ReadKind(chain, "noext", b) = read_no_extensions(b)
           /\ ReadKind(chain, "coext", b) = read_array(b, read_beneficiaries)
           /\ ReadKind(chain, "rtext", b) = read_array(b, read_pair_id)
           /\ ReadKind(chain, "strs", b) = read_array(b, read_string)
           /\ ReadKind(chain, "u64s", b) = read_array(b, LAMBDA c : take(c, 8))
           /\ ReadKind(chain, "wprops", b) = read_array(b, LAMBDA c : InTurn(c, <<1, 2>>, LAMBDA i, d : IF i = 1 THEN read_string(d) ELSE read_bytes(d)))
  <1>1. ReadKind(chain, "bool", b) = read_bool(b)
    BY WidthIs DEF ReadKind
  <1>2. ReadKind(chain, "key", b) = read_key(b)
    BY WidthIs DEF ReadKind
  <1>3. ReadKind(chain, "str", b) = read_string(b)
    BY WidthIs DEF ReadKind
  <1>4. ReadKind(chain, "hex", b) = read_bytes(b)
    BY WidthIs DEF ReadKind
  <1>5. ReadKind(chain, "amount", b) = read_amount(chain, b)
    BY WidthIs DEF ReadKind
  <1>6. ReadKind(chain, "price", b) = InTurn(b, <<1, 2>>, LAMBDA i, c : read_amount(chain, c))
    BY WidthIs DEF ReadKind
  <1>7. ReadKind(chain, "props", b) = InTurn(b, <<16, 4, 2>>, LAMBDA w, c : IF w = 16 THEN read_amount(chain, c) ELSE take(c, w))
    BY WidthIs DEF ReadKind
  <1>8. ReadKind(chain, "auth", b) = read_authority(b)
    BY WidthIs DEF ReadKind
  <1>9. ReadKind(chain, "auths", b) = read_array(b, read_authority)
    BY WidthIs DEF ReadKind
  <1>10. ReadKind(chain, "optauth", b) = read_optional(b, read_authority)
    BY WidthIs DEF ReadKind
  <1>11. ReadKind(chain, "optkey", b) = read_optional(b, read_key)
    BY WidthIs DEF ReadKind
  <1>12. ReadKind(chain, "noext", b) = read_no_extensions(b)
    BY WidthIs DEF ReadKind
  <1>13. ReadKind(chain, "coext", b) = read_array(b, read_beneficiaries)
    BY WidthIs DEF ReadKind
  <1>14. ReadKind(chain, "rtext", b) = read_array(b, read_pair_id)
    BY WidthIs DEF ReadKind
  <1>15. ReadKind(chain, "strs", b) = read_array(b, read_string)
    BY WidthIs DEF ReadKind
  <1>16. ReadKind(chain, "u64s", b) = read_array(b, LAMBDA c : take(c, 8))
    BY WidthIs DEF ReadKind
  <1>17. ReadKind(chain, "wprops", b) = read_array(b, LAMBDA c : InTurn(c, <<1, 2>>, LAMBDA i, d : IF i = 1 THEN read_string(d) ELSE read_bytes(d)))
    BY WidthIs DEF ReadKind
  <1> QED BY ONLY <1>1, <1>2, <1>3, <1>4, <1>5, <1>6, <1>7, <1>8, <1>9, <1>10, <1>11, <1>12, <1>13, <1>14, <1>15, <1>16, <1>17

(* Values, kind by kind. *)
LEMMA ValuesAre ==
    ASSUME NEW chain
    PROVE  /\ Values(chain, "bool") = Bools
           /\ Values(chain, "key") = KeyBytes
           /\ Values(chain, "str") = Strings
           /\ Values(chain, "hex") = Blobs
           /\ Values(chain, "amount") = Amounts(chain)
           /\ Values(chain, "price") = Amounts(chain) \X Amounts(chain)
           /\ Values(chain, "props") = Amounts(chain) \X Fixed(4) \X Fixed(2)
           /\ Values(chain, "auth") = Authorities
           /\ Values(chain, "auths") = Lists(Authorities)
           /\ Values(chain, "optauth") = Optional(Authorities)
           /\ Values(chain, "optkey") = Optional(KeyBytes)
           /\ Values(chain, "noext") = {<<>>}
           /\ Values(chain, "coext") = Lists(Lists(AccountEntries))
           /\ Values(chain, "rtext") = Lists(Fixed(1))
           /\ Values(chain, "accounts") = Lists(Strings)
           /\ Values(chain, "strs") = Lists(Strings)
           /\ Values(chain, "ids") = Lists(Fixed(8))
           /\ Values(chain, "u64s") = Lists(Fixed(8))
           /\ Values(chain, "sortedprops") = Lists(Properties)
           /\ Values(chain, "wprops") = Lists(Properties)
  <1>1. Values(chain, "bool") = Bools
    BY WidthIs DEF Values
  <1>2. Values(chain, "key") = KeyBytes
    BY WidthIs DEF Values
  <1>3. Values(chain, "str") = Strings
    BY WidthIs DEF Values
  <1>4. Values(chain, "hex") = Blobs
    BY WidthIs DEF Values
  <1>5. Values(chain, "amount") = Amounts(chain)
    BY WidthIs DEF Values
  <1>6. Values(chain, "price") = Amounts(chain) \X Amounts(chain)
    BY WidthIs DEF Values
  <1>7. Values(chain, "props") = Amounts(chain) \X Fixed(4) \X Fixed(2)
    BY WidthIs DEF Values
  <1>8. Values(chain, "auth") = Authorities
    BY WidthIs DEF Values
  <1>9. Values(chain, "auths") = Lists(Authorities)
    BY WidthIs DEF Values
  <1>10. Values(chain, "optauth") = Optional(Authorities)
    BY WidthIs DEF Values
  <1>11. Values(chain, "optkey") = Optional(KeyBytes)
    BY WidthIs DEF Values
  <1>12. Values(chain, "noext") = {<<>>}
    BY WidthIs DEF Values
  <1>13. Values(chain, "coext") = Lists(Lists(AccountEntries))
    BY WidthIs DEF Values
  <1>14. Values(chain, "rtext") = Lists(Fixed(1))
    BY WidthIs DEF Values
  <1>15. Values(chain, "accounts") = Lists(Strings)
    BY WidthIs DEF Values
  <1>16. Values(chain, "strs") = Lists(Strings)
    BY WidthIs DEF Values
  <1>17. Values(chain, "ids") = Lists(Fixed(8))
    BY WidthIs DEF Values
  <1>18. Values(chain, "u64s") = Lists(Fixed(8))
    BY WidthIs DEF Values
  <1>19. Values(chain, "sortedprops") = Lists(Properties)
    BY WidthIs DEF Values
  <1>20. Values(chain, "wprops") = Lists(Properties)
    BY WidthIs DEF Values
  <1> QED BY ONLY <1>1, <1>2, <1>3, <1>4, <1>5, <1>6, <1>7, <1>8, <1>9, <1>10, <1>11, <1>12, <1>13, <1>14, <1>15, <1>16, <1>17, <1>18, <1>19, <1>20

-----------------------------------------------------------------------------
(* No extensions: the tag of none. *)
NoExtensions(b) ==
    IF read_varint32(b).ok THEN IF read_varint32(b).val = 0 THEN Got(<<>>, read_varint32(b).rest) ELSE Fail ELSE Fail

(* The reader of extensions that nothing defines, by name. *)
LEMMA NoExtensionsAre ==
    ASSUME NEW b
    PROVE  read_no_extensions(b) = NoExtensions(b)
  BY DEF read_no_extensions, Tagged, Then, NoExtensions

(* No extensions are read back. *)
LEMMA NoExtensionsBack ==
    ASSUME NEW x \in Seq(Nat)
    PROVE  <<0>> \in Seq(Nat) /\ Len(<<0>>) >= 1 /\ NoExtensions(<<0>> \o x) = Got(<<>>, x)
  <1> DEFINE w == <<0>>
             r == read_varint32(w \o x)
  <1>1. w \in Seq(Nat) /\ Len(w) = 1 /\ r = Got(0, x)
    <2>1. 0 \in {0, 1}
      OBVIOUS
    <2> QED BY <2>1, TagBack
  <1>2. NoExtensions(w \o x) = IF r.ok THEN IF r.val = 0 THEN Got(<<>>, r.rest) ELSE Fail ELSE Fail
    BY DEF NoExtensions
  <1> HIDE DEF r, w
  <1>3. r.ok /\ r.val = 0 /\ r.rest = x
    BY <1>1, GotIs
  <1>4. Len(w) >= 1
    BY <1>1
  <1> QED BY <1>1, <1>2, <1>3, <1>4 DEF w

(* Nothing but no extensions is read, whatever follows. *)
LEMMA NoExtensionsSound ==
    ASSUME NEW b \in Seq(Nat), NoExtensions(b).ok
    PROVE  LET r == NoExtensions(b)
           IN  /\ Took(r, b) /\ r.val = <<>>
               /\ \A x \in Seq(Nat) : NoExtensions(b \o x) = Got(r.val, r.rest \o x)
  <1> DEFINE t == read_varint32(b)
  <1>1. t.ok /\ t.val = 0 /\ NoExtensions(b) = Got(<<>>, t.rest)
    BY FailIs DEF NoExtensions
  <1>2. /\ t.rest \in Seq(Nat) /\ Len(t.rest) < Len(b)
        /\ \A x \in Seq(Nat) : read_varint32(b \o x) = Got(t.val, t.rest \o x)
    BY <1>1, VarintSound
  <1> HIDE DEF t
  <1>3. NoExtensions(b).val = <<>> /\ NoExtensions(b).rest = t.rest
    BY <1>1, GotIs
  <1>4. Len(t.rest) <= Len(b)
    <2>1. Len(t.rest) \in Nat /\ Len(b) \in Nat
      BY <1>2
    <2> QED BY <1>2, <2>1
  <1>5. ASSUME NEW x \in Seq(Nat) PROVE NoExtensions(b \o x) = Got(<<>>, t.rest \o x)
    <2> DEFINE r == read_varint32(b \o x)
    <2>1. r = Got(t.val, t.rest \o x)
      BY <1>2
    <2>2. NoExtensions(b \o x) = IF r.ok THEN IF r.val = 0 THEN Got(<<>>, r.rest) ELSE Fail ELSE Fail
      BY DEF NoExtensions
    <2> HIDE DEF r
    <2>3. r.ok /\ r.val = 0 /\ r.rest = t.rest \o x
      BY <1>1, <2>1, GotIs
    <2> QED BY <2>2, <2>3
  <1> QED BY <1>1, <1>2, <1>3, <1>4, <1>5 DEF Took

(* What is read of any kind was there: it is of that kind, it is all that  *)
(* was taken, and more bytes behind it would change nothing.               *)
ReadKinds == DOMAIN Width \cup
    {"key", "str", "hex", "amount", "price", "props", "auth", "auths", "optauth", "optkey", "noext",
     "coext", "rtext", "strs", "u64s", "wprops"}
KindSound(chain, kind, b) ==
    LET r == ReadKind(chain, kind, b)
    IN  /\ Took(r, b) /\ (Small(b) => r.val \in Values(chain, kind))
        /\ \A x \in Seq(Nat) : ReadKind(chain, kind, b \o x) = Got(r.val, r.rest \o x)

(* The reader of a price, by name. *)
LEMMA PriceRead ==
    ASSUME NEW chain, NEW b
    PROVE  ReadKind(chain, "price", b) = Price(chain, b)
  <1>1. ReadKind(chain, "price", b) = InTurn(b, <<1, 2>>, LAMBDA i, c : read_amount(chain, c))
    BY WidthIs DEF ReadKind
  <1>2. InTurn(b, <<1, 2>>, LAMBDA i, c : read_amount(chain, c)) = Price(chain, b)
    BY DEF Price, InTurn, FoldLeft, MapThenFoldSet, Then, Max, Got, Fail, PriceTurns!InTurnOf, PriceTurns!Turns, PriceTurns!TurnStep, PriceTurns!Turn, PriceTurns!Got, PriceTurns!Fail, PriceTurns!Largest, OnePrice
  <1> QED BY ONLY <1>1, <1>2

(* The reader of a chain's properties, by name. *)
LEMMA PropsRead ==
    ASSUME NEW chain, NEW b
    PROVE  ReadKind(chain, "props", b) = Props(chain, b)
  <1>1. ReadKind(chain, "props", b) =
          InTurn(b, <<16, 4, 2>>, LAMBDA w, c : IF w = 16 THEN read_amount(chain, c) ELSE take(c, w))
    BY WidthIs DEF ReadKind
  <1>2. InTurn(b, <<16, 4, 2>>, LAMBDA w, c : IF w = 16 THEN read_amount(chain, c) ELSE take(c, w)) = Props(chain, b)
    BY DEF Props, InTurn, FoldLeft, MapThenFoldSet, Then, Max, Got, Fail, PropsTurns!InTurnOf, PropsTurns!Turns, PropsTurns!TurnStep, PropsTurns!Turn, PropsTurns!Got, PropsTurns!Fail, PropsTurns!Largest, OneProps
  <1> QED BY ONLY <1>1, <1>2

(* An optional value is there once or not. *)
LEMMA OptionalIs ==
    ASSUME NEW S, NEW v, v = <<>> \/ \E a \in S : v = <<a>>
    PROVE  v \in Optional(S)
  <1>1. CASE v = <<>>
    BY <1>1 DEF Optional
  <1>2. CASE \E a \in S : v = <<a>>
    <2>1. PICK a \in S : v = <<a>>
      BY <1>2
    <2>2. v \in Seq(S) /\ Len(v) = 1
      BY <2>1
    <2>3. Len(v) <= 1
      BY ONLY <2>2
    <2> QED BY ONLY <2>2, <2>3 DEF Optional
  <1> QED BY <1>1, <1>2

(* Of every kind: what is read from any bytes is of the kind, whatever     *)
(* follows. *)
LEMMA KindReadSound ==
    ASSUME NEW chain \in DOMAIN Assets, NEW kind \in ReadKinds, NEW b \in Seq(Nat), ReadKind(chain, kind, b).ok
    PROVE  KindSound(chain, kind, b)
  <1>1. CASE kind \in DOMAIN Width \ {"bool"}
    <2>1. Width[kind] \in Nat
      BY <1>1, WidthIs
    <2> DEFINE n == Width[kind]
    <2>2. \A y : ReadKind(chain, kind, y) = take(y, n)
      BY <1>1, FixedKinds
    <2>3. Values(chain, kind) = Fixed(n)
      BY <1>1, FixedKinds
    <2> HIDE DEF n
    <2>4. take(b, n).ok
      BY <2>2
    <2>5. /\ Took(take(b, n), b) /\ take(b, n).val \in Fixed(n)
          /\ \A x \in Seq(Nat) : take(b \o x, n) = Got(take(b, n).val, take(b, n).rest \o x)
      BY <2>1, <2>4, TakeSound DEF n
    <2> QED BY ONLY <2>2, <2>3, <2>5 DEF KindSound
  <1>2. CASE kind = "bool"
    <2>1. \A y : ReadKind(chain, "bool", y) = read_bool(y)
      BY ReadKindIs
    <2> DEFINE r == read_bool(b)
    <2>2. r.ok
      BY <1>2, <2>1
    <2> DEFINE V == Values(chain, "bool")
    <2>3. Took(r, b) /\ r.val \in V /\ \A x \in Seq(Nat) : read_bool(b \o x) = Got(r.val, r.rest \o x)
      BY <2>2, BoolSound, ValuesAre
    <2>4. read_bool(b) = r
      OBVIOUS
    <2> HIDE DEF r, V
    <2>5. KindSound(chain, "bool", b)
      BY ONLY <2>1, <2>3, <2>4 DEF KindSound, V
    <2> QED BY <1>2, <2>5
  <1>3. CASE kind = "key"
    <2>1. \A y : ReadKind(chain, "key", y) = read_key(y)
      BY ReadKindIs
    <2> DEFINE r == read_key(b)
    <2>2. r.ok
      BY <1>3, <2>1
    <2> DEFINE V == Values(chain, "key")
    <2>3. Took(r, b) /\ r.val \in V /\ \A x \in Seq(Nat) : read_key(b \o x) = Got(r.val, r.rest \o x)
      BY <2>2, KeySound, ValuesAre
    <2>4. read_key(b) = r
      OBVIOUS
    <2> HIDE DEF r, V
    <2>5. KindSound(chain, "key", b)
      BY ONLY <2>1, <2>3, <2>4 DEF KindSound, V
    <2> QED BY <1>3, <2>5
  <1>4. CASE kind = "str"
    <2>1. \A y : ReadKind(chain, "str", y) = read_string(y)
      BY ReadKindIs
    <2> DEFINE r == read_string(b)
    <2>2. r.ok
      BY <1>4, <2>1
    <2> DEFINE V == Values(chain, "str")
    <2>3. Took(r, b) /\ (Small(b) => r.val \in V) /\ \A x \in Seq(Nat) : read_string(b \o x) = Got(r.val, r.rest \o x)
      BY <2>2, StringSound, ValuesAre
    <2>4. read_string(b) = r
      OBVIOUS
    <2> HIDE DEF r, V
    <2>5. KindSound(chain, "str", b)
      BY ONLY <2>1, <2>3, <2>4 DEF KindSound, V
    <2> QED BY <1>4, <2>5
  <1>5. CASE kind = "hex"
    <2>1. \A y : ReadKind(chain, "hex", y) = read_bytes(y)
      BY ReadKindIs
    <2> DEFINE r == read_bytes(b)
    <2>2. r.ok
      BY <1>5, <2>1
    <2> DEFINE V == Values(chain, "hex")
    <2>3. Took(r, b) /\ (Small(b) => r.val \in V) /\ \A x \in Seq(Nat) : read_bytes(b \o x) = Got(r.val, r.rest \o x)
      <3>1. Took(r, b) /\ r.val \in Seq(Nat) /\ Len(r.val) <= Len(b) /\ \A x \in Seq(Nat) : read_bytes(b \o x) = Got(r.val, r.rest \o x)
        BY <2>2, BytesSound
      <3>2. V = Blobs
        BY ValuesAre
      <3> HIDE DEF r, V
      <3>3. Small(b) => r.val \in Blobs
        BY <3>1, BytesFit
      <3> QED BY <3>1, <3>2, <3>3
    <2>4. read_bytes(b) = r
      OBVIOUS
    <2> HIDE DEF r, V
    <2>5. KindSound(chain, "hex", b)
      BY ONLY <2>1, <2>3, <2>4 DEF KindSound, V
    <2> QED BY <1>5, <2>5
  <1>6. CASE kind = "amount"
    <2>1. \A y : ReadKind(chain, "amount", y) = read_amount(chain, y)
      BY ReadKindIs
    <2> DEFINE r == read_amount(chain, b)
    <2>2. r.ok
      BY <1>6, <2>1
    <2> DEFINE V == Values(chain, "amount")
    <2>3. Took(r, b) /\ r.val \in V /\ \A x \in Seq(Nat) : read_amount(chain, b \o x) = Got(r.val, r.rest \o x)
      BY <2>2, AmountSound, ValuesAre
    <2>4. read_amount(chain, b) = r
      OBVIOUS
    <2> HIDE DEF r, V
    <2>5. KindSound(chain, "amount", b)
      BY ONLY <2>1, <2>3, <2>4 DEF KindSound, V
    <2> QED BY <1>6, <2>5
  <1>7. CASE kind = "price"
    <2>1. \A y : ReadKind(chain, "price", y) = Price(chain, y)
      BY PriceRead
    <2> DEFINE r == Price(chain, b)
    <2>2. r.ok
      BY <1>7, <2>1
    <2> DEFINE V == Values(chain, "price")
    <2>3. Took(r, b) /\ r.val \in V /\ \A x \in Seq(Nat) : Price(chain, b \o x) = Got(r.val, r.rest \o x)
      BY <2>2, PriceSound, ValuesAre
    <2>4. Price(chain, b) = r
      OBVIOUS
    <2> HIDE DEF r, V
    <2>5. KindSound(chain, "price", b)
      BY ONLY <2>1, <2>3, <2>4 DEF KindSound, V
    <2> QED BY <1>7, <2>5
  <1>8. CASE kind = "props"
    <2>1. \A y : ReadKind(chain, "props", y) = Props(chain, y)
      BY PropsRead
    <2> DEFINE r == Props(chain, b)
    <2>2. r.ok
      BY <1>8, <2>1
    <2> DEFINE V == Values(chain, "props")
    <2>3. Took(r, b) /\ r.val \in V /\ \A x \in Seq(Nat) : Props(chain, b \o x) = Got(r.val, r.rest \o x)
      BY <2>2, PropsSound, ValuesAre
    <2>4. Props(chain, b) = r
      OBVIOUS
    <2> HIDE DEF r, V
    <2>5. KindSound(chain, "props", b)
      BY ONLY <2>1, <2>3, <2>4 DEF KindSound, V
    <2> QED BY <1>8, <2>5
  <1>9. CASE kind = "auth"
    <2>1. \A y : ReadKind(chain, "auth", y) = read_authority(y)
      BY ReadKindIs
    <2> DEFINE r == read_authority(b)
    <2>2. r.ok
      BY <1>9, <2>1
    <2> DEFINE V == Values(chain, "auth")
    <2>3. Took(r, b) /\ (Small(b) => r.val \in V) /\ \A x \in Seq(Nat) : read_authority(b \o x) = Got(r.val, r.rest \o x)
      BY <2>2, AuthoritySound, ValuesAre
    <2>4. read_authority(b) = r
      OBVIOUS
    <2> HIDE DEF r, V
    <2>5. KindSound(chain, "auth", b)
      BY ONLY <2>1, <2>3, <2>4 DEF KindSound, V
    <2> QED BY <1>9, <2>5
  <1>10. CASE kind = "auths"
    <2>1. \A y : ReadKind(chain, "auths", y) = AuthorityArray(y)
      BY ReadKindIs, AuthoritiesAre
    <2> DEFINE r == AuthorityArray(b)
    <2>2. r.ok
      BY <1>10, <2>1
    <2> DEFINE V == Values(chain, "auths")
    <2>3. Took(r, b) /\ (Small(b) => r.val \in V) /\ \A x \in Seq(Nat) : AuthorityArray(b \o x) = Got(r.val, r.rest \o x)
      BY <2>2, AuthorityArraySound, ValuesAre
    <2>4. AuthorityArray(b) = r
      OBVIOUS
    <2> HIDE DEF r, V
    <2>5. KindSound(chain, "auths", b)
      BY ONLY <2>1, <2>3, <2>4 DEF KindSound, V
    <2> QED BY <1>10, <2>5
  <1>11. CASE kind = "optauth"
    <2>1. \A y : ReadKind(chain, "optauth", y) = OptAuthority(y)
      BY ReadKindIs, OptAuthorityIs
    <2> DEFINE r == OptAuthority(b)
    <2>2. r.ok
      BY <1>11, <2>1
    <2> DEFINE V == Values(chain, "optauth")
    <2>3. Took(r, b) /\ (Small(b) => r.val \in V) /\ \A x \in Seq(Nat) : OptAuthority(b \o x) = Got(r.val, r.rest \o x)
      <3>1. /\ Took(r, b) /\ (Small(b) => r.val = <<>> \/ \E a \in Authorities : r.val = <<a>>)
            /\ \A x \in Seq(Nat) : OptAuthority(b \o x) = Got(r.val, r.rest \o x)
        BY <2>2, OptAuthoritySound
      <3>2. V = Optional(Authorities)
        BY ValuesAre
      <3> HIDE DEF r, V
      <3> QED BY <3>1, <3>2, OptionalIs
    <2>4. OptAuthority(b) = r
      OBVIOUS
    <2> HIDE DEF r, V
    <2>5. KindSound(chain, "optauth", b)
      BY ONLY <2>1, <2>3, <2>4 DEF KindSound, V
    <2> QED BY <1>11, <2>5
  <1>12. CASE kind = "optkey"
    <2>1. \A y : ReadKind(chain, "optkey", y) = OptKey(y)
      BY ReadKindIs, OptKeyIs
    <2> DEFINE r == OptKey(b)
    <2>2. r.ok
      BY <1>12, <2>1
    <2> DEFINE V == Values(chain, "optkey")
    <2>3. Took(r, b) /\ (Small(b) => r.val \in V) /\ \A x \in Seq(Nat) : OptKey(b \o x) = Got(r.val, r.rest \o x)
      <3>1. /\ Took(r, b) /\ (Small(b) => r.val = <<>> \/ \E a \in KeyBytes : r.val = <<a>>)
            /\ \A x \in Seq(Nat) : OptKey(b \o x) = Got(r.val, r.rest \o x)
        BY <2>2, OptKeySound
      <3>2. V = Optional(KeyBytes)
        BY ValuesAre
      <3> HIDE DEF r, V
      <3> QED BY <3>1, <3>2, OptionalIs
    <2>4. OptKey(b) = r
      OBVIOUS
    <2> HIDE DEF r, V
    <2>5. KindSound(chain, "optkey", b)
      BY ONLY <2>1, <2>3, <2>4 DEF KindSound, V
    <2> QED BY <1>12, <2>5
  <1>13. CASE kind = "noext"
    <2>1. \A y : ReadKind(chain, "noext", y) = NoExtensions(y)
      BY ReadKindIs, NoExtensionsAre
    <2> DEFINE r == NoExtensions(b)
    <2>2. r.ok
      BY <1>13, <2>1
    <2> DEFINE V == Values(chain, "noext")
    <2>3. Took(r, b) /\ r.val \in V /\ \A x \in Seq(Nat) : NoExtensions(b \o x) = Got(r.val, r.rest \o x)
      BY <2>2, NoExtensionsSound, ValuesAre
    <2>4. NoExtensions(b) = r
      OBVIOUS
    <2> HIDE DEF r, V
    <2>5. KindSound(chain, "noext", b)
      BY ONLY <2>1, <2>3, <2>4 DEF KindSound, V
    <2> QED BY <1>13, <2>5
  <1>14. CASE kind = "coext"
    <2>1. \A y : ReadKind(chain, "coext", y) = BeneficiariesArray(y)
      BY ReadKindIs, BeneficiariesListsAre
    <2> DEFINE r == BeneficiariesArray(b)
    <2>2. r.ok
      BY <1>14, <2>1
    <2> DEFINE V == Values(chain, "coext")
    <2>3. Took(r, b) /\ (Small(b) => r.val \in V) /\ \A x \in Seq(Nat) : BeneficiariesArray(b \o x) = Got(r.val, r.rest \o x)
      BY <2>2, BeneficiariesArraySound, ValuesAre
    <2>4. BeneficiariesArray(b) = r
      OBVIOUS
    <2> HIDE DEF r, V
    <2>5. KindSound(chain, "coext", b)
      BY ONLY <2>1, <2>3, <2>4 DEF KindSound, V
    <2> QED BY <1>14, <2>5
  <1>15. CASE kind = "rtext"
    <2>1. \A y : ReadKind(chain, "rtext", y) = PairIdArray(y)
      BY ReadKindIs, PairIdsAre
    <2> DEFINE r == PairIdArray(b)
    <2>2. r.ok
      BY <1>15, <2>1
    <2> DEFINE V == Values(chain, "rtext")
    <2>3. Took(r, b) /\ (Small(b) => r.val \in V) /\ \A x \in Seq(Nat) : PairIdArray(b \o x) = Got(r.val, r.rest \o x)
      BY <2>2, PairIdArraySound, ValuesAre
    <2>4. PairIdArray(b) = r
      OBVIOUS
    <2> HIDE DEF r, V
    <2>5. KindSound(chain, "rtext", b)
      BY ONLY <2>1, <2>3, <2>4 DEF KindSound, V
    <2> QED BY <1>15, <2>5
  <1>16. CASE kind = "strs"
    <2>1. \A y : ReadKind(chain, "strs", y) = StringArray(y)
      BY ReadKindIs, StringsAre
    <2> DEFINE r == StringArray(b)
    <2>2. r.ok
      BY <1>16, <2>1
    <2> DEFINE V == Values(chain, "strs")
    <2>3. Took(r, b) /\ (Small(b) => r.val \in V) /\ \A x \in Seq(Nat) : StringArray(b \o x) = Got(r.val, r.rest \o x)
      BY <2>2, StringArraySound, ValuesAre
    <2>4. StringArray(b) = r
      OBVIOUS
    <2> HIDE DEF r, V
    <2>5. KindSound(chain, "strs", b)
      BY ONLY <2>1, <2>3, <2>4 DEF KindSound, V
    <2> QED BY <1>16, <2>5
  <1>17. CASE kind = "u64s"
    <2>1. \A y : ReadKind(chain, "u64s", y) = IdArray(y)
      BY ReadKindIs, IdsAre
    <2> DEFINE r == IdArray(b)
    <2>2. r.ok
      BY <1>17, <2>1
    <2> DEFINE V == Values(chain, "u64s")
    <2>3. Took(r, b) /\ (Small(b) => r.val \in V) /\ \A x \in Seq(Nat) : IdArray(b \o x) = Got(r.val, r.rest \o x)
      BY <2>2, IdArraySound, ValuesAre
    <2>4. IdArray(b) = r
      OBVIOUS
    <2> HIDE DEF r, V
    <2>5. KindSound(chain, "u64s", b)
      BY ONLY <2>1, <2>3, <2>4 DEF KindSound, V
    <2> QED BY <1>17, <2>5
  <1>18. CASE kind = "wprops"
    <2>1. \A y : ReadKind(chain, "wprops", y) = PropertyArray(y)
      BY ReadKindIs, PropertiesAre
    <2> DEFINE r == PropertyArray(b)
    <2>2. r.ok
      BY <1>18, <2>1
    <2> DEFINE V == Values(chain, "wprops")
    <2>3. Took(r, b) /\ (Small(b) => r.val \in V) /\ \A x \in Seq(Nat) : PropertyArray(b \o x) = Got(r.val, r.rest \o x)
      BY <2>2, PropertyArraySound, ValuesAre
    <2>4. PropertyArray(b) = r
      OBVIOUS
    <2> HIDE DEF r, V
    <2>5. KindSound(chain, "wprops", b)
      BY ONLY <2>1, <2>3, <2>4 DEF KindSound, V
    <2> QED BY <1>18, <2>5
  <1> QED BY <1>1, <1>2, <1>3, <1>4, <1>5, <1>6, <1>7, <1>8, <1>9, <1>10, <1>11, <1>12, <1>13, <1>14, <1>15, <1>16, <1>17, <1>18 DEF ReadKinds

-----------------------------------------------------------------------------
(* What becomes of the value of a field: the bytes it is written to are    *)
(* read back to k, which is of its kind too and is written to the same.    *)
KindKept(chain, wk, rk, v, k) ==
    /\ Write(wk, v) \in Seq(Nat) /\ Len(Write(wk, v)) >= 1
    /\ \A x \in Seq(Nat) : ReadKind(chain, rk, Write(wk, v) \o x) = Got(k, x)
    /\ k \in Values(chain, wk) /\ Write(wk, k) = Write(wk, v)

(* What it takes for a value to be read back. *)
LEMMA KeptIs ==
    ASSUME NEW chain, NEW wk, NEW rk, NEW v, NEW k, NEW W, Write(wk, v) = W, W \in Seq(Nat), Len(W) >= 1,
           \A x \in Seq(Nat) : ReadKind(chain, rk, W \o x) = Got(k, x),
           k \in Values(chain, wk), Write(wk, k) = W
    PROVE  KindKept(chain, wk, rk, v, k)
  BY DEF KindKept

(* A value of a fixed width is read back. *)
LEMMA FixedKept ==
    ASSUME NEW chain, NEW kind \in DOMAIN Width \ {"bool"}, NEW v \in Values(chain, kind)
    PROVE  KindKept(chain, kind, kind, v, v)
  <1> DEFINE n == Width[kind]
  <1>1. n \in Nat /\ n >= 1
    BY WidthIs
  <1>2. Write(kind, v) = v /\ Values(chain, kind) = Fixed(n) /\ \A y : ReadKind(chain, kind, y) = take(y, n)
    BY FixedKinds
  <1> HIDE DEF n
  <1>3. v \in Fixed(n)
    BY <1>2
  <1>4. v \in Seq(Nat) /\ Len(v) = n /\ \A x \in Seq(Nat) : take(v \o x, n) = Got(v, x)
    <2>1. <<>> \in Seq(Nat)
      OBVIOUS
    <2> QED BY <1>1, <1>3, <2>1, TakeBack
  <1>5. Len(v) >= 1
    BY <1>1, <1>4
  <1> QED BY <1>2, <1>4, <1>5, KeptIs

(* A bool is read back. *)
LEMMA BoolKept ==
    ASSUME NEW chain, NEW v \in Values(chain, "bool")
    PROVE  KindKept(chain, "bool", "bool", v, v)
  <1>1. v \in Bools
    BY ValuesAre
  <1>2. v \in Seq(Nat) /\ Len(v) = 1 /\ \A x \in Seq(Nat) : read_bool(v \o x) = Got(v, x)
    <2>1. <<>> \in Seq(Nat)
      OBVIOUS
    <2> QED BY <1>1, <2>1, BoolBack
  <1>3. Write("bool", v) = v
    BY WidthIs, FixedKinds
  <1>4. Len(v) >= 1
    BY <1>2
  <1>5. \A y : ReadKind(chain, "bool", y) = read_bool(y)
    BY ReadKindIs
  <1> QED BY <1>2, <1>3, <1>4, <1>5, KeptIs

(* Keys, bytes, strings, amounts and no extensions are read back. *)
LEMMA PlainKept ==
    ASSUME NEW chain \in DOMAIN Assets, NEW v
    PROVE  /\ v \in Values(chain, "key") => KindKept(chain, "key", "key", v, v)
           /\ v \in Values(chain, "hex") => KindKept(chain, "hex", "hex", v, v)
           /\ v \in Values(chain, "str") => KindKept(chain, "str", "str", v, hived_transport_form(v))
           /\ v \in Values(chain, "amount") => KindKept(chain, "amount", "amount", v, AmountOn(chain, v))
           /\ v \in Values(chain, "noext") => KindKept(chain, "noext", "noext", v, v)
  <1>0. <<>> \in Seq(Nat)
    OBVIOUS
  <1>1. ASSUME v \in Values(chain, "key") PROVE KindKept(chain, "key", "key", v, v)
    <2>1. v \in KeyBytes
      BY <1>1, ValuesAre
    <2>2. v \in Seq(Nat) /\ Len(v) >= 1 /\ \A x \in Seq(Nat) : read_key(v \o x) = Got(v, x)
      BY <1>0, <2>1, KeyBack
    <2>3. Write("key", v) = v
      BY WriteIs
    <2>4. \A y : ReadKind(chain, "key", y) = read_key(y)
      BY ReadKindIs
    <2> QED BY <1>1, <2>2, <2>3, <2>4, KeptIs
  <1>2. ASSUME v \in Values(chain, "hex") PROVE KindKept(chain, "hex", "hex", v, v)
    <2>1. v \in Blobs
      BY <1>2, ValuesAre
    <2>2. /\ write_bytes(v) \in Seq(Nat) /\ Len(write_bytes(v)) >= 1
          /\ \A x \in Seq(Nat) : read_bytes(write_bytes(v) \o x) = Got(v, x)
      BY <1>0, <2>1, BytesBack
    <2>3. Write("hex", v) = write_bytes(v)
      BY WriteIs
    <2>4. \A y : ReadKind(chain, "hex", y) = read_bytes(y)
      BY ReadKindIs
    <2> QED BY <1>2, <2>2, <2>3, <2>4, KeptIs
  <1>3. ASSUME v \in Values(chain, "str") PROVE KindKept(chain, "str", "str", v, hived_transport_form(v))
    <2>1. v \in Strings
      BY <1>3, ValuesAre
    <2> DEFINE f == hived_transport_form(v)
    <2>2. /\ write_string(v) \in Seq(Nat) /\ Len(write_string(v)) >= 1
          /\ \A x \in Seq(Nat) : read_string(write_string(v) \o x) = Got(f, x)
      BY <1>0, <2>1, StringBack
    <2>3. f \in Strings /\ write_string(f) = write_string(v)
      BY <2>1, StringForm
    <2> HIDE DEF f
    <2>4. f \in Values(chain, "str") /\ Write("str", f) = write_string(v) /\ Write("str", v) = write_string(v)
      BY <2>3, ValuesAre, WriteIs
    <2>6. \A y : ReadKind(chain, "str", y) = read_string(y)
      BY ReadKindIs
    <2>5. KindKept(chain, "str", "str", v, f)
      BY <2>2, <2>4, <2>6, KeptIs
    <2> QED BY <2>5 DEF f
  <1>4. ASSUME v \in Values(chain, "amount") PROVE KindKept(chain, "amount", "amount", v, AmountOn(chain, v))
    <2>1. v \in Amounts(chain)
      BY <1>4, ValuesAre
    <2> DEFINE f == AmountOn(chain, v)
    <2>2. /\ write_amount(v) \in Seq(Nat) /\ Len(write_amount(v)) >= 1
          /\ \A x \in Seq(Nat) : read_amount(chain, write_amount(v) \o x) = Got(f, x)
      BY <1>0, <2>1, AmountBack
    <2>3. f \in Amounts(chain) /\ write_amount(f) = write_amount(v)
      BY <2>1, AmountNamed
    <2> HIDE DEF f
    <2>4. f \in Values(chain, "amount") /\ Write("amount", f) = write_amount(v) /\ Write("amount", v) = write_amount(v)
      BY <2>3, ValuesAre, WriteIs
    <2>6. \A y : ReadKind(chain, "amount", y) = read_amount(chain, y)
      BY ReadKindIs
    <2>5. KindKept(chain, "amount", "amount", v, f)
      BY <2>2, <2>4, <2>6, KeptIs
    <2> QED BY <2>5 DEF f
  <1>5. ASSUME v \in Values(chain, "noext") PROVE KindKept(chain, "noext", "noext", v, v)
    <2>1. v = <<>>
      BY <1>5, ValuesAre
    <2> DEFINE w == <<0>>
    <2>2. w \in Seq(Nat) /\ Len(w) >= 1 /\ \A x \in Seq(Nat) : NoExtensions(w \o x) = Got(v, x)
      BY <1>0, <2>1, NoExtensionsBack
    <2>3. Write("noext", v) = w
      BY WriteIs
    <2>4. \A y : ReadKind(chain, "noext", y) = NoExtensions(y)
      BY ReadKindIs, NoExtensionsAre
    <2> HIDE DEF w
    <2> QED BY <1>5, <2>2, <2>3, <2>4, KeptIs
  <1> QED BY <1>1, <1>2, <1>3, <1>4, <1>5

(* A price, and the witness's properties. *)
LEMMA PriceKept ==
    ASSUME NEW chain \in DOMAIN Assets, NEW v \in Values(chain, "price")
    PROVE  KindKept(chain, "price", "price", v, <<AmountOn(chain, v[1]), AmountOn(chain, v[2])>>)
  <1> DEFINE a == v[1]
             b == v[2]
             k == <<AmountOn(chain, a), AmountOn(chain, b)>>
             W == write_amount(a) \o write_amount(b)
  <1>1. a \in Amounts(chain) /\ b \in Amounts(chain)
    BY ValuesAre
  <1>2. /\ AmountOn(chain, a) \in Amounts(chain) /\ write_amount(AmountOn(chain, a)) = write_amount(a)
        /\ AmountOn(chain, b) \in Amounts(chain) /\ write_amount(AmountOn(chain, b)) = write_amount(b)
    BY <1>1, AmountNamed
  <1>3. k[1] = AmountOn(chain, a) /\ k[2] = AmountOn(chain, b) /\ k \in Values(chain, "price")
    BY <1>2, ValuesAre
  <1>4. W \in Seq(Nat) /\ Len(W) >= 1 /\ \A x \in Seq(Nat) : Price(chain, W \o x) = Got(k, x)
    <2>1. <<>> \in Seq(Nat)
      OBVIOUS
    <2> QED BY <1>1, <2>1, PriceBack
  <1>5. Write("price", v) = W
    BY WriteIs
  <1>6. Write("price", k) = write_amount(k[1]) \o write_amount(k[2])
    BY WriteIs
  <1>7. Write("price", k) = W
    BY <1>2, <1>3, <1>6
  <1> HIDE DEF a, b, k, W
  <1>8. KindKept(chain, "price", "price", v, k)
    BY <1>3, <1>4, <1>5, <1>7, PriceRead, KeptIs
  <1> QED BY <1>8 DEF k, a, b

(* A chain's properties are read back. *)
LEMMA PropsKept ==
    ASSUME NEW chain \in DOMAIN Assets, NEW v \in Values(chain, "props")
    PROVE  KindKept(chain, "props", "props", v, <<AmountOn(chain, v[1]), v[2], v[3]>>)
  <1> DEFINE a == v[1]
             b == v[2]
             c == v[3]
             k == <<AmountOn(chain, a), b, c>>
             W == write_amount(a) \o b \o c
  <1>1. a \in Amounts(chain) /\ b \in Fixed(4) /\ c \in Fixed(2)
    BY ValuesAre
  <1>2. AmountOn(chain, a) \in Amounts(chain) /\ write_amount(AmountOn(chain, a)) = write_amount(a)
    BY <1>1, AmountNamed
  <1>3. k[1] = AmountOn(chain, a) /\ k[2] = b /\ k[3] = c /\ k \in Values(chain, "props")
    BY <1>1, <1>2, ValuesAre
  <1>4. W \in Seq(Nat) /\ Len(W) >= 1 /\ \A x \in Seq(Nat) : Props(chain, W \o x) = Got(k, x)
    <2>1. <<>> \in Seq(Nat)
      OBVIOUS
    <2> QED BY <1>1, <2>1, PropsBack
  <1>5. Write("props", v) = W
    BY WriteIs
  <1>6. Write("props", k) = write_amount(k[1]) \o k[2] \o k[3]
    BY WriteIs
  <1>7. Write("props", k) = W
    BY <1>2, <1>3, <1>6
  <1> HIDE DEF a, b, c, k, W
  <1>8. KindKept(chain, "props", "props", v, k)
    BY <1>3, <1>4, <1>5, <1>7, PropsRead, KeptIs
  <1> QED BY <1>8 DEF k, a, b, c

(* An authority, and an optional one. *)
LEMMA AuthorityAgain ==
    ASSUME NEW a \in Authorities
    PROVE  CarriedAuthority(a) \in Authorities /\ write_authority(CarriedAuthority(a)) = write_authority(a)
  <1> DEFINE s == CarriedAuthority(a)
             acc == a.account_auths
             u == Carried(acc)
             N == Len(acc)
  <1>1. /\ s \in Authorities /\ s.account_auths = u
        /\ s.weight_threshold = a.weight_threshold /\ s.key_auths = a.key_auths
        /\ u \in Lists(AccountEntries) /\ Len(u) = N /\ u = [n \in 1 .. N |-> CarriedEntry(acc[n])]
    BY AuthorityCarried
  <1>2. acc \in Lists(AccountEntries)
    BY AuthorityKept
  <1>3. DOMAIN acc = 1 .. N /\ DOMAIN u = 1 .. N /\ \A i \in 1 .. N : acc[i] \in Strings \X Fixed(2)
    BY <1>1, <1>2, ListIs DEF AccountEntries
  <1> HIDE DEF s, acc, u, N
  <1>4. ASSUME NEW i \in 1 .. N PROVE account_entry(u[i]) = account_entry(acc[i])
    <2>1. u[i] = CarriedEntry(acc[i])
      BY <1>1
    <2> DEFINE e == acc[i]
    <2>2. e[1] \in Strings
      BY <1>3
    <2> HIDE DEF e
    <2>3. write_string(hived_transport_form(e[1])) = write_string(e[1])
      BY <2>2, StringForm
    <2>4. CarriedEntry(e)[1] = hived_transport_form(e[1]) /\ CarriedEntry(e)[2] = e[2]
      BY DEF CarriedEntry
    <2>5. account_entry(CarriedEntry(e)) = account_entry(e)
      BY <2>3, <2>4 DEF account_entry
    <2> QED BY <2>1, <2>5 DEF e
  <1>5. AccountWires(u) = AccountWires(acc)
    BY <1>3, <1>4 DEF AccountWires
  <1>6. write_authority(s) = write_authority(a)
    <2>1. write_authority(s) = (s.weight_threshold \o ArrayOf(AccountWires(s.account_auths), Len(s.account_auths)))
                                 \o ArrayOf(KeyWires(s.key_auths), Len(s.key_auths))
      BY AuthorityWritten
    <2>2. write_authority(a) = (a.weight_threshold \o ArrayOf(AccountWires(a.account_auths), Len(a.account_auths)))
                                 \o ArrayOf(KeyWires(a.key_auths), Len(a.key_auths))
      BY AuthorityWritten
    <2>3. Len(u) = Len(acc)
      BY <1>1 DEF N
    <2> QED BY <1>1, <1>5, <2>1, <2>2, <2>3 DEF acc
  <1> QED BY <1>1, <1>6 DEF s

(* An authority is read back and written to the same bytes again. *)
LEMMA AuthorityBytes ==
    ASSUME NEW chain, NEW v \in Values(chain, "auth")
    PROVE  KindKept(chain, "auth", "auth", v, CarriedAuthority(v))
  <1>1. v \in Authorities
    BY ValuesAre
  <1> DEFINE f == CarriedAuthority(v)
             W == write_authority(v)
  <1>2. W \in Seq(Nat) /\ Len(W) >= 1 /\ \A x \in Seq(Nat) : read_authority(W \o x) = Got(f, x)
    <2>1. <<>> \in Seq(Nat)
      OBVIOUS
    <2> QED BY <1>1, <2>1, AuthorityBack
  <1>3. f \in Authorities /\ write_authority(f) = W
    BY <1>1, AuthorityAgain
  <1>4. Write("auth", v) = W
    BY WriteIs
  <1> HIDE DEF f, W
  <1>5. Write("auth", f) = W /\ f \in Values(chain, "auth")
    BY <1>3, WriteIs, ValuesAre
  <1>7. \A y : ReadKind(chain, "auth", y) = read_authority(y)
    BY ReadKindIs
  <1>6. KindKept(chain, "auth", "auth", v, f)
    BY <1>2, <1>4, <1>5, <1>7, KeptIs
  <1> QED BY <1>6 DEF f

(* So is an optional authority. *)
LEMMA OptAuthorityKept ==
    ASSUME NEW chain, NEW v \in Values(chain, "optauth")
    PROVE  KindKept(chain, "optauth", "optauth", v, [i \in DOMAIN v |-> CarriedAuthority(v[i])])
  <1> DEFINE k == [i \in DOMAIN v |-> CarriedAuthority(v[i])]
  <1>0. <<>> \in Seq(Nat)
    OBVIOUS
  <1>1. v \in Seq(Authorities) /\ Len(v) <= 1
    BY ValuesAre DEF Optional
  <1>2. Write("optauth", v) = IF v = <<>> THEN <<0>> ELSE <<1>> \o write_authority(v[1])
    BY WriteIs DEF write_optional
  <1>3. \A y : ReadKind(chain, "optauth", y) = OptAuthority(y)
    BY ReadKindIs, OptAuthorityIs
  <1>4. CASE v = <<>>
    <2> DEFINE w == <<0>>
    <2>1. w \in Seq(Nat) /\ Len(w) >= 1 /\ \A x \in Seq(Nat) : OptAuthority(w \o x) = Got(<<>>, x)
      BY <1>0, OptAuthorityBack
    <2>2. k = v /\ Write("optauth", v) = w
      BY <1>2, <1>4
    <2> HIDE DEF w, k
    <2>3. KindKept(chain, "optauth", "optauth", v, v)
      BY <1>3, <1>4, <2>1, <2>2, KeptIs
    <2> QED BY <2>2, <2>3 DEF k
  <1>5. CASE v # <<>>
    <2>1. DOMAIN v = {1} /\ v[1] \in Authorities /\ Len(v) = 1
      <3>1. Len(v) \in Nat /\ Len(v) # 0 /\ Len(v) <= 1
        BY <1>1, <1>5
      <3>2. Len(v) = 1
        <4> DEFINE L == Len(v)
        <4>1. L \in Nat /\ L # 0 /\ L <= 1
          BY <3>1
        <4> HIDE DEF L
        <4>2. L = 1
          BY ONLY <4>1
        <4> QED BY <4>2 DEF L
      <3> QED BY <1>1, <3>2
    <2> DEFINE a == v[1]
               f == CarriedAuthority(a)
               g == <<f>>
               w == <<1>> \o write_authority(a)
    <2>2. v = <<a>>
      BY <1>1, <2>1
    <2>3. k = g
      BY <2>1
    <2>4. f \in Authorities
      BY <2>1, AuthorityAgain
    <2>5. w \in Seq(Nat) /\ Len(w) >= 1 /\ \A x \in Seq(Nat) : OptAuthority(w \o x) = Got(g, x)
      BY <1>0, <2>1, OptAuthorityBack
    <2>6. Write("optauth", v) = w
      BY <1>2, <1>5
    <2>7. Write("optauth", g) = <<1>> \o write_authority(f)
      <3>1. Write("optauth", g) = IF g = <<>> THEN <<0>> ELSE <<1>> \o write_authority(g[1])
        BY WriteIs DEF write_optional
      <3>2. g # <<>> /\ g[1] = f
        OBVIOUS
      <3> QED BY <3>1, <3>2
    <2>8. Write("optauth", g) = w
      BY <2>1, <2>7, AuthorityAgain
    <2>9. g \in Values(chain, "optauth")
      <3>1. g \in Optional(Authorities)
        BY <2>4, OptionalIs
      <3> QED BY <3>1, ValuesAre
    <2> HIDE DEF a, f, g, w, k
    <2>10. KindKept(chain, "optauth", "optauth", v, g)
      BY <1>3, <2>5, <2>6, <2>8, <2>9, KeptIs
    <2> QED BY <2>3, <2>10 DEF k
  <1> QED BY <1>4, <1>5

(* So is an optional key. *)
LEMMA OptKeyKept ==
    ASSUME NEW chain, NEW v \in Values(chain, "optkey")
    PROVE  KindKept(chain, "optkey", "optkey", v, [i \in DOMAIN v |-> v[i]])
  <1> DEFINE k == [i \in DOMAIN v |-> v[i]]
  <1>0. <<>> \in Seq(Nat)
    OBVIOUS
  <1>1. v \in Seq(KeyBytes) /\ Len(v) <= 1
    BY ValuesAre DEF Optional
  <1>2. Write("optkey", v) = IF v = <<>> THEN <<0>> ELSE <<1>> \o v[1]
    BY WriteIs DEF write_optional
  <1>3. \A y : ReadKind(chain, "optkey", y) = OptKey(y)
    BY ReadKindIs, OptKeyIs
  <1>4. CASE v = <<>>
    <2> DEFINE w == <<0>>
    <2>1. w \in Seq(Nat) /\ Len(w) >= 1 /\ \A x \in Seq(Nat) : OptKey(w \o x) = Got(<<>>, x)
      BY <1>0, OptKeyBack
    <2>2. k = v /\ Write("optkey", v) = w
      BY <1>2, <1>4
    <2> HIDE DEF w, k
    <2>3. KindKept(chain, "optkey", "optkey", v, v)
      BY <1>3, <1>4, <2>1, <2>2, KeptIs
    <2> QED BY <2>2, <2>3 DEF k
  <1>5. CASE v # <<>>
    <2>1. DOMAIN v = {1} /\ v[1] \in KeyBytes /\ Len(v) = 1
      <3>1. Len(v) \in Nat /\ Len(v) # 0 /\ Len(v) <= 1
        BY <1>1, <1>5
      <3>2. Len(v) = 1
        <4> DEFINE L == Len(v)
        <4>1. L \in Nat /\ L # 0 /\ L <= 1
          BY <3>1
        <4> HIDE DEF L
        <4>2. L = 1
          BY ONLY <4>1
        <4> QED BY <4>2 DEF L
      <3> QED BY <1>1, <3>2
    <2> DEFINE a == v[1]
               f == a
               g == <<f>>
               w == <<1>> \o a
    <2>2. v = <<a>>
      BY <1>1, <2>1
    <2>3. k = g
      BY <2>1
    <2>4. f \in KeyBytes
      BY <2>1
    <2>5. w \in Seq(Nat) /\ Len(w) >= 1 /\ \A x \in Seq(Nat) : OptKey(w \o x) = Got(g, x)
      BY <1>0, <2>1, OptKeyBack
    <2>6. Write("optkey", v) = w
      BY <1>2, <1>5
    <2>7. Write("optkey", g) = <<1>> \o f
      <3>1. Write("optkey", g) = IF g = <<>> THEN <<0>> ELSE <<1>> \o g[1]
        BY WriteIs DEF write_optional
      <3>2. g # <<>> /\ g[1] = f
        OBVIOUS
      <3> QED BY <3>1, <3>2
    <2>8. Write("optkey", g) = w
      BY <2>1, <2>7
    <2>9. g \in Values(chain, "optkey")
      <3>1. g \in Optional(KeyBytes)
        BY <2>4, OptionalIs
      <3> QED BY <3>1, ValuesAre
    <2> HIDE DEF a, f, g, w, k
    <2>10. KindKept(chain, "optkey", "optkey", v, g)
      BY <1>3, <2>5, <2>6, <2>8, <2>9, KeptIs
    <2> QED BY <2>3, <2>10 DEF k
  <1> QED BY <1>4, <1>5

-----------------------------------------------------------------------------
(* Fields that are lists. *)
LEMMA NamesOf ==
    ASSUME NEW v \in Lists(Strings)
    PROVE  LET u == CarriedNames(v)
               w == Sorted(v, hived_transport_form)
               N == Len(v)
           IN  /\ u \in Lists(Strings) /\ w \in Lists(Strings) /\ Len(u) = N /\ Len(w) = N
               /\ \A n \in 1 .. N : u[n] = hived_transport_form(w[n])
               /\ Sorted(u, hived_transport_form) = u
               /\ ~Repeats(v, hived_transport_form) => \A n \in 1 .. N - 1 : Before(u[n], u[n + 1])
  <1> DEFINE u == CarriedNames(v)
             w == Sorted(v, hived_transport_form)
             N == Len(v)
  <1>1. N \in Nat /\ N <= MaxInt /\ DOMAIN v = 1 .. N /\ \A i \in 1 .. N : v[i] \in Strings
    BY ListIs
  <1>2. \A i \in 1 .. N : v[i] \in Text
    BY <1>1, StringForm
  <1>3. Names(v, N)
    BY <1>1, <1>2 DEF Names
  <1>4. /\ Names(u, N) /\ Names(w, N)
        /\ \A n \in 1 .. N : (\E i \in 1 .. N : w[n] = v[i]) /\ u[n] = hived_transport_form(w[n])
        /\ Sorted(u, hived_transport_form) = u
        /\ ~Repeats(v, hived_transport_form) => \A n \in 1 .. N - 1 : Before(u[n], u[n + 1])
    BY <1>1, <1>3, NamesCarried
  <1>5. w = [n \in 1 .. N |-> w[n]]
    BY <1>1, SortedIsFunction
  <1>6. u = [n \in 1 .. N |-> u[n]]
    <2> DEFINE f == [i \in DOMAIN v |-> hived_transport_form(v[i])]
    <2>1. DOMAIN f = 1 .. N /\ u = Sorted(f, ByItself)
      BY <1>1 DEF CarriedNames
    <2>2. Sorted(f, ByItself) = [n \in DOMAIN f |-> Sorted(f, ByItself)[n]]
      BY SortedIsFunction
    <2> HIDE DEF f, u, N
    <2> QED BY <2>1, <2>2
  <1> HIDE DEF u, w, N
  <1>7. \A n \in 1 .. N : w[n] \in Strings
    BY <1>1, <1>4
  <1>8. \A n \in 1 .. N : u[n] \in Strings
    <2> SUFFICES ASSUME NEW n \in 1 .. N PROVE u[n] \in Strings
      OBVIOUS
    <2> QED BY <1>4, <1>7, StringForm
  <1>9. u \in Lists(Strings) /\ Len(u) = N
    BY <1>1, <1>6, <1>8, IsList
  <1>10. w \in Lists(Strings) /\ Len(w) = N
    BY <1>1, <1>5, <1>7, IsList
  <1> QED BY ONLY <1>4, <1>9, <1>10 DEF u, w, N

(* Proposals in their order, strictly if none is repeated. *)
LEMMA IdsOf ==
    ASSUME NEW v \in Lists(Fixed(8))
    PROVE  LET w == Sorted(v, ProposalOrder)
               N == Len(v)
           IN  /\ w \in Lists(Fixed(8)) /\ Len(w) = N /\ Sorted(w, ProposalOrder) = w
               /\ ~Repeats(v, ProposalOrder) => \A n \in 1 .. N - 1 : Before(Reverse(w[n]), Reverse(w[n + 1]))
  <1> DEFINE w == Sorted(v, ProposalOrder)
             N == Len(v)
             S == Fixed(8)
  <1>1. N \in Nat /\ N <= MaxInt /\ DOMAIN v = 1 .. N /\ \A i \in 1 .. N : v[i] \in S
    BY ListIs
  <1>2. \A i \in 1 .. N : v[i] \in Bytes
    BY <1>1 DEF Fixed, Bytes
  <1>3. /\ DOMAIN w = 1 .. N /\ Sorted(w, ProposalOrder) = w
        /\ \A n \in 1 .. N : \E i \in 1 .. N : w[n] = v[i]
        /\ ~Repeats(v, ProposalOrder) => \A n \in 1 .. N - 1 : Before(Reverse(w[n]), Reverse(w[n + 1]))
    BY <1>1, <1>2, IdsSorted
  <1>4. w = [n \in 1 .. N |-> w[n]]
    BY <1>1, SortedIsFunction
  <1> HIDE DEF w, N, S
  <1>5. \A n \in 1 .. N : w[n] \in S
    BY <1>1, <1>3
  <1>6. w \in Lists(S) /\ Len(w) = N
    BY <1>1, <1>4, <1>5, IsList
  <1> QED BY ONLY <1>3, <1>6 DEF w, N, S

(* Beneficiaries that were read back are written to the same bytes. *)
LEMMA BeneficiariesAgain ==
    ASSUME NEW v \in Lists(AccountEntries)
    PROVE  Carried(v) \in Lists(AccountEntries) /\ write_beneficiaries(Carried(v)) = write_beneficiaries(v)
  <1> DEFINE u == Carried(v)
             w == Sorted(v, PropertyKey)
             N == Len(v)
  <1>1. v \in Lists(Strings \X Fixed(2))
    BY DEF AccountEntries
  <1>2. /\ u \in Lists(Strings \X Fixed(2)) /\ w \in Lists(Strings \X Fixed(2)) /\ Len(u) = N /\ Len(w) = N
        /\ u = [n \in 1 .. N |-> CarriedEntry(w[n])] /\ Sorted(u, PropertyKey) = u
    BY <1>1, CarriedList
  <1>3. DOMAIN u = 1 .. N /\ DOMAIN w = 1 .. N /\ \A i \in 1 .. N : w[i] \in Strings \X Fixed(2)
    BY <1>2, ListIs
  <1>4. /\ write_beneficiaries(v) = <<0>> \o ArrayOf(AccountWires(w), Len(w))
        /\ write_beneficiaries(u) = <<0>> \o ArrayOf(AccountWires(Sorted(u, PropertyKey)), Len(Sorted(u, PropertyKey)))
    BY BeneficiariesWritten
  <1> HIDE DEF u, w, N
  <1>5. ASSUME NEW i \in 1 .. N PROVE account_entry(u[i]) = account_entry(w[i])
    <2>1. u[i] = CarriedEntry(w[i])
      BY <1>2
    <2> DEFINE e == w[i]
    <2>2. e[1] \in Strings
      BY <1>3
    <2> HIDE DEF e
    <2>3. write_string(hived_transport_form(e[1])) = write_string(e[1])
      BY <2>2, StringForm
    <2>4. CarriedEntry(e)[1] = hived_transport_form(e[1]) /\ CarriedEntry(e)[2] = e[2]
      BY DEF CarriedEntry
    <2>5. account_entry(CarriedEntry(e)) = account_entry(e)
      BY <2>3, <2>4 DEF account_entry
    <2> QED BY <2>1, <2>5 DEF e
  <1>6. AccountWires(u) = AccountWires(w)
    BY <1>3, <1>5 DEF AccountWires
  <1>7. write_beneficiaries(u) = write_beneficiaries(v)
    BY <1>2, <1>4, <1>6
  <1> QED BY <1>2, <1>7 DEF AccountEntries, u

(* So is a witness property. *)
LEMMA PropertyAgain ==
    ASSUME NEW p \in Properties
    PROVE  CarriedEntry(p) \in Properties /\ property_wire(CarriedEntry(p)) = property_wire(p)
  <1>1. p[1] \in Strings /\ p[2] \in Blobs
    BY DEF Properties
  <1>2. hived_transport_form(p[1]) \in Strings /\ write_string(hived_transport_form(p[1])) = write_string(p[1])
    BY <1>1, StringForm
  <1>3. CarriedEntry(p)[1] = hived_transport_form(p[1]) /\ CarriedEntry(p)[2] = p[2] /\ CarriedEntry(p) \in Strings \X Blobs
    BY <1>1, <1>2 DEF CarriedEntry
  <1> QED BY <1>2, <1>3 DEF property_wire, Properties

(* Witness properties in their order, as transport has their names. *)
LEMMA PropertiesOf ==
    ASSUME NEW v \in Lists(Properties)
    PROVE  LET u == Carried(v)
               w == Sorted(v, PropertyKey)
               N == Len(v)
           IN  /\ u \in Lists(Properties) /\ w \in Lists(Properties) /\ Len(u) = N /\ Len(w) = N
               /\ \A n \in 1 .. N : u[n] = CarriedEntry(w[n])
               /\ Sorted(u, PropertyKey) = u
               /\ ~Repeats(v, PropertyKey) => \A n \in 1 .. N - 1 : Before(u[n][1], u[n + 1][1])
  <1> DEFINE u == Carried(v)
             w == Sorted(v, PropertyKey)
             N == Len(v)
  <1>1. v \in Lists(Strings \X Blobs)
    BY DEF Properties
  <1>2. /\ u \in Lists(Strings \X Blobs) /\ w \in Lists(Strings \X Blobs) /\ Len(u) = N /\ Len(w) = N
        /\ u = [n \in 1 .. N |-> CarriedEntry(w[n])] /\ Sorted(u, PropertyKey) = u
        /\ ~Repeats(v, PropertyKey) => \A n \in 1 .. N - 1 : Before(u[n][1], u[n + 1][1])
    BY <1>1, CarriedList
  <1>3. \A n \in 1 .. N : u[n] = CarriedEntry(w[n])
    BY <1>2
  <1> HIDE DEF u, w, N
  <1>4. u \in Lists(Properties) /\ w \in Lists(Properties)
    BY <1>2 DEF Properties
  <1> QED BY ONLY <1>2, <1>3, <1>4 DEF u, w, N

(* Authorities, each with its accounts as hived has them. *)
LEMMA AuthoritiesKept ==
    ASSUME NEW chain, NEW v \in Values(chain, "auths")
    PROVE  KindKept(chain, "auths", "auths", v, [i \in DOMAIN v |-> CarriedAuthority(v[i])])
  <1> DEFINE s == v
             k == [i \in DOMAIN v |-> CarriedAuthority(v[i])]
             N == Len(v)
             S == Authorities
  <1>0. v \in Lists(S)
    BY ValuesAre
  <1>1. /\ N \in Nat /\ N <= MaxInt
        /\ s \in Lists(S) /\ Len(s) = N /\ DOMAIN s = 1 .. N /\ \A i \in 1 .. N : s[i] \in S
    BY <1>0, ListIs
  <1>2. k = [i \in 1 .. N |-> k[i]] /\ \A i \in 1 .. N : k[i] = CarriedAuthority(s[i])
    BY <1>1
  <1> HIDE DEF s, k, N
  <1>3. ASSUME NEW e \in S
        PROVE  /\ write_authority(e) \in Seq(Nat) /\ Len(write_authority(e)) >= 1
               /\ \A c \in Seq(Nat) : read_authority(write_authority(e) \o c) = Got(CarriedAuthority(e), c)
               /\ CarriedAuthority(e) \in S /\ write_authority(CarriedAuthority(e)) = write_authority(e)
    <2>0. <<>> \in Seq(Nat)
      OBVIOUS
    <2> QED BY <2>0, AuthorityBack, AuthorityAgain
  <1> HIDE DEF S
  <1> DEFINE w == [i \in 1 .. N |-> write_authority(s[i])]
  <1>4. ASSUME NEW i \in 1 .. N
        PROVE  /\ w[i] \in Seq(Nat) /\ Len(w[i]) >= 1 /\ w[i] = write_authority(s[i])
               /\ \A c \in Seq(Nat) : read_authority(w[i] \o c) = Got(k[i], c)
               /\ k[i] \in S /\ write_authority(k[i]) = w[i]
    <2>1. s[i] \in S
      BY <1>1
    <2> DEFINE e == s[i]
    <2>2. k[i] = CarriedAuthority(e)
      BY <1>2
    <2>3. w[i] = write_authority(e)
      OBVIOUS
    <2> HIDE DEF e, w
    <2>4. e \in S
      BY <2>1 DEF e
    <2>5. write_authority(s[i]) = write_authority(e)
      BY DEF e
    <2> QED BY <1>3, <2>2, <2>3, <2>4, <2>5
  <1>5. w \in [1 .. N -> Seq(Nat)] /\ w = [i \in 1 .. N |-> w[i]]
    BY <1>4
  <1>6. write_array(s, write_authority) = ArrayOf(w, N)
    BY <1>1 DEF write_array, ArrayOf
  <1> HIDE DEF w
  <1>7. k \in Lists(S) /\ Len(k) = N
    BY <1>1, <1>2, <1>4, IsList
  <1>8. DOMAIN k = 1 .. N
    BY <1>7, ListIs
  <1>9. write_array(k, write_authority) = ArrayOf(w, N)
    <2>1. [i \in DOMAIN k |-> write_authority(k[i])] = w
      BY <1>4, <1>5, <1>8
    <2> QED BY <1>7, <2>1 DEF write_array, ArrayOf
  <1> DEFINE A == ArrayOf(w, N)
  <1>10. A \in Seq(Nat) /\ Len(A) >= 1 /\ \A x \in Seq(Nat) : AuthorityArray(A \o x) = Got(k, x)
    <2>0. <<>> \in Seq(Nat)
      OBVIOUS
    <2>1. \A i \in 1 .. N : Len(w[i]) >= 1 /\ \A c \in Seq(Nat) : read_authority(w[i] \o c) = Got(k[i], c)
      BY <1>4
    <2>4. N \in Nat /\ N <= MaxInt
      BY <1>1
    <2>5. w \in [1 .. N -> Seq(Nat)]
      BY <1>5
    <2>2. A \in Seq(Nat) /\ Len(A) >= 1
      BY ONLY <2>0, <2>1, <2>4, <2>5, AuthorityArrayBack
    <2>3. ASSUME NEW x \in Seq(Nat) PROVE AuthorityArray(A \o x) = Got([i \in 1 .. N |-> k[i]], x)
      BY ONLY <2>1, <2>3, <2>4, <2>5, AuthorityArrayBack, SMTT(60), ZenonT(60)
    <2> HIDE DEF A
    <2> QED BY <1>2, <2>2, <2>3
  <1> HIDE DEF A
  <1>11. \A y : ReadKind(chain, "auths", y) = AuthorityArray(y)
    BY ReadKindIs, AuthoritiesAre
  <1>12. Write("auths", v) = A
    BY <1>6, WriteIs DEF A, s
  <1>13. Write("auths", k) = A
    BY <1>9, WriteIs DEF A
  <1>14. k \in Values(chain, "auths")
    BY <1>7, ValuesAre DEF S
  <1>15. KindKept(chain, "auths", "auths", v, k)
    BY <1>10, <1>11, <1>12, <1>13, <1>14, KeptIs
  <1> QED BY <1>15 DEF k

(* The extensions of a recurrent transfer. *)
LEMMA PairIdsKept ==
    ASSUME NEW chain, NEW v \in Values(chain, "rtext")
    PROVE  KindKept(chain, "rtext", "rtext", v, [i \in DOMAIN v |-> v[i]])
  <1> DEFINE s == v
             k == [i \in DOMAIN v |-> v[i]]
             N == Len(v)
             S == Fixed(1)
  <1>0. v \in Lists(S)
    BY ValuesAre
  <1>1. /\ N \in Nat /\ N <= MaxInt
        /\ s \in Lists(S) /\ Len(s) = N /\ DOMAIN s = 1 .. N /\ \A i \in 1 .. N : s[i] \in S
    BY <1>0, ListIs
  <1>2. k = [i \in 1 .. N |-> k[i]] /\ \A i \in 1 .. N : k[i] = s[i]
    BY <1>1
  <1> HIDE DEF s, k, N
  <1>3. ASSUME NEW e \in S
        PROVE  /\ write_pair_id(e) \in Seq(Nat) /\ Len(write_pair_id(e)) >= 1
               /\ \A c \in Seq(Nat) : PairId(write_pair_id(e) \o c) = Got(e, c)
               /\ e \in S /\ write_pair_id(e) = write_pair_id(e)
    <2>0. <<>> \in Seq(Nat)
      OBVIOUS
    <2> QED BY <2>0, PairIdBack
  <1> HIDE DEF S
  <1> DEFINE w == [i \in 1 .. N |-> write_pair_id(s[i])]
  <1>4. ASSUME NEW i \in 1 .. N
        PROVE  /\ w[i] \in Seq(Nat) /\ Len(w[i]) >= 1 /\ w[i] = write_pair_id(s[i])
               /\ \A c \in Seq(Nat) : PairId(w[i] \o c) = Got(k[i], c)
               /\ k[i] \in S /\ write_pair_id(k[i]) = w[i]
    <2>1. s[i] \in S
      BY <1>1
    <2> DEFINE e == s[i]
    <2>2. k[i] = e
      BY <1>2
    <2>3. w[i] = write_pair_id(e)
      OBVIOUS
    <2> HIDE DEF e, w
    <2>4. e \in S
      BY <2>1 DEF e
    <2>5. write_pair_id(s[i]) = write_pair_id(e)
      BY DEF e
    <2> QED BY <1>3, <2>2, <2>3, <2>4, <2>5
  <1>5. w \in [1 .. N -> Seq(Nat)] /\ w = [i \in 1 .. N |-> w[i]]
    BY <1>4
  <1>6. write_array(s, write_pair_id) = ArrayOf(w, N)
    BY <1>1 DEF write_array, ArrayOf
  <1> HIDE DEF w
  <1>7. k \in Lists(S) /\ Len(k) = N
    BY <1>1, <1>2, <1>4, IsList
  <1>8. DOMAIN k = 1 .. N
    BY <1>7, ListIs
  <1>9. write_array(k, write_pair_id) = ArrayOf(w, N)
    <2>1. [i \in DOMAIN k |-> write_pair_id(k[i])] = w
      BY <1>4, <1>5, <1>8
    <2> QED BY <1>7, <2>1 DEF write_array, ArrayOf
  <1> DEFINE A == ArrayOf(w, N)
  <1>10. A \in Seq(Nat) /\ Len(A) >= 1 /\ \A x \in Seq(Nat) : PairIdArray(A \o x) = Got(k, x)
    <2>0. <<>> \in Seq(Nat)
      OBVIOUS
    <2>1. \A i \in 1 .. N : Len(w[i]) >= 1 /\ \A c \in Seq(Nat) : PairId(w[i] \o c) = Got(k[i], c)
      BY <1>4
    <2>4. N \in Nat /\ N <= MaxInt
      BY <1>1
    <2>5. w \in [1 .. N -> Seq(Nat)]
      BY <1>5
    <2>2. A \in Seq(Nat) /\ Len(A) >= 1
      BY ONLY <2>0, <2>1, <2>4, <2>5, PairIdArrayBack
    <2>3. ASSUME NEW x \in Seq(Nat) PROVE PairIdArray(A \o x) = Got([i \in 1 .. N |-> k[i]], x)
      BY ONLY <2>1, <2>3, <2>4, <2>5, PairIdArrayBack, SMTT(60), ZenonT(60)
    <2> HIDE DEF A
    <2> QED BY <1>2, <2>2, <2>3
  <1> HIDE DEF A
  <1>11. \A y : ReadKind(chain, "rtext", y) = PairIdArray(y)
    BY ReadKindIs, PairIdsAre
  <1>12. Write("rtext", v) = A
    BY <1>6, WriteIs DEF A, s
  <1>13. Write("rtext", k) = A
    BY <1>9, WriteIs DEF A
  <1>14. k \in Values(chain, "rtext")
    BY <1>7, ValuesAre DEF S
  <1>15. KindKept(chain, "rtext", "rtext", v, k)
    BY <1>10, <1>11, <1>12, <1>13, <1>14, KeptIs
  <1> QED BY <1>15 DEF k

(* The extensions of comment options. *)
LEMMA BeneficiariesKept ==
    ASSUME NEW chain, NEW v \in Values(chain, "coext")
    PROVE  KindKept(chain, "coext", "coext", v, [i \in DOMAIN v |-> Carried(v[i])])
  <1> DEFINE s == v
             k == [i \in DOMAIN v |-> Carried(v[i])]
             N == Len(v)
             S == Lists(AccountEntries)
  <1>0. v \in Lists(S)
    BY ValuesAre
  <1>1. /\ N \in Nat /\ N <= MaxInt
        /\ s \in Lists(S) /\ Len(s) = N /\ DOMAIN s = 1 .. N /\ \A i \in 1 .. N : s[i] \in S
    BY <1>0, ListIs
  <1>2. k = [i \in 1 .. N |-> k[i]] /\ \A i \in 1 .. N : k[i] = Carried(s[i])
    BY <1>1
  <1> HIDE DEF s, k, N
  <1>3. ASSUME NEW e \in S
        PROVE  /\ write_beneficiaries(e) \in Seq(Nat) /\ Len(write_beneficiaries(e)) >= 1
               /\ \A c \in Seq(Nat) : Beneficiaries(write_beneficiaries(e) \o c) = Got(Carried(e), c)
               /\ Carried(e) \in S /\ write_beneficiaries(Carried(e)) = write_beneficiaries(e)
    <2>0. <<>> \in Seq(Nat)
      OBVIOUS
    <2> QED BY <2>0, BeneficiariesBack, BeneficiariesAgain
  <1> HIDE DEF S
  <1> DEFINE w == [i \in 1 .. N |-> write_beneficiaries(s[i])]
  <1>4. ASSUME NEW i \in 1 .. N
        PROVE  /\ w[i] \in Seq(Nat) /\ Len(w[i]) >= 1 /\ w[i] = write_beneficiaries(s[i])
               /\ \A c \in Seq(Nat) : Beneficiaries(w[i] \o c) = Got(k[i], c)
               /\ k[i] \in S /\ write_beneficiaries(k[i]) = w[i]
    <2>1. s[i] \in S
      BY <1>1
    <2> DEFINE e == s[i]
    <2>2. k[i] = Carried(e)
      BY <1>2
    <2>3. w[i] = write_beneficiaries(e)
      OBVIOUS
    <2> HIDE DEF e, w
    <2>4. e \in S
      BY <2>1 DEF e
    <2>5. write_beneficiaries(s[i]) = write_beneficiaries(e)
      BY DEF e
    <2> QED BY <1>3, <2>2, <2>3, <2>4, <2>5
  <1>5. w \in [1 .. N -> Seq(Nat)] /\ w = [i \in 1 .. N |-> w[i]]
    BY <1>4
  <1>6. write_array(s, write_beneficiaries) = ArrayOf(w, N)
    BY <1>1 DEF write_array, ArrayOf
  <1> HIDE DEF w
  <1>7. k \in Lists(S) /\ Len(k) = N
    BY <1>1, <1>2, <1>4, IsList
  <1>8. DOMAIN k = 1 .. N
    BY <1>7, ListIs
  <1>9. write_array(k, write_beneficiaries) = ArrayOf(w, N)
    <2>1. [i \in DOMAIN k |-> write_beneficiaries(k[i])] = w
      BY <1>4, <1>5, <1>8
    <2> QED BY <1>7, <2>1 DEF write_array, ArrayOf
  <1> DEFINE A == ArrayOf(w, N)
  <1>10. A \in Seq(Nat) /\ Len(A) >= 1 /\ \A x \in Seq(Nat) : BeneficiariesArray(A \o x) = Got(k, x)
    <2>0. <<>> \in Seq(Nat)
      OBVIOUS
    <2>1. \A i \in 1 .. N : Len(w[i]) >= 1 /\ \A c \in Seq(Nat) : Beneficiaries(w[i] \o c) = Got(k[i], c)
      BY <1>4
    <2>4. N \in Nat /\ N <= MaxInt
      BY <1>1
    <2>5. w \in [1 .. N -> Seq(Nat)]
      BY <1>5
    <2>2. A \in Seq(Nat) /\ Len(A) >= 1
      BY ONLY <2>0, <2>1, <2>4, <2>5, BeneficiariesArrayBack
    <2>3. ASSUME NEW x \in Seq(Nat) PROVE BeneficiariesArray(A \o x) = Got([i \in 1 .. N |-> k[i]], x)
      BY ONLY <2>1, <2>3, <2>4, <2>5, BeneficiariesArrayBack, SMTT(60), ZenonT(60)
    <2> HIDE DEF A
    <2> QED BY <1>2, <2>2, <2>3
  <1> HIDE DEF A
  <1>11. \A y : ReadKind(chain, "coext", y) = BeneficiariesArray(y)
    BY ReadKindIs, BeneficiariesListsAre
  <1>12. Write("coext", v) = A
    BY <1>6, WriteIs DEF A, s
  <1>13. Write("coext", k) = A
    BY <1>9, WriteIs DEF A
  <1>14. k \in Values(chain, "coext")
    BY <1>7, ValuesAre DEF S
  <1>15. KindKept(chain, "coext", "coext", v, k)
    BY <1>10, <1>11, <1>12, <1>13, <1>14, KeptIs
  <1> QED BY <1>15 DEF k

(* A set of accounts. *)
LEMMA NamesKept ==
    ASSUME NEW chain, NEW v \in Values(chain, "accounts")
    PROVE  KindKept(chain, "accounts", "strs", v, CarriedNames(v))
  <1> DEFINE s == Sorted(v, hived_transport_form)
             k == CarriedNames(v)
             N == Len(v)
             S == Strings
  <1>0. v \in Lists(S)
    BY ValuesAre
  <1>1. /\ N \in Nat /\ N <= MaxInt
        /\ s \in Lists(S) /\ Len(s) = N /\ DOMAIN s = 1 .. N /\ \A i \in 1 .. N : s[i] \in S
    <2>1. N \in Nat /\ N <= MaxInt
      BY <1>0, ListIs
    <2>2. s \in Lists(S) /\ Len(s) = N
      BY <1>0, NamesOf
    <2> HIDE DEF s, N
    <2>3. DOMAIN s = 1 .. N /\ \A i \in 1 .. N : s[i] \in S
      BY <2>2, ListIs
    <2> QED BY <2>1, <2>2, <2>3
  <1>2. k = [i \in 1 .. N |-> k[i]] /\ (\A i \in 1 .. N : k[i] = hived_transport_form(s[i])) /\ Sorted(k, hived_transport_form) = k
    <2>1. k \in Lists(S) /\ Len(k) = N /\ (\A i \in 1 .. N : k[i] = hived_transport_form(s[i])) /\ Sorted(k, hived_transport_form) = k
      BY <1>0, NamesOf
    <2>2. k = [i \in 1 .. Len(k) |-> k[i]]
      BY <2>1, ListIs
    <2> HIDE DEF k, N, S, s
    <2> QED BY <2>1, <2>2
  <1> HIDE DEF s, k, N
  <1>3. ASSUME NEW e \in S
        PROVE  /\ write_string(e) \in Seq(Nat) /\ Len(write_string(e)) >= 1
               /\ \A c \in Seq(Nat) : read_string(write_string(e) \o c) = Got(hived_transport_form(e), c)
               /\ hived_transport_form(e) \in S /\ write_string(hived_transport_form(e)) = write_string(e)
    <2>0. <<>> \in Seq(Nat)
      OBVIOUS
    <2> QED BY <2>0, StringBack, StringForm
  <1> HIDE DEF S
  <1> DEFINE w == [i \in 1 .. N |-> write_string(s[i])]
  <1>4. ASSUME NEW i \in 1 .. N
        PROVE  /\ w[i] \in Seq(Nat) /\ Len(w[i]) >= 1 /\ w[i] = write_string(s[i])
               /\ \A c \in Seq(Nat) : read_string(w[i] \o c) = Got(k[i], c)
               /\ k[i] \in S /\ write_string(k[i]) = w[i]
    <2>1. s[i] \in S
      BY <1>1
    <2> DEFINE e == s[i]
    <2>2. k[i] = hived_transport_form(e)
      BY <1>2
    <2>3. w[i] = write_string(e)
      OBVIOUS
    <2> HIDE DEF e, w
    <2>4. e \in S
      BY <2>1 DEF e
    <2>5. write_string(s[i]) = write_string(e)
      BY DEF e
    <2> QED BY <1>3, <2>2, <2>3, <2>4, <2>5
  <1>5. w \in [1 .. N -> Seq(Nat)] /\ w = [i \in 1 .. N |-> w[i]]
    BY <1>4
  <1>6. write_array(s, write_string) = ArrayOf(w, N)
    BY <1>1 DEF write_array, ArrayOf
  <1> HIDE DEF w
  <1>7. k \in Lists(S) /\ Len(k) = N
    BY <1>1, <1>2, <1>4, IsList
  <1>8. DOMAIN k = 1 .. N
    BY <1>7, ListIs
  <1>9. write_array(k, write_string) = ArrayOf(w, N)
    <2>1. [i \in DOMAIN k |-> write_string(k[i])] = w
      BY <1>4, <1>5, <1>8
    <2> QED BY <1>7, <2>1 DEF write_array, ArrayOf
  <1> DEFINE A == ArrayOf(w, N)
  <1>10. A \in Seq(Nat) /\ Len(A) >= 1 /\ \A x \in Seq(Nat) : StringArray(A \o x) = Got(k, x)
    <2>0. <<>> \in Seq(Nat)
      OBVIOUS
    <2>1. \A i \in 1 .. N : Len(w[i]) >= 1 /\ \A c \in Seq(Nat) : read_string(w[i] \o c) = Got(k[i], c)
      BY <1>4
    <2>4. N \in Nat /\ N <= MaxInt
      BY <1>1
    <2>5. w \in [1 .. N -> Seq(Nat)]
      BY <1>5
    <2>2. A \in Seq(Nat) /\ Len(A) >= 1
      BY ONLY <2>0, <2>1, <2>4, <2>5, StringArrayBack
    <2>3. ASSUME NEW x \in Seq(Nat) PROVE StringArray(A \o x) = Got([i \in 1 .. N |-> k[i]], x)
      BY ONLY <2>1, <2>3, <2>4, <2>5, StringArrayBack, SMTT(60), ZenonT(60)
    <2> HIDE DEF A
    <2> QED BY <1>2, <2>2, <2>3
  <1> HIDE DEF A
  <1>11. \A y : ReadKind(chain, "strs", y) = StringArray(y)
    BY ReadKindIs, StringsAre
  <1>12. Write("accounts", v) = A
    BY <1>6, WriteIs DEF A, s
  <1>13. Write("accounts", k) = A
    <2> DEFINE q == Sorted(k, hived_transport_form)
    <2>1. q = k
      BY <1>2
    <2>2. Write("accounts", k) = write_varint32(Len(q)) \o FlattenSeq([i \in DOMAIN q |-> write_string(q[i])])
      BY WriteIs DEF write_array
    <2>3. [i \in DOMAIN k |-> write_string(k[i])] = w
      BY <1>4, <1>5, <1>8
    <2> HIDE DEF q
    <2> QED BY <1>7, <2>1, <2>2, <2>3 DEF ArrayOf, A
  <1>14. k \in Values(chain, "accounts")
    BY <1>7, ValuesAre DEF S
  <1>15. KindKept(chain, "accounts", "strs", v, k)
    BY <1>10, <1>11, <1>12, <1>13, <1>14, KeptIs
  <1> QED BY <1>15 DEF k

(* Proposal ids. *)
LEMMA IdsKept ==
    ASSUME NEW chain, NEW v \in Values(chain, "ids")
    PROVE  KindKept(chain, "ids", "u64s", v, Sorted(v, ProposalOrder))
  <1> DEFINE s == Sorted(v, ProposalOrder)
             k == Sorted(v, ProposalOrder)
             N == Len(v)
             S == Fixed(8)
  <1>0. v \in Lists(S)
    BY ValuesAre
  <1>1. /\ N \in Nat /\ N <= MaxInt
        /\ s \in Lists(S) /\ Len(s) = N /\ DOMAIN s = 1 .. N /\ \A i \in 1 .. N : s[i] \in S
    BY <1>0, IdsOf, ListIs
  <1>2. k = [i \in 1 .. N |-> k[i]] /\ (\A i \in 1 .. N : k[i] = s[i]) /\ Sorted(k, ProposalOrder) = k
    <2>1. k \in Lists(S) /\ Len(k) = N /\ (\A i \in 1 .. N : k[i] = s[i]) /\ Sorted(k, ProposalOrder) = k
      BY <1>0, IdsOf
    <2>2. k = [i \in 1 .. Len(k) |-> k[i]]
      BY <2>1, ListIs
    <2> HIDE DEF k, N, S, s
    <2> QED BY <2>1, <2>2
  <1> HIDE DEF s, k, N
  <1>3. ASSUME NEW e \in S
        PROVE  /\ e \in Seq(Nat) /\ Len(e) >= 1
               /\ \A c \in Seq(Nat) : take(e \o c, 8) = Got(e, c)
               /\ e \in S /\ e = e
    <2>0. <<>> \in Seq(Nat)
      OBVIOUS
    <2>1. e \in Seq(Nat) /\ Len(e) = 8 /\ \A c \in Seq(Nat) : take(e \o c, 8) = Got(e, c)
      BY <2>0, TakeBack
    <2>2. Len(e) >= 1
      BY <2>1
    <2> QED BY <2>1, <2>2
  <1> HIDE DEF S
  <1> DEFINE w == [i \in 1 .. N |-> s[i]]
  <1>4. ASSUME NEW i \in 1 .. N
        PROVE  /\ w[i] \in Seq(Nat) /\ Len(w[i]) >= 1 /\ w[i] = s[i]
               /\ \A c \in Seq(Nat) : take(w[i] \o c, 8) = Got(k[i], c)
               /\ k[i] \in S /\ k[i] = w[i]
    <2>1. s[i] \in S
      BY <1>1
    <2> DEFINE e == s[i]
    <2>2. k[i] = e
      BY <1>2
    <2>3. w[i] = e
      OBVIOUS
    <2> HIDE DEF e, w
    <2>4. e \in S
      BY <2>1 DEF e
    <2>5. s[i] = e
      BY DEF e
    <2> QED BY <1>3, <2>2, <2>3, <2>4, <2>5
  <1>5. w \in [1 .. N -> Seq(Nat)] /\ w = [i \in 1 .. N |-> w[i]]
    BY <1>4
  <1>6. write_array(s, LAMBDA p : p) = ArrayOf(w, N)
    BY <1>1 DEF write_array, ArrayOf
  <1> HIDE DEF w
  <1>7. k \in Lists(S) /\ Len(k) = N
    BY <1>1, <1>2, <1>4, IsList
  <1>8. DOMAIN k = 1 .. N
    BY <1>7, ListIs
  <1>9. write_array(k, LAMBDA p : p) = ArrayOf(w, N)
    <2>1. [i \in DOMAIN k |-> k[i]] = w
      BY <1>4, <1>5, <1>8
    <2> QED BY <1>7, <2>1 DEF write_array, ArrayOf
  <1> DEFINE A == ArrayOf(w, N)
  <1>10. A \in Seq(Nat) /\ Len(A) >= 1 /\ \A x \in Seq(Nat) : IdArray(A \o x) = Got(k, x)
    <2>0. <<>> \in Seq(Nat)
      OBVIOUS
    <2>1. \A i \in 1 .. N : Len(w[i]) >= 1 /\ \A c \in Seq(Nat) : take(w[i] \o c, 8) = Got(k[i], c)
      BY <1>4
    <2>4. N \in Nat /\ N <= MaxInt
      BY <1>1
    <2>5. w \in [1 .. N -> Seq(Nat)]
      BY <1>5
    <2>2. A \in Seq(Nat) /\ Len(A) >= 1
      BY ONLY <2>0, <2>1, <2>4, <2>5, IdArrayBack
    <2>3. ASSUME NEW x \in Seq(Nat) PROVE IdArray(A \o x) = Got([i \in 1 .. N |-> k[i]], x)
      BY ONLY <2>1, <2>3, <2>4, <2>5, IdArrayBack, SMTT(60), ZenonT(60)
    <2> HIDE DEF A
    <2> QED BY <1>2, <2>2, <2>3
  <1> HIDE DEF A
  <1>11. \A y : ReadKind(chain, "u64s", y) = IdArray(y)
    BY ReadKindIs, IdsAre
  <1>12. Write("ids", v) = A
    BY <1>6, WriteIs DEF A, s
  <1>13. Write("ids", k) = A
    <2> DEFINE q == Sorted(k, ProposalOrder)
    <2>1. q = k
      BY <1>2
    <2>2. Write("ids", k) = write_varint32(Len(q)) \o FlattenSeq([i \in DOMAIN q |-> q[i]])
      BY WriteIs DEF write_array
    <2>3. [i \in DOMAIN k |-> k[i]] = w
      BY <1>4, <1>5, <1>8
    <2> HIDE DEF q
    <2> QED BY <1>7, <2>1, <2>2, <2>3 DEF ArrayOf, A
  <1>14. k \in Values(chain, "ids")
    BY <1>7, ValuesAre DEF S
  <1>15. KindKept(chain, "ids", "u64s", v, k)
    BY <1>10, <1>11, <1>12, <1>13, <1>14, KeptIs
  <1> QED BY <1>15 DEF k

(* The properties of a witness. *)
LEMMA PropertiesKept ==
    ASSUME NEW chain, NEW v \in Values(chain, "sortedprops")
    PROVE  KindKept(chain, "sortedprops", "wprops", v, Carried(v))
  <1> DEFINE s == Sorted(v, PropertyKey)
             k == Carried(v)
             N == Len(v)
             S == Properties
  <1>0. v \in Lists(S)
    BY ValuesAre
  <1>1. /\ N \in Nat /\ N <= MaxInt
        /\ s \in Lists(S) /\ Len(s) = N /\ DOMAIN s = 1 .. N /\ \A i \in 1 .. N : s[i] \in S
    BY <1>0, PropertiesOf, ListIs
  <1>2. k = [i \in 1 .. N |-> k[i]] /\ (\A i \in 1 .. N : k[i] = CarriedEntry(s[i])) /\ Sorted(k, PropertyKey) = k
    <2>1. k \in Lists(S) /\ Len(k) = N /\ (\A i \in 1 .. N : k[i] = CarriedEntry(s[i])) /\ Sorted(k, PropertyKey) = k
      BY <1>0, PropertiesOf
    <2>2. k = [i \in 1 .. Len(k) |-> k[i]]
      BY <2>1, ListIs
    <2> HIDE DEF k, N, S, s
    <2> QED BY <2>1, <2>2
  <1> HIDE DEF s, k, N
  <1>3. ASSUME NEW e \in S
        PROVE  /\ property_wire(e) \in Seq(Nat) /\ Len(property_wire(e)) >= 1
               /\ \A c \in Seq(Nat) : Property(property_wire(e) \o c) = Got(CarriedEntry(e), c)
               /\ CarriedEntry(e) \in S /\ property_wire(CarriedEntry(e)) = property_wire(e)
    <2>0. <<>> \in Seq(Nat)
      OBVIOUS
    <2> QED BY <2>0, PropertyBack, PropertyAgain
  <1> HIDE DEF S
  <1> DEFINE w == [i \in 1 .. N |-> property_wire(s[i])]
  <1>4. ASSUME NEW i \in 1 .. N
        PROVE  /\ w[i] \in Seq(Nat) /\ Len(w[i]) >= 1 /\ w[i] = property_wire(s[i])
               /\ \A c \in Seq(Nat) : Property(w[i] \o c) = Got(k[i], c)
               /\ k[i] \in S /\ property_wire(k[i]) = w[i]
    <2>1. s[i] \in S
      BY <1>1
    <2> DEFINE e == s[i]
    <2>2. k[i] = CarriedEntry(e)
      BY <1>2
    <2>3. w[i] = property_wire(e)
      OBVIOUS
    <2> HIDE DEF e, w
    <2>4. e \in S
      BY <2>1 DEF e
    <2>5. property_wire(s[i]) = property_wire(e)
      BY DEF e
    <2> QED BY <1>3, <2>2, <2>3, <2>4, <2>5
  <1>5. w \in [1 .. N -> Seq(Nat)] /\ w = [i \in 1 .. N |-> w[i]]
    BY <1>4
  <1>6. write_array(s, LAMBDA p : write_string(p[1]) \o write_bytes(p[2])) = ArrayOf(w, N)
    BY <1>1 DEF write_array, ArrayOf, property_wire
  <1> HIDE DEF w
  <1>7. k \in Lists(S) /\ Len(k) = N
    BY <1>1, <1>2, <1>4, IsList
  <1>8. DOMAIN k = 1 .. N
    BY <1>7, ListIs
  <1>9. write_array(k, LAMBDA p : write_string(p[1]) \o write_bytes(p[2])) = ArrayOf(w, N)
    <2>1. [i \in DOMAIN k |-> property_wire(k[i])] = w
      BY <1>4, <1>5, <1>8
    <2> QED BY <1>7, <2>1 DEF write_array, ArrayOf, property_wire
  <1> DEFINE A == ArrayOf(w, N)
  <1>10. A \in Seq(Nat) /\ Len(A) >= 1 /\ \A x \in Seq(Nat) : PropertyArray(A \o x) = Got(k, x)
    <2>0. <<>> \in Seq(Nat)
      OBVIOUS
    <2>1. \A i \in 1 .. N : Len(w[i]) >= 1 /\ \A c \in Seq(Nat) : Property(w[i] \o c) = Got(k[i], c)
      BY <1>4
    <2>4. N \in Nat /\ N <= MaxInt
      BY <1>1
    <2>5. w \in [1 .. N -> Seq(Nat)]
      BY <1>5
    <2>2. A \in Seq(Nat) /\ Len(A) >= 1
      BY ONLY <2>0, <2>1, <2>4, <2>5, PropertyArrayBack
    <2>3. ASSUME NEW x \in Seq(Nat) PROVE PropertyArray(A \o x) = Got([i \in 1 .. N |-> k[i]], x)
      BY ONLY <2>1, <2>3, <2>4, <2>5, PropertyArrayBack, SMTT(60), ZenonT(60)
    <2> HIDE DEF A
    <2> QED BY <1>2, <2>2, <2>3
  <1> HIDE DEF A
  <1>11. \A y : ReadKind(chain, "wprops", y) = PropertyArray(y)
    BY ReadKindIs, PropertiesAre
  <1>12. Write("sortedprops", v) = A
    BY <1>6, WriteIs DEF A, s
  <1>13. Write("sortedprops", k) = A
    <2> DEFINE q == Sorted(k, PropertyKey)
    <2>1. q = k
      BY <1>2
    <2>2. Write("sortedprops", k) = write_varint32(Len(q)) \o FlattenSeq([i \in DOMAIN q |-> property_wire(q[i])])
      BY WriteIs DEF write_array, property_wire
    <2>3. [i \in DOMAIN k |-> property_wire(k[i])] = w
      BY <1>4, <1>5, <1>8
    <2> HIDE DEF q
    <2> QED BY <1>7, <2>1, <2>2, <2>3 DEF ArrayOf, A
  <1>14. k \in Values(chain, "sortedprops")
    BY <1>7, ValuesAre DEF S
  <1>15. KindKept(chain, "sortedprops", "wprops", v, k)
    BY <1>10, <1>11, <1>12, <1>13, <1>14, KeptIs
  <1> QED BY <1>15 DEF k

-----------------------------------------------------------------------------
(* A memo on the wire. *)
MemoRecord ==
    [from : Parties, to : Parties, nonce : Nonces, check : (SUBSET Parties) \X Nonces,
     length : Nat, bytes : Seq(Nat)]

(* What may have become of a memo on the way. *)
Altered(o, how) ==
    CASE how = "no"      -> {o}
      [] how = "run_on"  -> {[o EXCEPT !.bytes = Append(@, 0)]}
      [] how = "cut"     -> {Shortened(o, n) : n \in 1 .. Len(o.bytes)}
                            \cup {[Shortened(o, n) EXCEPT !.length = @ - n] :
                                    n \in {n \in 1 .. Len(o.bytes) : n % BLOCK # 0}}
      [] how = "block_cut" ->
                            {[Shortened(o, n) EXCEPT !.length = @ - n] :
                                    n \in {n \in 1 .. Len(o.bytes) : n % BLOCK = 0}}
      [] how = "swapped" -> {[o EXCEPT !.from = o.to, !.to = o.from]}
      [] how = "misled"  -> {[o EXCEPT !.nonce = n] : n \in Nonces \ {o.nonce}}
                            \cup {[o EXCEPT !.to = p] : p \in Parties \ {o.from, o.to}}
(* The kinds of that. *)
Hows == {"no", "run_on", "cut", "block_cut", "swapped", "misled"}

(* The plaintext of a memo, filled up to blocks. *)
Filled(format, text) ==
    IF format = "beem_bare" /\ Aligned(text) THEN text ELSE pad(Content(format, text))

(* What an end reads of a memo in which every block is there, *)
ReadWhole(s, texts) ==
    IF IsPadded(s) THEN texts = {AsRead(s)}
    ELSE \A t \in texts : IsPiece(t, Content(s.format, s.text))

(* and what anybody reads, whatever became of it. *)
ReadBy(s, how, key, texts) ==
    IF key \notin s.ends \/ how \in {"cut", "misled"} THEN texts = {}
    ELSE IF how # "block_cut" /\ IsPadded(s) THEN texts = {AsRead(s)}
    ELSE \A t \in texts : IsPiece(t, Content(s.format, s.text))

(* Nobody has opened anything. *)
Unopened == opened = [p \in Parties |-> <<>>]

(* m is under way, made of this text and perhaps altered since. *)
UnderWay(sender, to, text, nonce, format, m) ==
    /\ mail = <<m>> /\ altered \in Hows
    /\ m \in Altered(Encoded(sender, to, text, nonce, format), altered)
    /\ sent = [text |-> text, format |-> format, ends |-> {sender, to}]
    /\ DOMAIN opened = Parties
    /\ \A p \in Parties : opened[p] = <<>> \/ opened[p] = <<decode(p, m)>>

(* The inductive invariant: nothing was sent yet, or some memo is under    *)
(* way, with what its readers made of it.                                  *)
MemoInv ==
    \/ mail = NoMemo /\ altered = "no" /\ Unopened
    \/ \E sender \in Parties, to \in Parties, text \in Texts, nonce \in Nonces,
          format \in Formats, m \in MemoRecord :
         UnderWay(sender, to, text, nonce, format, m)

-----------------------------------------------------------------------------
(* Division, and what is left of a multiple. *)
LEMMA DivMod ==
    ASSUME NEW x \in Nat, NEW z \in Nat \ {0}
    PROVE  /\ x % z \in Nat /\ x % z < z /\ x \div z \in Nat
           /\ x % z = x - (x \div z) * z
  <1>1. x % z \in Nat /\ x % z < z
    OBVIOUS
  <1>2. x \div z \in Nat
    OBVIOUS
  <1>3. x % z = x - (x \div z) * z
    OBVIOUS
  <1> QED BY <1>1, <1>2, <1>3

(* One sequence behind another. *)
LEMMA Joined ==
    ASSUME NEW s \in Seq(Nat), NEW t \in Seq(Nat)
    PROVE  /\ s \o t \in Seq(Nat) /\ Len(s \o t) = Len(s) + Len(t)
           /\ \A i \in 1 .. Len(s) : (s \o t)[i] = s[i]
           /\ \A i \in 1 .. Len(t) : (s \o t)[Len(s) + i] = t[i]
  OBVIOUS

(* A multiple leaves nothing. *)
LEMMA ModNothing ==
    ASSUME NEW k \in Nat, NEW z \in Nat \ {0}
    PROVE  (z * k) % z = 0
  OBVIOUS

(* A multiple less what is no multiple leaves something. *)
LEMMA CutLeaves ==
    ASSUME NEW x \in Nat, NEW n \in Nat, n <= x, NEW z \in Nat \ {0}, x % z = 0, n % z # 0
    PROVE  (x - n) % z # 0
  <1> SUFFICES ASSUME (x - n) % z = 0 PROVE FALSE
    OBVIOUS
  <1> DEFINE k == x \div z
             l == (x - n) \div z
             d == k - l
  <1>1. k \in Int /\ x = k * z
    OBVIOUS
  <1>2. l \in Int /\ x - n = l * z
    OBVIOUS
  <1> HIDE DEF k, l
  <1>3. d \in Int /\ n = d * z
    BY <1>1, <1>2
  <1> HIDE DEF d
  <1>4. d \in Nat
    <2>1. CASE d < 0
      <3>1. d * z < 0
        BY <1>3, <2>1
      <3> QED BY <1>3, <3>1
    <2> QED BY <1>3, <2>1
  <1>5. (z * d) % z = 0 /\ z * d = d * z
    BY <1>4, ModNothing
  <1> QED BY <1>3, <1>5

(* A positive multiple is one block at least. *)
LEMMA WholeBlocks ==
    ASSUME NEW n \in Nat, n >= 1, NEW z \in Nat \ {0}, n % z = 0
    PROVE  n >= z
  OBVIOUS

(* Padding fills up blocks, and says how much of it there is. *)
LEMMA Padding ==
    ASSUME NEW data \in Seq(Nat)
    PROVE  /\ pad(data) \in Seq(Nat) /\ pad(data) # <<>>
           /\ Len(pad(data)) % BLOCK = 0
           /\ Len(pad(data)) \in Nat /\ Len(pad(data)) <= Len(data) + BLOCK
           /\ \A k \in 0 .. Len(data) : SubSeq(pad(data), 1, k) = SubSeq(data, 1, k)
           /\ unpad(pad(data)) = {data}
  <1> DEFINE n == BLOCK - (Len(data) % BLOCK)
             P == [i \in 1 .. n |-> n]
             d == data \o P
  <1>1. BLOCK \in Nat /\ BLOCK >= 2 /\ Len(data) \in Nat
    BY MemoAssumption
  <1>2. /\ Len(data) % BLOCK \in Nat /\ Len(data) % BLOCK < BLOCK
        /\ Len(data) \div BLOCK \in Nat
        /\ Len(data) % BLOCK = Len(data) - (Len(data) \div BLOCK) * BLOCK
    <2>1. Len(data) \in Nat /\ BLOCK \in Nat \ {0}
      BY <1>1
    <2> QED BY Zenon, <2>1, DivMod
  <1>3. n \in Nat /\ n >= 1 /\ n <= BLOCK
    BY <1>1, <1>2
  <1>4. pad(data) = d
    BY DEF pad
  <1>5. Len(data) + n = BLOCK * (Len(data) \div BLOCK) + BLOCK
    <2> DEFINE k == Len(data) \div BLOCK
               r == Len(data) % BLOCK
    <2>1. k \in Nat /\ r \in Nat /\ r = Len(data) - k * BLOCK /\ n = BLOCK - r
      BY <1>2
    <2> HIDE DEF k, r, n
    <2>2. Len(data) + n = BLOCK * k + BLOCK
      BY <1>1, <2>1
    <2> QED BY <2>2 DEF k
  <1> HIDE DEF n
  <1>6. P \in Seq(Nat) /\ Len(P) = n /\ \A i \in 1 .. n : P[i] = n
    BY <1>3
  <1> HIDE DEF P
  <1>7. /\ d \in Seq(Nat) /\ Len(d) = Len(data) + n
        /\ \A i \in 1 .. Len(data) : d[i] = data[i]
        /\ \A i \in 1 .. n : d[Len(data) + i] = n
    <2>1. /\ d \in Seq(Nat) /\ Len(d) = Len(data) + Len(P)
          /\ \A i \in 1 .. Len(data) : d[i] = data[i]
          /\ \A i \in 1 .. Len(P) : d[Len(data) + i] = P[i]
      BY <1>6, Joined
    <2> QED BY <1>6, <2>1
  <1> HIDE DEF d
  <1>8. Len(d) % BLOCK = 0
    <2> DEFINE k == Len(data) \div BLOCK
               next == k + 1
    <2>1. Len(d) = BLOCK * k + BLOCK /\ k \in Nat /\ next \in Nat
      BY <1>2, <1>5, <1>7
    <2> HIDE DEF k, next
    <2>2. (BLOCK * next) % BLOCK = 0
      BY <1>1, <2>1, ModNothing
    <2>3. Len(d) = BLOCK * next /\ Len(d) >= 1 /\ Len(d) \in Nat
      BY <1>1, <2>1 DEF next
    <2> QED BY <2>2, <2>3
  <1>9. d # <<>> /\ d[Len(d)] = n
    <2>1. n \in 1 .. n /\ Len(d) # 0
      BY <1>1, <1>3, <1>7
    <2> QED BY <1>7, <2>1
  <1>10. ~(n = 0 \/ n > BLOCK \/ n > Len(d))
    BY <1>1, <1>3, <1>7
  <1>11. ASSUME NEW i \in Len(d) - n + 1 .. Len(d) PROVE d[i] = n
    <2>1. i - Len(data) \in 1 .. n /\ Len(data) + (i - Len(data)) = i
      BY <1>1, <1>3, <1>7
    <2> QED BY <1>7, <2>1
  <1>12. SubSeq(d, 1, Len(d) - n) = data
    <2>1. Len(d) - n = Len(data)
      BY <1>1, <1>3, <1>7
    <2> QED BY <1>1, <1>3, <1>7, <2>1
  <1>13. unpad(d) = {data}
    BY <1>9, <1>10, <1>11, <1>12 DEF unpad
  <1>14. ASSUME NEW k \in 0 .. Len(data) PROVE SubSeq(d, 1, k) = SubSeq(data, 1, k)
    <2>1. k \in Nat /\ k <= Len(data) /\ k <= Len(d) /\ 1 .. k \subseteq 1 .. Len(data)
      BY <1>1, <1>3, <1>7
    <2> QED BY <1>7, <2>1
  <1>15. Len(d) \in Nat /\ Len(d) <= Len(data) + BLOCK
    BY <1>1, <1>3, <1>7
  <1> QED BY <1>4, <1>7, <1>8, <1>9, <1>13, <1>14, <1>15

(* Padding taken off, a text is read with its length if one fits in front. *)
LEMMA ContentIsRead ==
    ASSUME NEW text \in Texts, NEW format \in Formats,
           NEW p, p.bytes = pad(Content(format, text)), NEW ends
    PROVE  /\ Content(format, text) \in Seq(Nat)
           /\ Plaintext(p) = {AsRead([text |-> text, format |-> format, ends |-> ends])}
  <1> DEFINE s == [text |-> text, format |-> format, ends |-> ends]
             data == Content(format, text)
             r == read_varint32(data)
  <1>1. text \in Seq(Nat) /\ Len(text) <= MaxInt
    <2>1. text \in Seq(0 .. 127) /\ Len(text) <= MaxInt
      BY MemoAssumption
    <2>2. 0 .. 127 \subseteq Nat
      OBVIOUS
    <2>3. text \in Seq(Nat)
      BY <2>1, <2>2, SeqMonotonic
    <2> QED BY <2>1, <2>3
  <1>2. Unmarked(text) \in Seq(Nat) /\ Len(Unmarked(text)) <= Len(text)
    <2>1. CASE text # <<>> /\ text[1] = Hash
      <3>1. Tail(text) \in Seq(Nat) /\ Len(Tail(text)) = Len(text) - 1
        BY <1>1, <2>1
      <3>2. Len(text) \in Nat
        BY <1>1
      <3> QED BY <2>1, <3>1, <3>2 DEF Unmarked
    <2>2. CASE ~(text # <<>> /\ text[1] = Hash)
      BY <1>1, <2>2 DEF Unmarked
    <2> QED BY <2>1, <2>2
  <1>3. Prefixed(data) = IF r.ok /\ r.val = Len(r.rest) THEN {r.rest} ELSE {}
    BY DEF Prefixed
  <1>4. data \in Seq(Nat) /\ (IF Prefixed(data) # {} THEN Prefixed(data) ELSE {data}) = {AsRead(s)}
    <2>1. CASE format = "hivecomb"
      <3> DEFINE u == Unmarked(text)
                 v == write_varint32(Len(u))
      <3>1. Len(u) \in Nat /\ Len(u) <= MaxInt
        <4>1. Len(u) \in Nat /\ Len(text) \in Nat
          BY <1>1, <1>2
        <4> QED BY <4>1, <1>1, <1>2 DEF MaxInt
      <3>2. v \in Seq(Nat) /\ read_varint32(v \o u) = Got(Len(u), u)
        BY <1>2, <3>1, VarintReadsBack
      <3>3. data = v \o u
        BY <2>1 DEF Content
      <3>4. data \in Seq(Nat)
        BY <1>2, <3>2, <3>3, ConcatProperties
      <3>5. Prefixed(data) = {u}
        BY <1>3, <3>2, <3>3 DEF Got
      <3>6. AsRead(s) = u
        <4>1. s.format = "hivecomb" /\ s.text = text
          BY <2>1
        <4> HIDE DEF s
        <4> QED BY <4>1 DEF AsRead
      <3> QED BY <3>4, <3>5, <3>6
    <2>2. CASE format # "hivecomb"
      <3>1. data = text
        BY <2>2 DEF Content
      <3>2. CASE Prefixed(text) = {}
        <4>1. AsRead(s) = text
          BY <2>2, <3>2 DEF AsRead
        <4> QED BY <1>1, <3>1, <3>2, <4>1
      <3>3. CASE Prefixed(text) # {}
        <4>1. AsRead(s) = CHOOSE t \in Prefixed(text) : TRUE
          BY <2>2, <3>3 DEF AsRead
        <4>2. \E x : Prefixed(text) = {x}
          BY <1>3, <3>1, <3>3
        <4> QED BY <1>1, <3>1, <3>3, <4>1, <4>2
      <3> QED BY <3>2, <3>3
    <2> QED BY <2>1, <2>2
  <1> HIDE DEF data, s
  <1>5. /\ p.bytes = pad(data) /\ p.bytes # <<>>
        /\ Len(p.bytes) % BLOCK = 0 /\ unpad(p.bytes) = {data}
    BY <1>4, Padding DEF data
  <1>6. Plaintext(p) = UNION {IF Prefixed(x) # {} THEN Prefixed(x) ELSE {x} : x \in {data}}
    BY <1>5 DEF Plaintext
  <1> QED BY <1>4, <1>6 DEF s, data

-----------------------------------------------------------------------------
(* The key opens the memo as far as the header is concerned. *)
Fits(key, m) == key \in {m.from, m.to} /\ m.check = <<{m.from, m.to}, m.nonce>>

(* As many of its bytes as its length says. *)
Trimmed(m) == [m EXCEPT !.bytes = SubSeq(@, 1, m.length)]

(* A memo is decoded, as much of it as its length says, by a key that fits. *)
LEMMA DecodeIs ==
    ASSUME NEW key, NEW m \in MemoRecord
    PROVE  decode(key, m) = IF Len(m.bytes) >= m.length /\ Fits(key, m)
                            THEN Plaintext(Trimmed(m)) ELSE {}
  <1> DEFINE p == Trimmed(m)
  <1>1. Len(m.bytes) \in Nat /\ m.length \in Nat
    BY DEF MemoRecord
  <1>2. CASE Len(m.bytes) < m.length
    <2>1. from_memo(m) = {}
      BY <1>2 DEF from_memo
    <2>2. decode(key, m) = {}
      BY <2>1 DEF decode
    <2> QED BY <1>1, <1>2, <2>2
  <1>3. CASE Len(m.bytes) >= m.length
    <2>1. from_memo(m) = {p}
      BY <1>1, <1>3 DEF from_memo, Trimmed
    <2>2. /\ p.from = m.from /\ p.to = m.to /\ p.nonce = m.nonce /\ p.check = m.check
      BY DEF Trimmed, MemoRecord
    <2> HIDE DEF p
    <2> DEFINE Right == \E other \in Counterparty(key, p) :
                          p.check = derive(shared_secret(key, other), p.nonce)
    <2>3. Right <=> Fits(key, m)
      <3>1. CASE key = m.to
        <4>1. Counterparty(key, p) = {m.from}
          BY <2>2, <3>1 DEF Counterparty
        <4>2. Right <=> m.check = <<{key, m.from}, m.nonce>>
          BY <2>2, <4>1 DEF derive, shared_secret
        <4>3. {key, m.from} = {m.from, m.to}
          BY <3>1
        <4> QED BY <3>1, <4>2, <4>3 DEF Fits
      <3>2. CASE key # m.to /\ key = m.from
        <4>1. Counterparty(key, p) = {m.to}
          BY <2>2, <3>2 DEF Counterparty
        <4>2. Right <=> m.check = <<{key, m.to}, m.nonce>>
          BY <2>2, <4>1 DEF derive, shared_secret
        <4> QED BY <3>2, <4>2 DEF Fits
      <3>3. CASE key # m.to /\ key # m.from
        <4>1. Counterparty(key, p) = {}
          BY <2>2, <3>3 DEF Counterparty
        <4> QED BY <3>3, <4>1 DEF Fits
      <3> QED BY <3>1, <3>2, <3>3
    <2>4. decode(key, m) = UNION {Plaintext(x) : x \in {x \in {p} : \E other \in Counterparty(key, x) :
                                      x.check = derive(shared_secret(key, other), x.nonce)}}
      BY <2>1 DEF decode
    <2>5. CASE Right
      <3>1. decode(key, m) = UNION {Plaintext(x) : x \in {p}}
        BY <2>4, <2>5
      <3> QED BY <1>3, <2>3, <2>5, <3>1 DEF p
    <2>6. CASE ~Right
      <3>1. decode(key, m) = UNION {Plaintext(x) : x \in {}}
        BY <2>4, <2>6
      <3> QED BY <2>3, <2>6, <3>1
    <2> QED BY <2>5, <2>6
  <1> QED BY <1>1, <1>2, <1>3

-----------------------------------------------------------------------------
(* What is left behind a varint is what follows some of the bytes. *)
LEMMA RestFollows ==
    ASSUME NEW b \in Seq(Nat), read_varint32(b).ok
    PROVE  \E n \in 1 .. Len(b) : read_varint32(b).rest = SubSeq(b, n + 1, Len(b))
  <1> DEFINE ends == {i \in DOMAIN b : b[i] < 128}
             n == CHOOSE i \in ends : \A j \in ends : i <= j
  <1>1. ends \in SUBSET Nat /\ \A i \in ends : i \in 1 .. Len(b)
    OBVIOUS
  <1>2. ends # {} /\ ~(n > 5) /\ ~(n = 5 /\ b[5] > 15)
    BY DEF read_varint32, Fail
  <1>3. read_varint32(b).rest = SubSeq(b, n + 1, Len(b))
    BY <1>2 DEF read_varint32, Got
  <1> HIDE DEF ends
  <1>4. \E i \in ends : \A j \in ends : i <= j
    BY <1>1, <1>2, LeastNatural
  <1>5. n \in ends
    BY <1>4
  <1> QED BY <1>1, <1>3, <1>5

(* What is read of the first bytes of a plaintext is a piece of it. *)
LEMMA PieceIsRead ==
    ASSUME NEW data \in Seq(Nat), NEW k \in 0 .. Len(data),
           NEW p, p.bytes = SubSeq(data, 1, k), NEW t \in Plaintext(p)
    PROVE  IsPiece(t, data)
  <1>1. Len(data) \in Nat /\ k \in Nat /\ k <= Len(data)
    OBVIOUS
  <1>2. p.bytes \in Seq(Nat) /\ Len(p.bytes) = k /\ p.bytes # <<>>
    <2>1. SubSeq(data, 1, k) \in Seq(Nat) /\ Len(SubSeq(data, 1, k)) = k
      BY <1>1
    <2>2. p.bytes # <<>>
      BY DEF Plaintext
    <2> QED BY <2>1, <2>2
  <1>3. PICK u \in unpad(p.bytes) : t \in IF Prefixed(u) # {} THEN Prefixed(u) ELSE {u}
    BY DEF Plaintext
  <1>4. PICK l \in 0 .. k : u = SubSeq(data, 1, l)
    <2> DEFINE n == p.bytes[Len(p.bytes)]
    <2>1. n \in Nat
      <3>1. k \in 1 .. Len(p.bytes)
        BY <1>1, <1>2
      <3> QED BY <1>2, <3>1
    <2>2. u = SubSeq(p.bytes, 1, Len(p.bytes) - n) /\ ~(n > Len(p.bytes))
      BY <1>3 DEF unpad
    <2> HIDE DEF n
    <2> DEFINE l == k - n
    <2>3. l \in 0 .. k /\ u = SubSeq(p.bytes, 1, l)
      BY <1>1, <1>2, <2>1, <2>2
    <2> HIDE DEF l
    <2>4. SubSeq(SubSeq(data, 1, k), 1, l) = SubSeq(data, 1, l)
      BY <1>1, <2>3
    <2> QED BY <2>3, <2>4
  <1>5. u \in Seq(Nat) /\ Len(u) = l /\ l \in Nat /\ l <= Len(data)
    BY <1>1, <1>4
  <1>6. CASE t = u
    <2>1. 1 \in 1 .. Len(data) + 1 /\ l \in 0 .. Len(data)
      BY <1>1, <1>5
    <2> QED BY <1>4, <1>6, <2>1 DEF IsPiece
  <1>7. CASE t \in Prefixed(u)
    <2>1. read_varint32(u).ok /\ t = read_varint32(u).rest
      BY <1>7 DEF Prefixed
    <2>2. PICK n \in 1 .. Len(u) : t = SubSeq(u, n + 1, Len(u))
      BY <1>5, <2>1, RestFollows
    <2>3. n + 1 \in 1 .. Len(data) + 1 /\ l \in 0 .. Len(data) /\ n \in Nat
      BY <1>1, <1>5, <2>2
    <2>4. SubSeq(SubSeq(data, 1, l), n + 1, l) = SubSeq(data, n + 1, l)
      BY <1>1, <1>5, <2>2, <2>3
    <2>5. t = SubSeq(data, n + 1, l)
      BY <1>4, <1>5, <2>2, <2>4
    <2> QED BY <2>3, <2>5 DEF IsPiece
  <1> QED BY <1>3, <1>6, <1>7

(* The plaintext of a memo is whole blocks, and is read whole if it was    *)
(* padded; some blocks of it are read as a piece of it, if at all.         *)
LEMMA FilledIsRead ==
    ASSUME NEW text \in Texts, NEW format \in Formats, NEW ends
    PROVE  LET bytes == Filled(format, text)
               s == [text |-> text, format |-> format, ends |-> ends]
           IN  /\ bytes \in Seq(Nat) /\ Len(bytes) \in Nat /\ Len(bytes) % BLOCK = 0
               /\ \A p : p.bytes = bytes => ReadWhole(s, Plaintext(p))
               /\ \A p : \A n \in Nat :
                     n >= 1 /\ n <= Len(bytes) /\ n % BLOCK = 0
                       /\ p.bytes = SubSeq(bytes, 1, Len(bytes) - n)
                     => \A t \in Plaintext(p) : IsPiece(t, Content(format, text))
  <1> DEFINE bytes == Filled(format, text)
             data == Content(format, text)
             s == [text |-> text, format |-> format, ends |-> ends]
  <1>1. BLOCK \in Nat /\ BLOCK >= 2
    BY MemoAssumption
  <1>2. data \in Seq(Nat)
    <2> DEFINE w == [bytes |-> pad(data)]
    <2>1. w.bytes = pad(data)
      OBVIOUS
    <2> HIDE DEF w
    <2> QED BY <2>1, ContentIsRead
  <1>3. s.text = text /\ s.format = format
    OBVIOUS
  <1>4. CASE format = "beem_bare" /\ Aligned(text)
    <2>1. bytes = data /\ data = text /\ Len(data) % BLOCK = 0
      BY <1>4 DEF Filled, Content, Aligned
    <2>2. ~IsPadded(s)
      <3> HIDE DEF s
      <3> QED BY <1>3, <1>4 DEF IsPadded
    <2> HIDE DEF bytes, data
    <2>3. Len(data) \in Nat /\ SubSeq(data, 1, Len(data)) = data
      BY <1>2
    <2>4. ASSUME NEW p, NEW k \in 0 .. Len(data), p.bytes = SubSeq(data, 1, k), NEW t \in Plaintext(p)
          PROVE  IsPiece(t, data)
      BY <1>2, <2>4, PieceIsRead
    <2>5. ASSUME NEW p, p.bytes = bytes PROVE ReadWhole(s, Plaintext(p))
      <3>1. Len(data) \in 0 .. Len(data) /\ p.bytes = SubSeq(data, 1, Len(data))
        BY <2>1, <2>3, <2>5
      <3>2. \A t \in Plaintext(p) : IsPiece(t, data)
        BY <2>4, <3>1
      <3>3. Content(s.format, s.text) = data
        BY <1>3 DEF data
      <3> HIDE DEF s
      <3> QED BY <2>2, <3>2, <3>3 DEF ReadWhole
    <2>6. ASSUME NEW p, NEW n \in Nat, n >= 1, n <= Len(bytes),
                 p.bytes = SubSeq(bytes, 1, Len(bytes) - n), NEW t \in Plaintext(p)
          PROVE  IsPiece(t, data)
      <3>1. Len(data) - n \in 0 .. Len(data) /\ p.bytes = SubSeq(data, 1, Len(data) - n)
        BY <2>1, <2>3, <2>6
      <3> QED BY <2>4, <3>1
    <2> QED BY <1>2, <2>1, <2>3, <2>5, <2>6 DEF bytes, data
  <1>5. CASE ~(format = "beem_bare" /\ Aligned(text))
    <2>1. bytes = pad(data)
      BY <1>5 DEF Filled
    <2>2. IsPadded(s)
      <3> HIDE DEF s
      <3> QED BY <1>3, <1>5 DEF IsPadded
    <2>3. ASSUME NEW p, p.bytes = bytes PROVE ReadWhole(s, Plaintext(p))
      <3>1. Plaintext(p) = {AsRead(s)}
        BY <2>1, <2>3, ContentIsRead
      <3> HIDE DEF s
      <3> QED BY <2>2, <3>1 DEF ReadWhole
    <2> HIDE DEF bytes, data
    <2>4. /\ bytes \in Seq(Nat) /\ Len(bytes) \in Nat /\ Len(bytes) % BLOCK = 0
          /\ Len(bytes) <= Len(data) + BLOCK
          /\ \A k \in 0 .. Len(data) : SubSeq(bytes, 1, k) = SubSeq(data, 1, k)
      BY <1>2, <2>1, Padding
    <2>5. ASSUME NEW p, NEW n \in Nat, n >= 1, n <= Len(bytes), n % BLOCK = 0,
                 p.bytes = SubSeq(bytes, 1, Len(bytes) - n), NEW t \in Plaintext(p)
          PROVE  IsPiece(t, data)
      <3>1. n >= BLOCK
        <4>1. BLOCK \in Nat \ {0}
          BY <1>1
        <4> QED BY Zenon, <2>5, <4>1, WholeBlocks
      <3>2. Len(data) \in Nat
        BY <1>2
      <3>3. Len(bytes) - n \in 0 .. Len(data)
        BY <1>1, <2>4, <2>5, <3>1, <3>2
      <3>4. p.bytes = SubSeq(data, 1, Len(bytes) - n)
        BY <2>4, <2>5, <3>3
      <3> QED BY <1>2, <2>5, <3>3, <3>4, PieceIsRead
    <2> QED BY <2>3, <2>4, <2>5 DEF bytes, data
  <1> QED BY <1>4, <1>5

(* The memo as it was written. *)
LEMMA EncodedIs ==
    ASSUME NEW sender \in Parties, NEW to \in Parties, NEW text \in Texts, NEW nonce \in Nonces,
           NEW format \in Formats
    PROVE  LET bytes == Filled(format, text)
           IN  /\ Encoded(sender, to, text, nonce, format) =
                    [from |-> sender, to |-> to, nonce |-> nonce,
                     check |-> <<{sender, to}, nonce>>, length |-> Len(bytes), bytes |-> bytes]
               /\ Encoded(sender, to, text, nonce, format) \in MemoRecord
  <1> DEFINE bytes == Filled(format, text)
             o == Encoded(sender, to, text, nonce, format)
  <1>1. o = [from |-> sender, to |-> to, nonce |-> nonce,
             check |-> <<{sender, to}, nonce>>, length |-> Len(bytes), bytes |-> bytes]
    <2>1. CASE format = "hivecomb"
      BY <2>1 DEF Encoded, Filled, encode, to_memo, derive, shared_secret
    <2>2. CASE format = "beem"
      BY <2>2 DEF Encoded, Filled, Content, encode_beem, to_memo, derive, shared_secret
    <2>3. CASE format = "beem_bare"
      BY <2>3 DEF Encoded, Filled, Content, encode_beem_bare, to_memo, derive, shared_secret
    <2> QED BY <2>1, <2>2, <2>3 DEF Formats
  <1> HIDE DEF bytes
  <1>2. bytes \in Seq(Nat) /\ Len(bytes) \in Nat
    BY FilledIsRead DEF bytes
  <1>3. o \in MemoRecord
    BY <1>1, <1>2 DEF MemoRecord
  <1> QED BY <1>1, <1>3 DEF bytes

(* Whatever became of it on the way, a memo is read by its ends as far as  *)
(* it can be, and by nobody else. *)
LEMMA AlteredIsRead ==
    ASSUME NEW sender \in Parties, NEW to \in Parties, NEW text \in Texts, NEW nonce \in Nonces,
           NEW format \in Formats, NEW how \in Hows,
           NEW m \in Altered(Encoded(sender, to, text, nonce, format), how),
           NEW key \in Parties
    PROVE  /\ m \in MemoRecord
           /\ ReadBy([text |-> text, format |-> format, ends |-> {sender, to}], how, key, decode(key, m))
  <1> DEFINE o == Encoded(sender, to, text, nonce, format)
             bytes == Filled(format, text)
             s == [text |-> text, format |-> format, ends |-> {sender, to}]
  <1>1. /\ o = [from |-> sender, to |-> to, nonce |-> nonce,
                check |-> <<{sender, to}, nonce>>, length |-> Len(bytes), bytes |-> bytes]
        /\ o \in MemoRecord
    BY SMTT(60), ZenonT(120), EncodedIs
  <1>2. /\ bytes \in Seq(Nat) /\ Len(bytes) \in Nat /\ Len(bytes) % BLOCK = 0
        /\ \A p : p.bytes = bytes => ReadWhole(s, Plaintext(p))
        /\ \A p : \A n \in Nat :
              n >= 1 /\ n <= Len(bytes) /\ n % BLOCK = 0
                /\ p.bytes = SubSeq(bytes, 1, Len(bytes) - n)
              => \A t \in Plaintext(p) : IsPiece(t, Content(format, text))
    BY FilledIsRead
  <1>3. m \in Altered(o, how)
    OBVIOUS
  <1>4. s.ends = {sender, to} /\ s.format = format /\ s.text = text
    OBVIOUS
  <1>5. BLOCK \in Nat \ {0}
    BY MemoAssumption
  <1> HIDE DEF o, bytes, s
  <1>6. o.from = sender /\ o.to = to /\ o.nonce = nonce /\ o.check = <<{sender, to}, nonce>>
        /\ o.length = Len(bytes) /\ o.bytes = bytes
    BY <1>1
  <1>7. SubSeq(bytes, 1, Len(bytes)) = bytes
    BY <1>2
  (* As long as the plaintext is there. *)
  <1>8. ASSUME m \in MemoRecord, Len(m.bytes) >= m.length, Trimmed(m).bytes = bytes,
               Fits(key, m) <=> key \in {sender, to}, how \notin {"cut", "block_cut", "misled"}
        PROVE  ReadBy(s, how, key, decode(key, m))
    <2>1. CASE key \in {sender, to}
      <3>1. decode(key, m) = Plaintext(Trimmed(m))
        BY <1>8, <2>1, DecodeIs
      <3>2. ReadWhole(s, decode(key, m))
        BY <1>2, <1>8, <3>1
      <3> QED BY <1>4, <1>8, <2>1, <3>2 DEF ReadBy, ReadWhole
    <2>2. CASE key \notin {sender, to}
      <3>1. decode(key, m) = {}
        BY <1>8, <2>2, DecodeIs
      <3> QED BY <1>4, <2>2, <3>1 DEF ReadBy
    <2> QED BY <2>1, <2>2
  <1>9. CASE how = "no"
    <2>1. m = o
      BY <1>3, <1>9 DEF Altered
    <2>2. Trimmed(m).bytes = bytes
      BY <1>1, <1>6, <1>7, <2>1 DEF Trimmed, MemoRecord
    <2>3. Fits(key, m) <=> key \in {sender, to}
      BY <1>6, <2>1 DEF Fits
    <2>4. m \in MemoRecord /\ Len(m.bytes) >= m.length
      BY <1>1, <1>2, <1>6, <2>1
    <2> QED BY <1>8, <1>9, <2>2, <2>3, <2>4 DEF s
  <1>10. CASE how = "run_on"
    <2>1. m = [o EXCEPT !.bytes = Append(@, 0)]
      BY <1>3, <1>10 DEF Altered
    <2>2. Append(bytes, 0) \in Seq(Nat) /\ Len(Append(bytes, 0)) = Len(bytes) + 1
          /\ SubSeq(Append(bytes, 0), 1, Len(bytes)) = bytes
      BY <1>2
    <2>3. /\ m \in MemoRecord /\ m.from = sender /\ m.to = to /\ m.nonce = nonce
          /\ m.check = <<{sender, to}, nonce>> /\ m.length = Len(bytes)
          /\ m.bytes = Append(bytes, 0)
      BY <1>1, <1>6, <2>1, <2>2 DEF MemoRecord
    <2>4. Trimmed(m).bytes = bytes
      BY <2>2, <2>3 DEF Trimmed, MemoRecord
    <2>5. Fits(key, m) <=> key \in {sender, to}
      BY <2>3 DEF Fits
    <2>6. Len(m.bytes) >= m.length
      BY <1>2, <2>2, <2>3
    <2> QED BY <1>8, <1>10, <2>3, <2>4, <2>5, <2>6 DEF s
  (* What is left when the last n bytes are cut off. *)
  <1>11. ASSUME NEW n \in 1 .. Len(bytes)
         PROVE  LET left == SubSeq(bytes, 1, Len(bytes) - n)
                    c == [Shortened(o, n) EXCEPT !.length = @ - n]
                IN  /\ Shortened(o, n) \in MemoRecord
                    /\ Len(Shortened(o, n).bytes) < Shortened(o, n).length
                    /\ c \in MemoRecord /\ Len(c.bytes) >= c.length
                    /\ Trimmed(c).bytes = left /\ Len(left) = Len(bytes) - n
                    /\ n \in Nat /\ n >= 1 /\ n <= Len(bytes)
    <2> DEFINE left == SubSeq(bytes, 1, Len(bytes) - n)
               c == [Shortened(o, n) EXCEPT !.length = @ - n]
    <2>1. n \in Nat /\ n >= 1 /\ n <= Len(bytes) /\ Len(bytes) - n \in Nat
      BY <1>2
    <2>2. left \in Seq(Nat) /\ Len(left) = Len(bytes) - n
      BY <1>2, <2>1
    <2>3. SubSeq(left, 1, Len(bytes) - n) = left
      BY <2>2, <2>1
    <2> HIDE DEF left
    <2>4. /\ Shortened(o, n) \in MemoRecord /\ Shortened(o, n).bytes = left
          /\ Shortened(o, n).length = Len(bytes)
      BY <1>1, <1>6, <2>2 DEF Shortened, MemoRecord, left
    <2>5. c \in MemoRecord /\ c.bytes = left /\ c.length = Len(bytes) - n
      BY <2>1, <2>2, <2>4 DEF MemoRecord
    <2> HIDE DEF c
    <2>6. Trimmed(c).bytes = left
      BY <2>3, <2>5 DEF Trimmed, MemoRecord
    <2>7. /\ Len(Shortened(o, n).bytes) < Shortened(o, n).length
          /\ Len(c.bytes) >= c.length
      <3>1. Len(left) \in Nat /\ Len(left) = Len(bytes) - n /\ Len(bytes) \in Nat
        BY <1>2, <2>1, <2>2
      <3> QED BY <2>1, <2>4, <2>5, <3>1
    <2> QED BY Zenon, <2>1, <2>2, <2>4, <2>5, <2>6, <2>7 DEF c, left
  <1>12. CASE how = "cut"
    <2>1. CASE m \in {Shortened(o, n) : n \in 1 .. Len(bytes)}
      <3>1. PICK n \in 1 .. Len(bytes) : m = Shortened(o, n)
        BY <2>1
      <3>2. m \in MemoRecord /\ Len(m.bytes) < m.length
        BY <1>11, <3>1
      <3>3. Len(m.bytes) \in Nat /\ m.length \in Nat
        BY <3>2 DEF MemoRecord
      <3>4. decode(key, m) = {}
        BY <3>2, <3>3, DecodeIs
      <3> QED BY <1>12, <3>2, <3>4 DEF ReadBy, s
    <2>2. CASE m \in {[Shortened(o, n) EXCEPT !.length = @ - n] :
                        n \in {n \in 1 .. Len(bytes) : n % BLOCK # 0}}
      <3>1. PICK n \in 1 .. Len(bytes) : m = [Shortened(o, n) EXCEPT !.length = @ - n] /\ n % BLOCK # 0
        BY <2>2
      <3>2. /\ m \in MemoRecord /\ Len(Trimmed(m).bytes) = Len(bytes) - n
            /\ n \in Nat /\ n >= 1 /\ n <= Len(bytes)
        BY <1>11, <3>1
      <3>3. Len(Trimmed(m).bytes) % BLOCK # 0
        BY <1>2, <1>5, <3>1, <3>2, CutLeaves
      <3>4. Plaintext(Trimmed(m)) = {}
        BY <3>3 DEF Plaintext
      <3>5. decode(key, m) = {}
        BY <3>2, <3>4, DecodeIs
      <3> QED BY <1>12, <3>2, <3>5 DEF ReadBy, s
    <2> QED BY <1>3, <1>6, <1>12, <2>1, <2>2 DEF Altered
  <1>13. CASE how = "block_cut"
    <2>1. PICK n \in 1 .. Len(bytes) : m = [Shortened(o, n) EXCEPT !.length = @ - n] /\ n % BLOCK = 0
      BY <1>3, <1>6, <1>13 DEF Altered
    <2>2. /\ m \in MemoRecord /\ Trimmed(m).bytes = SubSeq(bytes, 1, Len(bytes) - n)
          /\ n \in Nat /\ n >= 1 /\ n <= Len(bytes)
      BY <1>11, <2>1
    <2>3. \A t \in Plaintext(Trimmed(m)) : IsPiece(t, Content(format, text))
      <3> DEFINE q == Trimmed(m)
      <3>1. q.bytes = SubSeq(bytes, 1, Len(bytes) - n)
        BY <2>2
      <3> HIDE DEF q
      <3>2. \A t \in Plaintext(q) : IsPiece(t, Content(format, text))
        BY Zenon, <1>2, <2>1, <2>2, <3>1
      <3> QED BY <3>2 DEF q
    <2>4. decode(key, m) = Plaintext(Trimmed(m)) \/ decode(key, m) = {}
      BY <2>2, DecodeIs
    <2>5. key \notin {sender, to} => decode(key, m) = {}
      <3>1. m.from = sender /\ m.to = to
        BY <1>1, <1>6, <2>1 DEF Shortened, MemoRecord
      <3>2. key \notin {sender, to} => ~Fits(key, m)
        BY <3>1 DEF Fits
      <3> QED BY <2>2, <3>2, DecodeIs
    <2> QED BY <1>4, <1>13, <2>2, <2>3, <2>4, <2>5 DEF ReadBy, s
  <1>14. CASE how = "swapped"
    <2>1. m = [o EXCEPT !.from = o.to, !.to = o.from]
      BY <1>3, <1>14 DEF Altered
    <2>2. /\ m \in MemoRecord /\ m.from = to /\ m.to = sender /\ m.nonce = nonce
          /\ m.check = <<{sender, to}, nonce>> /\ m.length = Len(bytes) /\ m.bytes = bytes
      BY <1>1, <1>6, <2>1 DEF MemoRecord
    <2>3. Trimmed(m).bytes = bytes
      BY <1>7, <2>2 DEF Trimmed, MemoRecord
    <2>4. Fits(key, m) <=> key \in {sender, to}
      <3>1. {to, sender} = {sender, to}
        OBVIOUS
      <3> QED BY <2>2, <3>1 DEF Fits
    <2>5. Len(m.bytes) >= m.length
      BY <1>2, <2>2
    <2> QED BY <1>8, <1>14, <2>2, <2>3, <2>4, <2>5 DEF s
  <1>15. CASE how = "misled"
    <2>1. CASE \E n \in Nonces \ {o.nonce} : m = [o EXCEPT !.nonce = n]
      <3>1. PICK n \in Nonces \ {nonce} : m = [o EXCEPT !.nonce = n]
        BY <1>6, <2>1
      <3>2. m \in MemoRecord /\ m.nonce = n /\ m.check = <<{sender, to}, nonce>>
        BY <1>1, <1>6, <3>1 DEF MemoRecord
      <3>3. ~Fits(key, m)
        BY <3>2 DEF Fits
      <3>4. decode(key, m) = {}
        BY <3>2, <3>3, DecodeIs
      <3> QED BY <1>15, <3>2, <3>4 DEF ReadBy, s
    <2>2. CASE \E p \in Parties \ {o.from, o.to} : m = [o EXCEPT !.to = p]
      <3>1. PICK p \in Parties \ {sender, to} : m = [o EXCEPT !.to = p]
        BY <1>6, <2>2
      <3>2. m \in MemoRecord /\ m.to = p /\ m.from = sender /\ m.check = <<{sender, to}, nonce>>
        BY <1>1, <1>6, <3>1 DEF MemoRecord
      <3>3. {sender, p} # {sender, to}
        BY <3>1
      <3>4. ~Fits(key, m)
        BY <3>2, <3>3 DEF Fits
      <3>5. decode(key, m) = {}
        BY <3>2, <3>4, DecodeIs
      <3> QED BY <1>15, <3>2, <3>5 DEF ReadBy, s
    <2> QED BY <1>3, <1>15, <2>1, <2>2 DEF Altered
  <1> QED BY <1>9, <1>10, <1>12, <1>13, <1>14, <1>15 DEF Hows, s

-----------------------------------------------------------------------------
(* MemoInv holds in the beginning. *)
LEMMA MemoInvInit == MemoInit => MemoInv
  BY DEF MemoInit, MemoInv, Unopened

(* Every step keeps MemoInv. *)
LEMMA MemoInvStep == MemoInv /\ [MemoNext]_memo_vars => MemoInv'
  <1> SUFFICES ASSUME MemoInv, [MemoNext]_memo_vars PROVE MemoInv'
    OBVIOUS
  <1>1. CASE mail = NoMemo /\ altered = "no" /\ Unopened
    <2>1. ASSUME NEW sender \in Parties, NEW to \in Parties, NEW text \in Texts, NEW nonce \in Nonces,
                 NEW format \in Formats, Sends(sender, to, text, nonce, format)
          PROVE  MemoInv'
      <3> DEFINE o == Encoded(sender, to, text, nonce, format)
      <3>1. mail' = <<o>> /\ altered' = "no" /\ opened' = [p \in Parties |-> <<>>]
            /\ sent' = [text |-> text, format |-> format, ends |-> {sender, to}]
        BY <1>1, <2>1 DEF Sends, Unopened
      <3>2. o \in MemoRecord /\ o \in Altered(o, "no")
        BY EncodedIs DEF Altered
      <3> HIDE DEF o
      <3>3. DOMAIN opened' = Parties /\ \A p \in Parties : opened'[p] = <<>>
        BY <3>1
      <3>4. UnderWay(sender, to, text, nonce, format, o)'
        BY <3>1, <3>2, <3>3 DEF UnderWay, o, Hows
      <3> QED BY <3>2, <3>4 DEF MemoInv
    <2>2. ~Alteration
      BY <1>1 DEF Alteration, NoMemo
    <2>3. ASSUME NEW p \in Parties PROVE ~Opens(p)
      BY <1>1 DEF Opens
    <2>4. CASE UNCHANGED memo_vars
      BY <1>1, <2>4 DEF memo_vars, MemoInv, Unopened
    <2> QED BY <2>1, <2>2, <2>3, <2>4 DEF MemoNext
  <1>2. ASSUME NEW sender \in Parties, NEW to \in Parties, NEW text \in Texts, NEW nonce \in Nonces,
               NEW format \in Formats, NEW m \in MemoRecord,
               UnderWay(sender, to, text, nonce, format, m)
        PROVE  MemoInv'
    <2> DEFINE o == Encoded(sender, to, text, nonce, format)
    <2>1. /\ mail = <<m>> /\ altered \in Hows /\ m \in Altered(o, altered)
          /\ sent = [text |-> text, format |-> format, ends |-> {sender, to}]
          /\ DOMAIN opened = Parties
          /\ \A p \in Parties : opened[p] = <<>> \/ opened[p] = <<decode(p, m)>>
      BY <1>2 DEF UnderWay
    <2>2. ASSUME NEW how \in Hows, NEW c, Alter(how, c), c \in Altered(m, how)
          PROVE  MemoInv'
      <3>1. altered = "no" /\ altered' = how /\ mail' = <<c>> /\ sent' = sent /\ opened' = opened
            /\ \A p \in Parties : opened[p] = <<>>
        BY <2>2 DEF Alter
      <3>2. m = o
        BY <2>1, <3>1 DEF Altered
      <3>3. c \in Altered(o, how)
        BY <2>2, <3>2
      <3> HIDE DEF o
      <3>4. c \in MemoRecord
        BY <3>3, AlteredIsRead, <2>1 DEF o
      <3>5. UnderWay(sender, to, text, nonce, format, c)'
        BY <2>1, <3>1, <3>3 DEF UnderWay, o
      <3> QED BY <3>4, <3>5 DEF MemoInv
    <2>3. CASE Alteration
      <3>1. {mail[i] : i \in DOMAIN mail} = {m}
        BY <2>1
      <3>2. \/ Alter("run_on", [m EXCEPT !.bytes = Append(@, 0)])
            \/ \E n \in 1 .. Len(m.bytes) :
                 \/ Alter("cut", Shortened(m, n))
                 \/ Alter(IF n % BLOCK = 0 THEN "block_cut" ELSE "cut",
                          [Shortened(m, n) EXCEPT !.length = @ - n])
            \/ Alter("swapped", [m EXCEPT !.from = m.to, !.to = m.from])
            \/ \E n \in Nonces \ {m.nonce} : Alter("misled", [m EXCEPT !.nonce = n])
            \/ \E p \in Parties \ {m.from, m.to} : Alter("misled", [m EXCEPT !.to = p])
        BY <2>3, <3>1 DEF Alteration
      <3>3. CASE Alter("run_on", [m EXCEPT !.bytes = Append(@, 0)])
        BY <2>2, <3>3 DEF Altered, Hows
      <3>4. ASSUME NEW n \in 1 .. Len(m.bytes), Alter("cut", Shortened(m, n)) PROVE MemoInv'
        <4>1. Shortened(m, n) \in Altered(m, "cut") /\ "cut" \in Hows
          BY DEF Altered, Hows
        <4> QED BY <2>2, <3>4, <4>1
      <3>5. ASSUME NEW n \in 1 .. Len(m.bytes),
                   Alter(IF n % BLOCK = 0 THEN "block_cut" ELSE "cut",
                         [Shortened(m, n) EXCEPT !.length = @ - n])
            PROVE  MemoInv'
        <4>1. CASE n % BLOCK = 0
          <5>1. [Shortened(m, n) EXCEPT !.length = @ - n] \in Altered(m, "block_cut")
                /\ "block_cut" \in Hows
            BY <4>1 DEF Altered, Hows
          <5>2. Alter("block_cut", [Shortened(m, n) EXCEPT !.length = @ - n])
            BY <3>5, <4>1
          <5> QED BY <2>2, <5>1, <5>2
        <4>2. CASE n % BLOCK # 0
          <5>1. [Shortened(m, n) EXCEPT !.length = @ - n] \in Altered(m, "cut") /\ "cut" \in Hows
            BY <4>2 DEF Altered, Hows
          <5>2. Alter("cut", [Shortened(m, n) EXCEPT !.length = @ - n])
            BY <3>5, <4>2
          <5> QED BY <2>2, <5>1, <5>2
        <4> QED BY <4>1, <4>2
      <3>6. CASE Alter("swapped", [m EXCEPT !.from = m.to, !.to = m.from])
        BY <2>2, <3>6 DEF Altered, Hows
      <3>7. CASE \E n \in Nonces \ {m.nonce} : Alter("misled", [m EXCEPT !.nonce = n])
        BY <2>2, <3>7 DEF Altered, Hows
      <3>8. CASE \E p \in Parties \ {m.from, m.to} : Alter("misled", [m EXCEPT !.to = p])
        BY <2>2, <3>8 DEF Altered, Hows
      <3> QED BY <3>2, <3>3, <3>4, <3>5, <3>6, <3>7, <3>8
    <2>4. ASSUME NEW key \in Parties, Opens(key) PROVE MemoInv'
      <3>1. opened' = [opened EXCEPT ![key] = <<decode(key, m)>>]
            /\ mail' = mail /\ sent' = sent /\ altered' = altered
        BY <2>4, <2>1 DEF Opens
      <3>2. DOMAIN opened' = Parties
            /\ \A p \in Parties : opened'[p] = <<>> \/ opened'[p] = <<decode(p, m)>>
        BY <2>1, <3>1
      <3>3. UnderWay(sender, to, text, nonce, format, m)'
        BY <2>1, <3>1, <3>2 DEF UnderWay
      <3> QED BY <3>3 DEF MemoInv
    <2>5. ASSUME NEW a \in Parties, NEW b \in Parties, NEW c \in Texts, NEW d \in Nonces,
                 NEW f \in Formats
          PROVE  ~Sends(a, b, c, d, f)
      BY <2>1 DEF Sends, NoMemo
    <2>6. CASE UNCHANGED memo_vars
      <3>1. UnderWay(sender, to, text, nonce, format, m)'
        BY <2>6, <2>1 DEF memo_vars, UnderWay
      <3> QED BY <3>1 DEF MemoInv
    <2> QED BY <2>3, <2>4, <2>5, <2>6 DEF MemoNext
  <1> QED BY <1>1, <1>2 DEF MemoInv

(* The inductive invariant holds of every behaviour of a memo, whoever     *)
(* writes it to whom and whatever becomes of it. (memo.rs)                 *)
THEOREM MemoInvariant == MemoSpec => []MemoInv
  BY MemoInvInit, MemoInvStep, PTL DEF MemoSpec

(* For every text, block, nonce and set of parties: nobody but the ends    *)
(* reads anything, nor do they of a memo cut within a block or misled;     *)
(* otherwise they read what was written, or, if it was cut at a block or   *)
(* written without padding, no more than a piece of it.                    *)
(* (memo.rs: decode, encode_with_nonce, unpad) *)
THEOREM MemosOpenForTheirEnds == MemoSpec => []OpensForItsEnds
  <1>1. MemoInv => OpensForItsEnds
    <2> SUFFICES ASSUME MemoInv, NEW p \in Parties, NEW i \in DOMAIN opened[p]
                 PROVE  ReadBy(sent, altered, p, opened[p][i])
      BY DEF OpensForItsEnds, ReadBy
    <2>1. opened[p] # <<>>
      OBVIOUS
    <2>2. ~Unopened
      BY <2>1 DEF Unopened
    <2>3. PICK sender \in Parties, to \in Parties, text \in Texts, nonce \in Nonces,
               format \in Formats, m \in MemoRecord :
            /\ altered \in Hows
            /\ m \in Altered(Encoded(sender, to, text, nonce, format), altered)
            /\ sent = [text |-> text, format |-> format, ends |-> {sender, to}]
            /\ opened[p] = <<decode(p, m)>>
      BY <2>1, <2>2 DEF MemoInv, UnderWay
    <2>4. ReadBy([text |-> text, format |-> format, ends |-> {sender, to}], altered, p, decode(p, m))
      BY <2>3, AlteredIsRead
    <2>5. opened[p][i] = decode(p, m)
      BY <2>3
    <2> QED BY <2>3, <2>4, <2>5
  <1> QED BY <1>1, MemoInvariant, PTL

=============================================================================
