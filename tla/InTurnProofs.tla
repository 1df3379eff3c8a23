----------------------------- MODULE InTurnProofs -----------------------------
(***************************************************************************)
(* What every reader of several values has in common (the loops of         *)
(* Operation::read_from, of the array readers of types.rs, and of serde    *)
(* over the fields of an object): R reads one value, and the values are    *)
(* read in turn until one of them cannot be.  R is a parameter; who wants  *)
(* to know this of a reader instantiates the module with it.               *)
(***************************************************************************)
EXTENDS Naturals, Sequences, FiniteSets, TLAPS

CONSTANT R(_, _, _)      \* of a parameter, of the item that is to be read, and of what is left

Got(v, rest) == [ok |-> TRUE, val |-> v, rest |-> rest]
Fail == [ok |-> FALSE, val |-> <<>>, rest |-> <<>>]
Largest(S) == CHOOSE x \in S : \A y \in S : x >= y

(* One item more, after those before it. *)
Turn(p, got, item) ==
    IF got.ok
    THEN IF R(p, item, got.rest).ok
         THEN Got(Append(got.val, R(p, item, got.rest).val), R(p, item, got.rest).rest) ELSE Fail
    ELSE Fail

(* The recursion over sets of positions that a fold is. *)
TurnStep(p, b, items, f, S) ==
    IF S = {} THEN Got(<<>>, b) ELSE Turn(p, f[S \ {Largest(S)}], items[Largest(S)])
(* f follows it on sets of up to n positions. *)
TurnsUpTo(p, b, items, f, n) ==
    \A S \in SUBSET DOMAIN items : Cardinality(S) <= n => f[S] = TurnStep(p, b, items, f, S)
(* The function that the recursion stands for, and what it is of all. *)
Turns(p, b, items) ==
    CHOOSE f : f = [S \in SUBSET DOMAIN items |-> TurnStep(p, b, items, f, S)]
InTurnOf(p, b, items) == Turns(p, b, items)[DOMAIN items]

-----------------------------------------------------------------------------
(* What is known of numbers and of sets of positions.  The theorems take   *)
(* it as a hypothesis, which the libraries give to whoever instantiates    *)
(* the module: an instance need not repeat the libraries.                  *)
Least ==
    \A T \in SUBSET Nat : T # {} => \E x \in T : \A y \in T : x <= y
Induction ==
    \A T \in SUBSET Nat : (0 \in T /\ \A n \in T : n + 1 \in T) => T = Nat
Counted ==
    \A n \in Nat : \A S \in SUBSET (1 .. n) :
      /\ Cardinality(S) \in Nat /\ Cardinality(1 .. n) \in Nat /\ Cardinality(S) <= Cardinality(1 .. n)
      /\ Cardinality(S) = 0 => S = {}
      /\ \A x \in S : Cardinality(S \ {x}) = Cardinality(S) - 1 /\ Cardinality(S \ {x}) \in Nat
Basics == Least /\ Induction /\ Counted

(* Induction, from the hypothesis. *)
LEMMA InductionHolds ==
    ASSUME Basics, NEW T \in SUBSET Nat, 0 \in T, \A n \in T : n + 1 \in T
    PROVE  T = Nat
  BY DEF Basics, Induction

(* The largest of a set of positions. *)
LEMMA LargestIn ==
    ASSUME Least, NEW n \in Nat, NEW S \in SUBSET (1 .. n), S # {}
    PROVE  Largest(S) \in S /\ \A y \in S : Largest(S) >= y
  <1> DEFINE U == {x \in Nat : \A y \in S : x >= y}
  <1>1. n \in U
    OBVIOUS
  <1>2. PICK m \in U : \A x \in U : m <= x
    <2>1. U \in SUBSET Nat
      OBVIOUS
    <2> HIDE DEF U
    <2> QED BY <1>1, <2>1 DEF Least
  <1>3. m \in S
    <2> SUFFICES ASSUME m \notin S PROVE FALSE
      OBVIOUS
    <2>1. m # 0
      <3>1. PICK y \in S : y \in 1 .. n
        OBVIOUS
      <3>2. m \in Nat /\ m >= y /\ y >= 1
        BY <1>2, <3>1
      <3> QED BY <3>1, <3>2
    <2>2. ASSUME NEW y \in S PROVE m - 1 >= y
      <3>1. y \in Nat /\ m \in Nat /\ m >= y /\ m # y
        BY <1>2
      <3> QED BY <3>1
    <2>3. m - 1 \in U
      BY <1>2, <2>1, <2>2
    <2> QED BY <1>2, <2>3
  <1>4. \A y \in S : m >= y
    BY <1>2
  <1> QED BY <1>3, <1>4 DEF Largest

(* A set of positions without its largest is smaller. *)
LEMMA WithoutLargest ==
    ASSUME Basics, NEW n \in Nat, NEW S \in SUBSET (1 .. n), S # {}
    PROVE  /\ S \ {Largest(S)} \in SUBSET (1 .. n)
           /\ Cardinality(S) \in Nat /\ Cardinality(S \ {Largest(S)}) \in Nat
           /\ Cardinality(S \ {Largest(S)}) = Cardinality(S) - 1
  <1>1. Largest(S) \in S
    BY LargestIn DEF Basics
  <1> HIDE DEF Largest
  <1> QED BY <1>1 DEF Basics, Counted

(* The recursion has a solution. *)
LEMMA TurnsAreDefined ==
    ASSUME Basics, NEW p, NEW b, NEW items, NEW N \in Nat, DOMAIN items = 1 .. N
    PROVE  \A S \in SUBSET (1 .. N) :
             Turns(p, b, items)[S] = TurnStep(p, b, items, Turns(p, b, items), S)
  <1> DEFINE step(f, S) == TurnStep(p, b, items, f, S)
             upto(f, n) == TurnsUpTo(p, b, items, f, n)
             good == {n \in Nat : \E f : upto(f, n)}
  <1>1. 0 \in good
    <2> DEFINE f == [S \in SUBSET (1 .. N) |-> Got(<<>>, b)]
    <2>1. ASSUME NEW S \in SUBSET (1 .. N), Cardinality(S) <= 0
          PROVE  f[S] = step(f, S)
      <3>1. S = {}
        <4>3. Cardinality(S) \in Nat
          BY DEF Basics, Counted
        <4>4. Cardinality(S) = 0
          BY <2>1, <4>3
        <4> QED BY <4>4 DEF Basics, Counted
      <3> QED BY <3>1 DEF TurnStep
    <2>2. upto(f, 0)
      BY <2>1 DEF TurnsUpTo
    <2> QED BY <2>2
  <1>2. ASSUME NEW n \in good PROVE n + 1 \in good
    <2>1. n \in Nat /\ \E f : upto(f, n)
      OBVIOUS
    <2>2. PICK f : upto(f, n)
      BY <2>1
    <2> DEFINE g == [S \in SUBSET (1 .. N) |-> step(f, S)]
    <2>3. ASSUME NEW S \in SUBSET (1 .. N), Cardinality(S) <= n + 1
          PROVE  g[S] = step(g, S)
      <3>1. CASE S = {}
        BY <3>1 DEF TurnStep
      <3>2. CASE S # {}
        <4> DEFINE U == S \ {Largest(S)}
        <4>1. U \in SUBSET (1 .. N) /\ Cardinality(S) \in Nat /\ Cardinality(U) = Cardinality(S) - 1
          BY <3>2, WithoutLargest
        <4>2. Cardinality(U) <= n
          <5> HIDE DEF U
          <5> QED BY <2>1, <2>3, <4>1
        <4>3. f[U] = g[U]
          BY <2>2, <4>1, <4>2 DEF TurnsUpTo
        <4>4. g[S] = step(f, S)
          OBVIOUS
        <4> HIDE DEF g
        <4> QED BY <3>2, <4>3, <4>4 DEF TurnStep
      <3> QED BY <3>1, <3>2
    <2>4. upto(g, n + 1)
      BY <2>3 DEF TurnsUpTo
    <2> QED BY <2>1, <2>4
  <1>3. Cardinality(1 .. N) \in good
    <2> HIDE DEF good
    <2>1. good = Nat
      <3>1. good \in SUBSET Nat
        BY DEF good
      <3> QED BY <1>1, <1>2, <3>1, InductionHolds
    <2>2. Cardinality(1 .. N) \in Nat
      BY DEF Basics, Counted
    <2> QED BY <2>1, <2>2
  <1>4. PICK f : upto(f, Cardinality(1 .. N))
    BY <1>3
  <1> DEFINE g == [S \in SUBSET (1 .. N) |-> f[S]]
  <1>5. ASSUME NEW S \in SUBSET (1 .. N) PROVE g[S] = step(g, S)
    <2>1. Cardinality(S) <= Cardinality(1 .. N)
      <3> QED BY DEF Basics, Counted
    <2>2. f[S] = step(f, S)
      BY <1>4, <2>1 DEF TurnsUpTo
    <2>3. S \ {Largest(S)} \in SUBSET (1 .. N)
      OBVIOUS
    <2>4. g[S] = f[S] /\ g[S \ {Largest(S)}] = f[S \ {Largest(S)}]
      BY <2>3
    <2> HIDE DEF g
    <2> QED BY <2>2, <2>4 DEF TurnStep
  <1>6. g = [S \in SUBSET (1 .. N) |-> step(g, S)]
    <2>1. g = [S \in SUBSET (1 .. N) |-> g[S]]
      OBVIOUS
    <2> HIDE DEF g
    <2> QED BY <1>5, <2>1
  <1> HIDE DEF g
  <1> DEFINE h == Turns(p, b, items)
  <1>7. h = [S \in SUBSET (1 .. N) |-> step(h, S)]
    BY <1>6 DEF Turns
  <1> HIDE DEF h
  <1>8. \A S \in SUBSET (1 .. N) : h[S] = step(h, S)
    BY <1>7
  <1> QED BY <1>8 DEF h

(* What was read of the first n items, for each n. *)
Steps(p, b, items, N, g) ==
    /\ g[0] = Got(<<>>, b)
    /\ \A n \in 1 .. N : g[n] = Turn(p, g[n - 1], items[n])
    /\ InTurnOf(p, b, items) = g[N]
(* What the first n of them left. *)
Left(p, b, items, N, t) ==
    /\ t[0] = b
    /\ \A i \in 1 .. N : R(p, items[i], t[i - 1]).ok /\ t[i] = R(p, items[i], t[i - 1]).rest

(* The items are read one by one. *)
LEMMA TurnByTurn ==
    ASSUME Basics, NEW p, NEW b, NEW items, NEW N \in Nat, DOMAIN items = 1 .. N
    PROVE  \E g : Steps(p, b, items, N, g)
  <1> DEFINE f == Turns(p, b, items)
             g == [n \in 0 .. N |-> f[1 .. n]]
  <1>1. \A S \in SUBSET (1 .. N) : f[S] = TurnStep(p, b, items, f, S)
    BY TurnsAreDefined
  <1>2. InTurnOf(p, b, items) = f[1 .. N]
    BY DEF InTurnOf
  <1> HIDE DEF f
  <1>3. g[0] = Got(<<>>, b)
    <2>1. 1 .. 0 = {} /\ {} \in SUBSET (1 .. N)
      OBVIOUS
    <2>2. f[1 .. 0] = Got(<<>>, b)
      BY <1>1, <2>1 DEF TurnStep
    <2> QED BY <2>2
  <1>4. ASSUME NEW n \in 1 .. N PROVE g[n] = Turn(p, g[n - 1], items[n])
    <2> DEFINE S == 1 .. n
    <2>1. S \in SUBSET (1 .. N) /\ S # {} /\ n \in S /\ n \in Nat /\ S \in SUBSET (1 .. n)
      <3>1. n \in Nat /\ n \in S /\ S \in SUBSET (1 .. n)
        OBVIOUS
      <3>2. S \in SUBSET (1 .. N)
        OBVIOUS
      <3> QED BY ONLY <3>1, <3>2
    <2>2. \A y \in S : y <= n
      OBVIOUS
    <2>3. Largest(S) = n
      <3>0. S \in SUBSET Nat
        OBVIOUS
      <3> HIDE DEF S
      <3>1. Largest(S) \in S /\ Largest(S) >= n
        BY <2>1, LargestIn DEF Basics
      <3>2. Largest(S) \in Nat /\ Largest(S) <= n /\ Largest(S) >= n /\ n \in Nat
        BY <2>1, <2>2, <3>0, <3>1
      <3> QED BY ONLY <3>2
    <2>4. S \ {n} = 1 .. n - 1
      OBVIOUS
    <2>5. g[n] = f[S] /\ g[n - 1] = f[1 .. n - 1]
      OBVIOUS
    <2> HIDE DEF g, S
    <2> QED BY <1>1, <2>1, <2>3, <2>4, <2>5 DEF TurnStep
  <1>5. g[N] = f[1 .. N]
    OBVIOUS
  <1> HIDE DEF g
  <1>6. Steps(p, b, items, N, g)
    BY <1>2, <1>3, <1>4, <1>5 DEF Steps
  <1> QED BY <1>6

(* What a step comes to when the item can be read. *)
LEMMA TurnOn ==
    ASSUME NEW p, NEW vals, NEW left, NEW item, NEW v, NEW rest,
           R(p, item, left) = [ok |-> TRUE, val |-> v, rest |-> rest]
    PROVE  Turn(p, Got(vals, left), item) = Got(Append(vals, v), rest)
  <1> DEFINE g == Got(vals, left)
  <1>1. g.ok /\ g.val = vals /\ g.rest = left
    BY DEF Got
  <1> HIDE DEF g
  <1>2. R(p, item, g.rest) = [ok |-> TRUE, val |-> v, rest |-> rest]
    BY <1>1
  <1>3. R(p, item, g.rest).ok /\ R(p, item, g.rest).val = v /\ R(p, item, g.rest).rest = rest
    BY <1>2
  <1> QED BY <1>1, <1>3 DEF Turn, g

(* Values that can be read one after the other are all read: t[i] is what  *)
(* the first i of them leave.                                              *)
Reads(p, items, N, t, v) ==
    \A i \in 1 .. N : R(p, items[i], t[i - 1]) = [ok |-> TRUE, val |-> v[i], rest |-> t[i]]

(* If each item is read where the one before it ended, all of them are, in *)
(* order. *)
LEMMA InTurnFollows ==
    ASSUME Basics, NEW p, NEW items, NEW N \in Nat, DOMAIN items = 1 .. N, NEW t, NEW v,
           Reads(p, items, N, t, v)
    PROVE  InTurnOf(p, t[0], items) = [ok |-> TRUE, val |-> [i \in 1 .. N |-> v[i]], rest |-> t[N]]
  <1> DEFINE first(n) == [i \in 1 .. n |-> v[i]]
             X == {v[i] : i \in 1 .. N}
  <1>0. PICK g : Steps(p, t[0], items, N, g)
    BY TurnByTurn
  <1>1. /\ g[0] = Got(<<>>, t[0])
        /\ \A n \in 1 .. N : g[n] = Turn(p, g[n - 1], items[n])
        /\ InTurnOf(p, t[0], items) = g[N]
    BY <1>0 DEF Steps
  <1>2. first(0) = <<>>
    OBVIOUS
  <1>3. ASSUME NEW n \in Nat, n + 1 <= N PROVE Append(first(n), v[n + 1]) = first(n + 1)
    <2>1. v[n + 1] \in X /\ \A i \in 1 .. n : v[i] \in X
      BY <1>3
    <2> HIDE DEF X
    <2>2. first(n) \in Seq(X) /\ Len(first(n)) = n
      BY <2>1
    <2> DEFINE f == first(n)
    <2>3. \A i \in 1 .. n : f[i] = v[i]
      OBVIOUS
    <2> HIDE DEF f, first
    <2>4. f \in Seq(X) /\ Len(f) = n
      BY <2>2 DEF f
    <2> DEFINE a == Append(f, v[n + 1])
    <2>5. a \in Seq(X) /\ Len(a) = n + 1 /\ a[n + 1] = v[n + 1] /\ \A i \in 1 .. n : a[i] = f[i]
      BY <2>1, <2>4
    <2> HIDE DEF a
    <2>6. DOMAIN a = 1 .. n + 1 /\ \A i \in 1 .. n + 1 : a[i] = v[i]
      BY <2>3, <2>5
    <2>7. a = [i \in 1 .. n + 1 |-> v[i]]
      <3>1. a = [i \in 1 .. n + 1 |-> a[i]]
        BY <2>5
      <3> QED BY <2>6, <3>1
    <2> QED BY <2>7 DEF a, f, first
  <1> HIDE DEF first
  <1> DEFINE good == {n \in Nat : n <= N => g[n] = Got(first(n), t[n])}
  <1>4. 0 \in good
    BY <1>1, <1>2
  <1>5. ASSUME NEW n \in good PROVE n + 1 \in good
    <2>1. n \in Nat /\ (n <= N => g[n] = Got(first(n), t[n]))
      OBVIOUS
    <2> SUFFICES ASSUME n + 1 <= N PROVE g[n + 1] = Got(first(n + 1), t[n + 1])
      BY <2>1
    <2> HIDE DEF good
    <2>2. n <= N /\ n + 1 \in 1 .. N /\ (n + 1) - 1 = n
      BY <2>1
    <2>3. g[n] = Got(first(n), t[n])
      BY <2>1, <2>2
    <2>4. R(p, items[n + 1], t[(n + 1) - 1]) = [ok |-> TRUE, val |-> v[n + 1], rest |-> t[n + 1]]
      BY <2>2 DEF Reads
    <2>5. g[n + 1] = Turn(p, g[(n + 1) - 1], items[n + 1])
      BY <1>1, <2>2
    <2>6. Append(first(n), v[n + 1]) = first(n + 1)
      BY <1>3, <2>1
    <2>7. g[n + 1] = Got(Append(first(n), v[n + 1]), t[n + 1])
      <3>1. g[n + 1] = Turn(p, Got(first(n), t[n]), items[n + 1])
        BY <2>2, <2>3, <2>5
      <3>2. R(p, items[n + 1], t[n]) = [ok |-> TRUE, val |-> v[n + 1], rest |-> t[n + 1]]
        BY <2>2, <2>4
      <3> QED BY <3>1, <3>2, TurnOn
    <2> QED BY <2>6, <2>7
  <1>6. N \in good
    <2> HIDE DEF good
    <2>1. good \in SUBSET Nat
      BY DEF good
    <2> QED BY <1>4, <1>5, <2>1, InductionHolds
  <1>7. g[N] = Got(first(N), t[N])
    BY <1>6
  <1> HIDE DEF good
  <1> QED BY <1>1, <1>7 DEF Got, first

(* And what was read was read one after the other. *)
LEMMA InTurnTraced ==
    ASSUME Basics, NEW p, NEW b, NEW items, NEW N \in Nat, DOMAIN items = 1 .. N, InTurnOf(p, b, items).ok
    PROVE  \E t : Left(p, b, items, N, t)
  <1>0. PICK g : Steps(p, b, items, N, g)
    BY TurnByTurn
  <1>1. /\ g[0] = Got(<<>>, b)
        /\ \A n \in 1 .. N : g[n] = Turn(p, g[n - 1], items[n])
        /\ InTurnOf(p, b, items) = g[N]
    BY <1>0 DEF Steps
  <1> DEFINE t == [n \in 0 .. N |-> g[n].rest]
             good == {n \in Nat : n <= N => g[N - n].ok}
  <1>2. 0 \in good
    BY <1>1
  <1>3. ASSUME NEW n \in good PROVE n + 1 \in good
    <2>1. n \in Nat /\ (n <= N => g[N - n].ok)
      OBVIOUS
    <2> SUFFICES ASSUME n + 1 <= N PROVE g[N - (n + 1)].ok
      BY <2>1
    <2> HIDE DEF good, t
    <2>2. N - n \in 1 .. N /\ (N - n) - 1 = N - (n + 1) /\ g[N - n].ok
      BY <2>1
    <2>3. g[N - n] = Turn(p, g[N - (n + 1)], items[N - n])
      BY <1>1, <2>2
    <2> QED BY <2>2, <2>3 DEF Turn, Fail
  <1>4. good = Nat
    <2> HIDE DEF good
    <2>1. good \in SUBSET Nat
      BY DEF good
    <2> QED BY <1>2, <1>3, <2>1, InductionHolds
  <1>5. ASSUME NEW m \in 0 .. N PROVE g[m].ok
    <2>1. N - m \in Nat /\ N - m <= N /\ N - (N - m) = m
      OBVIOUS
    <2>2. N - m \in good
      BY <1>4, <2>1
    <2> QED BY <2>1, <2>2
  <1>6. t[0] = b
    BY <1>1 DEF Got
  <1>7. ASSUME NEW i \in 1 .. N
        PROVE  R(p, items[i], t[i - 1]).ok /\ t[i] = R(p, items[i], t[i - 1]).rest
    <2>1. g[i] = Turn(p, g[i - 1], items[i]) /\ i - 1 \in 0 .. N /\ i \in 0 .. N
      BY <1>1
    <2>2. g[i].ok /\ g[i - 1].ok
      BY <1>5, <2>1
    <2>3. t[i] = g[i].rest /\ t[i - 1] = g[i - 1].rest
      BY <2>1
    <2> HIDE DEF t
    <2> QED BY <2>1, <2>2, <2>3 DEF Turn, Got, Fail
  <1> HIDE DEF t
  <1>8. Left(p, b, items, N, t)
    BY <1>6, <1>7 DEF Left
  <1> QED BY <1>8

(* Items that can be read one after the other are. *)
LEMMA InTurnReadable ==
    ASSUME Basics, NEW p, NEW b, NEW items, NEW N \in Nat, DOMAIN items = 1 .. N, NEW t, Left(p, b, items, N, t)
    PROVE  InTurnOf(p, b, items).ok
  <1>0. PICK g : Steps(p, b, items, N, g)
    BY TurnByTurn
  <1>1. /\ g[0] = Got(<<>>, b)
        /\ \A n \in 1 .. N : g[n] = Turn(p, g[n - 1], items[n])
        /\ InTurnOf(p, b, items) = g[N]
    BY <1>0 DEF Steps
  <1>2. t[0] = b /\ \A i \in 1 .. N : R(p, items[i], t[i - 1]).ok /\ t[i] = R(p, items[i], t[i - 1]).rest
    BY DEF Left
  <1> DEFINE good == {n \in Nat : n <= N => g[n].ok /\ g[n].rest = t[n]}
  <1>3. 0 \in good
    BY <1>1, <1>2 DEF Got
  <1>4. ASSUME NEW n \in good PROVE n + 1 \in good
    <2>1. n \in Nat /\ (n <= N => g[n].ok /\ g[n].rest = t[n])
      OBVIOUS
    <2> SUFFICES ASSUME n + 1 <= N PROVE g[n + 1].ok /\ g[n + 1].rest = t[n + 1]
      BY <2>1
    <2> HIDE DEF good
    <2>2. n <= N /\ n + 1 \in 1 .. N /\ (n + 1) - 1 = n
      BY <2>1
    <2>3. g[n].ok /\ g[n].rest = t[n]
      BY <2>1, <2>2
    <2>4. g[n + 1] = Turn(p, g[n], items[n + 1])
      BY <1>1, <2>2
    <2>5. R(p, items[n + 1], t[n]).ok /\ t[n + 1] = R(p, items[n + 1], t[n]).rest
      BY <1>2, <2>2
    <2> QED BY <2>3, <2>4, <2>5 DEF Turn, Got
  <1>5. N \in good
    <2> HIDE DEF good
    <2>1. good \in SUBSET Nat
      BY DEF good
    <2> QED BY <1>3, <1>4, <2>1, InductionHolds
  <1> QED BY <1>1, <1>5

(* A reader that takes from the beginning of what it is given and does not *)
(* look beyond what it takes: so do several in turn.                       *)
Prefixed(p, items, N) ==
    \A i \in 1 .. N : \A c \in Seq(Nat) :
      R(p, items[i], c).ok =>
        /\ R(p, items[i], c).rest \in Seq(Nat) /\ Len(R(p, items[i], c).rest) <= Len(c)
        /\ \A x \in Seq(Nat) : R(p, items[i], c \o x) =
             [ok |-> TRUE, val |-> R(p, items[i], c).val, rest |-> R(p, items[i], c).rest \o x]
Comes(p, b, items, N, v, d) ==
    /\ d \in Seq(Nat) /\ Len(d) <= Len(b) /\ v = [i \in 1 .. N |-> v[i]]
    /\ InTurnOf(p, b, items) = [ok |-> TRUE, val |-> v, rest |-> d]
    /\ \A x \in Seq(Nat) : InTurnOf(p, b \o x, items) = [ok |-> TRUE, val |-> v, rest |-> d \o x]
    /\ \A i \in 1 .. N : \E c \in Seq(Nat) :
         Len(c) <= Len(b) /\ R(p, items[i], c).ok /\ v[i] = R(p, items[i], c).val

(* If of each item nothing is read beyond it, the same is so of all. *)
LEMMA InTurnComes ==
    ASSUME Basics, NEW p, NEW items, NEW N \in Nat, DOMAIN items = 1 .. N, NEW b \in Seq(Nat),
           Prefixed(p, items, N), InTurnOf(p, b, items).ok
    PROVE  \E v, d : Comes(p, b, items, N, v, d)
  <1> DEFINE r(i, c) == R(p, items[i], c)
             Sound(i, c) == /\ r(i, c).rest \in Seq(Nat) /\ Len(r(i, c).rest) <= Len(c)
                            /\ \A x \in Seq(Nat) : r(i, c \o x) =
                                 [ok |-> TRUE, val |-> r(i, c).val, rest |-> r(i, c).rest \o x]
  <1>0. PICK t : Left(p, b, items, N, t)
    BY InTurnTraced
  <1>1. t[0] = b /\ \A i \in 1 .. N : R(p, items[i], t[i - 1]).ok /\ t[i] = R(p, items[i], t[i - 1]).rest
    BY <1>0 DEF Left
  <1>2. \A i \in 1 .. N : r(i, t[i - 1]).ok /\ t[i] = r(i, t[i - 1]).rest
    BY <1>1
  <1>3. \A i \in 1 .. N : \A c \in Seq(Nat) : r(i, c).ok => Sound(i, c)
    BY DEF Prefixed
  <1>4. \A i \in 1 .. N : \A c : R(p, items[i], c) = r(i, c)
    OBVIOUS
  <1> HIDE DEF r, Sound
  <1> DEFINE good == {n \in Nat : n <= N => t[n] \in Seq(Nat) /\ Len(t[n]) <= Len(b)}
  <1>5. 0 \in good
    BY <1>1
  <1>6. ASSUME NEW n \in good PROVE n + 1 \in good
    <2>1. n \in Nat /\ (n <= N => t[n] \in Seq(Nat) /\ Len(t[n]) <= Len(b))
      OBVIOUS
    <2> SUFFICES ASSUME n + 1 <= N PROVE t[n + 1] \in Seq(Nat) /\ Len(t[n + 1]) <= Len(b)
      BY <2>1
    <2> HIDE DEF good
    <2>2. n + 1 \in 1 .. N /\ (n + 1) - 1 = n /\ n <= N
      BY <2>1
    <2>3. t[n] \in Seq(Nat) /\ Len(t[n]) <= Len(b)
      BY <2>1, <2>2
    <2>4. r(n + 1, t[n]).ok /\ t[n + 1] = r(n + 1, t[n]).rest
      BY <1>2, <2>2
    <2>5. Sound(n + 1, t[n])
      BY <1>3, <2>2, <2>3, <2>4
    <2>6. t[n + 1] \in Seq(Nat) /\ Len(t[n + 1]) <= Len(t[n])
      BY <2>4, <2>5 DEF Sound
    <2>7. Len(t[n + 1]) \in Nat /\ Len(t[n]) \in Nat /\ Len(b) \in Nat
      BY <2>3, <2>6
    <2> QED BY <2>3, <2>6, <2>7
  <1>7. good = Nat
    <2> HIDE DEF good
    <2>1. good \in SUBSET Nat
      BY DEF good
    <2> QED BY <1>5, <1>6, <2>1, InductionHolds
  <1>8. \A n \in 0 .. N : t[n] \in Seq(Nat) /\ Len(t[n]) <= Len(b)
    BY <1>7
  <1> HIDE DEF good
  <1> DEFINE v == [i \in 1 .. N |-> r(i, t[i - 1]).val]
  <1>9. ASSUME NEW i \in 1 .. N
        PROVE  /\ t[i - 1] \in Seq(Nat) /\ Len(t[i - 1]) <= Len(b) /\ t[i] \in Seq(Nat)
               /\ r(i, t[i - 1]).ok /\ v[i] = r(i, t[i - 1]).val
               /\ \A x \in Seq(Nat) : r(i, t[i - 1] \o x) = [ok |-> TRUE, val |-> v[i], rest |-> t[i] \o x]
    <2>1. i - 1 \in 0 .. N /\ i \in 0 .. N
      OBVIOUS
    <2>2. t[i - 1] \in Seq(Nat) /\ Len(t[i - 1]) <= Len(b) /\ t[i] \in Seq(Nat)
      BY <1>8, <2>1
    <2>3. v[i] = r(i, t[i - 1]).val
      OBVIOUS
    <2> HIDE DEF v
    <2>4. r(i, t[i - 1]).ok /\ t[i] = r(i, t[i - 1]).rest
      BY <1>2
    <2>5. Sound(i, t[i - 1])
      BY <1>3, <2>2, <2>4
    <2> QED BY <2>2, <2>3, <2>4, <2>5 DEF Sound
  <1>10. v = [i \in 1 .. N |-> v[i]]
    OBVIOUS
  <1> HIDE DEF v
  <1>11. ASSUME NEW x \in Seq(Nat)
         PROVE  InTurnOf(p, b \o x, items) = [ok |-> TRUE, val |-> v, rest |-> t[N] \o x]
    <2> DEFINE u == [n \in 0 .. N |-> t[n] \o x]
    <2>1. ASSUME NEW n \in 0 .. N PROVE u[n] = t[n] \o x
      OBVIOUS
    <2> HIDE DEF u
    <2>2. u[0] = b \o x /\ u[N] = t[N] \o x
      <3>1. 0 \in 0 .. N /\ N \in 0 .. N
        OBVIOUS
      <3> QED BY <1>1, <2>1, <3>1
    <2>3. ASSUME NEW i \in 1 .. N
          PROVE  R(p, items[i], u[i - 1]) = [ok |-> TRUE, val |-> v[i], rest |-> u[i]]
      <3>1. i - 1 \in 0 .. N /\ i \in 0 .. N
        OBVIOUS
      <3>2. u[i - 1] = t[i - 1] \o x /\ u[i] = t[i] \o x
        BY <2>1, <3>1
      <3>3. r(i, t[i - 1] \o x) = [ok |-> TRUE, val |-> v[i], rest |-> t[i] \o x]
        BY <1>9
      <3> QED BY <1>4, <3>2, <3>3
    <2>4. InTurnOf(p, u[0], items) = [ok |-> TRUE, val |-> [i \in 1 .. N |-> v[i]], rest |-> u[N]]
      <3>1. Reads(p, items, N, u, v)
        BY <2>3 DEF Reads
      <3> QED BY <3>1, InTurnFollows
    <2> QED BY <1>10, <2>2, <2>4
  <1>12. <<>> \in Seq(Nat) /\ b \o <<>> = b /\ t[N] \o <<>> = t[N] /\ t[N] \in Seq(Nat) /\ Len(t[N]) <= Len(b)
    <2>1. t[N] \in Seq(Nat) /\ Len(t[N]) <= Len(b)
      BY <1>8
    <2> QED BY <2>1
  <1>13. InTurnOf(p, b, items) = [ok |-> TRUE, val |-> v, rest |-> t[N]]
    <2>1. InTurnOf(p, b \o <<>>, items) = [ok |-> TRUE, val |-> v, rest |-> t[N] \o <<>>]
      BY <1>11, <1>12
    <2> QED BY <1>12, <2>1
  <1>14. \A i \in 1 .. N : \E c \in Seq(Nat) : Len(c) <= Len(b) /\ R(p, items[i], c).ok /\ v[i] = R(p, items[i], c).val
    <2> SUFFICES ASSUME NEW i \in 1 .. N
                 PROVE  \E c \in Seq(Nat) : Len(c) <= Len(b) /\ R(p, items[i], c).ok /\ v[i] = R(p, items[i], c).val
      OBVIOUS
    <2>1. /\ t[i - 1] \in Seq(Nat) /\ Len(t[i - 1]) <= Len(b)
          /\ r(i, t[i - 1]).ok /\ v[i] = r(i, t[i - 1]).val
      BY <1>9
    <2> QED BY <1>4, <2>1
  <1>15. Comes(p, b, items, N, v, t[N])
    BY <1>10, <1>11, <1>12, <1>13, <1>14 DEF Comes
  <1> QED BY <1>15

(* Two values, and three. *)
LEMMA TwoFollow ==
    ASSUME Basics, NEW p, NEW items, DOMAIN items = 1 .. 2, NEW b, NEW v1, NEW c, NEW v2, NEW d,
           R(p, items[1], b) = [ok |-> TRUE, val |-> v1, rest |-> c],
           R(p, items[2], c) = [ok |-> TRUE, val |-> v2, rest |-> d]
    PROVE  InTurnOf(p, b, items) = [ok |-> TRUE, val |-> <<v1, v2>>, rest |-> d]
  <1> DEFINE t == [i \in 0 .. 2 |-> IF i = 0 THEN b ELSE IF i = 1 THEN c ELSE d]
             v == <<v1, v2>>
  <1>1. t[0] = b /\ t[1] = c /\ t[2] = d
    OBVIOUS
  <1>2. v[1] = v1 /\ v[2] = v2 /\ [i \in 1 .. 2 |-> v[i]] = v
    OBVIOUS
  <1> HIDE DEF t, v
  <1>3. ASSUME NEW i \in 1 .. 2 PROVE R(p, items[i], t[i - 1]) = [ok |-> TRUE, val |-> v[i], rest |-> t[i]]
    <2>1. i = 1 \/ i = 2
      OBVIOUS
    <2>2. CASE i = 1
      <3>1. i - 1 = 0
        BY <2>2
      <3> QED BY <1>1, <1>2, <2>2, <3>1
    <2>3. CASE i = 2
      <3>1. i - 1 = 1
        BY <2>3
      <3> QED BY <1>1, <1>2, <2>3, <3>1
    <2> QED BY <2>1, <2>2, <2>3
  <1>4. Reads(p, items, 2, t, v)
    BY <1>3 DEF Reads
  <1>5. InTurnOf(p, t[0], items) = [ok |-> TRUE, val |-> [i \in 1 .. 2 |-> v[i]], rest |-> t[2]]
    <2> DEFINE N == 2
    <2>1. N \in Nat /\ DOMAIN items = 1 .. N /\ Reads(p, items, N, t, v)
      BY <1>4
    <2> HIDE DEF N
    <2>2. InTurnOf(p, t[0], items) = [ok |-> TRUE, val |-> [i \in 1 .. N |-> v[i]], rest |-> t[N]]
      BY ONLY Basics, <2>1, InTurnFollows
    <2> QED BY <2>2 DEF N
  <1> QED BY <1>1, <1>2, <1>5 DEF v

ThreeRead(p, items, b, v1, c, v2, d, v3, e) ==
    /\ DOMAIN items = 1 .. 3
    /\ R(p, items[1], b) = [ok |-> TRUE, val |-> v1, rest |-> c]
    /\ R(p, items[2], c) = [ok |-> TRUE, val |-> v2, rest |-> d]
    /\ R(p, items[3], d) = [ok |-> TRUE, val |-> v3, rest |-> e]

(* Three items in turn. *)
LEMMA ThreeFollow ==
    ASSUME Basics, NEW p, NEW items, NEW b, NEW v1, NEW c, NEW v2, NEW d, NEW v3, NEW e,
           ThreeRead(p, items, b, v1, c, v2, d, v3, e)
    PROVE  InTurnOf(p, b, items) = [ok |-> TRUE, val |-> <<v1, v2, v3>>, rest |-> e]
  <1> DEFINE t == [i \in 0 .. 3 |-> IF i = 0 THEN b ELSE IF i = 1 THEN c ELSE IF i = 2 THEN d ELSE e]
             v == <<v1, v2, v3>>
  <1>0. /\ DOMAIN items = 1 .. 3
        /\ R(p, items[1], b) = [ok |-> TRUE, val |-> v1, rest |-> c]
        /\ R(p, items[2], c) = [ok |-> TRUE, val |-> v2, rest |-> d]
        /\ R(p, items[3], d) = [ok |-> TRUE, val |-> v3, rest |-> e]
    BY DEF ThreeRead
  <1>1. t[0] = b /\ t[1] = c /\ t[2] = d /\ t[3] = e
    OBVIOUS
  <1>2. v[1] = v1 /\ v[2] = v2 /\ v[3] = v3 /\ [i \in 1 .. 3 |-> v[i]] = v
    OBVIOUS
  <1> HIDE DEF t, v
  <1>3. ASSUME NEW i \in 1 .. 3 PROVE R(p, items[i], t[i - 1]) = [ok |-> TRUE, val |-> v[i], rest |-> t[i]]
    <2>1. i = 1 \/ i = 2 \/ i = 3
      OBVIOUS
    <2>2. CASE i = 1
      <3>1. i - 1 = 0
        BY <2>2
      <3> QED BY <1>0, <1>1, <1>2, <2>2, <3>1
    <2>3. CASE i = 2
      <3>1. i - 1 = 1
        BY <2>3
      <3> QED BY <1>0, <1>1, <1>2, <2>3, <3>1
    <2>4. CASE i = 3
      <3>1. i - 1 = 2
        BY <2>4
      <3> QED BY <1>0, <1>1, <1>2, <2>4, <3>1
    <2> QED BY <2>1, <2>2, <2>3, <2>4
  <1>4. Reads(p, items, 3, t, v)
    BY <1>3 DEF Reads
  <1>5. InTurnOf(p, t[0], items) = [ok |-> TRUE, val |-> [i \in 1 .. 3 |-> v[i]], rest |-> t[3]]
    <2> DEFINE N == 3
    <2>1. N \in Nat /\ DOMAIN items = 1 .. N /\ Reads(p, items, N, t, v)
      BY <1>0, <1>4
    <2> HIDE DEF N
    <2>2. InTurnOf(p, t[0], items) = [ok |-> TRUE, val |-> [i \in 1 .. N |-> v[i]], rest |-> t[N]]
      BY ONLY Basics, <2>1, InTurnFollows
    <2> QED BY <2>2 DEF N
  <1> QED BY <1>1, <1>2, <1>5 DEF v
=============================================================================
