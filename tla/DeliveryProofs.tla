---------------------------- MODULE DeliveryProofs ----------------------------
(***************************************************************************)
(* Theorems about Delivery, for any nodes, operations, keys, authorities,  *)
(* clocks and bounds.  First the functions that signing is made of: the    *)
(* weight of an authority, the conversion of operations, the keys without  *)
(* repeats, the accounts that operations name, signing, the wire form.     *)
(* Then the inductive invariant, a lemma for every step, and what follows. *)
(* Functions defined by recursion are shown to have the solution that      *)
(* CHOOSE takes by induction over a set of naturals.                       *)
(***************************************************************************)
EXTENDS Delivery, TLAPS, FiniteSetTheorems, SequenceTheorems, NaturalsInduction,
        WellFoundedInduction

-----------------------------------------------------------------------------
(* Induction over the naturals, stated without an operator. *)
LEMMA LeastNatural ==
    ASSUME NEW T \in SUBSET Nat, T # {}
    PROVE  \E x \in T : \A y \in T : x <= y
  <1>1. PICK x \in T : \A y \in T : <<y, x>> \notin OpToRel(<, Nat)
    BY WFMin, NatLessThanWellFounded
  <1>2. \A y \in T : ~(y < x)
    BY <1>1 DEF OpToRel
  <1> QED BY <1>2

(* What holds of zero and carries over to the next holds of all. *)
LEMMA AllNaturals ==
    ASSUME NEW T \in SUBSET Nat, 0 \in T, \A n \in T : n + 1 \in T
    PROVE  T = Nat
  <1> SUFFICES ASSUME Nat \ T # {} PROVE FALSE
    OBVIOUS
  <1>1. PICK x \in Nat \ T : \A y \in Nat \ T : x <= y
    BY LeastNatural
  <1>2. x # 0 /\ x - 1 \in Nat
    BY <1>1
  <1>3. x - 1 \in T
    BY <1>1, <1>2
  <1> QED BY <1>1, <1>2, <1>3

-----------------------------------------------------------------------------
(* The sum behind Weight, which takes an entry after the other. *)
Pick(S) == CHOOSE x \in S : TRUE
SumStep(f, S) == IF S = {} THEN 0 ELSE Pick(S).weight + f[S \ {Pick(S)}]
SumsUpTo(f, S, n) == \A T \in SUBSET S : Cardinality(T) <= n => f[T] = SumStep(f, T)
Summed(S) == CHOOSE f : f = [T \in SUBSET S |-> SumStep(f, T)]

(* What is taken of a set is in it. *)
LEMMA PickIn ==
    ASSUME NEW S, S # {}
    PROVE  Pick(S) \in S
  BY DEF Pick

(* A finite set without one of its elements is one smaller. *)
LEMMA WithoutOne ==
    ASSUME NEW S, IsFiniteSet(S), NEW x \in S
    PROVE  /\ IsFiniteSet(S \ {x})
           /\ Cardinality(S) \in Nat /\ Cardinality(S \ {x}) \in Nat
           /\ Cardinality(S \ {x}) = Cardinality(S) - 1
  BY FS_RemoveElement, FS_CardinalityType

(* The recursion behind Weight has a solution: sums up to n extend to n +  *)
(* 1.                                                                      *)
LEMMA SummedIsDefined ==
    ASSUME NEW S, IsFiniteSet(S)
    PROVE  Summed(S) = [T \in SUBSET S |-> SumStep(Summed(S), T)]
  <1> DEFINE good == {n \in Nat : \E f : SumsUpTo(f, S, n)}
  <1>1. 0 \in good
    <2> DEFINE f == [T \in SUBSET S |-> 0]
    <2>1. ASSUME NEW T \in SUBSET S, Cardinality(T) <= 0
          PROVE  f[T] = SumStep(f, T)
      <3>1. IsFiniteSet(T) /\ Cardinality(T) = 0
        BY <2>1, FS_Subset, FS_CardinalityType
      <3>2. T = {}
        BY <3>1, FS_EmptySet
      <3> QED BY <3>2 DEF SumStep
    <2>2. SumsUpTo(f, S, 0)
      BY <2>1 DEF SumsUpTo
    <2> QED BY <2>2
  <1>2. ASSUME NEW n \in good PROVE n + 1 \in good
    <2>1. n \in Nat /\ \E f : SumsUpTo(f, S, n)
      OBVIOUS
    <2>2. PICK f : SumsUpTo(f, S, n)
      BY <2>1
    <2> DEFINE g == [T \in SUBSET S |-> SumStep(f, T)]
    <2>3. ASSUME NEW T \in SUBSET S, Cardinality(T) <= n + 1
          PROVE  g[T] = SumStep(g, T)
      <3>1. CASE T = {}
        BY <3>1 DEF SumStep
      <3>2. CASE T # {}
        <4> DEFINE U == T \ {Pick(T)}
        <4>1. Pick(T) \in T /\ IsFiniteSet(T)
          BY <3>2, PickIn, FS_Subset
        <4>2. U \in SUBSET S /\ Cardinality(U) <= n
          BY <2>1, <2>3, <4>1, WithoutOne
        <4>3. f[U] = g[U]
          BY <2>2, <4>2 DEF SumsUpTo
        <4> QED BY <3>2, <4>3 DEF SumStep
      <3> QED BY <3>1, <3>2
    <2>4. SumsUpTo(g, S, n + 1)
      BY <2>3 DEF SumsUpTo
    <2> QED BY <2>1, <2>4
  <1>3. Cardinality(S) \in good
    <2> HIDE DEF good
    <2>1. good = Nat
      <3>1. good \in SUBSET Nat
        BY DEF good
      <3> QED BY <1>1, <1>2, <3>1, AllNaturals
    <2> QED BY <2>1, FS_CardinalityType
  <1>4. PICK f : SumsUpTo(f, S, Cardinality(S))
    BY <1>3
  <1> DEFINE g == [T \in SUBSET S |-> f[T]]
  <1>5. ASSUME NEW T \in SUBSET S PROVE g[T] = SumStep(g, T)
    <2>1. Cardinality(T) <= Cardinality(S)
      BY FS_Subset
    <2>2. f[T] = SumStep(f, T)
      BY <1>4, <2>1 DEF SumsUpTo
    <2>3. T # {} => T \ {Pick(T)} \in SUBSET S
      OBVIOUS
    <2> QED BY <2>2, <2>3 DEF SumStep
  <1>6. g = [T \in SUBSET S |-> SumStep(g, T)]
    <2> HIDE DEF g
    <2>1. g = [T \in SUBSET S |-> g[T]]
      BY DEF g
    <2> QED BY <1>5, <2>1
  <1>7. \E h : h = [T \in SUBSET S |-> SumStep(h, T)]
    BY <1>6
  <1> QED BY <1>7 DEF Summed

(* Weight is that recursion, taken of the whole set. *)
LEMMA WeightIsSummed ==
    ASSUME NEW S
    PROVE  Weight(S) = Summed(S)[S]
  BY DEF Weight, MapThenSumSet, MapThenFoldSet, Summed, SumStep, Pick

(* A sum over part of a set does not depend on the whole. *)
LEMMA SummedOfPart ==
    ASSUME NEW S, IsFiniteSet(S), NEW T \in SUBSET S
    PROVE  Summed(S)[T] = Weight(T)
  <1> DEFINE good == {n \in Nat : \A U \in SUBSET S : \A V \in SUBSET U :
                                    Cardinality(V) <= n => Summed(U)[V] = Weight(V)}
  <1>a. ASSUME NEW U \in SUBSET S
        PROVE  IsFiniteSet(U) /\ Summed(U) = [V \in SUBSET U |-> SumStep(Summed(U), V)]
    BY FS_Subset, SummedIsDefined
  <1>1. 0 \in good
    <2>1. ASSUME NEW U \in SUBSET S, NEW V \in SUBSET U, Cardinality(V) <= 0
          PROVE  Summed(U)[V] = Weight(V)
      <3>1. IsFiniteSet(V) /\ Cardinality(V) = 0
        BY <1>a, <2>1, FS_Subset, FS_CardinalityType
      <3>2. V = {}
        BY <3>1, FS_EmptySet
      <3>3. Summed(U)[V] = 0 /\ Summed(V)[V] = 0
        BY <1>a, <3>2 DEF SumStep
      <3> QED BY <3>3, WeightIsSummed
    <2> QED BY <2>1
  <1>2. ASSUME NEW n \in good PROVE n + 1 \in good
    <2>1. n \in Nat
      OBVIOUS
    <2>2. ASSUME NEW U \in SUBSET S, NEW V \in SUBSET U, Cardinality(V) <= n + 1, V # {}
          PROVE  Summed(U)[V] = Weight(V)
      <3> DEFINE W == V \ {Pick(V)}
      <3>1. Pick(V) \in V /\ IsFiniteSet(V) /\ V \in SUBSET S
        BY <2>2, PickIn, <1>a
      <3>2. W \in SUBSET V /\ W \in SUBSET U /\ Cardinality(W) <= n
        <4>1. Cardinality(V) \in Nat /\ Cardinality(W) = Cardinality(V) - 1
          BY <3>1, WithoutOne
        <4> QED BY <2>1, <2>2, <4>1
      <3>3. Summed(U)[W] = Weight(W) /\ Summed(V)[W] = Weight(W)
        BY <3>1, <3>2
      <3>4. Summed(U)[V] = SumStep(Summed(U), V)
        BY <1>a
      <3>5. Summed(V)[V] = SumStep(Summed(V), V)
        BY <1>a, <3>1
      <3>6. Summed(U)[V] = Summed(V)[V]
        BY <2>2, <3>3, <3>4, <3>5 DEF SumStep
      <3> QED BY <3>6, WeightIsSummed
    <2>3. ASSUME NEW U \in SUBSET S, NEW V \in SUBSET U, V = {}
          PROVE  Summed(U)[V] = Weight(V)
      <3>1. V = {} /\ Cardinality(V) <= 0
        BY <2>3, FS_EmptySet
      <3> QED BY <1>1, <3>1
    <2> QED BY <2>1, <2>2, <2>3
  <1>3. Cardinality(T) \in good
    <2> HIDE DEF good
    <2>1. good = Nat
      <3>1. good \in SUBSET Nat
        BY DEF good
      <3> QED BY <1>1, <1>2, <3>1, AllNaturals
    <2>2. Cardinality(T) \in Nat
      BY FS_Subset, FS_CardinalityType
    <2> QED BY <2>1, <2>2
  <1>4. Cardinality(T) <= Cardinality(T)
    BY FS_Subset, FS_CardinalityType
  <1> QED BY <1>3, <1>4

(* No entries weigh nothing. *)
LEMMA WeightOfNone == Weight({}) = 0
  <1>1. Summed({}) = [T \in SUBSET {} |-> SumStep(Summed({}), T)]
    BY FS_EmptySet, SummedIsDefined
  <1>2. Summed({})[{}] = 0
    BY <1>1 DEF SumStep
  <1> QED BY <1>2, WeightIsSummed

(* Whichever entry is taken first, the sum is that entry and the rest.     *)
Weighty(S) == IsFiniteSet(S) /\ \A e \in S : e.weight \in Nat

(* The weight of a set is that of any entry and of the others, whichever   *)
(* is taken first.                                                         *)
LEMMA WeightOfAny ==
    ASSUME NEW S, Weighty(S)
    PROVE  /\ Weight(S) \in Nat
           /\ \A x \in S : Weight(S) = x.weight + Weight(S \ {x})
  <1> DEFINE good == {n \in Nat : \A T \in SUBSET S : Cardinality(T) <= n =>
                        /\ Weight(T) \in Nat
                        /\ \A x \in T : Weight(T) = x.weight + Weight(T \ {x})}
  <1>a. ASSUME NEW T \in SUBSET S, T # {}
        PROVE  /\ Pick(T) \in T /\ IsFiniteSet(T)
               /\ Weight(T) = Pick(T).weight + Weight(T \ {Pick(T)})
    <2>1. Pick(T) \in T /\ IsFiniteSet(T)
      BY <1>a, PickIn, FS_Subset DEF Weighty
    <2>2. Summed(T)[T] = SumStep(Summed(T), T)
      BY <2>1, SummedIsDefined
    <2>3. Summed(T)[T \ {Pick(T)}] = Weight(T \ {Pick(T)})
      BY <2>1, SummedOfPart
    <2> QED BY <1>a, <2>1, <2>2, <2>3, WeightIsSummed DEF SumStep
  <1>1. 0 \in good
    <2>1. ASSUME NEW T \in SUBSET S, Cardinality(T) <= 0 PROVE T = {}
      <3>1. IsFiniteSet(T) /\ Cardinality(T) = 0
        BY <2>1, FS_Subset, FS_CardinalityType DEF Weighty
      <3> QED BY <3>1, FS_EmptySet
    <2>2. ASSUME NEW T \in SUBSET S, Cardinality(T) <= 0
          PROVE  /\ Weight(T) \in Nat
                 /\ \A x \in T : Weight(T) = x.weight + Weight(T \ {x})
      <3>1. T = {} /\ Weight(T) = 0
        BY <2>1, <2>2, WeightOfNone
      <3> QED BY <3>1
    <2> QED BY <2>2
  <1>2. ASSUME NEW n \in good PROVE n + 1 \in good
    <2>1. n \in Nat
      OBVIOUS
    <2>2. ASSUME NEW T \in SUBSET S, Cardinality(T) <= n + 1, T # {}
          PROVE  /\ Weight(T) \in Nat
                 /\ \A x \in T : Weight(T) = x.weight + Weight(T \ {x})
      <3> DEFINE p == Pick(T)
                 U == T \ {p}
      <3>1. p \in T /\ IsFiniteSet(T) /\ Weight(T) = p.weight + Weight(U)
        BY <1>a, <2>2
      <3>2. U \in SUBSET S /\ Cardinality(U) <= n
        BY <2>1, <2>2, <3>1, WithoutOne
      <3> HIDE DEF p
      <3>3. Weight(U) \in Nat /\ \A x \in U : Weight(U) = x.weight + Weight(U \ {x})
        BY <3>2
      <3>4. p.weight \in Nat /\ Weight(T) \in Nat
        BY <3>1, <3>3 DEF Weighty
      <3>5. ASSUME NEW x \in T PROVE Weight(T) = x.weight + Weight(T \ {x})
        <4>1. CASE x = p
          BY <3>1, <4>1
        <4>2. CASE x # p
          <5> DEFINE V == T \ {x}
          <5>1. x \in U /\ p \in V
            BY <3>1, <4>2
          <5>2. V \in SUBSET S /\ Cardinality(V) <= n
            <6>1. Cardinality(T) \in Nat /\ Cardinality(V) = Cardinality(T) - 1
              BY <3>1, WithoutOne
            <6> QED BY <2>1, <2>2, <6>1
          <5>3. Weight(V) \in Nat /\ Weight(V) = p.weight + Weight(V \ {p})
            BY <5>1, <5>2
          <5>4. Weight(U) = x.weight + Weight(U \ {x})
            BY <3>3, <5>1
          <5>5. V \ {p} = U \ {x}
            OBVIOUS
          <5>6. U \ {x} \in SUBSET S /\ Cardinality(U \ {x}) <= n
            <6>1. IsFiniteSet(U) /\ Cardinality(U) \in Nat
              BY <3>1, FS_Subset, FS_CardinalityType
            <6> QED BY <2>1, <3>2, <5>1, <6>1, WithoutOne
          <5>7. Weight(U \ {x}) \in Nat
            BY <5>6
          <5>8. x.weight \in Nat
            BY DEF Weighty
          <5> QED BY <3>1, <3>4, <5>3, <5>4, <5>5, <5>7, <5>8
        <4> QED BY <4>1, <4>2
      <3> QED BY <3>4, <3>5
    <2> QED BY <2>1, <2>2, WeightOfNone
  <1>3. Cardinality(S) \in good /\ Cardinality(S) \in Nat
    <2> HIDE DEF good
    <2>1. good = Nat
      <3>1. good \in SUBSET Nat
        BY DEF good
      <3> QED BY <1>1, <1>2, <3>1, AllNaturals
    <2> QED BY <2>1, FS_CardinalityType DEF Weighty
  <1> QED BY <1>3

(* More entries never weigh less. *)
LEMMA WeightGrows ==
    ASSUME NEW S, Weighty(S), NEW T \in SUBSET S
    PROVE  /\ Weight(T) \in Nat /\ Weight(S) \in Nat
           /\ Weight(T) <= Weight(S)
  <1> DEFINE good == {n \in Nat : \A U \in SUBSET S :
                        (T \subseteq U /\ Cardinality(U) <= n) => Weight(T) <= Weight(U)}
  <1>a. ASSUME NEW U \in SUBSET S PROVE Weighty(U) /\ Weight(U) \in Nat
    BY FS_Subset, WeightOfAny DEF Weighty
  <1>b. ASSUME NEW U \in SUBSET S, T \subseteq U, T # U
        PROVE  \E x \in U : /\ T \subseteq U \ {x} /\ Weight(U \ {x}) <= Weight(U)
                            /\ Cardinality(U \ {x}) = Cardinality(U) - 1
                            /\ Cardinality(U) \in Nat
    <2>1. PICK x \in U : x \notin T
      BY <1>b
    <2>2. Weight(U) = x.weight + Weight(U \ {x}) /\ x.weight \in Nat
      BY <1>a, WeightOfAny DEF Weighty
    <2>3. Weight(U \ {x}) \in Nat
      BY <1>a
    <2>4. Weight(U \ {x}) <= Weight(U)
      BY <2>2, <2>3
    <2>5. Cardinality(U \ {x}) = Cardinality(U) - 1 /\ Cardinality(U) \in Nat
      BY <1>a, WithoutOne DEF Weighty
    <2> QED BY <1>b, <2>1, <2>4, <2>5
  <1>1. 0 \in good
    <2> SUFFICES ASSUME NEW U \in SUBSET S, T \subseteq U, Cardinality(U) <= 0
                 PROVE  Weight(T) <= Weight(U)
      OBVIOUS
    <2>1. Weight(U) \in Nat
      BY <1>a
    <2>2. IsFiniteSet(U) /\ Cardinality(U) = 0
      BY <1>a, FS_CardinalityType DEF Weighty
    <2>3. T = U
      BY <2>2, FS_EmptySet
    <2> QED BY <2>1, <2>3
  <1>2. ASSUME NEW n \in good PROVE n + 1 \in good
    <2>1. n \in Nat
      OBVIOUS
    <2>2. ASSUME NEW U \in SUBSET S, T \subseteq U, Cardinality(U) <= n + 1
          PROVE  Weight(T) <= Weight(U)
      <3>1. CASE T = U
        <4>1. Weight(U) \in Nat
          BY <1>a
        <4> QED BY <3>1, <4>1
      <3>2. CASE T # U
        <4>1. PICK x \in U : /\ T \subseteq U \ {x} /\ Weight(U \ {x}) <= Weight(U)
                             /\ Cardinality(U \ {x}) = Cardinality(U) - 1
                             /\ Cardinality(U) \in Nat
          BY <1>b, <2>2, <3>2
        <4>2. U \ {x} \in SUBSET S /\ Cardinality(U \ {x}) <= n
          BY <2>1, <2>2, <4>1
        <4>3. Weight(T) <= Weight(U \ {x})
          BY <4>1, <4>2
        <4>4. Weight(T) \in Nat /\ Weight(U \ {x}) \in Nat /\ Weight(U) \in Nat
          BY <1>a
        <4> QED BY <4>1, <4>3, <4>4
      <3> QED BY <3>1, <3>2
    <2> QED BY <2>1, <2>2
  <1>3. Cardinality(S) \in good /\ Cardinality(S) \in Nat
    <2> HIDE DEF good
    <2>1. good = Nat
      <3>1. good \in SUBSET Nat
        BY DEF good
      <3> QED BY <1>1, <1>2, <3>1, AllNaturals
    <2> QED BY <2>1, FS_CardinalityType DEF Weighty
  <1> QED BY <1>3, <1>a

-----------------------------------------------------------------------------
(* What the conversion of a caller's operations keeps. *)
LEMMA OneConverted ==
    ASSUME NEW op \in Operations, NEW c \in operation_from_py(op)
    PROVE  /\ \E j \in py_to_json(PayloadOf(op)) : c = WithPayload(op, j)
           /\ c[1] = op[1] /\ c[2] = op[2] /\ c[4] = op[4]
           /\ \E j \in py_to_json(PayloadOf(op)) : c[3] = AsText(j)
  <1>1. op = <<op[1], <<op[2][1], op[2][2], op[2][3]>>, op[3], op[4]>>
    BY DeliveryAssumption
       DEF DeliveryAssumption, Op, TypeOf, owner, active, posting, PayloadOf, IsValid
  <1>2. PICK j \in py_to_json(PayloadOf(op)) : c = WithPayload(op, j)
    BY DEF operation_from_py
  <1>3. c[1] = op[1] /\ c[2] = op[2] /\ c[3] = AsText(j) /\ c[4] = op[4]
    BY <1>1, <1>2 DEF WithPayload
  <1> QED BY <1>2, <1>3

(* operations_from_py converts every operation, in its place. *)
LEMMA AllConverted ==
    ASSUME NEW ops \in Seq(Operations), NEW cs \in operations_from_py(ops)
    PROVE  /\ DOMAIN cs = DOMAIN ops
           /\ \A i \in DOMAIN ops : cs[i] \in operation_from_py(ops[i])
           /\ cs = [i \in 1 .. Len(ops) |-> cs[i]]
  <1> DEFINE results == [i \in DOMAIN ops |-> operation_from_py(ops[i])]
  <1>1. cs \in AllOrNone(results)
    BY DEF operations_from_py
  <1>2. /\ \A i \in DOMAIN results : results[i] # {}
        /\ cs = [i \in DOMAIN results |-> CHOOSE op \in results[i] : TRUE]
    BY <1>1 DEF AllOrNone
  <1>3. \A i \in DOMAIN ops : cs[i] = (CHOOSE op \in results[i] : TRUE) /\ results[i] # {}
    BY <1>2
  <1>4. \A i \in DOMAIN ops : cs[i] \in operation_from_py(ops[i])
    BY <1>3
  <1> QED BY <1>2, <1>4

(* The keys without repeats *)
FirstIn(keys) == {i \in DOMAIN keys : \A j \in 1 .. i - 1 : keys[j] # keys[i]}
UniqueStep(keys, f, i) ==
    IF i = 0 THEN <<>> ELSE IF i \in FirstIn(keys) THEN Append(f[i - 1], keys[i]) ELSE f[i - 1]
UniqueUpTo(keys) == CHOOSE f : f = [i \in 0 .. Len(keys) |-> UniqueStep(keys, f, i)]

(* unique as the recursion it is. *)
LEMMA UniqueIs ==
    ASSUME NEW keys
    PROVE  unique(keys) = UniqueUpTo(keys)[Len(keys)]
  BY DEF unique, UniqueUpTo, UniqueStep, FirstIn

(* The recursion behind unique has a solution. *)
LEMMA UniqueIsDefined ==
    ASSUME NEW K, NEW keys \in Seq(K)
    PROVE  UniqueUpTo(keys) = [i \in 0 .. Len(keys) |-> UniqueStep(keys, UniqueUpTo(keys), i)]
  <1> DEFINE good == {n \in Nat : \E f : \A i \in 0 .. n : f[i] = UniqueStep(keys, f, i)}
  <1>1. 0 \in good
    <2> DEFINE f == [i \in 0 .. 0 |-> <<>>]
    <2>1. \A i \in 0 .. 0 : f[i] = UniqueStep(keys, f, i)
      BY DEF UniqueStep
    <2> QED BY <2>1
  <1>2. ASSUME NEW n \in good PROVE n + 1 \in good
    <2>1. n \in Nat /\ \E f : \A i \in 0 .. n : f[i] = UniqueStep(keys, f, i)
      OBVIOUS
    <2>2. PICK f : \A i \in 0 .. n : f[i] = UniqueStep(keys, f, i)
      BY <2>1
    <2> DEFINE g == [i \in 0 .. n + 1 |-> UniqueStep(keys, f, i)]
    <2>3. ASSUME NEW i \in 0 .. n + 1 PROVE g[i] = UniqueStep(keys, g, i)
      <3>1. i # 0 => i - 1 \in 0 .. n
        BY <2>1
      <3>2. i # 0 => g[i - 1] = f[i - 1]
        BY <2>1, <2>2, <3>1
      <3> QED BY <3>2 DEF UniqueStep
    <2>4. \A i \in 0 .. n + 1 : g[i] = UniqueStep(keys, g, i)
      BY <2>3
    <2> HIDE DEF g
    <2> QED BY <2>1, <2>4
  <1>3. Len(keys) \in good
    <2> HIDE DEF good
    <2>1. good = Nat
      <3>1. good \in SUBSET Nat
        BY DEF good
      <3> QED BY <1>1, <1>2, <3>1, AllNaturals
    <2> QED BY <2>1
  <1>4. PICK f : \A i \in 0 .. Len(keys) : f[i] = UniqueStep(keys, f, i)
    BY <1>3
  <1> DEFINE g == [i \in 0 .. Len(keys) |-> f[i]]
  <1>5. ASSUME NEW i \in 0 .. Len(keys) PROVE g[i] = UniqueStep(keys, g, i)
    <2>1. i # 0 => i - 1 \in 0 .. Len(keys)
      OBVIOUS
    <2>2. i # 0 => g[i - 1] = f[i - 1]
      BY <2>1
    <2> QED BY <1>4, <2>2 DEF UniqueStep
  <1>6. g = [i \in 0 .. Len(keys) |-> UniqueStep(keys, g, i)]
    <2> HIDE DEF g
    <2>1. g = [i \in 0 .. Len(keys) |-> g[i]]
      BY DEF g
    <2> QED BY <1>5, <2>1
  <1>7. \E h : h = [i \in 0 .. Len(keys) |-> UniqueStep(keys, h, i)]
    BY <1>6
  <1> QED BY <1>7 DEF UniqueUpTo

(* Each key once, and no other. *)
OnceEach(s) == \A i, j \in DOMAIN s : s[i] = s[j] => i = j
(* unique keeps every key and no other, each once. *)
LEMMA UniqueKeys ==
    ASSUME NEW K, NEW keys \in Seq(K)
    PROVE  /\ unique(keys) \in Seq(K)
           /\ {unique(keys)[i] : i \in DOMAIN unique(keys)} = {keys[i] : i \in DOMAIN keys}
           /\ OnceEach(unique(keys))
  <1> DEFINE f == UniqueUpTo(keys)
             Kept(n) == /\ f[n] \in Seq(K)
                        /\ {f[n][i] : i \in DOMAIN f[n]} = {keys[i] : i \in 1 .. n}
                        /\ OnceEach(f[n])
             good == {n \in Nat : n <= Len(keys) => Kept(n)}
  <1>a. \A i \in 0 .. Len(keys) : f[i] = UniqueStep(keys, f, i)
    BY UniqueIsDefined
  <1> HIDE DEF f
  <1>b. \A n : n \in good <=> n \in Nat /\ (n <= Len(keys) => Kept(n))
    OBVIOUS
  <1> HIDE DEF good
  <1>1. 0 \in good
    <2>1. f[0] = <<>>
      BY <1>a DEF UniqueStep
    <2>2. Kept(0)
      BY <2>1 DEF OnceEach
    <2> HIDE DEF Kept
    <2> QED BY <1>b, <2>2
  <1>2. ASSUME NEW n \in good PROVE n + 1 \in good
    <2>1. n \in Nat /\ n + 1 \in Nat
      BY <1>b
    <2> SUFFICES ASSUME n + 1 <= Len(keys) PROVE Kept(n + 1)
      <3> HIDE DEF Kept
      <3> QED BY <1>b, <2>1
    <2>2. Kept(n)
      <3> HIDE DEF Kept
      <3> QED BY <1>b, <2>1
    <2>3. f[n + 1] = IF n + 1 \in FirstIn(keys) THEN Append(f[n], keys[n + 1]) ELSE f[n]
      <3>1. n + 1 \in 0 .. Len(keys) /\ n + 1 # 0 /\ (n + 1) - 1 = n
        BY <2>1
      <3> QED BY <1>a, <3>1 DEF UniqueStep
    <2>4. {keys[i] : i \in 1 .. n + 1} = {keys[i] : i \in 1 .. n} \cup {keys[n + 1]}
      <3>1. 1 .. n + 1 = (1 .. n) \cup {n + 1}
        BY <2>1
      <3> QED BY <3>1
    <2>5. n + 1 \in FirstIn(keys) <=> keys[n + 1] \notin {keys[i] : i \in 1 .. n}
      <3>1. n + 1 \in DOMAIN keys /\ (n + 1) - 1 = n
        BY <2>1
      <3> QED BY <3>1 DEF FirstIn
    <2>6. CASE n + 1 \notin FirstIn(keys)
      <3>1. f[n + 1] = f[n]
        BY <2>3, <2>6
      <3>2. {keys[i] : i \in 1 .. n + 1} = {keys[i] : i \in 1 .. n}
        BY <2>4, <2>5, <2>6
      <3> QED BY <2>2, <3>1, <3>2
    <2>7. CASE n + 1 \in FirstIn(keys)
      <3> DEFINE old == f[n]
                 new == f[n + 1]
                 k == keys[n + 1]
      <3>1. /\ old \in Seq(K) /\ k \in K /\ new = Append(old, k)
            /\ k \notin {old[i] : i \in DOMAIN old} /\ OnceEach(old)
        <4>1. keys[n + 1] \in K
          BY <2>1
        <4>2. keys[n + 1] \notin {f[n][i] : i \in DOMAIN f[n]}
          BY <2>2, <2>5, <2>7
        <4> QED BY <2>2, <2>3, <2>7, <4>1, <4>2
      <3> HIDE DEF old, new, k
      <3>2. /\ new \in Seq(K) /\ Len(old) \in Nat /\ DOMAIN old = 1 .. Len(old)
            /\ DOMAIN new = 1 .. Len(old) + 1
            /\ \A i \in 1 .. Len(old) : new[i] = old[i]
            /\ new[Len(old) + 1] = k
        BY <3>1
      <3>3. {new[i] : i \in DOMAIN new} = {old[i] : i \in DOMAIN old} \cup {k}
        <4>1. 1 .. Len(old) + 1 = (1 .. Len(old)) \cup {Len(old) + 1}
          BY <3>2
        <4> QED BY <3>2, <4>1
      <3>4. OnceEach(new)
        <4> SUFFICES ASSUME NEW i \in DOMAIN new, NEW j \in DOMAIN new, new[i] = new[j]
                     PROVE  i = j
          BY DEF OnceEach
        <4>1. ASSUME NEW h \in DOMAIN new, h # Len(old) + 1
              PROVE  h \in DOMAIN old /\ new[h] = old[h] /\ new[h] # k
          BY <3>1, <3>2, <4>1
        <4>2. CASE i = Len(old) + 1 \/ j = Len(old) + 1
          BY <3>2, <4>1, <4>2
        <4>3. CASE i # Len(old) + 1 /\ j # Len(old) + 1
          BY <3>1, <4>1, <4>3 DEF OnceEach
        <4> QED BY <4>2, <4>3
      <3> QED BY <2>2, <2>4, <3>2, <3>3, <3>4 DEF old, new, k
    <2> QED BY <2>6, <2>7
  <1>3. Len(keys) \in good
    <2>1. good = Nat
      <3>1. good \in SUBSET Nat
        BY <1>b
      <3> QED BY <1>1, <1>2, <3>1, AllNaturals
    <2> QED BY <2>1
  <1>4. Kept(Len(keys)) /\ DOMAIN keys = 1 .. Len(keys)
    <2>1. Len(keys) \in Nat /\ Len(keys) <= Len(keys) /\ DOMAIN keys = 1 .. Len(keys)
      OBVIOUS
    <2> HIDE DEF Kept
    <2> QED BY <1>b, <1>3, <2>1
  <1> QED BY <1>4, UniqueIs DEF f

-----------------------------------------------------------------------------
(* What is signed. *)
SignatureOver(keys, tx) ==
    [i \in DOMAIN unique(keys) |-> sign_digest(<<"hive", tx>>, unique(keys)[i])]
IsSigned(s, ops, texts, ref, expiration) ==
    /\ s.transaction.operations \in operations_from_py(ops)
    /\ s.transaction = [block_ref |-> ref, expiration |-> expiration,
                        operations |-> s.transaction.operations]
    /\ s = [transaction |-> s.transaction, signatures |-> SignatureOver(texts, s.transaction)]
    /\ validate(s.transaction)

(* Whatever sign_transaction returns is validated, expires as it was asked *)
(* to and is signed by the keys given.                                     *)
LEMMA SigningIs ==
    ASSUME NEW ops, NEW ref, NEW texts, NEW secs, NEW clock,
           NEW r \in sign_transaction(ops, ref, texts, secs, "HIVE", clock)
    PROVE  /\ IsSigned(r.signed, ops, texts, ref, clock + secs)
           /\ secs # 0 /\ ~(secs > MAX_EXPIRATION_SECS)
           /\ parse_keys(texts) = {texts}
           /\ r = [signed |-> r.signed, trx_id |-> id(r.signed.transaction)]
  <1>1. PICK c \in chain_from_name("HIVE"), operations \in operations_from_py(ops),
             keys \in parse_keys(texts) :
               \E tx \in Transaction_new(ref, operations, secs, clock) : r \in Signed(tx, keys, c)
    BY DEF sign_transaction, SignedWith
  <1>2. PICK tx \in Transaction_new(ref, operations, secs, clock) : r \in Signed(tx, keys, c)
    BY <1>1
  <1>3. c = "hive" /\ c # ZeroChain
    <2>1. c = ChainIds["HIVE"]
      BY DEF chain_from_name
    <2> QED BY <2>1 DEF ChainIds, ZeroChain
  <1>4. keys = texts /\ parse_keys(texts) = {texts}
    BY DEF parse_keys
  <1>5. /\ tx = [block_ref |-> ref, expiration |-> clock + secs, operations |-> operations]
        /\ secs # 0 /\ ~(secs > MAX_EXPIRATION_SECS)
    BY DEF Transaction_new
  <1>6. PICK s \in sign(tx, keys, c) : r = [signed |-> s, trx_id |-> id(tx)]
    BY <1>2 DEF Signed
  <1>7. validate(tx) /\ \E d \in digest(tx, c) :
          s = [transaction |-> tx,
               signatures |-> [i \in DOMAIN unique(keys) |-> sign_digest(d, unique(keys)[i])]]
    BY DEF sign
  <1>8. digest(tx, c) = {<<"hive", tx>>}
    <2>1. body_bytes(tx) = tx
      BY <1>5 DEF body_bytes
    <2> QED BY <1>3, <2>1 DEF digest
  <1>9. s = [transaction |-> tx, signatures |-> SignatureOver(texts, tx)]
    BY <1>4, <1>7, <1>8 DEF SignatureOver
  <1> HIDE DEF validate
  <1> QED BY <1>4, <1>5, <1>6, <1>7, <1>9 DEF IsSigned

(* Everybody can be recovered, and nobody else. *)
LEMMA OneUpTo ==
    ASSUME NEW n \in Nat
    PROVE  IsFiniteSet(1 .. n) /\ Cardinality(1 .. n) = n
  <1>1. 1 \in Int /\ n \in Int
    OBVIOUS
  <1>2. IsFiniteSet(1 .. n) /\ Cardinality(1 .. n) = IF 1 > n THEN 0 ELSE n - 1 + 1
    BY <1>1, FS_Interval
  <1> QED BY <1>2

(* Everybody who signed can be recovered, and nobody else. *)
LEMMA SignersOf ==
    ASSUME NEW s, NEW ops, NEW texts \in Seq(STRING), NEW ref, NEW expiration,
           IsSigned(s, ops, texts, ref, expiration)
    PROVE  /\ body_bytes(s.transaction) = s.transaction
           /\ SignerKeys(s) = {texts[i] : i \in DOMAIN texts}
           /\ s.signatures \in Seq([key : STRING, over : {<<"hive", s.transaction>>}])
           /\ {s.signatures[i].key : i \in DOMAIN s.signatures} = {texts[i] : i \in DOMAIN texts}
           /\ Len(s.signatures) = Cardinality(SignerKeys(s))
  <1> DEFINE tx == s.transaction
             d == <<"hive", tx>>
             u == unique(texts)
  <1>1. body_bytes(tx) = tx
    BY DEF IsSigned, body_bytes
  <1>2. s.signatures = [i \in DOMAIN u |-> sign_digest(d, u[i])]
    BY DEF IsSigned, SignatureOver
  <1>3. /\ u \in Seq(STRING) /\ OnceEach(u)
        /\ {u[i] : i \in DOMAIN u} = {texts[i] : i \in DOMAIN texts}
    BY UniqueKeys
  <1> HIDE DEF u, tx
  <1>4. /\ DOMAIN u = 1 .. Len(u) /\ Len(u) \in Nat
        /\ DOMAIN s.signatures = 1 .. Len(u)
        /\ \A i \in 1 .. Len(u) : /\ s.signatures[i] = [key |-> u[i], over |-> d]
                                  /\ u[i] \in STRING
    BY <1>2, <1>3 DEF sign_digest
  <1>5. /\ s.signatures \in Seq([key : STRING, over : {d}])
        /\ Len(s.signatures) = Len(u)
    <2>1. s.signatures = [i \in 1 .. Len(u) |-> [key |-> u[i], over |-> d]]
      BY <1>2, <1>4 DEF sign_digest
    <2> DEFINE Sig == [key : STRING, over : {d}]
    <2>2. ASSUME NEW i \in 1 .. Len(u) PROVE [key |-> u[i], over |-> d] \in Sig
      BY <1>4
    <2>3. s.signatures \in [1 .. Len(u) -> Sig]
      <3> HIDE DEF Sig, d
      <3> QED BY <2>1, <2>2
    <2>4. s.signatures \in Seq(Sig) /\ Len(s.signatures) = Len(u)
      <3> HIDE DEF Sig, d
      <3> QED BY <1>4, <2>3
    <2> QED BY <2>4
  <1>6. {s.signatures[i].key : i \in DOMAIN s.signatures} = {u[i] : i \in DOMAIN u}
    <2>1. ASSUME NEW i \in 1 .. Len(u) PROVE s.signatures[i].key = u[i]
      <3> HIDE DEF d
      <3>1. s.signatures[i] = [key |-> u[i], over |-> d]
        BY <1>4
      <3> QED BY <3>1
    <2> QED BY <1>4, <2>1
  <1>7. SignerKeys(s) = {u[i] : i \in DOMAIN u}
    <2>1. digest(s.transaction, "hive") = {d}
      BY <1>1 DEF digest, ZeroChain, tx
    <2> DEFINE found == [i \in DOMAIN s.signatures |-> recover(d, s.signatures[i])]
    <2>2. signers(s, "hive") = {found}
      BY <2>1 DEF signers
    <2>3. SignerKeys(s) = {found[i] : i \in DOMAIN found}
      <3> HIDE DEF found
      <3> QED BY <2>2 DEF SignerKeys
    <2>4. DOMAIN found = DOMAIN u /\ \A i \in DOMAIN u : found[i] = u[i]
      <3>1. ASSUME NEW i \in DOMAIN u PROVE recover(d, s.signatures[i]) = u[i]
        <4>1. s.signatures[i] = [key |-> u[i], over |-> d]
          BY <1>4
        <4> HIDE DEF d
        <4> QED BY <4>1 DEF recover
      <3> HIDE DEF d
      <3> QED BY <1>4, <3>1
    <2> HIDE DEF found
    <2> QED BY <2>3, <2>4
  <1>8. Cardinality({u[i] : i \in DOMAIN u}) = Len(u)
    <2> DEFINE R == {u[i] : i \in DOMAIN u}
               f == [i \in 1 .. Len(u) |-> u[i]]
    <2>1. f \in Bijection(1 .. Len(u), R)
      BY <1>3, <1>4 DEF Bijection, Injection, Surjection, IsInjective, OnceEach
    <2>2. ExistsBijection(1 .. Len(u), R)
      BY <2>1 DEF ExistsBijection
    <2>3. IsFiniteSet(1 .. Len(u)) /\ Cardinality(1 .. Len(u)) = Len(u)
      BY <1>4, OneUpTo
    <2> HIDE DEF R
    <2>4. Cardinality(R) = Len(u)
      BY <2>2, <2>3, FS_Bijection
    <2> QED BY <2>4 DEF R
  <1> QED BY <1>1, <1>3, <1>5, <1>6, <1>7, <1>8 DEF tx

-----------------------------------------------------------------------------
(* The accounts that operations name, one list after the other. *)
FlattenStep(s, f, i) == IF i = 1 THEN s[i] ELSE f[i - 1] \o s[i]
Flattened(s) == CHOOSE f : f = [i \in 1 .. Len(s) |-> FlattenStep(s, f, i)]

(* FlattenSeq of lists is a list. *)
LEMMA FlattenIsSeq ==
    ASSUME NEW X, NEW s \in Seq(Seq(X))
    PROVE  FlattenSeq(s) \in Seq(X)
  <1>1. CASE Len(s) = 0
    <2>1. s = <<>>
      BY <1>1
    <2> QED BY <1>1, <2>1 DEF FlattenSeq
  <1>2. CASE Len(s) # 0
    <2> DEFINE L == Len(s)
               Fits(f, n) == \A i \in 1 .. n : i <= L => f[i] = FlattenStep(s, f, i)
               good == {n \in Nat : \E f : Fits(f, n)}
    <2>1. L \in Nat /\ L >= 1
      BY <1>2
    <2>2. 0 \in good
      OBVIOUS
    <2>3. ASSUME NEW n \in good PROVE n + 1 \in good
      <3>1. n \in Nat /\ \E f : Fits(f, n)
        OBVIOUS
      <3>2. PICK f : Fits(f, n)
        BY <3>1
      <3> DEFINE g == [i \in 1 .. n + 1 |-> FlattenStep(s, f, i)]
      <3>3. ASSUME NEW i \in 1 .. n + 1, i <= L PROVE g[i] = FlattenStep(s, g, i)
        <4>1. i # 1 => i - 1 \in 1 .. n /\ i - 1 <= L
          BY <3>1, <3>3, <2>1
        <4>2. i # 1 => g[i - 1] = f[i - 1]
          BY <3>1, <3>2, <4>1
        <4> QED BY <4>2 DEF FlattenStep
      <3>4. Fits(g, n + 1)
        BY <3>3
      <3> HIDE DEF g, Fits
      <3> QED BY <3>1, <3>4
    <2>4. L \in good
      <3> HIDE DEF good
      <3>1. good = Nat
        <4>1. good \in SUBSET Nat
          BY DEF good
        <4> QED BY <2>2, <2>3, <4>1, AllNaturals
      <3> QED BY <2>1, <3>1
    <2>5. PICK f : Fits(f, L)
      BY <2>4
    <2> DEFINE g == [i \in 1 .. L |-> f[i]]
    <2>6. ASSUME NEW i \in 1 .. L PROVE g[i] = FlattenStep(s, g, i)
      <3>1. i # 1 => i - 1 \in 1 .. L
        BY <2>1
      <3>2. i # 1 => g[i - 1] = f[i - 1]
        BY <3>1
      <3>3. f[i] = FlattenStep(s, f, i) /\ g[i] = f[i]
        BY <2>5, <2>1
      <3> HIDE DEF g, Fits
      <3> QED BY <3>2, <3>3 DEF FlattenStep
    <2>7. \E h : h = [i \in 1 .. L |-> FlattenStep(s, h, i)]
      <3>1. g = [i \in 1 .. L |-> FlattenStep(s, g, i)]
        <4>1. g = [i \in 1 .. L |-> g[i]]
          OBVIOUS
        <4> HIDE DEF g
        <4> QED BY <2>6, <4>1
      <3> QED BY <3>1
    <2> DEFINE h == Flattened(s)
    <2>8. h = [i \in 1 .. L |-> FlattenStep(s, h, i)]
      BY <2>7 DEF Flattened
    <2> HIDE DEF h
    <2> DEFINE typed == {n \in Nat : n + 1 <= L => h[n + 1] \in Seq(X)}
    <2>9. 0 \in typed
      <3>1. h[1] = s[1] /\ s[1] \in Seq(X)
        BY <2>1, <2>8 DEF FlattenStep
      <3> QED BY <3>1
    <2>10. ASSUME NEW n \in typed PROVE n + 1 \in typed
      <3> SUFFICES ASSUME n + 2 <= L, n \in Nat PROVE h[n + 2] \in Seq(X)
        OBVIOUS
      <3>1. h[n + 1] \in Seq(X)
        BY <2>1
      <3>2. n + 2 \in 1 .. L /\ n + 2 # 1 /\ (n + 2) - 1 = n + 1
        BY <2>1
      <3>3. h[n + 2] = h[n + 1] \o s[n + 2]
        BY <2>8, <3>2 DEF FlattenStep
      <3>4. s[n + 2] \in Seq(X)
        BY <3>2
      <3> QED BY <3>1, <3>3, <3>4
    <2>11. h[L] \in Seq(X)
      <3>1. typed = Nat
        <4> HIDE DEF typed
        <4>1. typed \in SUBSET Nat
          BY DEF typed
        <4> QED BY <2>9, <2>10, <4>1, AllNaturals
      <3>2. L - 1 \in typed /\ (L - 1) + 1 = L
        <4> HIDE DEF typed
        <4> QED BY <2>1, <3>1
      <3> QED BY <2>1, <3>2
    <2>12. FlattenSeq(s) = h[L]
      BY <1>2 DEF FlattenSeq, h, Flattened, FlattenStep
    <2> QED BY <2>11, <2>12
  <1> QED BY <1>1, <1>2

(* The accounts that operations name are a list of names. *)
LEMMA NamedIsSeq ==
    ASSUME NEW ops \in Seq(Operations)
    PROVE  Named(ops) \in Seq(STRING)
  <1> DEFINE lists == [i \in DOMAIN ops |-> custom_op_accounts(ops[i])]
  <1>1. ASSUME NEW op \in Operations PROVE custom_op_accounts(op) \in Seq(STRING)
    <2>1. owner(op) \in Seq(STRING) /\ active(op) \in Seq(STRING) /\ posting(op) \in Seq(STRING)
      BY DeliveryAssumption DEF DeliveryAssumption
    <2>2. active(op) \o posting(op) \in Seq(STRING)
      BY <2>1
    <2>3. owner(op) \o active(op) \o posting(op) \in Seq(STRING)
      BY <2>1
    <2>4. <<>> \in Seq(STRING)
      OBVIOUS
    <2> HIDE DEF owner, active, posting, TypeOf
    <2>5. CASE TypeOf(op) = "custom"
      BY <2>1, <2>5 DEF custom_op_accounts
    <2>6. CASE TypeOf(op) = "custom_json"
      BY <2>2, <2>6 DEF custom_op_accounts
    <2>7. CASE TypeOf(op) = "custom_binary"
      BY <2>3, <2>7 DEF custom_op_accounts
    <2>8. CASE TypeOf(op) \notin {"custom", "custom_json", "custom_binary"}
      BY <2>4, <2>8 DEF custom_op_accounts
    <2> QED BY <2>5, <2>6, <2>7, <2>8
  <1>2. lists \in Seq(Seq(STRING))
    <2> DEFINE X == Seq(STRING)
    <2>1. \A i \in 1 .. Len(ops) : custom_op_accounts(ops[i]) \in X
      BY <1>1
    <2>2. DOMAIN ops = 1 .. Len(ops) /\ Len(ops) \in Nat
      OBVIOUS
    <2>3. lists = [i \in 1 .. Len(ops) |-> custom_op_accounts(ops[i])]
      BY <2>2
    <2> HIDE DEF lists, X
    <2>4. lists \in [1 .. Len(ops) -> X]
      BY <2>1, <2>3
    <2>5. lists \in Seq(X)
      BY <2>2, <2>4
    <2> QED BY <2>5 DEF X
  <1> HIDE DEF lists
  <1>3. FlattenSeq(lists) \in Seq(STRING)
    BY <1>2, FlattenIsSeq
  <1> QED BY <1>3 DEF Named, lists

(* The conversion changes the payload, not the accounts that are named. *)
LEMMA ConversionKeepsAccounts ==
    ASSUME NEW ops \in Seq(Operations), NEW cs \in operations_from_py(ops)
    PROVE  Named(cs) = Named(ops)
  <1>1. DOMAIN cs = DOMAIN ops
    BY AllConverted
  <1>2. ASSUME NEW i \in DOMAIN ops PROVE custom_op_accounts(cs[i]) = custom_op_accounts(ops[i])
    <2>1. ops[i] \in Operations /\ cs[i] \in operation_from_py(ops[i])
      BY AllConverted
    <2>2. cs[i][1] = ops[i][1] /\ cs[i][2] = ops[i][2]
      BY <2>1, OneConverted
    <2> QED BY <2>2 DEF custom_op_accounts, TypeOf, owner, active, posting
  <1>3. [i \in DOMAIN cs |-> custom_op_accounts(cs[i])]
           = [i \in DOMAIN ops |-> custom_op_accounts(ops[i])]
    BY <1>1, <1>2
  <1> QED BY <1>3 DEF Named

(* The shortcut: so few names cannot break the budget. *)
LEMMA BudgetOfValidated ==
    ASSUME NEW ops \in Seq(Operations), NEW cs \in operations_from_py(ops),
           check_custom_op_budget(cs)
    PROVE  \A i \in DOMAIN Named(ops) :
             Tally(Named(ops)[i], Named(ops)) <= MAX_CUSTOM_OPS_PER_BLOCK
  <1> DEFINE names == Named(ops)
  <1>1. names \in Seq(STRING) /\ Named(cs) = names
    BY NamedIsSeq, ConversionKeepsAccounts
  <1> HIDE DEF names
  <1>2. ASSUME NEW account PROVE Tally(account, names) \in Nat /\ Tally(account, names) <= Len(names)
    <2>1. IsFiniteSet(1 .. Len(names)) /\ Cardinality(1 .. Len(names)) = Len(names)
      BY <1>1, OneUpTo
    <2>2. {i \in DOMAIN names : names[i] = account} \in SUBSET (1 .. Len(names))
      BY <1>1
    <2> QED BY <2>1, <2>2, FS_Subset, FS_CardinalityType DEF Tally
  <1>3. Len(names) \in Nat /\ MAX_CUSTOM_OPS_PER_BLOCK \in Nat
    BY <1>1, TransactionAssumption DEF TransactionAssumption
  <1>4. CASE Len(names) <= MAX_CUSTOM_OPS_PER_BLOCK
    <2> SUFFICES ASSUME NEW i \in DOMAIN names
                 PROVE  Tally(names[i], names) <= MAX_CUSTOM_OPS_PER_BLOCK
      BY DEF names
    <2>1. Tally(names[i], names) \in Nat /\ Tally(names[i], names) <= Len(names)
      BY <1>2
    <2> QED BY <1>3, <1>4, <2>1
  <1>5. CASE ~(Len(names) <= MAX_CUSTOM_OPS_PER_BLOCK)
    BY <1>1, <1>5 DEF check_custom_op_budget, names
  <1> QED BY <1>4, <1>5

-----------------------------------------------------------------------------
(* The wire form. *)

(* A transaction of operations of O and signatures of G. *)
IsSignedTx(s, O, G) ==
    /\ s = [transaction |-> s.transaction, signatures |-> s.signatures]
    /\ s.transaction = [block_ref |-> s.transaction.block_ref,
                        expiration |-> s.transaction.expiration,
                        operations |-> s.transaction.operations]
    /\ s.transaction.operations \in Seq(O) /\ s.transaction.operations # <<>>
    /\ s.signatures \in Seq(G)

Kinds == {"ref", "time", "count", "operation", "signature"}
WireValues(s, O, G) ==
    {s.transaction.block_ref, s.transaction.expiration} \cup Int \cup O \cup G

(* What stands where in the wire form. *)
Layout(w, s, n, k) ==
    /\ n \in Nat \ {0} /\ k \in Nat /\ Len(w) = 5 + n + k
    /\ w[1] = <<"ref", s.transaction.block_ref>>
    /\ w[2] = <<"time", s.transaction.expiration>>
    /\ w[3] = <<"count", n>>
    /\ \A i \in 1 .. n : w[3 + i] = <<"operation", s.transaction.operations[i]>>
    /\ w[4 + n] = <<"count", 0>>
    /\ w[5 + n] = <<"count", k>>
    /\ \A i \in 1 .. k : w[5 + n + i] = <<"signature", s.signatures[i]>>

(* to_wire writes every token where the layout has it. *)
LEMMA WireIs ==
    ASSUME NEW O, NEW G, NEW s, IsSignedTx(s, O, G)
    PROVE  /\ to_wire(s) \in Seq(Kinds \X WireValues(s, O, G))
           /\ Layout(to_wire(s), s, Len(s.transaction.operations), Len(s.signatures))
  <1> DEFINE V == WireValues(s, O, G)
             T == Kinds \X V
             ref == s.transaction.block_ref
             time == s.transaction.expiration
             ops == s.transaction.operations
             sigs == s.signatures
             n == Len(ops)
             k == Len(sigs)
             w == to_wire(s)
             a == <<tok("ref", ref), tok("time", time), tok("count", n)>>
             b == OpTokens(ops)
             c == <<tok("count", 0), tok("count", k)>>
             d == SigTokens(sigs)
  <1>1. /\ ops \in Seq(O) /\ ops # <<>> /\ sigs \in Seq(G)
        /\ w = a \o b \o c \o d
    BY DEF IsSignedTx, to_wire
  <1>2. {ref, time} \cup Int \cup O \cup G = V
    BY DEF WireValues
  <1> HIDE DEF V, ref, time, ops, sigs, n, k, w
  <1>3. n \in Nat \ {0} /\ k \in Nat /\ DOMAIN ops = 1 .. n /\ DOMAIN sigs = 1 .. k
    BY <1>1 DEF n, k
  <1>t. ASSUME NEW kind \in Kinds, NEW v \in V PROVE <<kind, v>> \in T
    OBVIOUS
  <1>v. ref \in V /\ time \in V /\ Int \subseteq V /\ O \subseteq V /\ G \subseteq V
    BY <1>2
  <1> HIDE DEF T
  <1>4. /\ a \in Seq(T) /\ Len(a) = 3
        /\ a[1] = <<"ref", ref>> /\ a[2] = <<"time", time>> /\ a[3] = <<"count", n>>
    <2>1. <<"ref", ref>> \in T /\ <<"time", time>> \in T /\ <<"count", n>> \in T
      BY <1>t, <1>v, <1>3 DEF Kinds
    <2> QED BY <2>1 DEF tok
  <1>5. /\ b \in Seq(T) /\ Len(b) = n
        /\ \A i \in 1 .. n : b[i] = <<"operation", ops[i]>>
    <2>1. b = [i \in 1 .. n |-> <<"operation", ops[i]>>]
      BY <1>3 DEF OpTokens, tok
    <2>2. \A i \in 1 .. n : ops[i] \in V
      BY <1>1, <1>2, <1>3
    <2>3. \A i \in 1 .. n : <<"operation", ops[i]>> \in T
      BY <2>2, <1>t DEF Kinds
    <2> HIDE DEF b
    <2>4. b \in [1 .. n -> T]
      BY <2>1, <2>3
    <2> QED BY <1>3, <2>1, <2>4
  <1>6. /\ c \in Seq(T) /\ Len(c) = 2 /\ c[1] = <<"count", 0>> /\ c[2] = <<"count", k>>
    <2>1. <<"count", 0>> \in T /\ <<"count", k>> \in T
      BY <1>t, <1>v, <1>3 DEF Kinds
    <2> QED BY <2>1 DEF tok
  <1>7. /\ d \in Seq(T) /\ Len(d) = k
        /\ \A i \in 1 .. k : d[i] = <<"signature", sigs[i]>>
    <2>1. d = [i \in 1 .. k |-> <<"signature", sigs[i]>>]
      BY <1>3 DEF SigTokens, tok
    <2>2. \A i \in 1 .. k : sigs[i] \in V
      BY <1>1, <1>2, <1>3
    <2>3. \A i \in 1 .. k : <<"signature", sigs[i]>> \in T
      BY <2>2, <1>t DEF Kinds
    <2> HIDE DEF d
    <2>4. d \in [1 .. k -> T]
      BY <2>1, <2>3
    <2> QED BY <1>3, <2>1, <2>4
  <1> HIDE DEF a, b, c, d
  <1> DEFINE ab == a \o b
             abc == ab \o c
             abcd == abc \o d
  <1>8. /\ ab \in Seq(T) /\ Len(ab) = 3 + n
        /\ \A i \in 1 .. 3 + n : ab[i] = IF i <= 3 THEN a[i] ELSE b[i - 3]
    <2>1. a \in Seq(T) /\ b \in Seq(T)
      BY <1>3, <1>4, <1>5
    <2>2. /\ a \o b \in Seq(T) /\ Len(a \o b) = Len(a) + Len(b)
          /\ \A i \in 1 .. Len(a) + Len(b) :
                (a \o b)[i] = IF i <= Len(a) THEN a[i] ELSE b[i - Len(a)]
      BY <2>1, ConcatProperties
    <2> QED BY <2>2, <1>3, <1>4, <1>5
  <1> HIDE DEF ab
  <1>9. /\ abc \in Seq(T) /\ Len(abc) = 5 + n
        /\ \A i \in 1 .. 5 + n : abc[i] = IF i <= 3 + n THEN ab[i] ELSE c[i - (3 + n)]
    <2>1. ab \in Seq(T) /\ c \in Seq(T)
      BY <1>3, <1>6, <1>8
    <2>2. /\ ab \o c \in Seq(T) /\ Len(ab \o c) = Len(ab) + Len(c)
          /\ \A i \in 1 .. Len(ab) + Len(c) :
                (ab \o c)[i] = IF i <= Len(ab) THEN ab[i] ELSE c[i - Len(ab)]
      BY <2>1, ConcatProperties
    <2> QED BY <2>2, <1>3, <1>6, <1>8
  <1> HIDE DEF abc
  <1>10. /\ abcd \in Seq(T) /\ Len(abcd) = 5 + n + k
         /\ \A i \in 1 .. 5 + n + k : abcd[i] = IF i <= 5 + n THEN abc[i] ELSE d[i - (5 + n)]
    <2>1. abc \in Seq(T) /\ d \in Seq(T)
      BY <1>3, <1>7, <1>9
    <2>2. /\ abc \o d \in Seq(T) /\ Len(abc \o d) = Len(abc) + Len(d)
          /\ \A i \in 1 .. Len(abc) + Len(d) :
                (abc \o d)[i] = IF i <= Len(abc) THEN abc[i] ELSE d[i - Len(abc)]
      BY <2>1, ConcatProperties
    <2> QED BY <2>2, <1>3, <1>7, <1>9
  <1>11. w = abcd
    BY <1>1 DEF abc, ab
  <1> HIDE DEF abcd
  <1>12. w[1] = a[1] /\ w[2] = a[2] /\ w[3] = a[3]
    BY <1>3, <1>8, <1>9, <1>10, <1>11
  <1>13. ASSUME NEW i \in 1 .. n PROVE w[3 + i] = b[i]
    <2>1. 3 + i \in 1 .. 3 + n /\ ~(3 + i <= 3) /\ (3 + i) - 3 = i
      BY <1>3
    <2>2. 3 + i \in 1 .. 5 + n /\ 3 + i \in 1 .. 5 + n + k /\ 3 + i <= 5 + n
      BY <1>3
    <2> QED BY <2>1, <2>2, <1>8, <1>9, <1>10, <1>11
  <1>14. w[4 + n] = c[1] /\ w[5 + n] = c[2]
    <2>1. /\ 4 + n \in 1 .. 5 + n + k /\ 5 + n \in 1 .. 5 + n + k
          /\ 4 + n \in 1 .. 5 + n /\ 5 + n \in 1 .. 5 + n
          /\ (4 + n) - (3 + n) = 1 /\ (5 + n) - (3 + n) = 2
          /\ ~(4 + n <= 3 + n) /\ ~(5 + n <= 3 + n)
      BY <1>3
    <2> QED BY <2>1, <1>9, <1>10, <1>11
  <1>15. ASSUME NEW i \in 1 .. k PROVE w[5 + n + i] = d[i]
    <2>1. 5 + n + i \in 1 .. 5 + n + k /\ ~(5 + n + i <= 5 + n) /\ (5 + n + i) - (5 + n) = i
      BY <1>3
    <2> QED BY <2>1, <1>10, <1>11
  <1> QED BY <1>3, <1>4, <1>5, <1>6, <1>7, <1>10, <1>11, <1>12, <1>13, <1>14, <1>15
            DEF Layout, T, V, ref, time, ops, sigs, n, k, w

(* A transaction is read back whole. *)
LEMMA WireReadsBack ==
    ASSUME NEW O, NEW G, NEW s, IsSignedTx(s, O, G)
    PROVE  from_wire(to_wire(s)) = {s}
  <1> DEFINE n == Len(s.transaction.operations)
             k == Len(s.signatures)
             w == to_wire(s)
             ops == s.transaction.operations
             sigs == s.signatures
  <1>1. /\ n \in Nat \ {0} /\ k \in Nat
        /\ w \in Seq(Kinds \X WireValues(s, O, G)) /\ Len(w) = 5 + n + k
        /\ w[1] = <<"ref", s.transaction.block_ref>>
        /\ w[2] = <<"time", s.transaction.expiration>>
        /\ w[3] = <<"count", n>>
        /\ \A i \in 1 .. n : w[3 + i] = <<"operation", ops[i]>>
        /\ w[4 + n] = <<"count", 0>>
        /\ w[5 + n] = <<"count", k>>
        /\ \A i \in 1 .. k : w[5 + n + i] = <<"signature", sigs[i]>>
    <2>1. /\ w \in Seq(Kinds \X WireValues(s, O, G))
          /\ Layout(w, s, n, k)
      BY WireIs
    <2> HIDE DEF n, k, w
    <2> QED BY <2>1 DEF Layout
  <1>2. /\ ops \in Seq(O) /\ sigs \in Seq(G) /\ Len(ops) = n /\ Len(sigs) = k
    BY DEF IsSignedTx
  <1> HIDE DEF n, k, w, ops, sigs
  <1>3. DOMAIN w = 1 .. 5 + n + k
    BY <1>1
  <1>4. AllHold(w, 4, n, "operation")
    <2> SUFFICES ASSUME NEW i \in 4 .. 4 + n - 1 PROVE i \in DOMAIN w /\ w[i][1] = "operation"
      BY DEF AllHold, Holds
    <2>1. i - 3 \in 1 .. n /\ 3 + (i - 3) = i /\ i \in 1 .. 5 + n + k
      <3>1. n \in Nat /\ k \in Nat
        BY <1>1
      <3> QED BY <3>1
    <2>2. w[3 + (i - 3)] = <<"operation", ops[i - 3]>>
      BY <1>1, <2>1
    <2> QED BY <1>3, <2>1, <2>2
  <1>5. AllHold(w, 6 + n, k, "signature")
    <2> SUFFICES ASSUME NEW i \in 6 + n .. 6 + n + k - 1 PROVE i \in DOMAIN w /\ w[i][1] = "signature"
      BY DEF AllHold, Holds
    <2>1. i - 5 - n \in 1 .. k /\ 5 + n + (i - 5 - n) = i /\ i \in 1 .. 5 + n + k
      <3>1. n \in Nat /\ k \in Nat
        BY <1>1
      <3> QED BY <3>1
    <2>2. w[5 + n + (i - 5 - n)] = <<"signature", sigs[i - 5 - n]>>
      BY <1>1, <2>1
    <2> QED BY <1>3, <2>1, <2>2
  <1>6. read_body(w)
    <2>1. Holds(w, 1, "ref") /\ Holds(w, 2, "time") /\ Holds(w, 3, "count")
      BY <1>1, <1>3 DEF Holds
    <2>2. w[3][2] = n /\ n > 0
      BY <1>1
    <2>3. Holds(w, 4 + n, "count") /\ w[4 + n][2] = 0
      BY <1>1, <1>3 DEF Holds
    <2> QED BY <1>4, <2>1, <2>2, <2>3 DEF read_body
  <1>7. Body(w) = s.transaction
    <2>1. [i \in 1 .. w[3][2] |-> w[3 + i][2]] = ops
      <3>1. w[3][2] = n
        BY <1>1
      <3>2. \A i \in 1 .. n : w[3 + i][2] = ops[i]
        BY <1>1
      <3>3. ops = [i \in 1 .. n |-> ops[i]]
        BY <1>1, <1>2
      <3> QED BY <3>1, <3>2, <3>3
    <2>2. w[1][2] = s.transaction.block_ref /\ w[2][2] = s.transaction.expiration
      BY <1>1
    <2>3. Body(w) = [block_ref |-> s.transaction.block_ref, expiration |-> s.transaction.expiration,
                     operations |-> ops]
      BY <2>1, <2>2 DEF Body
    <2> QED BY <2>3 DEF IsSignedTx, ops
  <1> DEFINE rest == SubSeq(w, 5 + n + 1, Len(w))
  <1>8. Values(rest) = sigs
    <2>1. /\ Len(rest) = k /\ DOMAIN rest = 1 .. k
          /\ \A i \in 1 .. k : rest[i] = w[5 + n + i]
      <3> DEFINE T == Kinds \X WireValues(s, O, G)
      <3> HIDE DEF T
      <3>1. \A i \in 5 + n + 1 .. Len(w) : w[i] \in T
        <4>1. w \in Seq(T)
          BY <1>1 DEF T
        <4> QED BY <1>1, <4>1
      <3>2. 5 + n + 1 \in Int /\ Len(w) \in Int /\ Len(w) = 5 + n + k
        BY <1>1
      <3>3. /\ rest \in Seq(T)
            /\ Len(rest) = IF 5 + n + 1 <= Len(w) THEN Len(w) - (5 + n + 1) + 1 ELSE 0
            /\ \A i \in 1 .. Len(w) - (5 + n + 1) + 1 : rest[i] = w[(5 + n + 1) + i - 1]
        BY <3>1, <3>2, SubSeqProperties
      <3> HIDE DEF rest
      <3>4. Len(w) - (5 + n + 1) + 1 = k
        BY <1>1, <3>2
      <3>5. Len(rest) = k /\ DOMAIN rest = 1 .. k
        <4>1. n \in Nat /\ k \in Nat /\ Len(w) = 5 + n + k
          BY <1>1
        <4>2. Len(rest) = k
          BY <3>3, <4>1
        <4> QED BY <3>3, <4>2
      <3>6. ASSUME NEW i \in 1 .. k PROVE rest[i] = w[5 + n + i]
        <4>1. (5 + n + 1) + i - 1 = 5 + n + i
          BY <1>1
        <4> QED BY <3>3, <3>4, <4>1
      <3> QED BY <3>5, <3>6
    <2>2. \A i \in 1 .. k : rest[i][2] = sigs[i]
      BY <1>1, <2>1
    <2>3. sigs = [i \in 1 .. k |-> sigs[i]]
      BY <1>1, <1>2
    <2> HIDE DEF rest
    <2> QED BY <2>1, <2>2, <2>3 DEF Values
  <1>9. from_wire(w) = {[transaction |-> Body(w), signatures |-> Values(rest)]}
    <2>1. w[3][2] = n /\ w[5 + n][2] = k /\ Holds(w, 5 + n, "count")
      BY <1>1, <1>3 DEF Holds
    <2>2. k <= Len(w) - (5 + n) /\ Len(w) = 5 + n + k /\ 5 + n + 1 = 6 + n
      BY <1>1
    <2> HIDE DEF rest
    <2>3. AllHold(w, 5 + n + 1, k, "signature")
      BY <1>5, <2>2
    <2> QED BY <1>6, <2>1, <2>2, <2>3 DEF from_wire, rest
  <1> QED BY <1>7, <1>8, <1>9 DEF IsSignedTx, w, sigs

-----------------------------------------------------------------------------
(* The inductive invariant. *)

Texts == STRING \ {Stranger}
SignedSoFar == {m.signed : m \in made}
Bodies == {body_bytes(s.transaction) : s \in SignedSoFar}

(* What was signed was made of what the history says, then. *)
IsRecord(m) ==
    /\ m.ops \in Seq(Operations) /\ m.ops # <<>>
    /\ m.texts \in Seq(Texts) /\ m.texts # <<>> /\ parse_keys(m.texts) = {m.texts}
    /\ m.at \in Nat /\ m.at <= now
    /\ IsSigned(m.signed, m.ops, m.texts, m.signed.transaction.block_ref,
                m.at + skew + settings.expiration)
    /\ settings.expiration # 0 /\ ~(settings.expiration > MAX_EXPIRATION_SECS)

FixedInv ==
    \E s \in Setups : /\ skew = s.skew /\ authority = s.authority
                      /\ settings = [expiration |-> s.expiration, width |-> s.width]
BuilderType ==
    builder \in [ops : Seq(Operations), wifs : Seq(Texts), signed : SUBSET SignedSoFar]
CallType ==
    call \in [pc : {"idle", "running"}, signed : SUBSET SignedSoFar,
              left : SUBSET Nodes, asked : SUBSET Nodes]
ChainType == pool \in [Nodes -> SUBSET Bodies] /\ landed \subseteq Bodies

DeliveryInv ==
    /\ now \in Nat
    /\ FixedInv
    /\ \A m \in made : IsRecord(m)
    /\ BuilderType
    /\ SendsNothingDiscarded
    /\ CallType
    /\ copies \subseteq SignedSoFar \X Nodes
    /\ ChainType
    /\ stored \subseteq {to_wire(s) : s \in SignedSoFar}

(* Key texts are texts. *)
LEMMA TextsAreStrings ==
    ASSUME NEW texts \in Seq(Texts)
    PROVE  texts \in Seq(STRING)
  <1>1. \A i \in 1 .. Len(texts) : texts[i] \in STRING
    BY DEF Texts
  <1> QED BY <1>1

(* What a record signed has the shape the wire form carries. *)
LEMMA RecordIsWired ==
    ASSUME NEW m, IsRecord(m)
    PROVE  \E O, G : IsSignedTx(m.signed, O, G)
  <1> DEFINE s == m.signed
             ops == m.ops
             cs == s.transaction.operations
             G == [key : STRING, over : {<<"hive", s.transaction>>}]
             O == {cs[i] : i \in 1 .. Len(ops)}
  <1>1. /\ ops \in Seq(Operations) /\ ops # <<>> /\ m.texts \in Seq(Texts)
        /\ IsSigned(s, ops, m.texts, s.transaction.block_ref, m.at + skew + settings.expiration)
    BY DEF IsRecord
  <1>2. s.signatures \in Seq(G)
    BY <1>1, TextsAreStrings, SignersOf
  <1>3. /\ s = [transaction |-> s.transaction, signatures |-> s.signatures]
        /\ s.transaction = [block_ref |-> s.transaction.block_ref,
                            expiration |-> s.transaction.expiration,
                            operations |-> cs]
        /\ cs \in operations_from_py(ops)
    <2> HIDE DEF s, ops
    <2>1. s = [transaction |-> s.transaction,
               signatures |-> SignatureOver(m.texts, s.transaction)]
      BY <1>1 DEF IsSigned
    <2>2. s.signatures = SignatureOver(m.texts, s.transaction)
      BY <2>1
    <2> QED BY <1>1, <2>1, <2>2 DEF IsSigned
  <1> HIDE DEF s, ops, G
  <1>4. cs \in Seq(O) /\ cs # <<>>
    <2>1. cs = [i \in 1 .. Len(ops) |-> cs[i]]
      BY <1>1, <1>3, AllConverted
    <2>2. Len(ops) \in Nat \ {0}
      BY <1>1
    <2> HIDE DEF cs
    <2>3. \A i \in 1 .. Len(ops) : cs[i] \in O
      BY DEF cs
    <2> HIDE DEF O
    <2>4. cs \in [1 .. Len(ops) -> O]
      BY <2>1, <2>3
    <2> QED BY <2>1, <2>2, <2>4
  <1>5. IsSignedTx(s, O, G)
    BY <1>2, <1>3, <1>4 DEF IsSignedTx
  <1> QED BY <1>5 DEF s

(* Whatever was signed is read back whole from its wire form. *)
LEMMA ReadsBackSigned ==
    ASSUME DeliveryInv, NEW s \in SignedSoFar
    PROVE  from_wire(to_wire(s)) = {s}
  <1>1. PICK m \in made : s = m.signed
    BY DEF SignedSoFar
  <1>2. IsRecord(m)
    BY DEF DeliveryInv
  <1> QED BY <1>1, <1>2, RecordIsWired, WireReadsBack

(* The invariant holds at first. *)
LEMMA DeliveryInvInit == DeliveryInit => DeliveryInv
  <1> SUFFICES ASSUME DeliveryInit PROVE DeliveryInv
    OBVIOUS
  <1> USE DEF DeliveryInit
  <1>1. now \in Nat /\ FixedInv
    BY DEF FixedInv
  <1>2. \A m \in made : IsRecord(m)
    OBVIOUS
  <1>3. BuilderType /\ SendsNothingDiscarded
    BY DEF BuilderType, SendsNothingDiscarded, EmptyBuilder
  <1>4. CallType
    BY DEF CallType, Idle
  <1>5. copies \subseteq SignedSoFar \X Nodes /\ stored \subseteq {to_wire(s) : s \in SignedSoFar}
    OBVIOUS
  <1>6. ChainType
    BY DEF ChainType
  <1> QED BY <1>1, <1>2, <1>3, <1>4, <1>5, <1>6 DEF DeliveryInv

(* What each part of the invariant needs of a step.  A step that signs     *)
(* nothing keeps the history, and time does not run backwards.             *)
LEMMA HistoryKept ==
    ASSUME DeliveryInv, UNCHANGED made, now' \in Nat, now <= now', UNCHANGED fixed_vars
    PROVE  /\ FixedInv' /\ \A m \in made' : IsRecord(m)'
           /\ SignedSoFar' = SignedSoFar /\ Bodies' = Bodies
  <1>1. SignedSoFar' = SignedSoFar
    BY DEF SignedSoFar
  <1>2. ASSUME NEW m \in made PROVE IsRecord(m)'
    <2>1. IsRecord(m) /\ now \in Nat
      BY DEF DeliveryInv
    <2>2. m.at \in Nat /\ m.at <= now'
      BY <2>1 DEF IsRecord
    <2>3. IsSigned(m.signed, m.ops, m.texts, m.signed.transaction.block_ref,
                   m.at + skew + settings.expiration)'
          <=> IsSigned(m.signed, m.ops, m.texts, m.signed.transaction.block_ref,
                       m.at + skew + settings.expiration)
      BY DEF fixed_vars
    <2> QED BY <2>1, <2>2, <2>3 DEF IsRecord, fixed_vars
  <1>3. Bodies' = Bodies
    BY <1>1 DEF Bodies
  <1>4. FixedInv'
    BY DEF DeliveryInv, FixedInv, fixed_vars
  <1> QED BY <1>1, <1>2, <1>3, <1>4

(* A builder left alone holds what it held. *)
LEMMA BuilderKept ==
    ASSUME DeliveryInv, UNCHANGED builder, made \subseteq made'
    PROVE  BuilderType' /\ SendsNothingDiscarded'
  <1>1. SignedSoFar \subseteq SignedSoFar'
    BY DEF SignedSoFar
  <1>2. BuilderType'
    BY <1>1 DEF DeliveryInv, BuilderType
  <1>3. SendsNothingDiscarded'
    BY DEF DeliveryInv, SendsNothingDiscarded
  <1> QED BY <1>2, <1>3

(* So does the call in progress. *)
LEMMA CallKept ==
    ASSUME DeliveryInv, UNCHANGED call, made \subseteq made'
    PROVE  CallType'
  <1>1. SignedSoFar \subseteq SignedSoFar'
    BY DEF SignedSoFar
  <1> QED BY <1>1 DEF DeliveryInv, CallType

(* So do the requests under way, the nodes, the chain and what is stored. *)
LEMMA OutsideKept ==
    ASSUME DeliveryInv, made \subseteq made'
    PROVE  /\ UNCHANGED copies => copies' \subseteq SignedSoFar' \X Nodes
           /\ UNCHANGED <<pool, landed>> => ChainType'
           /\ UNCHANGED stored => stored' \subseteq {to_wire(s) : s \in SignedSoFar'}
  <1>1. SignedSoFar \subseteq SignedSoFar'
    BY DEF SignedSoFar
  <1>2. Bodies \subseteq Bodies'
    BY <1>1 DEF Bodies
  <1>3. UNCHANGED copies => copies' \subseteq SignedSoFar' \X Nodes
    BY <1>1 DEF DeliveryInv
  <1>4. UNCHANGED <<pool, landed>> => ChainType'
    BY <1>2 DEF DeliveryInv, ChainType
  <1>5. UNCHANGED stored => stored' \subseteq {to_wire(s) : s \in SignedSoFar'}
    <2> SUFFICES ASSUME UNCHANGED stored, NEW wire \in stored
                 PROVE  \E s \in SignedSoFar' : wire = to_wire(s)
      OBVIOUS
    <2>1. PICK s \in SignedSoFar : wire = to_wire(s)
      BY DEF DeliveryInv
    <2> QED BY <1>1, <2>1
  <1> QED BY <1>3, <1>4, <1>5

-----------------------------------------------------------------------------
(* Building and signing keep the invariant. *)

(* A prefix stays one when more is appended. *)
LEMMA PrefixOfMore ==
    ASSUME NEW K, NEW s \in Seq(K), NEW t \in Seq(K), NEW u \in Seq(K), IsPrefix(s, t)
    PROVE  IsPrefix(s, t \o u)
  <1>1. Len(s) <= Len(t) /\ Len(s) \in Nat /\ Len(t) \in Nat /\ Len(t \o u) = Len(t) + Len(u)
        /\ Len(u) \in Nat /\ t \o u \in Seq(K)
    BY DEF IsPrefix
  <1>2. \A i \in 1 .. Len(s) : (t \o u)[i] = t[i]
    BY <1>1
  <1>3. SubSeq(t \o u, 1, Len(s)) = SubSeq(t, 1, Len(s))
    BY <1>1, <1>2
  <1> QED BY <1>1, <1>3 DEF IsPrefix

(* A list is a prefix of itself. *)
LEMMA PrefixOfItself ==
    ASSUME NEW K, NEW s \in Seq(K)
    PROVE  IsPrefix(s, s)
  BY DEF IsPrefix

(* A step of the builder that signs nothing. *)
LEMMA BuildingKeeps ==
    ASSUME DeliveryInv,
           NEW ops \in Seq(Operations), NEW wifs \in Seq(Texts), NEW signed \in SUBSET SignedSoFar,
           builder' = [ops |-> ops, wifs |-> wifs, signed |-> signed],
           \A s \in signed : \E m \in made : m.signed = s /\ IsPrefix(m.ops, ops),
           UNCHANGED <<call, stored, made, chain_vars, copies, fixed_vars>>
    PROVE  DeliveryInv'
  <1>1. now' \in Nat /\ now <= now' /\ UNCHANGED made /\ UNCHANGED fixed_vars /\ made \subseteq made'
    BY DEF DeliveryInv, chain_vars
  <1>2. FixedInv' /\ (\A m \in made' : IsRecord(m)') /\ SignedSoFar' = SignedSoFar
    BY <1>1, HistoryKept
  <1>3. BuilderType'
    BY <1>2 DEF BuilderType
  <1>4. SendsNothingDiscarded'
    BY DEF SendsNothingDiscarded
  <1>5. CallType'
    BY <1>1, CallKept
  <1>6. /\ copies' \subseteq SignedSoFar' \X Nodes
        /\ ChainType' /\ stored' \subseteq {to_wire(s) : s \in SignedSoFar'}
    BY <1>1, OutsideKept DEF chain_vars
  <1> QED BY <1>1, <1>2, <1>3, <1>4, <1>5, <1>6 DEF DeliveryInv

(* appendOps: what was signed is of operations the builder still starts    *)
(* with.                                                                   *)
LEMMA AppendOpsKeeps ==
    ASSUME DeliveryInv, NEW batch \in OpBatches, appendOps(batch)
    PROVE  DeliveryInv'
  <1> DEFINE ops == builder.ops \o batch
  <1>1. /\ builder.ops \in Seq(Operations) /\ builder.wifs \in Seq(Texts)
        /\ builder.signed \in SUBSET SignedSoFar
        /\ builder = [ops |-> builder.ops, wifs |-> builder.wifs, signed |-> builder.signed]
    BY DEF DeliveryInv, BuilderType
  <1>2. batch \in Seq(Operations)
    BY DeliveryAssumption DEF DeliveryAssumption
  <1>3. ops \in Seq(Operations)
    BY <1>1, <1>2
  <1>4. ASSUME NEW s \in builder.signed
        PROVE  \E m \in made : m.signed = s /\ IsPrefix(m.ops, ops)
    <2>1. PICK m \in made : m.signed = s /\ IsPrefix(m.ops, builder.ops)
      BY DEF DeliveryInv, SendsNothingDiscarded
    <2>2. m.ops \in Seq(Operations)
      BY DEF DeliveryInv, IsRecord
    <2> QED BY <1>1, <1>2, <2>1, <2>2, PrefixOfMore
  <1>5. builder' = [ops |-> ops, wifs |-> builder.wifs, signed |-> builder.signed]
    BY <1>1 DEF appendOps
  <1> HIDE DEF ops
  <1>6. UNCHANGED <<call, stored, made, chain_vars, copies, fixed_vars>>
    BY DEF appendOps
  <1> QED BY <1>1, <1>3, <1>4, <1>5, <1>6, BuildingKeeps

(* appendWif: another key changes nothing that was signed. *)
LEMMA AppendWifKeeps ==
    ASSUME DeliveryInv, NEW text \in KeyTexts, appendWif(text)
    PROVE  DeliveryInv'
  <1> DEFINE wifs == Append(builder.wifs, text)
  <1>1. /\ builder.ops \in Seq(Operations) /\ builder.wifs \in Seq(Texts)
        /\ builder.signed \in SUBSET SignedSoFar
        /\ builder = [ops |-> builder.ops, wifs |-> builder.wifs, signed |-> builder.signed]
    BY DEF DeliveryInv, BuilderType
  <1>2. text \in Texts
    BY DeliveryAssumption DEF DeliveryAssumption, Texts
  <1>3. wifs \in Seq(Texts)
    BY <1>1, <1>2
  <1>4. \A s \in builder.signed : \E m \in made : m.signed = s /\ IsPrefix(m.ops, builder.ops)
    BY DEF DeliveryInv, SendsNothingDiscarded
  <1>5. builder' = [ops |-> builder.ops, wifs |-> wifs, signed |-> builder.signed]
    BY <1>1 DEF appendWif
  <1> HIDE DEF wifs
  <1>6. UNCHANGED <<call, stored, made, chain_vars, copies, fixed_vars>>
    BY DEF appendWif
  <1> QED BY <1>1, <1>3, <1>4, <1>5, <1>6, BuildingKeeps

(* clear: what was signed goes with what it was made of. *)
LEMMA ClearKeeps ==
    ASSUME DeliveryInv, clear
    PROVE  DeliveryInv'
  <1>1. builder' = [ops |-> <<>>, wifs |-> <<>>, signed |-> {}]
    BY DEF clear, EmptyBuilder
  <1>2. <<>> \in Seq(Operations) /\ <<>> \in Seq(Texts) /\ {} \in SUBSET SignedSoFar
    OBVIOUS
  <1>3. UNCHANGED <<call, stored, made, chain_vars, copies, fixed_vars>>
    BY DEF clear
  <1> QED BY <1>1, <1>2, <1>3, BuildingKeeps

(* What a signing adds to the history. *)
LEMMA SigningRecords ==
    ASSUME DeliveryInv, NEW ops \in Seq(Operations), NEW texts \in Seq(Texts),
           Signing(ops, texts), UNCHANGED <<now, fixed_vars>>
    PROVE  /\ made \subseteq made' /\ FixedInv'
           /\ \A m \in made' : IsRecord(m)'
           /\ \A r \in Made(ops, texts) :
                 /\ r.signed \in SignedSoFar'
                 /\ \E m \in made' : m.signed = r.signed /\ m.ops = ops
  <1> DEFINE New(r) == [signed |-> r.signed, ops |-> ops, texts |-> texts, at |-> now]
  <1>1. made' = made \cup {New(r) : r \in Made(ops, texts)}
    BY DEF Signing
  <1>2. ASSUME NEW m \in made PROVE IsRecord(m)'
    <2>1. IsRecord(m)
      BY DEF DeliveryInv
    <2> QED BY <2>1 DEF IsRecord, fixed_vars
  <1>3. ASSUME NEW r \in Made(ops, texts), NEW m, m = New(r) PROVE IsRecord(m)'
    <2>1. r \in sign_transaction(ops, _block_ref.block, texts, settings.expiration, "HIVE", local_clock)
      BY DEF Made, chain_name
    <2>2. /\ IsSigned(r.signed, ops, texts, _block_ref.block, local_clock + settings.expiration)
          /\ settings.expiration # 0 /\ ~(settings.expiration > MAX_EXPIRATION_SECS)
          /\ parse_keys(texts) = {texts}
      BY <2>1, SigningIs
    <2>3. r.signed.transaction.block_ref = _block_ref.block
      BY <2>2 DEF IsSigned
    <2>4. /\ m.ops = ops /\ m.texts = texts /\ m.at = now /\ m.signed = r.signed
      BY <1>3
    <2>5. ops # <<>> /\ texts # <<>> /\ now \in Nat /\ now <= now
      BY DEF Signing, DeliveryInv
    <2> HIDE DEF New
    <2>6. IsRecord(m)
      BY <2>2, <2>3, <2>4, <2>5 DEF IsRecord, local_clock
    <2> QED BY <2>6 DEF IsRecord, fixed_vars
  <1>4. FixedInv'
    BY DEF DeliveryInv, FixedInv, fixed_vars
  <1>5. ASSUME NEW r \in Made(ops, texts)
        PROVE  /\ r.signed \in SignedSoFar'
               /\ \E m \in made' : m.signed = r.signed /\ m.ops = ops
    <2>1. New(r) \in made' /\ New(r).signed = r.signed /\ New(r).ops = ops
      BY <1>1
    <2> QED BY <2>1 DEF SignedSoFar
  <1> QED BY <1>1, <1>2, <1>3, <1>4, <1>5

(* A broadcast of something signed is a call. *)
LEMMA StartIsTyped ==
    ASSUME NEW s \in SignedSoFar', Start(s)
    PROVE  CallType'
  BY DEF Start, CallType

(* A signing that takes place is of the builder's operations. *)
LEMMA BuilderSignKeeps ==
    ASSUME DeliveryInv, builder_sign
    PROVE  DeliveryInv'
  <1> DEFINE ops == builder.ops
             texts == builder.wifs
             results == {m.signed : m \in Made(ops, texts)}
  <1>1. /\ ops \in Seq(Operations) /\ texts \in Seq(Texts) /\ builder.signed \in SUBSET SignedSoFar
        /\ builder = [ops |-> ops, wifs |-> texts, signed |-> builder.signed]
    BY DEF DeliveryInv, BuilderType
  <1>2. Signing(ops, texts) /\ UNCHANGED <<now, fixed_vars>> /\ UNCHANGED call
        /\ UNCHANGED <<pool, landed>> /\ UNCHANGED copies /\ UNCHANGED stored
    BY DEF builder_sign, chain_vars
  <1>3. /\ made \subseteq made' /\ FixedInv'
        /\ \A m \in made' : IsRecord(m)'
        /\ \A r \in Made(ops, texts) :
              /\ r.signed \in SignedSoFar'
              /\ \E m \in made' : m.signed = r.signed /\ m.ops = ops
    BY <1>1, <1>2, SigningRecords
  <1>4. builder' = [ops |-> ops, wifs |-> texts,
                    signed |-> IF Made(ops, texts) = {} THEN builder.signed ELSE results]
    BY <1>1 DEF builder_sign
  <1>5. SignedSoFar \subseteq SignedSoFar'
    BY <1>3 DEF SignedSoFar
  <1>6. BuilderType'
    <2>1. results \in SUBSET SignedSoFar'
      BY <1>3
    <2> HIDE DEF results, ops, texts
    <2> QED BY <1>1, <1>4, <1>5, <2>1 DEF BuilderType
  <1>7. SendsNothingDiscarded'
    <2> SUFFICES ASSUME NEW s \in builder'.signed
                 PROVE  \E m \in made' : m.signed = s /\ IsPrefix(m.ops, builder'.ops)
      BY DEF SendsNothingDiscarded
    <2>1. builder'.ops = ops
      BY <1>4
    <2>2. CASE s \in builder.signed
      <3>1. \E m \in made : m.signed = s /\ IsPrefix(m.ops, ops)
        BY <2>2 DEF DeliveryInv, SendsNothingDiscarded
      <3> QED BY <1>3, <2>1, <3>1
    <2>3. CASE s \in results
      <3>1. \E m \in made' : m.signed = s /\ m.ops = ops
        BY <1>3, <2>3
      <3> QED BY <1>1, <2>1, <3>1, PrefixOfItself
    <2>4. s \in builder.signed \/ s \in results
      <3> HIDE DEF results, ops, texts
      <3> QED BY <1>4
    <2> QED BY <2>2, <2>3, <2>4
  <1>8. CallType'
    BY <1>2, <1>3, CallKept
  <1>9. /\ copies' \subseteq SignedSoFar' \X Nodes /\ ChainType'
        /\ stored' \subseteq {to_wire(s) : s \in SignedSoFar'}
    BY <1>2, <1>3, OutsideKept
  <1>10. now' \in Nat
    BY <1>2 DEF DeliveryInv
  <1> QED BY <1>3, <1>6, <1>7, <1>8, <1>9, <1>10 DEF DeliveryInv

(* broadcast of an unsigned builder: signed, then sent. *)
LEMMA SignAndBroadcastKeeps ==
    ASSUME DeliveryInv, builder_sign_and_broadcast
    PROVE  DeliveryInv'
  <1> DEFINE ops == builder.ops
             texts == builder.wifs
  <1>1. /\ ops \in Seq(Operations) /\ texts \in Seq(Texts)
        /\ builder = [ops |-> ops, wifs |-> texts, signed |-> builder.signed]
    BY DEF DeliveryInv, BuilderType
  <1>2. Signing(ops, texts) /\ UNCHANGED <<now, fixed_vars>>
        /\ UNCHANGED <<pool, landed>> /\ UNCHANGED copies /\ UNCHANGED stored
    BY DEF builder_sign_and_broadcast, chain_vars
  <1>3. /\ made \subseteq made' /\ FixedInv'
        /\ \A m \in made' : IsRecord(m)'
        /\ \A r \in Made(ops, texts) :
              /\ r.signed \in SignedSoFar'
              /\ \E m \in made' : m.signed = r.signed /\ m.ops = ops
    BY <1>1, <1>2, SigningRecords
  <1>4. PICK r \in Made(ops, texts) : /\ Start(r.signed)
                                      /\ builder' = [builder EXCEPT !.signed = {r.signed}]
    BY DEF builder_sign_and_broadcast
  <1>5. builder' = [ops |-> ops, wifs |-> texts, signed |-> {r.signed}]
    BY <1>1, <1>4
  <1>6. r.signed \in SignedSoFar' /\ \E m \in made' : m.signed = r.signed /\ m.ops = ops
    BY <1>3
  <1> HIDE DEF ops, texts
  <1>7. BuilderType'
    BY <1>1, <1>5, <1>6 DEF BuilderType
  <1>8. SendsNothingDiscarded'
    BY <1>1, <1>5, <1>6, PrefixOfItself DEF SendsNothingDiscarded
  <1>9. CallType'
    BY <1>4, <1>6, StartIsTyped
  <1>10. /\ copies' \subseteq SignedSoFar' \X Nodes /\ ChainType'
         /\ stored' \subseteq {to_wire(s) : s \in SignedSoFar'}
    BY <1>2, <1>3, OutsideKept
  <1>11. now' \in Nat
    BY <1>2 DEF DeliveryInv
  <1> QED BY <1>3, <1>7, <1>8, <1>9, <1>10, <1>11 DEF DeliveryInv

(* finalizeOp: signed anew, and sent. *)
LEMMA FinalizeKeeps ==
    ASSUME DeliveryInv, NEW batch \in OpBatches, NEW texts \in WalletKeys, finalizeOp(batch, texts)
    PROVE  DeliveryInv'
  <1>1. batch \in Seq(Operations) /\ texts \in Seq(Texts)
    BY DeliveryAssumption DEF DeliveryAssumption, Texts
  <1>2. Signing(batch, texts) /\ UNCHANGED <<now, fixed_vars>> /\ UNCHANGED builder
        /\ UNCHANGED <<pool, landed>> /\ UNCHANGED copies /\ UNCHANGED stored
    BY DEF finalizeOp, chain_vars
  <1>3. /\ made \subseteq made' /\ FixedInv'
        /\ \A m \in made' : IsRecord(m)'
        /\ \A r \in Made(batch, texts) : r.signed \in SignedSoFar'
    BY <1>1, <1>2, SigningRecords
  <1>4. CallType'
    BY <1>3, StartIsTyped DEF finalizeOp
  <1>5. BuilderType' /\ SendsNothingDiscarded'
    BY <1>2, <1>3, BuilderKept
  <1>6. /\ copies' \subseteq SignedSoFar' \X Nodes /\ ChainType'
        /\ stored' \subseteq {to_wire(s) : s \in SignedSoFar'}
    BY <1>2, <1>3, OutsideKept
  <1>7. now' \in Nat
    BY <1>2 DEF DeliveryInv
  <1> QED BY <1>3, <1>4, <1>5, <1>6, <1>7 DEF DeliveryInv

-----------------------------------------------------------------------------
(* Broadcasting, storing and the chain keep the invariant. *)

Calls == [pc : {"idle", "running"}, signed : SUBSET SignedSoFar,
          left : SUBSET Nodes, asked : SUBSET Nodes]

(* A step that signs nothing and leaves the builder alone. *)
LEMMA SendingKeeps ==
    ASSUME DeliveryInv, UNCHANGED <<builder, made>>, UNCHANGED fixed_vars,
           now' \in Nat, now <= now', call' \in Calls,
           copies' \subseteq SignedSoFar \X Nodes,
           pool' \in [Nodes -> SUBSET Bodies], landed' \subseteq Bodies,
           stored' \subseteq {to_wire(s) : s \in SignedSoFar}
    PROVE  DeliveryInv'
  <1>1. UNCHANGED made /\ made \subseteq made' /\ UNCHANGED builder
    OBVIOUS
  <1>2. /\ FixedInv' /\ \A m \in made' : IsRecord(m)'
        /\ SignedSoFar' = SignedSoFar /\ Bodies' = Bodies
    BY <1>1, HistoryKept
  <1>3. BuilderType' /\ SendsNothingDiscarded'
    BY <1>1, BuilderKept
  <1>4. CallType'
    BY <1>2 DEF CallType, Calls
  <1>5. ChainType'
    BY <1>2 DEF ChainType
  <1>6. copies' \subseteq SignedSoFar' \X Nodes /\ stored' \subseteq {to_wire(s) : s \in SignedSoFar'}
    BY <1>2
  <1> QED BY <1>2, <1>3, <1>4, <1>5, <1>6 DEF DeliveryInv

(* The invariant, in the parts that the steps below need. *)
LEMMA Parts ==
    ASSUME DeliveryInv
    PROVE  /\ now \in Nat /\ now <= now /\ call \in Calls
           /\ call = [pc |-> call.pc, signed |-> call.signed, left |-> call.left, asked |-> call.asked]
           /\ call.signed \subseteq SignedSoFar /\ call.left \subseteq Nodes /\ call.asked \subseteq Nodes
           /\ copies \subseteq SignedSoFar \X Nodes
           /\ pool \in [Nodes -> SUBSET Bodies] /\ landed \subseteq Bodies
           /\ stored \subseteq {to_wire(s) : s \in SignedSoFar}
  BY DEF DeliveryInv, CallType, Calls, ChainType

(* A broadcast of something signed earlier is a call. *)
LEMMA StartIsCall ==
    ASSUME NEW s \in SignedSoFar, Start(s)
    PROVE  call' \in Calls
  BY DEF Start, Calls

(* broadcast of a signed builder sends what the builder has signed. *)
LEMMA BroadcastKeeps ==
    ASSUME DeliveryInv, builder_broadcast
    PROVE  DeliveryInv'
  <1>1. UNCHANGED <<builder, made>> /\ UNCHANGED <<stored, copies, now, pool, landed>>
        /\ UNCHANGED fixed_vars
    BY DEF builder_broadcast, chain_vars
  <1>2. \E s \in builder.signed : Start(s)
    BY DEF builder_broadcast
  <1>3. builder.signed \subseteq SignedSoFar
    BY DEF DeliveryInv, BuilderType
  <1>4. call' \in Calls
    BY <1>2, <1>3, StartIsCall
  <1> QED BY <1>1, <1>4, Parts, SendingKeeps

(* What is resumed is what was signed: the wire form loses nothing. *)
LEMMA ResumeKeeps ==
    ASSUME DeliveryInv, Resume
    PROVE  DeliveryInv'
  <1>1. UNCHANGED <<builder, made>> /\ UNCHANGED <<stored, copies, now, pool, landed>>
        /\ UNCHANGED fixed_vars
    BY DEF Resume, chain_vars
  <1>2. PICK wire \in stored : \E t \in from_wire(wire) : Start(t)
    BY DEF Resume
  <1>3. PICK s \in SignedSoFar : wire = to_wire(s)
    BY Parts
  <1>4. from_wire(wire) = {s}
    BY <1>3, ReadsBackSigned
  <1>5. call' \in Calls
    BY <1>2, <1>4, StartIsCall
  <1> QED BY <1>1, <1>5, Parts, SendingKeeps

(* Ask: what is sent is what was signed. *)
LEMMA AskKeeps ==
    ASSUME DeliveryInv, Ask
    PROVE  DeliveryInv'
  <1>1. UNCHANGED <<builder, made>> /\ UNCHANGED <<stored, now, pool, landed>> /\ UNCHANGED fixed_vars
    BY DEF Ask, chain_vars
  <1> DEFINE last == settings.width > 1 /\ Cardinality(call.asked) + 1 = settings.width
  <1>2. PICK n \in call.left :
            /\ call' = [call EXCEPT !.asked = @ \cup {n},
                                    !.left = IF last THEN {} ELSE @ \ {n}]
            /\ copies' = copies \cup {<<Payload(s), n>> : s \in call.signed}
    BY DEF Ask
  <1> HIDE DEF last
  <1>3. call' \in Calls
    BY <1>2, Parts DEF Calls
  <1>4. copies' \subseteq SignedSoFar \X Nodes
    BY <1>2, Parts DEF Payload
  <1> QED BY <1>1, <1>3, <1>4, Parts, SendingKeeps

(* An answer ends the call or takes a node from it. *)
LEMMA AnswerIsCall ==
    ASSUME DeliveryInv, NEW s, NEW n, NEW accepted, Answered(s, n, accepted) \/ call' = call
    PROVE  call' \in Calls
  <1>1. Idle \in Calls
    BY DEF Idle, Calls
  <1>2. [call EXCEPT !.asked = @ \ {n}] \in Calls
    BY Parts DEF Calls
  <1>3. call' \in {Idle, [call EXCEPT !.asked = @ \ {n}], call}
    BY DEF Answered
  <1> QED BY <1>1, <1>2, <1>3, Parts

(* Deliver: a node takes only what was sent. *)
LEMMA DeliverKeeps ==
    ASSUME DeliveryInv, Deliver
    PROVE  DeliveryInv'
  <1>1. UNCHANGED <<builder, made>> /\ UNCHANGED <<stored, now, landed>> /\ UNCHANGED fixed_vars
    BY DEF Deliver
  <1> DEFINE taken(c) == Refusal(c[2], c[1]) = "none"
  <1>2. PICK c \in copies :
            /\ copies' = copies \ {c}
            /\ pool' = IF taken(c)
                       THEN [pool EXCEPT ![c[2]] = @ \cup {body_bytes(c[1].transaction)}]
                       ELSE pool
            /\ Answered(c[1], c[2], taken(c)) \/ call' = call
    BY DEF Deliver
  <1> HIDE DEF taken
  <1>3. c[1] \in SignedSoFar /\ c[2] \in Nodes
    BY Parts
  <1>4. call' \in Calls
    BY <1>2, AnswerIsCall
  <1>5. body_bytes(c[1].transaction) \in Bodies
    BY <1>3 DEF Bodies
  <1>6. pool' \in [Nodes -> SUBSET Bodies]
    <2> HIDE DEF Bodies
    <2> DEFINE body == body_bytes(c[1].transaction)
    <2> HIDE DEF body
    <2> QED BY <1>2, <1>3, <1>5, Parts DEF body
  <1>7. copies' \subseteq SignedSoFar \X Nodes
    BY <1>2, Parts
  <1> QED BY <1>1, <1>4, <1>6, <1>7, Parts, SendingKeeps

(* TimeOut: one node less. *)
LEMMA TimeOutKeeps ==
    ASSUME DeliveryInv, TimeOut
    PROVE  DeliveryInv'
  <1>1. UNCHANGED <<builder, made>> /\ UNCHANGED <<stored, copies, now, pool, landed>>
        /\ UNCHANGED fixed_vars
    BY DEF TimeOut, chain_vars
  <1>2. call' \in Calls
    BY Parts DEF TimeOut, Calls
  <1> QED BY <1>1, <1>2, Parts, SendingKeeps

(* GiveUp: the call ends. *)
LEMMA GiveUpKeeps ==
    ASSUME DeliveryInv, GiveUp
    PROVE  DeliveryInv'
  <1>1. UNCHANGED <<builder, made>> /\ UNCHANGED <<stored, copies, now, pool, landed>>
        /\ UNCHANGED fixed_vars
    BY DEF GiveUp, chain_vars
  <1>2. call' \in Calls
    BY DEF GiveUp, Idle, Calls
  <1> QED BY <1>1, <1>2, Parts, SendingKeeps

(* Store: what is stored was signed. *)
LEMMA StoreKeeps ==
    ASSUME DeliveryInv, Store
    PROVE  DeliveryInv'
  <1>1. UNCHANGED <<builder, made>> /\ UNCHANGED <<call, copies, now, pool, landed>>
        /\ UNCHANGED fixed_vars
    BY DEF Store, chain_vars
  <1>2. PICK s \in builder.signed : stored' = {to_wire(s)}
    BY DEF Store
  <1>3. s \in SignedSoFar
    BY DEF DeliveryInv, BuilderType
  <1>4. stored' \subseteq {to_wire(t) : t \in SignedSoFar}
    BY <1>2, <1>3
  <1> QED BY <1>1, <1>4, Parts, SendingKeeps

(* Land: the chain takes what a node has. *)
LEMMA LandKeeps ==
    ASSUME DeliveryInv, NEW n \in Nodes, Land(n)
    PROVE  DeliveryInv'
  <1>1. UNCHANGED <<builder, made>> /\ UNCHANGED <<call, stored, copies, now>> /\ UNCHANGED fixed_vars
    BY DEF Land, caller_vars
  <1>2. PICK tx \in pool[n] : /\ landed' = landed \cup {tx}
                              /\ pool' = [k \in Nodes |-> pool[k] \ {tx}]
    BY DEF Land
  <1>3. landed' \subseteq Bodies /\ pool' \in [Nodes -> SUBSET Bodies]
    BY <1>2, Parts
  <1> QED BY <1>1, <1>3, Parts, SendingKeeps

(* Tick: time passes and what has expired is dropped. *)
LEMMA TickKeeps ==
    ASSUME DeliveryInv, Tick
    PROVE  DeliveryInv'
  <1>1. UNCHANGED <<builder, made>> /\ UNCHANGED <<call, stored, copies, landed>> /\ UNCHANGED fixed_vars
    BY DEF Tick, caller_vars
  <1>2. now' \in Nat /\ now <= now'
    BY Parts DEF Tick
  <1>3. pool' = [k \in Nodes |-> {tx \in pool[k] : tx.expiration > now'}]
    BY DEF Tick
  <1>4. pool' \in [Nodes -> SUBSET Bodies]
    BY <1>3, Parts
  <1> QED BY <1>1, <1>2, <1>4, Parts, SendingKeeps

(* Restart: the builder and the call are lost, what was stored is not. *)
LEMMA RestartKeeps ==
    ASSUME DeliveryInv, Restart
    PROVE  DeliveryInv'
  <1>1. UNCHANGED made /\ UNCHANGED fixed_vars /\ UNCHANGED <<pool, landed>> /\ UNCHANGED copies
        /\ UNCHANGED stored /\ UNCHANGED now /\ made \subseteq made'
    BY DEF Restart, chain_vars
  <1>2. now' \in Nat /\ now <= now'
    BY <1>1, Parts
  <1>3. FixedInv' /\ \A m \in made' : IsRecord(m)'
    BY <1>1, <1>2, HistoryKept
  <1>4. BuilderType' /\ SendsNothingDiscarded'
    BY DEF Restart, EmptyBuilder, BuilderType, SendsNothingDiscarded
  <1>5. CallType'
    BY DEF Restart, Idle, CallType
  <1>6. /\ copies' \subseteq SignedSoFar' \X Nodes /\ ChainType'
        /\ stored' \subseteq {to_wire(s) : s \in SignedSoFar'}
    BY <1>1, OutsideKept
  <1> QED BY <1>2, <1>3, <1>4, <1>5, <1>6 DEF DeliveryInv

(* A step that changes nothing. *)
LEMMA NothingKeeps ==
    ASSUME DeliveryInv, UNCHANGED delivery_vars
    PROVE  DeliveryInv'
  <1>1. UNCHANGED <<builder, made>> /\ UNCHANGED <<call, stored, copies, now, pool, landed>>
        /\ UNCHANGED fixed_vars
    BY DEF delivery_vars, caller_vars, chain_vars
  <1> QED BY <1>1, Parts, SendingKeeps

(* The inductive invariant: everything the builder holds, the call and the *)
(* requests carry, the nodes and the chain have and the wire stores was    *)
(* signed, of valid operations, by the keys given, at a time not after     *)
(* now.                                                                    *)
THEOREM DeliveryInvariant == DeliverySpec => []DeliveryInv
  <1>1. DeliveryInit => DeliveryInv
    BY DeliveryInvInit
  <1>2. DeliveryInv /\ [DeliveryNext]_delivery_vars => DeliveryInv'
    <2> SUFFICES ASSUME DeliveryInv, [DeliveryNext]_delivery_vars PROVE DeliveryInv'
      OBVIOUS
    <2>1. CASE \E batch \in OpBatches : appendOps(batch)
      BY <2>1, AppendOpsKeeps
    <2>2. CASE \E text \in KeyTexts : appendWif(text)
      BY <2>2, AppendWifKeeps
    <2>3. CASE clear
      BY <2>3, ClearKeeps
    <2>4. CASE builder_sign
      BY <2>4, BuilderSignKeeps
    <2>5. CASE builder_broadcast
      BY <2>5, BroadcastKeeps
    <2>6. CASE builder_sign_and_broadcast
      BY <2>6, SignAndBroadcastKeeps
    <2>7. CASE \E batch \in OpBatches, texts \in WalletKeys : finalizeOp(batch, texts)
      BY <2>7, FinalizeKeeps
    <2>8. CASE CallSteps
      BY <2>8, AskKeeps, DeliverKeeps, TimeOutKeeps, GiveUpKeeps DEF CallSteps
    <2>9. CASE Store \/ Restart \/ Resume
      BY <2>9, StoreKeeps, RestartKeeps, ResumeKeeps
    <2>10. CASE \E n \in Nodes : Land(n)
      BY <2>10, LandKeeps
    <2>11. CASE Tick
      BY <2>11, TickKeeps
    <2>12. CASE UNCHANGED delivery_vars
      BY <2>12, NothingKeeps
    <2> QED BY <2>1, <2>2, <2>3, <2>4, <2>5, <2>6, <2>7, <2>8, <2>9, <2>10, <2>11, <2>12
            DEF DeliveryNext
  <1> QED BY <1>1, <1>2, PTL DEF DeliverySpec

(* LandsAsSigned: through loss, delay, retries, races and restarts, only a *)
(* transaction that was signed is on the chain.                            *)
THEOREM LandingIsSigned == DeliverySpec => []LandsAsSigned
  <1>1. DeliveryInv => LandsAsSigned
    BY DEF DeliveryInv, ChainType, Bodies, SignedSoFar, LandsAsSigned
  <1> QED BY <1>1, DeliveryInvariant, PTL

(* SendsNothingDiscarded: what a builder would send was signed and is made *)
(* of operations it still holds, the first of them: nothing it was cleared *)
(* of is sent.  What was appended after the signing is not among them.     *)
THEOREM NothingDiscardedIsSent == DeliverySpec => []SendsNothingDiscarded
  <1>1. DeliveryInv => SendsNothingDiscarded
    BY DEF DeliveryInv
  <1> QED BY <1>1, DeliveryInvariant, PTL

(* BudgetIsKept: nothing that breaks the custom operation budget is        *)
(* signed, the shortcut included.                                          *)
THEOREM BudgetHolds == DeliverySpec => []BudgetIsKept
  <1>1. DeliveryInv => BudgetIsKept
    <2> SUFFICES ASSUME DeliveryInv, NEW m \in made
                 PROVE  \A i \in DOMAIN Named(m.ops) :
                          Tally(Named(m.ops)[i], Named(m.ops)) <= MAX_CUSTOM_OPS_PER_BLOCK
      BY DEF BudgetIsKept
    <2>1. m.ops \in Seq(Operations) /\ m.signed.transaction.operations \in operations_from_py(m.ops)
      BY DEF DeliveryInv, IsRecord, IsSigned
    <2>2. check_custom_op_budget(m.signed.transaction.operations)
      BY DEF DeliveryInv, IsRecord, IsSigned, validate
    <2> QED BY <2>1, <2>2, BudgetOfValidated
  <1> QED BY <1>1, DeliveryInvariant, PTL

(* SignedByEachKeyOnce: recovering the signers gives the keys back, each   *)
(* once.                                                                   *)
THEOREM EachKeySignsOnce == DeliverySpec => []SignedByEachKeyOnce
  <1>1. DeliveryInv => SignedByEachKeyOnce
    <2> SUFFICES ASSUME DeliveryInv, NEW m \in made
                 PROVE  /\ SignerKeys(m.signed) = {m.texts[i] : i \in DOMAIN m.texts}
                        /\ Len(m.signed.signatures) = Cardinality(SignerKeys(m.signed))
      BY DEF SignedByEachKeyOnce
    <2>1. m.texts \in Seq(STRING)
      BY TextsAreStrings DEF DeliveryInv, IsRecord
    <2>2. IsSigned(m.signed, m.ops, m.texts, m.signed.transaction.block_ref,
                   m.at + skew + settings.expiration)
      BY DEF DeliveryInv, IsRecord
    <2> QED BY <2>1, <2>2, SignersOf
  <1> QED BY <1>1, DeliveryInvariant, PTL

-----------------------------------------------------------------------------
(* The accounts that keys speak for. *)
ByKeys(account, keys) == {e \in authority[account].key_auths : e.of \in keys}
ByAccounts(account, others) == {e \in authority[account].account_auths : e.of \in others}
SpokenFor(keys, others) ==
    {a \in DOMAIN authority :
        Weight(ByKeys(a, keys) \cup ByAccounts(a, others)) >= authority[a].threshold}
Entries(keys, f, d, a) ==
    {e \in authority[a].key_auths : e.of \in keys}
    \cup (IF d = 0 THEN {} ELSE {e \in authority[a].account_auths : e.of \in f[d - 1]})
SpeakStep(keys, f, d) ==
    {a \in DOMAIN authority : Weight(Entries(keys, f, d, a)) >= authority[a].threshold}

(* An account is spoken for by keys, and by the accounts that speak for it *)
(* one level down.                                                         *)
LEMMA SpeaksIs ==
    ASSUME NEW keys
    PROVE  \E others : Speaks(keys) = SpokenFor(keys, others)
  <1> DEFINE Depth == CHOOSE depth : depth = [d \in 0 .. 2 |-> SpeakStep(keys, depth, d)]
             A0 == SpokenFor(keys, {})
             A1 == SpokenFor(keys, A0)
             A2 == SpokenFor(keys, A1)
             f == [d \in 0 .. 2 |-> IF d = 0 THEN A0 ELSE IF d = 1 THEN A1 ELSE A2]
  <1>1. Speaks(keys) = Depth[2]
    BY DEF Speaks, SpeakStep, Entries
  <1>s. ASSUME NEW f0, NEW d, NEW others, others = IF d = 0 THEN {} ELSE f0[d - 1]
        PROVE  SpeakStep(keys, f0, d) = SpokenFor(keys, others)
    <2>1. ASSUME NEW a
          PROVE  Entries(keys, f0, d, a) = ByKeys(a, keys) \cup ByAccounts(a, others)
      BY <1>s DEF Entries, ByKeys, ByAccounts
    <2> QED BY <2>1 DEF SpeakStep, SpokenFor
  <1> HIDE DEF A0, A1, A2
  <1>2. f = [d \in 0 .. 2 |-> SpeakStep(keys, f, d)]
    <2>1. f[0] = A0 /\ f[1] = A1 /\ f[2] = A2
      OBVIOUS
    <2>2. \A d \in 0 .. 2 : d = 0 \/ d = 1 \/ d = 2
      OBVIOUS
    <2>3. /\ SpeakStep(keys, f, 0) = A0 /\ SpeakStep(keys, f, 1) = A1 /\ SpeakStep(keys, f, 2) = A2
      <3> HIDE DEF f
      <3>1. 0 - 1 # 0 /\ 1 - 1 = 0 /\ 2 - 1 = 1 /\ 1 # 0 /\ 2 # 0
        OBVIOUS
      <3> QED BY <2>1, <3>1, <1>s DEF A0, A1, A2
    <2>4. \A d \in 0 .. 2 : f[d] = SpeakStep(keys, f, d)
      <3> HIDE DEF f
      <3> QED BY <2>1, <2>2, <2>3
    <2>5. f = [d \in 0 .. 2 |-> f[d]]
      OBVIOUS
    <2> HIDE DEF f
    <2> QED BY <2>4, <2>5
  <1> HIDE DEF f
  <1>3. Depth = [d \in 0 .. 2 |-> SpeakStep(keys, Depth, d)]
    <2>1. \E depth : depth = [d \in 0 .. 2 |-> SpeakStep(keys, depth, d)]
      BY <1>2
    <2> QED BY <2>1
  <1> HIDE DEF Depth
  <1>4. Depth[2] = SpokenFor(keys, Depth[1])
    <2>1. 2 \in 0 .. 2 /\ 2 - 1 = 1 /\ 2 # 0
      OBVIOUS
    <2>2. Depth[2] = SpeakStep(keys, Depth, 2)
      BY <1>3, <2>1
    <2> QED BY <2>1, <2>2, <1>s
  <1> QED BY <1>1, <1>4

(* A conclusive check of keys alone is what the chain says: following      *)
(* accounts only adds weight.                                              *)
LEMMA ConclusiveForKeys ==
    ASSUME FixedInv, NEW keys, NEW c, c = check_authority(authority[Signer], keys), c.conclusive
    PROVE  c.satisfied <=> Signer \in Speaks(keys)
  <1> DEFINE auth == authority[Signer]
             matched == ByKeys(Signer, keys)
  <1>1. /\ Signer \in DOMAIN authority
        /\ auth.key_auths \cup auth.account_auths \subseteq [of : STRING, weight : Nat]
        /\ IsFiniteSet(auth.key_auths) /\ IsFiniteSet(auth.account_auths)
        /\ auth.threshold \in Nat
    <2>1. PICK s \in Setups : authority = s.authority
      BY DEF FixedInv
    <2> QED BY <2>1, DeliveryAssumption DEF DeliveryAssumption
  <1>2. PICK others : Speaks(keys) = SpokenFor(keys, others)
    BY SpeaksIs
  <1> DEFINE followed == ByAccounts(Signer, others)
             both == matched \cup followed
  <1>3. Signer \in Speaks(keys) <=> Weight(both) >= auth.threshold
    BY <1>1, <1>2 DEF SpokenFor
  <1>4. c.satisfied <=> Weight(matched) >= auth.threshold
    <2>1. c.satisfied = check(auth, keys).satisfied
      BY DEF check_authority
    <2>2. check(auth, keys).satisfied = (Weight(matched) >= auth.threshold)
      BY DEF check, ByKeys
    <2> QED BY <2>1, <2>2
  <1>5. c.satisfied \/ auth.account_auths = {}
    <2>1. c.conclusive = is_conclusive(check(auth, keys)) /\ c.satisfied = check(auth, keys).satisfied
      BY DEF check_authority
    <2>2. check(auth, keys).unresolved = auth.account_auths
      BY DEF check
    <2> QED BY <2>1, <2>2 DEF is_conclusive
  <1>6. Weighty(both) /\ matched \in SUBSET both
    <2>1. matched \subseteq auth.key_auths /\ followed \subseteq auth.account_auths
      BY DEF ByKeys, ByAccounts
    <2>2. IsFiniteSet(matched) /\ IsFiniteSet(followed)
      BY <1>1, <2>1, FS_Subset
    <2>3. IsFiniteSet(both)
      BY <2>2, FS_Union
    <2>4. ASSUME NEW e \in both PROVE e.weight \in Nat
      <3>1. e \in [of : STRING, weight : Nat]
        BY <1>1, <2>1
      <3> QED BY <3>1
    <2> QED BY <2>3, <2>4 DEF Weighty
  <1>7. Weight(matched) \in Nat /\ Weight(both) \in Nat /\ Weight(matched) <= Weight(both)
    BY <1>6, WeightGrows
  <1>8. CASE c.satisfied
    <2> HIDE DEF both, matched, auth
    <2> QED BY <1>1, <1>3, <1>4, <1>7, <1>8
  <1>9. CASE auth.account_auths = {}
    <2>1. followed = {}
      BY <1>9 DEF ByAccounts
    <2>2. both = matched
      BY <2>1
    <2> QED BY <1>3, <1>4, <2>2
  <1> QED BY <1>5, <1>8, <1>9

(* ConclusiveIsFinal: a conclusive answer of check_authority is the        *)
(* chain's.                                                                *)
THEOREM ConclusiveHolds == DeliverySpec => []ConclusiveIsFinal
  <1>1. DeliveryInv => ConclusiveIsFinal
    BY ConclusiveForKeys DEF DeliveryInv, ConclusiveIsFinal
  <1> QED BY <1>1, DeliveryInvariant, PTL

-----------------------------------------------------------------------------
(* Damage *)

(* The tokens of a damaged wire form: none is a signature that was not     *)
(* there, and a count stays a number.                                      *)
TokensOf(v, w) ==
    \A j \in DOMAIN v :
        /\ v[j][1] = "signature" => \E i \in DOMAIN w : v[j] = w[i]
        /\ v[j][1] = "count" => v[j][2] \in Int

Numbered(w) == \A i \in DOMAIN w : w[i][1] \in {"time", "count"} => w[i][2] \in Int

(* A piece of a wire form has its tokens. *)
LEMMA PieceHasTokens ==
    ASSUME NEW T, NEW w \in Seq(T), Numbered(w), NEW m \in Int, NEW n \in Int, m >= 1, n <= Len(w)
    PROVE  SubSeq(w, m, n) \in Seq(T) /\ TokensOf(SubSeq(w, m, n), w)
  <1> DEFINE v == SubSeq(w, m, n)
  <1>1. DOMAIN w = 1 .. Len(w) /\ Len(w) \in Nat
    OBVIOUS
  <1>2. \A i \in m .. n : w[i] \in T /\ i \in DOMAIN w
    BY <1>1
  <1>3. /\ v \in Seq(T)
        /\ Len(v) = IF m <= n THEN n - m + 1 ELSE 0
        /\ \A i \in 1 .. n - m + 1 : v[i] = w[m + i - 1]
    BY <1>2, SubSeqProperties
  <1> HIDE DEF v
  <1>4. ASSUME NEW j \in DOMAIN v PROVE \E i \in DOMAIN w : v[j] = w[i]
    <2>1. j \in 1 .. n - m + 1
      BY <1>3
    <2>2. m + j - 1 \in m .. n
      BY <2>1
    <2> QED BY <1>2, <1>3, <2>1, <2>2
  <1>5. TokensOf(v, w)
    BY <1>4 DEF TokensOf, Numbered
  <1> QED BY <1>3, <1>5 DEF v

(* Two pieces joined have theirs. *)
LEMMA JoinedHaveTokens ==
    ASSUME NEW T, NEW w, NEW a \in Seq(T), NEW b \in Seq(T), TokensOf(a, w), TokensOf(b, w)
    PROVE  a \o b \in Seq(T) /\ TokensOf(a \o b, w)
  <1> DEFINE v == a \o b
  <1>1. /\ v \in Seq(T) /\ Len(v) = Len(a) + Len(b) /\ Len(a) \in Nat /\ Len(b) \in Nat
        /\ \A i \in 1 .. Len(a) + Len(b) : v[i] = IF i <= Len(a) THEN a[i] ELSE b[i - Len(a)]
    BY ConcatProperties
  <1> HIDE DEF v
  <1>2. ASSUME NEW j \in DOMAIN v
        PROVE  (\E i \in DOMAIN a : v[j] = a[i]) \/ (\E i \in DOMAIN b : v[j] = b[i])
    <2>1. j \in 1 .. Len(a) + Len(b)
      BY <1>1
    <2>2. CASE j <= Len(a)
      <3>1. j \in DOMAIN a /\ v[j] = a[j]
        BY <1>1, <2>1, <2>2
      <3> QED BY <3>1
    <2>3. CASE ~(j <= Len(a))
      <3>1. j - Len(a) \in DOMAIN b /\ v[j] = b[j - Len(a)]
        BY <1>1, <2>1, <2>3
      <3> QED BY <3>1
    <2> QED BY <2>2, <2>3
  <1>3. TokensOf(v, w)
    BY <1>2 DEF TokensOf
  <1> QED BY <1>1, <1>3 DEF v

(* A number changed leaves the other tokens alone. *)
LEMMA ChangedHasTokens ==
    ASSUME NEW V, Int \subseteq V, NEW w \in Seq(Kinds \X V), Numbered(w),
           NEW i \in DOMAIN w, w[i][1] \in {"time", "count"}, NEW x \in Int
    PROVE  /\ [w EXCEPT ![i][2] = x] \in Seq(Kinds \X V)
           /\ TokensOf([w EXCEPT ![i][2] = x], w)
  <1> DEFINE T == Kinds \X V
             t == [w[i] EXCEPT ![2] = x]
             v == [w EXCEPT ![i] = t]
  <1>1. w[i] \in T /\ w[i] = <<w[i][1], w[i][2]>> /\ w[i][1] \in Kinds
    OBVIOUS
  <1>2. t = <<w[i][1], x>>
    BY <1>1
  <1>3. t \in T
    BY <1>1, <1>2
  <1>4. t[1] = w[i][1] /\ t[2] = x
    BY <1>2
  <1> HIDE DEF t, T
  <1>5. w \in Seq(T)
    BY DEF T
  <1>6. v \in Seq(T) /\ DOMAIN v = DOMAIN w /\ \A j \in DOMAIN w : v[j] = IF j = i THEN t ELSE w[j]
    BY <1>3, <1>5
  <1> HIDE DEF v
  <1>7. TokensOf(v, w)
    BY <1>4, <1>6 DEF TokensOf, Numbered
  <1> QED BY <1>6, <1>7 DEF v, t, T

(* No damage makes a signature. *)
LEMMA DamagedHasTokens ==
    ASSUME NEW V, Int \subseteq V, NEW w \in Seq(Kinds \X V), Numbered(w), NEW v \in Damages(w)
    PROVE  v \in Seq(Kinds \X V) /\ TokensOf(v, w)
  <1> DEFINE T == Kinds \X V
  <1>0. w \in Seq(T) /\ DOMAIN w = 1 .. Len(w) /\ Len(w) \in Nat
    OBVIOUS
  <1>1. CASE \E i \in DOMAIN w : v = SubSeq(w, 1, i - 1) \o SubSeq(w, i + 1, Len(w))
    <2>1. PICK i \in DOMAIN w : v = SubSeq(w, 1, i - 1) \o SubSeq(w, i + 1, Len(w))
      BY <1>1
    <2>2. i \in Int /\ i - 1 \in Int /\ i + 1 \in Int /\ Len(w) \in Int /\ i + 1 >= 1
          /\ i - 1 <= Len(w) /\ 1 \in Int /\ 1 >= 1 /\ Len(w) <= Len(w)
      BY <1>0
    <2> HIDE DEF T
    <2>3. /\ SubSeq(w, 1, i - 1) \in Seq(T) /\ TokensOf(SubSeq(w, 1, i - 1), w)
          /\ SubSeq(w, i + 1, Len(w)) \in Seq(T) /\ TokensOf(SubSeq(w, i + 1, Len(w)), w)
      BY <1>0, <2>2, PieceHasTokens
    <2> QED BY <2>1, <2>3, JoinedHaveTokens DEF T
  <1>2. CASE \E i \in DOMAIN w : v = SubSeq(w, 1, i) \o SubSeq(w, i, Len(w))
    <2>1. PICK i \in DOMAIN w : v = SubSeq(w, 1, i) \o SubSeq(w, i, Len(w))
      BY <1>2
    <2>2. i \in Int /\ Len(w) \in Int /\ i >= 1 /\ i <= Len(w) /\ 1 \in Int /\ 1 >= 1
          /\ Len(w) <= Len(w)
      BY <1>0
    <2> HIDE DEF T
    <2>3. /\ SubSeq(w, 1, i) \in Seq(T) /\ TokensOf(SubSeq(w, 1, i), w)
          /\ SubSeq(w, i, Len(w)) \in Seq(T) /\ TokensOf(SubSeq(w, i, Len(w)), w)
      BY <1>0, <2>2, PieceHasTokens
    <2> QED BY <2>1, <2>3, JoinedHaveTokens DEF T
  <1>3. CASE \E i \in {j \in DOMAIN w : w[j][1] \in {"time", "count"}} :
               v = [w EXCEPT ![i][2] = @ + 1] \/ v = [w EXCEPT ![i][2] = @ - 1]
    <2>1. PICK i \in DOMAIN w : /\ w[i][1] \in {"time", "count"}
                                /\ v = [w EXCEPT ![i][2] = @ + 1] \/ v = [w EXCEPT ![i][2] = @ - 1]
      BY <1>3
    <2>2. w[i][2] + 1 \in Int /\ w[i][2] - 1 \in Int
      BY <2>1 DEF Numbered
    <2>3. v = [w EXCEPT ![i][2] = w[i][2] + 1] \/ v = [w EXCEPT ![i][2] = w[i][2] - 1]
      BY <2>1
    <2>4. CASE v = [w EXCEPT ![i][2] = w[i][2] + 1]
      <3> DEFINE x == w[i][2] + 1
      <3>1. v = [w EXCEPT ![i][2] = x] /\ x \in Int
        BY <2>2, <2>4
      <3> HIDE DEF x
      <3> QED BY <2>1, <3>1, ChangedHasTokens
    <2>5. CASE v = [w EXCEPT ![i][2] = w[i][2] - 1]
      <3> DEFINE x == w[i][2] - 1
      <3>1. v = [w EXCEPT ![i][2] = x] /\ x \in Int
        BY <2>2, <2>5
      <3> HIDE DEF x
      <3> QED BY <2>1, <3>1, ChangedHasTokens
    <2> QED BY <2>3, <2>4, <2>5
  <1>4. \/ \E i \in DOMAIN w : v = SubSeq(w, 1, i - 1) \o SubSeq(w, i + 1, Len(w))
        \/ \E i \in DOMAIN w : v = SubSeq(w, 1, i) \o SubSeq(w, i, Len(w))
        \/ \E i \in {j \in DOMAIN w : w[j][1] \in {"time", "count"}} :
               v = [w EXCEPT ![i][2] = @ + 1] \/ v = [w EXCEPT ![i][2] = @ - 1]
    BY DEF Damages
  <1> QED BY <1>1, <1>2, <1>3, <1>4

(* What is read back carries the signatures that are there. *)
LEMMA ReadSignatures ==
    ASSUME NEW T, NEW v \in Seq(T), NEW w, TokensOf(v, w), NEW t \in from_wire(v)
    PROVE  /\ body_bytes(t.transaction) = t.transaction
           /\ \A i \in DOMAIN t.signatures :
                \E j \in DOMAIN w : w[j][1] = "signature" /\ w[j][2] = t.signatures[i]
  <1> DEFINE n == v[3][2]
             at == 5 + n
             k == v[at][2]
             rest == SubSeq(v, at + 1, Len(v))
  <1>1. /\ read_body(v)
        /\ Holds(v, at, "count") /\ AllHold(v, at + 1, k, "signature")
        /\ Len(v) = at + k
        /\ t = [transaction |-> Body(v), signatures |-> Values(rest)]
    BY DEF from_wire
  <1>2. body_bytes(t.transaction) = t.transaction
    <2>1. t.transaction = Body(v)
      BY <1>1
    <2>2. body_bytes(Body(v)) = Body(v)
      BY DEF Body, body_bytes
    <2> QED BY <2>1, <2>2
  <1>3. n \in Int
    <2>1. 3 \in DOMAIN v /\ v[3][1] = "count"
      BY <1>1 DEF read_body, Holds
    <2> QED BY <2>1 DEF TokensOf
  <1>4. at \in 1 .. Len(v) /\ k \in Int /\ Len(v) \in Nat /\ DOMAIN v = 1 .. Len(v)
    <2>1. at \in DOMAIN v /\ v[at][1] = "count"
      BY <1>1 DEF Holds
    <2>2. k \in Int
      BY <2>1 DEF TokensOf
    <2> HIDE DEF at, k
    <2>3. Len(v) \in Nat /\ DOMAIN v = 1 .. Len(v)
      OBVIOUS
    <2> QED BY <2>1, <2>2, <2>3
  <1> HIDE DEF n
  <1>5. at \in Int
    BY <1>3
  <1> HIDE DEF at, k
  <1>6. \A i \in at + 1 .. Len(v) : i \in DOMAIN v /\ v[i] \in T /\ v[i][1] = "signature"
    <2>1. at + 1 + k - 1 = Len(v)
      BY <1>1, <1>4, <1>5
    <2>2. \A i \in at + 1 .. Len(v) : i \in DOMAIN v /\ v[i] \in T
      BY <1>4
    <2> QED BY <1>1, <2>1, <2>2 DEF AllHold, Holds
  <1>7. /\ rest \in Seq(T)
        /\ Len(rest) = IF at + 1 <= Len(v) THEN Len(v) - (at + 1) + 1 ELSE 0
        /\ \A i \in 1 .. Len(v) - (at + 1) + 1 : rest[i] = v[(at + 1) + i - 1]
    <2>1. at + 1 \in Int /\ Len(v) \in Int /\ \A i \in at + 1 .. Len(v) : v[i] \in T
      BY <1>4, <1>5, <1>6
    <2> QED BY <2>1, SubSeqProperties
  <1> HIDE DEF rest
  <1>8. ASSUME NEW i \in DOMAIN t.signatures
        PROVE  \E j \in DOMAIN w : w[j][1] = "signature" /\ w[j][2] = t.signatures[i]
    <2>1. t.signatures = [h \in DOMAIN rest |-> rest[h][2]]
      BY <1>1 DEF Values
    <2>2. i \in DOMAIN rest /\ t.signatures[i] = rest[i][2]
      BY <2>1
    <2>3. i \in 1 .. Len(v) - (at + 1) + 1
      <3>1. i \in 1 .. Len(rest)
        BY <1>7, <2>2
      <3>2. Len(rest) \in Nat
        BY <1>7
      <3>3. Len(v) \in Int /\ at \in Int /\ i \in Nat /\ 1 <= i /\ i <= Len(rest)
        BY <1>4, <1>5, <3>1, <3>2
      <3>4. at + 1 <= Len(v) /\ Len(rest) = Len(v) - (at + 1) + 1
        BY <1>7, <3>3
      <3> QED BY <3>3, <3>4
    <2>4. (at + 1) + i - 1 \in at + 1 .. Len(v) /\ rest[i] = v[(at + 1) + i - 1]
      <3>1. Len(v) \in Int /\ at \in Int
        BY <1>4, <1>5
      <3>2. (at + 1) + i - 1 \in at + 1 .. Len(v)
        BY <2>3, <3>1
      <3> QED BY <1>7, <2>3, <3>2
    <2> DEFINE j == (at + 1) + i - 1
    <2>5. j \in DOMAIN v /\ v[j][1] = "signature" /\ rest[i] = v[j]
      BY <1>6, <2>4
    <2> HIDE DEF j
    <2> QED BY <2>2, <2>5 DEF TokensOf
  <1> QED BY <1>2, <1>8

(* A damaged wire form that still verifies is of the transaction that was  *)
(* signed.                                                                 *)
LEMMA DamageIsDetected ==
    ASSUME DeliveryInv, NEW m \in made,
           NEW v \in Damages(to_wire(m.signed)), NEW t \in Restored(v, SignerKeys(m.signed))
    PROVE  t.transaction = m.signed.transaction
  <1> DEFINE s == m.signed
             w == to_wire(s)
  <1>1. IsRecord(m)
    BY DEF DeliveryInv
  <1>2. PICK O, G : IsSignedTx(s, O, G)
    BY <1>1, RecordIsWired
  <1> DEFINE n == Len(s.transaction.operations)
             k == Len(s.signatures)
             V == WireValues(s, O, G)
  <1>3. w \in Seq(Kinds \X V) /\ Layout(w, s, n, k)
    BY <1>2, WireIs
  <1>4. s.transaction.expiration \in Int
    <2>1. skew \in Int /\ settings.expiration \in Nat /\ m.at \in Nat
      BY <1>1, DeliveryAssumption DEF DeliveryInv, FixedInv, DeliveryAssumption, IsRecord
    <2>2. s.transaction = [block_ref |-> s.transaction.block_ref,
                           expiration |-> m.at + skew + settings.expiration,
                           operations |-> s.transaction.operations]
      BY <1>1 DEF IsRecord, IsSigned
    <2>3. s.transaction.expiration = m.at + skew + settings.expiration
      BY <2>2
    <2> QED BY <2>1, <2>3
  <1>5. Int \subseteq V
    BY DEF WireValues
  <1> HIDE DEF n, k, V, w
  <1>6. /\ Len(w) = 5 + n + k /\ n \in Nat \ {0} /\ k \in Nat /\ DOMAIN w = 1 .. Len(w)
        /\ w[1] = <<"ref", s.transaction.block_ref>>
        /\ w[2] = <<"time", s.transaction.expiration>>
        /\ w[3] = <<"count", n>>
        /\ \A i \in 1 .. n : w[3 + i] = <<"operation", s.transaction.operations[i]>>
        /\ w[4 + n] = <<"count", 0>>
        /\ w[5 + n] = <<"count", k>>
        /\ \A i \in 1 .. k : w[5 + n + i] = <<"signature", s.signatures[i]>>
    BY <1>3 DEF Layout
  <1>7. ASSUME NEW j \in DOMAIN w
        PROVE  /\ w[j][1] \in {"time", "count"} => w[j][2] \in Int
               /\ w[j][1] = "signature" => \E i \in 1 .. k : w[j][2] = s.signatures[i]
    <2>1. \/ j = 1 \/ j = 2 \/ j = 3 \/ j - 3 \in 1 .. n \/ j = 4 + n \/ j = 5 + n
          \/ j - 5 - n \in 1 .. k
      <3>1. j \in 1 .. 5 + n + k /\ n \in Nat /\ k \in Nat
        BY <1>6
      <3> QED BY <3>1
    <2>2. j = 3 + (j - 3) /\ j = 5 + n + (j - 5 - n)
      BY <1>6
    <2>3. CASE j \in {1, 2, 3, 4 + n, 5 + n}
      BY <1>4, <1>6, <2>3
    <2>4. CASE j - 3 \in 1 .. n
      <3>1. w[j] = <<"operation", s.transaction.operations[j - 3]>>
        BY <1>6, <2>2, <2>4
      <3> QED BY <3>1
    <2>5. CASE j - 5 - n \in 1 .. k
      <3>1. w[j] = <<"signature", s.signatures[j - 5 - n]>>
        BY <1>6, <2>2, <2>5
      <3> QED BY <2>5, <3>1
    <2> QED BY <2>1, <2>3, <2>4, <2>5
  <1>8. Numbered(w)
    BY <1>7 DEF Numbered
  <1>9. v \in Seq(Kinds \X V) /\ TokensOf(v, w)
    BY <1>3, <1>5, <1>8, DamagedHasTokens DEF w
  <1>10. t \in from_wire(v) /\ verify(t, SignerKeys(s), "hive")
    BY DEF Restored
  <1>11. /\ body_bytes(t.transaction) = t.transaction
         /\ \A i \in DOMAIN t.signatures :
              \E j \in DOMAIN w : w[j][1] = "signature" /\ w[j][2] = t.signatures[i]
    BY <1>9, <1>10, ReadSignatures
  <1>12. /\ m.texts \in Seq(Texts) /\ m.texts # <<>> /\ m.texts \in Seq(STRING)
         /\ IsSigned(s, m.ops, m.texts, s.transaction.block_ref, m.at + skew + settings.expiration)
    BY <1>1, TextsAreStrings DEF IsRecord
  <1>13. /\ SignerKeys(s) = {m.texts[i] : i \in DOMAIN m.texts}
         /\ s.signatures \in Seq([key : STRING, over : {<<"hive", s.transaction>>}])
    BY <1>12, SignersOf
  <1>14. m.texts[1] \in SignerKeys(s) /\ m.texts[1] # Stranger
    <2>1. 1 \in DOMAIN m.texts /\ m.texts[1] \in Texts
      BY <1>12
    <2> QED BY <1>13, <2>1 DEF Texts
  <1> DEFINE d == <<"hive", t.transaction>>
             found == [i \in DOMAIN t.signatures |-> recover(d, t.signatures[i])]
  <1>15. \E i \in DOMAIN t.signatures : recover(d, t.signatures[i]) = m.texts[1]
    <2>1. digest(t.transaction, "hive") = {d}
      BY <1>11 DEF digest, ZeroChain
    <2>2. signers(t, "hive") = {found}
      BY <2>1 DEF signers
    <2> HIDE DEF found
    <2>3. \E i \in DOMAIN found : found[i] = m.texts[1]
      BY <1>10, <1>14, <2>2 DEF verify
    <2> QED BY <2>3 DEF found
  <1>16. PICK i \in DOMAIN t.signatures : recover(d, t.signatures[i]) = m.texts[1]
    BY <1>15
  <1> HIDE DEF found
  <1>17. t.signatures[i].over = d
    <2> HIDE DEF d
    <2> QED BY <1>14, <1>16 DEF recover
  <1>18. \E j \in 1 .. k : t.signatures[i] = s.signatures[j]
    BY <1>7, <1>11
  <1>19. t.signatures[i].over = <<"hive", s.transaction>>
    <2> DEFINE over == <<"hive", s.transaction>>
    <2> HIDE DEF over
    <2>1. s.signatures \in Seq([key : STRING, over : {over}])
      BY <1>13 DEF over
    <2> DEFINE Sig == [key : STRING, over : {over}]
               sigs == s.signatures
    <2>2. ASSUME NEW g \in Sig PROVE g.over = over
      OBVIOUS
    <2>3. sigs \in Seq(Sig) /\ k = Len(sigs)
      BY <2>1 DEF k
    <2> HIDE DEF Sig, sigs
    <2>4. \A j \in 1 .. k : sigs[j] \in Sig
      BY <2>3
    <2> QED BY <1>18, <2>2, <2>4 DEF over, sigs
  <1>20. <<"hive", t.transaction>> = <<"hive", s.transaction>>
    BY <1>17, <1>19
  <1> QED BY <1>20

(* VerifiedIsSigned: stored transactions are read back whole, and a        *)
(* damaged one never verifies for another transaction.                     *)
THEOREM VerifiedIsAsSigned == DeliverySpec => []VerifiedIsSigned
  <1>1. DeliveryInv => VerifiedIsSigned
    <2> SUFFICES ASSUME DeliveryInv, NEW m \in made
                 PROVE  /\ from_wire(to_wire(m.signed)) = {m.signed}
                        /\ \A w \in Damages(to_wire(m.signed)) :
                              \A t \in Restored(w, SignerKeys(m.signed)) :
                                 t.transaction = m.signed.transaction
      BY DEF VerifiedIsSigned
    <2>1. m.signed \in SignedSoFar
      BY DEF SignedSoFar
    <2> QED BY <2>1, ReadsBackSigned, DamageIsDetected
  <1> QED BY <1>1, DeliveryInvariant, PTL

-----------------------------------------------------------------------------
(* The payload, and the two bindings. *)

(* The values a payload may be made of that JSON holds exactly: no integer *)
(* wider than 64 bits, which is signed as a rounded float. *)
Widths == {"nil", "one", "i64", "u64"}
Scalars ==
    {NoneValue} \cup ({"bool"} \X BOOLEAN) \cup ({"int"} \X Widths)
    \cup {<<"float", x>> : x \in STRING \ (Widths \cup {"nan"})} \cup ({"str"} \X STRING)
IsContainer(v) ==
    /\ v = <<v[1], v[2]>> /\ v[1] \in {"list", "tuple", "dict"}
    /\ v[2] = [x \in DOMAIN v[2] |-> v[2][x]]
    /\ \A x \in DOMAIN v[2] : v[2][x] \in Scalars
IsExact(v) == v \in Scalars \/ IsContainer(v)

(* A scalar is read back from its JSON form, and only text has a string    *)
(* for one.                                                                *)
LEMMA ScalarReadsBack ==
    ASSUME NEW v \in Scalars
    PROVE  /\ scalar_to_json(v) # {}
           /\ \A j \in scalar_to_json(v) : scalar_to_py(j) = v
           /\ \A j \in scalar_to_json(v) :
                IF v[1] = "str" THEN j = <<"string", <<"plain", v[2]>>>>
                ELSE j[1] \in {"null", "bool", "number"}
           /\ v[1] \in {"none", "bool", "int", "float", "str"}
  <1>1. CASE v = NoneValue
    <2>1. scalar_to_json(v) = {<<"null", "null">>}
      BY <1>1 DEF NoneValue, scalar_to_json
    <2>2. scalar_to_py(<<"null", "null">>) = NoneValue
      BY DEF scalar_to_py
    <2>3. v[1] = "none"
      BY <1>1 DEF NoneValue
    <2> QED BY <1>1, <2>1, <2>2, <2>3
  <1>2. CASE v \in {"bool"} \X BOOLEAN
    <2>1. PICK x \in BOOLEAN : v = <<"bool", x>>
      BY <1>2
    <2> QED BY <2>1 DEF scalar_to_json, scalar_to_py
  <1>3. CASE v \in {"int"} \X Widths
    <2>1. PICK x \in Widths : v = <<"int", x>>
      BY <1>3
    <2>2. scalar_to_json(v) = {<<"number", x>>}
      BY <2>1 DEF scalar_to_json, Widths
    <2>3. scalar_to_py(<<"number", x>>) = <<"int", x>>
      BY <2>1 DEF scalar_to_py, Widths
    <2> QED BY <2>1, <2>2, <2>3
  <1>4. CASE v \in {<<"float", x>> : x \in STRING \ (Widths \cup {"nan"})}
    <2>1. PICK x \in STRING \ (Widths \cup {"nan"}) : v = <<"float", x>>
      BY <1>4
    <2>2. scalar_to_json(v) = {<<"number", x>>}
      BY <2>1 DEF scalar_to_json
    <2>3. scalar_to_py(<<"number", x>>) = <<"float", x>>
      BY <2>1 DEF scalar_to_py, Widths
    <2> QED BY <2>1, <2>2, <2>3
  <1>5. CASE v \in {"str"} \X STRING
    <2>1. PICK x \in STRING : v = <<"str", x>>
      <3>1. v = <<v[1], v[2]>> /\ v[1] = "str" /\ v[2] \in STRING
        BY <1>5
      <3> QED BY <3>1
    <2>2. scalar_to_json(v) = {<<"string", <<"plain", x>>>>}
      BY <2>1 DEF scalar_to_json, Plain
    <2>3. scalar_to_py(<<"string", <<"plain", x>>>>) = <<"str", x>>
      BY DEF scalar_to_py
    <2> QED BY <2>1, <2>2, <2>3
  <1> QED BY <1>1, <1>2, <1>3, <1>4, <1>5 DEF Scalars

(* So is a payload, from the text that is signed. *)
LEMMA PayloadReadsBack ==
    ASSUME NEW v, IsExact(v), NEW j \in py_to_json(v)
    PROVE  ReadBack(AsText(j)) = AsList(v)
  <1>1. CASE v \in Scalars
    <2>1. v[1] \in {"none", "bool", "int", "float", "str"}
      BY <1>1, ScalarReadsBack
    <2>2. j \in scalar_to_json(v) /\ AsList(v) = v
      BY <2>1 DEF py_to_json, AsList
    <2>3. scalar_to_py(j) = v
      BY <1>1, <2>2, ScalarReadsBack
    <2>4. CASE v[1] = "str"
      <3>1. j = <<"string", <<"plain", v[2]>>>>
        BY <1>1, <2>2, <2>4, ScalarReadsBack
      <3>2. AsText(j) = j
        BY <3>1 DEF AsText
      <3>3. ReadBack(j) = <<"str", v[2]>>
        BY <3>1 DEF ReadBack
      <3>4. scalar_to_py(j) = <<"str", v[2]>>
        BY <3>1 DEF scalar_to_py
      <3> QED BY <2>2, <2>3, <3>2, <3>3, <3>4
    <2>5. CASE v[1] # "str"
      <3>1. j[1] \in {"null", "bool", "number"}
        BY <1>1, <2>2, <2>5, ScalarReadsBack
      <3>2. AsText(j) = <<"string", <<"rendered", j>>>>
        BY <3>1 DEF AsText, Text
      <3>3. ReadBack(AsText(j)) = json_to_py(j)
        BY <3>2 DEF ReadBack
      <3>4. json_to_py(j) = scalar_to_py(j)
        BY <3>1 DEF json_to_py
      <3> QED BY <2>2, <2>3, <3>3, <3>4
    <2> QED BY <2>4, <2>5
  <1>2. CASE IsContainer(v)
    <2> DEFINE items == v[2]
               kind == IF v[1] = "dict" THEN "object" ELSE "array"
               back == [x \in DOMAIN items |-> scalar_to_py(Converted(items)[x])]
    <2>1. j = <<kind, Converted(items)>>
      BY <1>2 DEF IsContainer, py_to_json
    <2>2. /\ v = <<v[1], items>> /\ v[1] \in {"list", "tuple", "dict"}
          /\ items = [x \in DOMAIN items |-> items[x]]
          /\ \A x \in DOMAIN items : items[x] \in Scalars
      BY <1>2 DEF IsContainer
    <2> HIDE DEF items
    <2>3. ASSUME NEW x \in DOMAIN items PROVE scalar_to_py(Converted(items)[x]) = items[x]
      <3>1. Converted(items)[x] = (CHOOSE i \in scalar_to_json(items[x]) : TRUE)
        BY DEF Converted
      <3>2. scalar_to_json(items[x]) # {}
        BY <2>2, ScalarReadsBack
      <3>3. Converted(items)[x] \in scalar_to_json(items[x])
        BY <3>1, <3>2
      <3> QED BY <2>2, <3>3, ScalarReadsBack
    <2>4. back = items
      BY <2>2, <2>3
    <2>5. DOMAIN Converted(items) = DOMAIN items
      BY DEF Converted
    <2>6. AsText(j) = <<"string", <<"rendered", j>>>>
      BY <2>1 DEF AsText, Text
    <2>7. ReadBack(AsText(j)) = json_to_py(j)
      BY <2>6 DEF ReadBack
    <2>8. CASE v[1] = "dict"
      <3>1. j = <<"object", Converted(items)>>
        BY <2>1, <2>8
      <3>2. json_to_py(j) = <<"dict", back>>
        <4> DEFINE c == Converted(items)
        <4> HIDE DEF c
        <4>1. json_to_py(<<"object", c>>) = <<"dict", [x \in DOMAIN c |-> scalar_to_py(c[x])]>>
          BY DEF json_to_py
        <4> QED BY <2>5, <3>1, <4>1 DEF c
      <3>3. AsList(v) = <<"dict", items>>
        BY <2>2, <2>8 DEF AsList
      <3> HIDE DEF back
      <3> QED BY <2>4, <2>7, <3>2, <3>3
    <2>9. CASE v[1] \in {"list", "tuple"}
      <3>1. j = <<"array", Converted(items)>>
        BY <2>1, <2>9
      <3>2. json_to_py(j) = <<"list", back>>
        <4> DEFINE c == Converted(items)
        <4> HIDE DEF c
        <4>1. json_to_py(<<"array", c>>) = <<"list", [x \in DOMAIN c |-> scalar_to_py(c[x])]>>
          BY DEF json_to_py
        <4> QED BY <2>5, <3>1, <4>1 DEF c
      <3>3. AsList(v) = <<"list", items>>
        BY <2>2, <2>9 DEF AsList, items
      <3> HIDE DEF back
      <3> QED BY <2>4, <2>7, <3>2, <3>3
    <2> QED BY <2>2, <2>8, <2>9
  <1> QED BY <1>1, <1>2 DEF IsExact

(* The payloads that are signed read back as those that were given. *)
LEMMA PayloadsAreKept ==
    ASSUME DeliveryInv, \A op \in Operations : IsExact(PayloadOf(op))
    PROVE  PayloadIsKept
  <1> SUFFICES ASSUME NEW m \in made, NEW i \in DOMAIN m.ops
               PROVE  ReadBack(PayloadOf(m.signed.transaction.operations[i]))
                         = AsList(PayloadOf(m.ops[i]))
    BY DEF PayloadIsKept
  <1> DEFINE cs == m.signed.transaction.operations
  <1>1. m.ops \in Seq(Operations) /\ cs \in operations_from_py(m.ops)
    BY DEF DeliveryInv, IsRecord, IsSigned
  <1> HIDE DEF cs
  <1>2. m.ops[i] \in Operations /\ cs[i] \in operation_from_py(m.ops[i])
    BY <1>1, AllConverted
  <1>3. PICK j \in py_to_json(PayloadOf(m.ops[i])) : cs[i][3] = AsText(j)
    BY <1>2, OneConverted
  <1>4. IsExact(PayloadOf(m.ops[i]))
    BY <1>2
  <1>5. ReadBack(AsText(j)) = AsList(PayloadOf(m.ops[i]))
    BY <1>4, PayloadReadsBack
  <1> QED BY <1>3, <1>5 DEF cs, PayloadOf

(* One description means the same operations to either binding. *)
LEMMA ConversionsAgree ==
    ASSUME NEW ops, ops # <<>>
    PROVE  operations_from_json(ops) = operations_from_py(ops)
  <1>1. ASSUME NEW op
        PROVE  UNION {operation_from_json(op, j) : j \in py_to_json(PayloadOf(op))}
                  = operation_from_py(op)
    BY DEF operation_from_json, operation_from_py
  <1>2. [i \in DOMAIN ops |-> UNION {operation_from_json(ops[i], j) : j \in py_to_json(PayloadOf(ops[i]))}]
           = [i \in DOMAIN ops |-> operation_from_py(ops[i])]
    BY <1>1
  <1> QED BY <1>2 DEF operations_from_json, operations_from_py

(* The digests, the ids and the signed transaction do not depend on the    *)
(* binding.                                                                *)
LEMMA BothBindingsSign ==
    ASSUME DeliveryInv
    PROVE  BindingsAgree
  <1> SUFFICES ASSUME NEW m \in made, NEW tx, tx = m.signed.transaction
               PROVE  /\ transaction_digest(m.ops, tx.block_ref, tx.expiration, chain_name)
                            = digest(tx, "hive")
                      /\ transaction_digest_node(m.ops, tx.block_ref, tx.expiration, chain_name)
                            = digest(tx, "hive")
                      /\ transaction_id(m.ops, tx.block_ref, tx.expiration) = {id(tx)}
                      /\ transaction_id_node(m.ops, tx.block_ref, tx.expiration) = {id(tx)}
                      /\ m.signed \in {r.signed : r \in sign_transaction_node(m.ops, tx.block_ref,
                                           m.texts, settings.expiration, chain_name, m.at + skew)}
    BY DEF BindingsAgree
  <1> DEFINE ops == m.ops
             cs == tx.operations
             s == m.signed
             ref == tx.block_ref
             time == tx.expiration
             secs == settings.expiration
             clock == m.at + skew
  <1>1. /\ ops \in Seq(Operations) /\ ops # <<>> /\ m.texts # <<>> /\ parse_keys(m.texts) = {m.texts}
        /\ IsSigned(s, ops, m.texts, ref, clock + secs)
        /\ secs # 0 /\ ~(secs > MAX_EXPIRATION_SECS)
    BY DEF DeliveryInv, IsRecord
  <1>2. /\ cs \in operations_from_py(ops) /\ validate(tx)
        /\ tx = [block_ref |-> ref, expiration |-> clock + secs, operations |-> cs]
        /\ s = [transaction |-> tx, signatures |-> SignatureOver(m.texts, tx)]
    BY <1>1 DEF IsSigned
  <1>3. time = clock + secs
    <2> HIDE DEF clock, secs
    <2> QED BY <1>2
  <1>4. operations_from_py(ops) = {cs} /\ operations_from_json(ops) = {cs}
    <2>1. \A x, y \in operations_from_py(ops) : x = y
      BY DEF operations_from_py, AllOrNone
    <2>2. operations_from_py(ops) = {cs}
      BY <1>2, <2>1
    <2> QED BY <1>1, <2>2, ConversionsAgree
  <1>5. chain_from_name(chain_name) = {"hive"}
    BY DEF chain_from_name, chain_name, ChainIds
  <1> HIDE DEF ops, cs, s, ref, secs, clock
  <1>6. Unsigned(cs, ref, time) = tx
    BY <1>2, <1>3 DEF Unsigned
  <1> HIDE DEF time
  <1>7. /\ transaction_digest(ops, ref, time, chain_name) = digest(tx, "hive")
        /\ transaction_digest_node(ops, ref, time, chain_name) = digest(tx, "hive")
    <2> DEFINE Digests(all) ==
                  UNION {digest(Unsigned(operations, ref, time), c) :
                            c \in chain_from_name(chain_name), operations \in all}
    <2>1. Digests({cs}) = digest(tx, "hive")
      BY <1>5, <1>6
    <2>2. transaction_digest(ops, ref, time, chain_name) = Digests(operations_from_py(ops))
      BY DEF transaction_digest
    <2>3. transaction_digest_node(ops, ref, time, chain_name) = Digests(operations_from_json(ops))
      BY DEF transaction_digest_node
    <2> HIDE DEF Digests
    <2> QED BY <1>4, <2>1, <2>2, <2>3
  <1>8. /\ transaction_id(ops, ref, time) = {id(tx)} /\ transaction_id_node(ops, ref, time) = {id(tx)}
    <2>1. transaction_id(ops, ref, time) = {id(Unsigned(cs, ref, time))}
      BY <1>4 DEF transaction_id
    <2>2. transaction_id_node(ops, ref, time) = {id(Unsigned(cs, ref, time))}
      BY <1>4 DEF transaction_id_node
    <2> QED BY <1>6, <2>1, <2>2
  <1>9. s \in {r.signed : r \in sign_transaction_node(ops, ref, m.texts, secs, chain_name, clock)}
    <2> DEFINE r == [signed |-> s, trx_id |-> id(tx)]
    <2>1. cs # <<>>
      <3>1. DOMAIN cs = DOMAIN ops
        BY <1>1, <1>2, AllConverted
      <3>2. 1 \in DOMAIN ops
        <4>1. Len(ops) \in Nat /\ Len(ops) # 0 /\ DOMAIN ops = 1 .. Len(ops)
          BY <1>1
        <4> QED BY <4>1
      <3> QED BY <3>1, <3>2
    <2>2. Transaction_new(ref, cs, secs, clock) = {tx}
      BY <1>1, <1>2, <2>1 DEF Transaction_new
    <2>3. digest(tx, "hive") = {<<"hive", tx>>}
      <3>1. body_bytes(tx) = tx
        <4>1. body_bytes([block_ref |-> ref, expiration |-> clock + secs, operations |-> cs])
                = [block_ref |-> ref, expiration |-> clock + secs, operations |-> cs]
          BY DEF body_bytes
        <4> QED BY <1>2, <4>1
      <3> QED BY <3>1 DEF digest, ZeroChain
    <2>4. s \in sign(tx, m.texts, "hive")
      BY <1>1, <1>2, <2>3 DEF sign, SignatureOver
    <2>5. r \in Signed(tx, m.texts, "hive")
      BY <2>4 DEF Signed
    <2>6. r \in UNION {Signed(t, m.texts, "hive") : t \in Transaction_new(ref, cs, secs, clock)}
      BY <2>2, <2>5
    <2>7. /\ "hive" \in chain_from_name(chain_name) /\ cs \in operations_from_json(ops)
          /\ m.texts \in parse_keys(m.texts)
      BY <1>1, <1>4, <1>5
    <2>8. r \in sign_transaction_node(ops, ref, m.texts, secs, chain_name, clock)
      <3> HIDE DEF r
      <3> DEFINE All(c, operations, keys) ==
                    UNION {Signed(t, keys, c) : t \in Transaction_new(ref, operations, secs, clock)}
      <3>1. r \in All("hive", cs, m.texts)
        BY <2>6
      <3>2. sign_transaction_node(ops, ref, m.texts, secs, chain_name, clock)
              = UNION {All(c, operations, keys) :
                          c \in chain_from_name(chain_name), operations \in operations_from_json(ops),
                          keys \in parse_keys(m.texts)}
        BY DEF sign_transaction_node, SignedWith
      <3> HIDE DEF All
      <3> QED BY <2>7, <3>1, <3>2
    <2>9. r.signed = s
      OBVIOUS
    <2> HIDE DEF r
    <2> QED BY <2>8, <2>9
  <1> QED BY <1>7, <1>8, <1>9 DEF ops, s, ref, time, secs, clock

(* SignsWhatWasGiven, for payloads that JSON can hold: what is signed      *)
(* reads back as what was given, and either binding signs the same.        *)
THEOREM GivenIsSigned ==
    ASSUME \A op \in Operations : IsExact(PayloadOf(op))
    PROVE  DeliverySpec => []SignsWhatWasGiven
  <1>1. DeliveryInv => SignsWhatWasGiven
    BY PayloadsAreKept, BothBindingsSign DEF SignsWhatWasGiven
  <1> QED BY <1>1, DeliveryInvariant, PTL
=============================================================================
