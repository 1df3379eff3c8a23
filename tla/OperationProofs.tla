--------------------------- MODULE OperationProofs ---------------------------
(***************************************************************************)
(* Proofs about operations (OperationCodec) and about what an operation    *)
(* can become on its way (OperationJourney): the bytes and the JSON of an  *)
(* operation are read back, whoever damages them is found out or has made  *)
(* another operation, and nothing the chain emits is ever signed.          *)
(*                                                                         *)
(* An operation is as good as its fields: the lemmas about a kind of value *)
(* (WireProofs for bytes, the first part of this module for JSON) are put  *)
(* together along the layout that OperationTable gives the operation.      *)
(***************************************************************************)
EXTENDS WireProofs, OperationJourney

-----------------------------------------------------------------------------
(* Hex digits are read back to the bytes they stand for. *)
LEMMA Nibbles ==
    ASSUME NEW n \in Nat
    PROVE  n \div 16 \in Nat /\ n % 16 \in Nat /\ 16 * (n \div 16) + (n % 16) = n
  OBVIOUS

(* A string with two more digits. *)
LEMMA TwoMore ==
    ASSUME NEW a \in Seq(Nat), NEW n \in Nat, Len(a) = 2 * n, NEW x \in Nat, NEW y \in Nat
    PROVE  LET c == a \o <<x, y>>
           IN  /\ c \in Seq(Nat) /\ Len(c) = 2 * (n + 1)
               /\ c[2 * (n + 1) - 1] = x /\ c[2 * (n + 1)] = y
               /\ \A i \in 1 .. 2 * n : c[i] = a[i]
  <1> DEFINE p == <<x, y>>
             c == a \o p
  <1>1. p \in Seq(Nat) /\ Len(p) = 2 /\ p[1] = x /\ p[2] = y
    OBVIOUS
  <1> HIDE DEF p
  <1>2. /\ c \in Seq(Nat) /\ Len(c) = 2 * n + 2
        /\ \A i \in 1 .. 2 * n : c[i] = a[i]
    <2>1. c \in Seq(Nat) /\ Len(c) = Len(a) + Len(p) /\ \A i \in 1 .. Len(a) : c[i] = a[i]
      BY <1>1, Joins
    <2> HIDE DEF c
    <2> QED BY <1>1, <2>1
  <1>3. c[2 * n + 1] = p[1] /\ c[2 * n + 2] = p[2]
    <2> DEFINE L == 2 * n
    <2>1. L \in Nat /\ Len(a) = L
      OBVIOUS
    <2> HIDE DEF L
    <2>2. \A i \in 1 .. Len(p) : c[Len(a) + i] = p[i]
      <3> SUFFICES ASSUME NEW i \in 1 .. Len(p) PROVE c[Len(a) + i] = p[i]
        OBVIOUS
      <3>1. \A j \in 1 .. Len(a) + Len(p) : c[j] = IF j <= Len(a) THEN a[j] ELSE p[j - Len(a)]
        BY <1>1, ConcatProperties
      <3>2. Len(a) \in Nat /\ Len(p) \in Nat
        BY <1>1
      <3> HIDE DEF c
      <3> DEFINE A == Len(a)
                 B == Len(p)
      <3>3. A \in Nat /\ B \in Nat /\ i \in 1 .. B
        BY <3>2
      <3> HIDE DEF A, B
      <3>4. A + i \in 1 .. A + B /\ ~(A + i <= A) /\ (A + i) - A = i
        BY <3>3
      <3> QED BY <3>1, <3>4 DEF A, B
    <2>3. 1 \in 1 .. Len(p) /\ 2 \in 1 .. Len(p)
      BY <1>1
    <2> HIDE DEF c
    <2>4. c[L + 1] = p[1] /\ c[L + 2] = p[2]
      BY <2>1, <2>2, <2>3
    <2> QED BY <2>4 DEF L
  <1> HIDE DEF c
  <1>4. 2 * (n + 1) = 2 * n + 2 /\ 2 * (n + 1) - 1 = 2 * n + 1
    OBVIOUS
  <1>5. Len(c) = 2 * (n + 1) /\ c[2 * (n + 1) - 1] = x /\ c[2 * (n + 1)] = y
    BY <1>1, <1>2, <1>3, <1>4
  <1> QED BY <1>2, <1>5 DEF c, p

(* The digits of a string of bytes, two to a byte. *)
LEMMA HexDigits ==
    ASSUME NEW b \in Seq(Nat)
    PROVE  LET h == to_hex(b)
           IN  /\ h \in Seq(Nat) /\ Len(h) = 2 * Len(b)
               /\ \A i \in 1 .. Len(b) : h[2 * i - 1] = b[i] \div 16 /\ h[2 * i] = b[i] % 16
  <1> DEFINE N == Len(b)
             w == [i \in DOMAIN b |-> <<b[i] \div 16, b[i] % 16>>]
  <1>1. N \in Nat /\ DOMAIN b = 1 .. N /\ \A i \in 1 .. N : b[i] \in Nat
    BY ElementOfSeq
  <1>2. \A i \in 1 .. N : b[i] \div 16 \in Nat /\ b[i] % 16 \in Nat
    BY <1>1, Nibbles
  <1>3. \A i \in 1 .. N : w[i] = <<b[i] \div 16, b[i] % 16>> /\ w[i] \in Seq(Nat)
    BY <1>1, <1>2
  <1>4. w \in Seq(Seq(Nat)) /\ Len(w) = N
    <2>1. w \in [1 .. N -> Seq(Nat)]
      BY <1>1, <1>3
    <2> HIDE DEF w, N
    <2> QED BY <1>1, <2>1, IsSequence
  <1>5. to_hex(b) = FlattenSeq(w)
    BY DEF to_hex
  <1> HIDE DEF w, N
  <1>6. PICK h : Heads(w, Len(w), h) /\ FlattenSeq(w) = h[Len(w)]
    BY <1>4, FlattenSteps
  <1>7. h[0] = <<>> /\ (\A i \in 1 .. N : h[i] = h[i - 1] \o w[i]) /\ FlattenSeq(w) = h[N]
    BY <1>4, <1>6 DEF Heads
  <1> DEFINE Right(n, i) == h[n][2 * i - 1] = b[i] \div 16 /\ h[n][2 * i] = b[i] % 16
             Good(n) == h[n] \in Seq(Nat) /\ Len(h[n]) = 2 * n /\ \A i \in 1 .. n : Right(n, i)
             good == {n \in Nat : n <= N => Good(n)}
  <1>8. 0 \in good
    <2>1. h[0] \in Seq(Nat) /\ Len(h[0]) = 2 * 0 /\ 1 .. 0 = {}
      BY <1>7
    <2> QED BY <2>1
  <1> HIDE DEF Good, Right
  <1>9. ASSUME NEW n \in good PROVE n + 1 \in good
    <2>1. n \in Nat /\ (n <= N => Good(n))
      OBVIOUS
    <2> SUFFICES ASSUME n + 1 <= N PROVE Good(n + 1)
      BY <2>1
    <2> HIDE DEF good
    <2>2. n <= N /\ n + 1 \in 1 .. N /\ (n + 1) - 1 = n
      BY <1>1, <2>1
    <2>3. Good(n)
      BY <2>1, <2>2
    <2> DEFINE x == b[n + 1] \div 16
               y == b[n + 1] % 16
               a == h[n]
    <2>4. x \in Nat /\ y \in Nat /\ w[n + 1] = <<x, y>>
      BY <1>2, <1>3, <2>2
    <2>5. a \in Seq(Nat) /\ Len(a) = 2 * n
      BY <2>3 DEF Good
    <2>6. h[n + 1] = a \o <<x, y>>
      BY <1>7, <2>2, <2>4
    <2> DEFINE c == h[n + 1]
    <2> HIDE DEF x, y
    <2>7. /\ c \in Seq(Nat) /\ Len(c) = 2 * (n + 1)
          /\ c[2 * (n + 1) - 1] = x /\ c[2 * (n + 1)] = y
          /\ \A i \in 1 .. 2 * n : c[i] = a[i]
      <3>1. c = a \o <<x, y>>
        BY <2>6
      <3> HIDE DEF a, c
      <3> QED BY <2>1, <2>4, <2>5, <3>1, TwoMore
    <2>8. ASSUME NEW i \in 1 .. n + 1 PROVE c[2 * i - 1] = b[i] \div 16 /\ c[2 * i] = b[i] % 16
      <3>1. CASE i = n + 1
        BY <2>7, <3>1 DEF x, y
      <3>2. CASE i # n + 1
        <4>1. i \in 1 .. n /\ 2 * i - 1 \in 1 .. 2 * n /\ 2 * i \in 1 .. 2 * n
          BY <2>1, <3>2
        <4>2. a[2 * i - 1] = b[i] \div 16 /\ a[2 * i] = b[i] % 16
          BY <2>3, <4>1 DEF Good, Right
        <4>3. c[2 * i - 1] = a[2 * i - 1] /\ c[2 * i] = a[2 * i]
          BY <2>7, <4>1
        <4> QED BY <4>2, <4>3
      <3> QED BY <3>1, <3>2
    <2>9. \A i \in 1 .. n + 1 : Right(n + 1, i)
      BY <2>8 DEF Right
    <2> QED BY <2>7, <2>9 DEF Good
  <1>10. Good(N)
    <2>1. good = Nat
      <3>1. good \in SUBSET Nat
        OBVIOUS
      <3> HIDE DEF good
      <3> QED BY <1>8, <1>9, <3>1, AllNaturals
    <2>2. N \in good
      BY <1>1, <2>1
    <2> QED BY <1>1, <2>2
  <1>11. to_hex(b) = h[N]
    BY <1>5, <1>7
  <1> QED BY <1>10, <1>11 DEF N, Good, Right

(* Bytes are read back from their digits. *)
LEMMA HexBack ==
    ASSUME NEW b \in Seq(Nat)
    PROVE  Len(to_hex(b)) = 2 * Len(b) /\ from_hex(to_hex(b)) = Got(b, <<>>)
  <1> DEFINE h == to_hex(b)
             N == Len(b)
  <1>1. Len(h) = 2 * N /\ \A i \in 1 .. N : h[2 * i - 1] = b[i] \div 16 /\ h[2 * i] = b[i] % 16
    BY HexDigits
  <1>2. N \in Nat /\ (\A i \in 1 .. N : b[i] \in Nat) /\ b = [i \in 1 .. N |-> b[i]]
    BY ElementOfSeq
  <1> HIDE DEF h, N
  <1>3. Len(h) % 2 # 1 /\ Len(h) \div 2 = N
    <2>1. (2 * N) % 2 = 0 /\ (2 * N) \div 2 = N
      BY <1>2
    <2> QED BY <1>1, <2>1
  <1>4. \A i \in 1 .. N : 16 * h[2 * i - 1] + h[2 * i] = b[i]
    BY <1>1, <1>2, Nibbles
  <1>5. [i \in 1 .. N |-> 16 * h[2 * i - 1] + h[2 * i]] = b
    BY <1>2, <1>4
  <1>6. from_hex(h) = Got(b, <<>>)
    BY <1>3, <1>5 DEF from_hex
  <1> QED BY <1>1, <1>6 DEF h, N

(* And a time to its bits. *)
LEMMA IsoBack ==
    ASSUME NEW t \in Fixed(4)
    PROVE  from_iso(to_iso(t)) = Got(t, <<>>)
  <1>1. t \in Seq(Nat) /\ Len(t) = 4
    BY FixedIs
  <1>2. t = [i \in 1 .. 4 |-> t[i]] /\ \A i \in 1 .. 4 : t[i] \in Nat
    <2> DEFINE N == 4
    <2>1. Len(t) = N /\ N \in Nat
      BY <1>1
    <2> HIDE DEF N
    <2>2. t = [i \in 1 .. N |-> t[i]] /\ \A i \in 1 .. N : t[i] \in Nat
      BY <1>1, <2>1, ElementOfSeq
    <2> QED BY <2>2 DEF N
  <1>3. CASE t[4] >= 128
    <2> DEFINE s == [i \in 1 .. 4 |-> 255 - t[i]]
    <2>1. to_iso(t) = [before_epoch |-> TRUE, secs |-> s]
      BY <1>3 DEF to_iso
    <2>2. \A i \in 1 .. 4 : 255 - s[i] = t[i]
      BY <1>2
    <2> HIDE DEF s
    <2>3. [i \in 1 .. 4 |-> 255 - s[i]] = t
      BY <1>2, <2>2
    <2> QED BY <2>1, <2>3 DEF from_iso
  <1>4. CASE ~(t[4] >= 128)
    BY <1>4 DEF to_iso, from_iso
  <1> QED BY <1>3, <1>4

-----------------------------------------------------------------------------
(* JSON arrays: each element is read, and nothing is left of it. *)
property_text(p) == IF from_hex(p[2]).ok THEN Got(<<p[1], from_hex(p[2]).val>>, <<>>) ELSE Fail

OneAmountText(p, i, c) == parse_amount(i)
AmountTextTurns == INSTANCE InTurnProofs WITH R <- OneAmountText
AmountTexts(j) == AmountTextTurns!InTurnOf(0, <<>>, j)

(* What the instance takes as known, from the library. *)
LEMMA AmountTextBasics == AmountTextTurns!Basics
  BY ForTurns DEF AmountTextTurns!Basics, AmountTextTurns!Least, AmountTextTurns!Induction, AmountTextTurns!Counted, AmountTextTurns!Cardinality, Cardinality

(* The JSON of a price, read by name. *)
LEMMA PriceTextsAre ==
    ASSUME NEW j
    PROVE  ReadFieldJson("price", j) = AmountTexts(j)
  <1>1. ReadFieldJson("price", j) = Each(j, parse_amount)
    BY DEF ReadFieldJson
  <1>2. Each(j, parse_amount) = AmountTexts(j)
    BY DEF AmountTexts, Each, InTurn, FoldLeft, MapThenFoldSet, Then, Max, Got, Fail, AmountTextTurns!InTurnOf, AmountTextTurns!Turns, AmountTextTurns!TurnStep, AmountTextTurns!Turn, AmountTextTurns!Got, AmountTextTurns!Fail, AmountTextTurns!Largest, OneAmountText
  <1> QED BY ONLY <1>1, <1>2

(* The texts of amounts are read back. *)
LEMMA AmountTextsBack ==
    ASSUME NEW N \in Nat, NEW j, DOMAIN j = 1 .. N, NEW v, \A i \in 1 .. N : parse_amount(j[i]) = Got(v[i], <<>>)
    PROVE  AmountTexts(j) = Got([i \in 1 .. N |-> v[i]], <<>>)
  <1> DEFINE t == [i \in 0 .. N |-> <<>>]
  <1>1. t[0] = <<>> /\ t[N] = <<>>
    OBVIOUS
  <1>2. ASSUME NEW i \in 1 .. N PROVE OneAmountText(0, j[i], t[i - 1]) = [ok |-> TRUE, val |-> v[i], rest |-> t[i]]
    <2>1. t[i] = <<>>
      OBVIOUS
    <2> HIDE DEF t
    <2> QED BY <2>1 DEF OneAmountText, Got
  <1> HIDE DEF t
  <1>3. AmountTextTurns!Reads(0, j, N, t, v)
    BY <1>2 DEF AmountTextTurns!Reads
  <1>4. AmountTextTurns!InTurnOf(0, t[0], j) = [ok |-> TRUE, val |-> [i \in 1 .. N |-> v[i]], rest |-> t[N]]
    BY <1>3, AmountTextBasics, AmountTextTurns!InTurnFollows
  <1> QED BY <1>1, <1>4 DEF AmountTexts, Got

(* Texts of amounts are read only if each is one. *)
LEMMA AmountTextsRead ==
    ASSUME NEW N \in Nat, NEW j, DOMAIN j = 1 .. N, AmountTexts(j).ok
    PROVE  \A i \in 1 .. N : parse_amount(j[i]).ok
  <1>1. AmountTextTurns!InTurnOf(0, <<>>, j).ok
    BY DEF AmountTexts
  <1>2. PICK t : AmountTextTurns!Left(0, <<>>, j, N, t)
    BY <1>1, AmountTextBasics, AmountTextTurns!InTurnTraced
  <1>3. \A i \in 1 .. N : OneAmountText(0, j[i], t[i - 1]).ok
    BY <1>2 DEF AmountTextTurns!Left
  <1> QED BY <1>3 DEF OneAmountText

OneKeyText(p, i, c) == read_key(i)
KeyTextTurns == INSTANCE InTurnProofs WITH R <- OneKeyText
KeyTexts(j) == KeyTextTurns!InTurnOf(0, <<>>, j)

(* What the instance takes as known, from the library. *)
LEMMA KeyTextBasics == KeyTextTurns!Basics
  BY ForTurns DEF KeyTextTurns!Basics, KeyTextTurns!Least, KeyTextTurns!Induction, KeyTextTurns!Counted, KeyTextTurns!Cardinality, Cardinality

(* The JSON of an optional key, read by name. *)
LEMMA OptkeyTextsAre ==
    ASSUME NEW j
    PROVE  ReadFieldJson("optkey", j) = IF j = <<>> THEN Got(j, <<>>) ELSE KeyTexts(j)
  <1>1. ReadFieldJson("optkey", j) = IF j = <<>> THEN Got(j, <<>>) ELSE Each(j, read_key)
    BY DEF ReadFieldJson
  <1>2. Each(j, read_key) = KeyTexts(j)
    BY DEF KeyTexts, Each, InTurn, FoldLeft, MapThenFoldSet, Then, Max, Got, Fail, KeyTextTurns!InTurnOf, KeyTextTurns!Turns, KeyTextTurns!TurnStep, KeyTextTurns!Turn, KeyTextTurns!Got, KeyTextTurns!Fail, KeyTextTurns!Largest, OneKeyText
  <1> QED BY ONLY <1>1, <1>2

(* The texts of keys are read back. *)
LEMMA KeyTextsBack ==
    ASSUME NEW N \in Nat, NEW j, DOMAIN j = 1 .. N, NEW v, \A i \in 1 .. N : read_key(j[i]) = Got(v[i], <<>>)
    PROVE  KeyTexts(j) = Got([i \in 1 .. N |-> v[i]], <<>>)
  <1> DEFINE t == [i \in 0 .. N |-> <<>>]
  <1>1. t[0] = <<>> /\ t[N] = <<>>
    OBVIOUS
  <1>2. ASSUME NEW i \in 1 .. N PROVE OneKeyText(0, j[i], t[i - 1]) = [ok |-> TRUE, val |-> v[i], rest |-> t[i]]
    <2>1. t[i] = <<>>
      OBVIOUS
    <2> HIDE DEF t
    <2> QED BY <2>1 DEF OneKeyText, Got
  <1> HIDE DEF t
  <1>3. KeyTextTurns!Reads(0, j, N, t, v)
    BY <1>2 DEF KeyTextTurns!Reads
  <1>4. KeyTextTurns!InTurnOf(0, t[0], j) = [ok |-> TRUE, val |-> [i \in 1 .. N |-> v[i]], rest |-> t[N]]
    BY <1>3, KeyTextBasics, KeyTextTurns!InTurnFollows
  <1> QED BY <1>1, <1>4 DEF KeyTexts, Got

(* Texts of keys are read only if each is one. *)
LEMMA KeyTextsRead ==
    ASSUME NEW N \in Nat, NEW j, DOMAIN j = 1 .. N, KeyTexts(j).ok
    PROVE  \A i \in 1 .. N : read_key(j[i]).ok
  <1>1. KeyTextTurns!InTurnOf(0, <<>>, j).ok
    BY DEF KeyTexts
  <1>2. PICK t : KeyTextTurns!Left(0, <<>>, j, N, t)
    BY <1>1, KeyTextBasics, KeyTextTurns!InTurnTraced
  <1>3. \A i \in 1 .. N : OneKeyText(0, j[i], t[i - 1]).ok
    BY <1>2 DEF KeyTextTurns!Left
  <1> QED BY <1>3 DEF OneKeyText

OneAuthorityText(p, i, c) == Authority(i.weight_threshold, i.account_auths, i.key_auths)
AuthorityTextTurns == INSTANCE InTurnProofs WITH R <- OneAuthorityText
AuthorityTexts(j) == AuthorityTextTurns!InTurnOf(0, <<>>, j)

(* What the instance takes as known, from the library. *)
LEMMA AuthorityTextBasics == AuthorityTextTurns!Basics
  BY ForTurns DEF AuthorityTextTurns!Basics, AuthorityTextTurns!Least, AuthorityTextTurns!Induction, AuthorityTextTurns!Counted, AuthorityTextTurns!Cardinality, Cardinality

(* The JSON of authorities, read by name. *)
LEMMA AuthsTextsAre ==
    ASSUME NEW j
    PROVE  ReadFieldJson("auths", j) = AuthorityTexts(j)
  <1>1. ReadFieldJson("auths", j) = Each(j, LAMBDA a : Authority(a.weight_threshold, a.account_auths, a.key_auths))
    BY DEF ReadFieldJson
  <1>2. Each(j, LAMBDA a : Authority(a.weight_threshold, a.account_auths, a.key_auths)) = AuthorityTexts(j)
    BY DEF AuthorityTexts, Each, InTurn, FoldLeft, MapThenFoldSet, Then, Max, Got, Fail, AuthorityTextTurns!InTurnOf, AuthorityTextTurns!Turns, AuthorityTextTurns!TurnStep, AuthorityTextTurns!Turn, AuthorityTextTurns!Got, AuthorityTextTurns!Fail, AuthorityTextTurns!Largest, OneAuthorityText
  <1> QED BY ONLY <1>1, <1>2

(* The JSON of an optional authority, read by name. *)
LEMMA OptauthTextsAre ==
    ASSUME NEW j
    PROVE  ReadFieldJson("optauth", j) = AuthorityTexts(j)
  <1>1. ReadFieldJson("optauth", j) = Each(j, LAMBDA a : Authority(a.weight_threshold, a.account_auths, a.key_auths))
    BY DEF ReadFieldJson
  <1>2. Each(j, LAMBDA a : Authority(a.weight_threshold, a.account_auths, a.key_auths)) = AuthorityTexts(j)
    BY DEF AuthorityTexts, Each, InTurn, FoldLeft, MapThenFoldSet, Then, Max, Got, Fail, AuthorityTextTurns!InTurnOf, AuthorityTextTurns!Turns, AuthorityTextTurns!TurnStep, AuthorityTextTurns!Turn, AuthorityTextTurns!Got, AuthorityTextTurns!Fail, AuthorityTextTurns!Largest, OneAuthorityText
  <1> QED BY ONLY <1>1, <1>2

(* Authorities in JSON are read back. *)
LEMMA AuthorityTextsBack ==
    ASSUME NEW N \in Nat, NEW j, DOMAIN j = 1 .. N, NEW v, \A i \in 1 .. N : Authority(j[i].weight_threshold, j[i].account_auths, j[i].key_auths) = Got(v[i], <<>>)
    PROVE  AuthorityTexts(j) = Got([i \in 1 .. N |-> v[i]], <<>>)
  <1> DEFINE t == [i \in 0 .. N |-> <<>>]
  <1>1. t[0] = <<>> /\ t[N] = <<>>
    OBVIOUS
  <1>2. ASSUME NEW i \in 1 .. N PROVE OneAuthorityText(0, j[i], t[i - 1]) = [ok |-> TRUE, val |-> v[i], rest |-> t[i]]
    <2>1. t[i] = <<>>
      OBVIOUS
    <2> HIDE DEF t
    <2> QED BY <2>1 DEF OneAuthorityText, Got
  <1> HIDE DEF t
  <1>3. AuthorityTextTurns!Reads(0, j, N, t, v)
    BY <1>2 DEF AuthorityTextTurns!Reads
  <1>4. AuthorityTextTurns!InTurnOf(0, t[0], j) = [ok |-> TRUE, val |-> [i \in 1 .. N |-> v[i]], rest |-> t[N]]
    BY <1>3, AuthorityTextBasics, AuthorityTextTurns!InTurnFollows
  <1> QED BY <1>1, <1>4 DEF AuthorityTexts, Got

(* Authorities in JSON are read only if Authority::new allows each. *)
LEMMA AuthorityTextsRead ==
    ASSUME NEW N \in Nat, NEW j, DOMAIN j = 1 .. N, AuthorityTexts(j).ok
    PROVE  \A i \in 1 .. N : Authority(j[i].weight_threshold, j[i].account_auths, j[i].key_auths).ok
  <1>1. AuthorityTextTurns!InTurnOf(0, <<>>, j).ok
    BY DEF AuthorityTexts
  <1>2. PICK t : AuthorityTextTurns!Left(0, <<>>, j, N, t)
    BY <1>1, AuthorityTextBasics, AuthorityTextTurns!InTurnTraced
  <1>3. \A i \in 1 .. N : OneAuthorityText(0, j[i], t[i - 1]).ok
    BY <1>2 DEF AuthorityTextTurns!Left
  <1> QED BY <1>3 DEF OneAuthorityText

OnePropertyText(p, i, c) == property_text(i)
PropertyTextTurns == INSTANCE InTurnProofs WITH R <- OnePropertyText
PropertyTexts(j) == PropertyTextTurns!InTurnOf(0, <<>>, j)

(* What the instance takes as known, from the library. *)
LEMMA PropertyTextBasics == PropertyTextTurns!Basics
  BY ForTurns DEF PropertyTextTurns!Basics, PropertyTextTurns!Least, PropertyTextTurns!Induction, PropertyTextTurns!Counted, PropertyTextTurns!Cardinality, Cardinality

(* The JSON of witness properties, read by name. *)
LEMMA WpropsTextsAre ==
    ASSUME NEW j
    PROVE  ReadFieldJson("wprops", j) = PropertyTexts(j)
  <1>1. ReadFieldJson("wprops", j) = Each(j, LAMBDA p : Then(from_hex(p[2]), LAMBDA value, none : Got(<<p[1], value>>, <<>>)))
    BY DEF ReadFieldJson
  <1>2. Each(j, LAMBDA p : Then(from_hex(p[2]), LAMBDA value, none : Got(<<p[1], value>>, <<>>))) = PropertyTexts(j)
    BY DEF PropertyTexts, property_text, Each, InTurn, FoldLeft, MapThenFoldSet, Then, Max, Got, Fail, PropertyTextTurns!InTurnOf, PropertyTextTurns!Turns, PropertyTextTurns!TurnStep, PropertyTextTurns!Turn, PropertyTextTurns!Got, PropertyTextTurns!Fail, PropertyTextTurns!Largest, OnePropertyText
  <1> QED BY ONLY <1>1, <1>2

(* Witness properties in JSON are read back. *)
LEMMA PropertyTextsBack ==
    ASSUME NEW N \in Nat, NEW j, DOMAIN j = 1 .. N, NEW v, \A i \in 1 .. N : property_text(j[i]) = Got(v[i], <<>>)
    PROVE  PropertyTexts(j) = Got([i \in 1 .. N |-> v[i]], <<>>)
  <1> DEFINE t == [i \in 0 .. N |-> <<>>]
  <1>1. t[0] = <<>> /\ t[N] = <<>>
    OBVIOUS
  <1>2. ASSUME NEW i \in 1 .. N PROVE OnePropertyText(0, j[i], t[i - 1]) = [ok |-> TRUE, val |-> v[i], rest |-> t[i]]
    <2>1. t[i] = <<>>
      OBVIOUS
    <2> HIDE DEF t
    <2> QED BY <2>1 DEF OnePropertyText, Got
  <1> HIDE DEF t
  <1>3. PropertyTextTurns!Reads(0, j, N, t, v)
    BY <1>2 DEF PropertyTextTurns!Reads
  <1>4. PropertyTextTurns!InTurnOf(0, t[0], j) = [ok |-> TRUE, val |-> [i \in 1 .. N |-> v[i]], rest |-> t[N]]
    BY <1>3, PropertyTextBasics, PropertyTextTurns!InTurnFollows
  <1> QED BY <1>1, <1>4 DEF PropertyTexts, Got

(* Witness properties in JSON are read only if each is one. *)
LEMMA PropertyTextsRead ==
    ASSUME NEW N \in Nat, NEW j, DOMAIN j = 1 .. N, PropertyTexts(j).ok
    PROVE  \A i \in 1 .. N : property_text(j[i]).ok
  <1>1. PropertyTextTurns!InTurnOf(0, <<>>, j).ok
    BY DEF PropertyTexts
  <1>2. PICK t : PropertyTextTurns!Left(0, <<>>, j, N, t)
    BY <1>1, PropertyTextBasics, PropertyTextTurns!InTurnTraced
  <1>3. \A i \in 1 .. N : OnePropertyText(0, j[i], t[i - 1]).ok
    BY <1>2 DEF PropertyTextTurns!Left
  <1> QED BY <1>3 DEF OnePropertyText

-----------------------------------------------------------------------------
(* An amount's text is read on Hive, as the same amount if at all; on every *)
(* chain but the testnet it is.                                            *)
LEMMA AmountTextIs ==
    ASSUME NEW net \in DOMAIN Assets, NEW a \in Amounts(net)
    PROVE  LET r == parse_amount(amount_text(a))
           IN  /\ net # "HiveTestnet" => r.ok
               /\ r.ok => /\ r = Got(r.val, <<>>) /\ r.val \in Amounts(net)
                          /\ write_amount(r.val) = write_amount(a)
  <1> DEFINE r == parse_amount(amount_text(a))
             found == asset("Hive", a.symbol)
  <1>1. PICK e \in Denominations(net) : /\ a = Amount(a.units, e) /\ a.precision = e.precision
                                          /\ a.symbol = e.symbol /\ a.wire_symbol = e.wire_symbol
    BY AmountIs
  <1>2. a.units \in Fixed(8)
    BY AmountIs
  <1>3. r = IF found = <<>> \/ (found # <<>> /\ a.precision # found[1].precision) THEN Fail
            ELSE Got(Amount(a.units, found[1]), <<>>)
    BY DEF parse_amount, amount_text
  <1>4. /\ net # "HiveTestnet" => found # <<>>
        /\ found # <<>> => \E h \in Denominations(net) :
                             found = <<h>> /\ h.wire_symbol = e.wire_symbol /\ h.precision = e.precision
    <2>1. found = asset("Hive", e.symbol)
      BY <1>1
    <2> HIDE DEF found
    <2> QED BY <2>1, SymbolOnHive
  <1> HIDE DEF r, found
  <1>5. CASE found = <<>>
    <2>1. ~r.ok /\ net = "HiveTestnet"
      BY <1>3, <1>4, <1>5, FailIs
    <2> QED BY <2>1 DEF r
  <1>6. CASE found # <<>>
    <2>1. PICK h \in Denominations(net) : found = <<h>> /\ h.wire_symbol = e.wire_symbol /\ h.precision = e.precision
      BY <1>4, <1>6
    <2>2. found[1] = h
      BY <2>1
    <2> DEFINE u == a.units
               m == Amount(u, h)
    <2>3. r = Got(m, <<>>)
      BY <1>1, <1>3, <1>6, <2>1, <2>2
    <2>4. /\ m \in Amounts(net) /\ m.units = u /\ m.precision = h.precision /\ m.wire_symbol = h.wire_symbol
      BY <1>2, AmountMade
    <2>5. m.units = a.units /\ m.precision = a.precision /\ m.wire_symbol = a.wire_symbol
      BY <1>1, <2>1, <2>4
    <2> HIDE DEF m, u
    <2>6. write_amount(m) = write_amount(a)
      BY <2>5 DEF write_amount
    <2>7. r.ok /\ r.val = m
      BY <2>3, GotIs
    <2> QED BY <2>3, <2>4, <2>6, <2>7 DEF r
  <1> QED BY <1>5, <1>6

-----------------------------------------------------------------------------
(* A field's JSON is read as a value of the same kind that is written to   *)
(* the same bytes; on every chain whose assets Hive knows it is read.      *)
JsonKept(net, dk, wk, v) ==
    LET r == ReadFieldJson(dk, FieldJson(dk, v))
    IN  /\ net # "HiveTestnet" => r.ok
        /\ r.ok => r = Got(r.val, <<>>) /\ r.val \in Values(net, wk) /\ Write(wk, r.val) = Write(wk, v)

(* What it takes for a value to be read back from JSON. *)
LEMMA JsonIs ==
    ASSUME NEW net, NEW dk, NEW wk, NEW v, NEW j, FieldJson(dk, v) = j, NEW k, ReadFieldJson(dk, j) = Got(k, <<>>),
           k \in Values(net, wk), Write(wk, k) = Write(wk, v)
    PROVE  JsonKept(net, dk, wk, v)
  <1> DEFINE r == ReadFieldJson(dk, FieldJson(dk, v))
  <1>1. r = Got(k, <<>>)
    OBVIOUS
  <1> HIDE DEF r
  <1>2. r.ok /\ r.val = k
    BY <1>1, GotIs
  <1> QED BY <1>1, <1>2 DEF JsonKept, r

AsIs == {"bool", "u8", "i16", "u16", "u32", "u64", "str", "strs", "u64s", "rtext"}

(* Kinds that JSON has as they are. *)
LEMMA AsIsJson ==
    ASSUME NEW dk \in AsIs, NEW v
    PROVE  FieldJson(dk, v) = v /\ ReadFieldJson(dk, v) = Got(v, <<>>)
  BY DEF AsIs, FieldJson, ReadFieldJson

(* They are read back. *)
LEMMA AsIsKept ==
    ASSUME NEW net, NEW dk \in AsIs, NEW wk, NEW v \in Values(net, wk)
    PROVE  JsonKept(net, dk, wk, v)
  BY AsIsJson, JsonIs

(* FieldJson, kind by kind. *)
LEMMA FieldJsonIs ==
    ASSUME NEW v
    PROVE  /\ FieldJson("amount", v) = amount_text(v)
           /\ FieldJson("price", v) = <<amount_text(v[1]), amount_text(v[2])>>
           /\ FieldJson("props", v) = <<amount_text(v[1]), v[2], v[3]>>
           /\ FieldJson("time", v) = to_iso(v)
           /\ FieldJson("hex", v) = to_hex(v)
           /\ FieldJson("blockid", v) = to_hex(v)
           /\ FieldJson("wprops", v) = [i \in DOMAIN v |-> <<v[i][1], to_hex(v[i][2])>>]
           /\ FieldJson("coext", v) = [i \in DOMAIN v |-> Sorted(v[i], BeneficiaryAccount)]
           /\ FieldJson("key", v) = v
           /\ FieldJson("optkey", v) = v
           /\ FieldJson("auth", v) = v
           /\ FieldJson("auths", v) = v
           /\ FieldJson("optauth", v) = v
           /\ FieldJson("noext", v) = v
  <1>1. FieldJson("amount", v) = amount_text(v)
    BY DEF FieldJson
  <1>2. FieldJson("price", v) = <<amount_text(v[1]), amount_text(v[2])>>
    BY DEF FieldJson
  <1>3. FieldJson("props", v) = <<amount_text(v[1]), v[2], v[3]>>
    BY DEF FieldJson
  <1>4. FieldJson("time", v) = to_iso(v)
    BY DEF FieldJson
  <1>5. FieldJson("hex", v) = to_hex(v)
    BY DEF FieldJson
  <1>6. FieldJson("blockid", v) = to_hex(v)
    BY DEF FieldJson
  <1>7. FieldJson("wprops", v) = [i \in DOMAIN v |-> <<v[i][1], to_hex(v[i][2])>>]
    BY DEF FieldJson
  <1>8. FieldJson("coext", v) = [i \in DOMAIN v |-> Sorted(v[i], BeneficiaryAccount)]
    BY DEF FieldJson
  <1>9. FieldJson("key", v) = v
    BY DEF FieldJson
  <1>10. FieldJson("optkey", v) = v
    BY DEF FieldJson
  <1>11. FieldJson("auth", v) = v
    BY DEF FieldJson
  <1>12. FieldJson("auths", v) = v
    BY DEF FieldJson
  <1>13. FieldJson("optauth", v) = v
    BY DEF FieldJson
  <1>14. FieldJson("noext", v) = v
    BY DEF FieldJson
  <1> QED BY ONLY <1>1, <1>2, <1>3, <1>4, <1>5, <1>6, <1>7, <1>8, <1>9, <1>10, <1>11, <1>12, <1>13, <1>14

(* ReadFieldJson, kind by kind. *)
LEMMA ReadFieldIs ==
    ASSUME NEW j
    PROVE  /\ ReadFieldJson("amount", j) = parse_amount(j)
           /\ ReadFieldJson("time", j) = from_iso(j)
           /\ ReadFieldJson("hex", j) = from_hex(j)
           /\ ReadFieldJson("blockid", j) = (IF Len(j) = 40 THEN from_hex(j) ELSE Fail)
           /\ ReadFieldJson("key", j) = read_key(j)
           /\ ReadFieldJson("auth", j) = Authority(j.weight_threshold, j.account_auths, j.key_auths)
           /\ ReadFieldJson("noext", j) = (IF j = <<>> THEN Got(j, <<>>) ELSE Fail)
           /\ ReadFieldJson("coext", j) = Got(j, <<>>)
           /\ ReadFieldJson("props", j) = (IF parse_amount(j[1]).ok THEN Got(<<parse_amount(j[1]).val, j[2], j[3]>>, <<>>) ELSE Fail)
  <1>1. ReadFieldJson("amount", j) = parse_amount(j)
    BY DEF ReadFieldJson, Then
  <1>2. ReadFieldJson("time", j) = from_iso(j)
    BY DEF ReadFieldJson, Then
  <1>3. ReadFieldJson("hex", j) = from_hex(j)
    BY DEF ReadFieldJson, Then
  <1>4. ReadFieldJson("blockid", j) = (IF Len(j) = 40 THEN from_hex(j) ELSE Fail)
    BY DEF ReadFieldJson, Then
  <1>5. ReadFieldJson("key", j) = read_key(j)
    BY DEF ReadFieldJson, Then
  <1>6. ReadFieldJson("auth", j) = Authority(j.weight_threshold, j.account_auths, j.key_auths)
    BY DEF ReadFieldJson, Then
  <1>7. ReadFieldJson("noext", j) = (IF j = <<>> THEN Got(j, <<>>) ELSE Fail)
    BY DEF ReadFieldJson, Then
  <1>8. ReadFieldJson("coext", j) = Got(j, <<>>)
    BY DEF ReadFieldJson, Then
  <1>9. ReadFieldJson("props", j) = (IF parse_amount(j[1]).ok THEN Got(<<parse_amount(j[1]).val, j[2], j[3]>>, <<>>) ELSE Fail)
    BY DEF ReadFieldJson, Then
  <1> QED BY ONLY <1>1, <1>2, <1>3, <1>4, <1>5, <1>6, <1>7, <1>8, <1>9

(* A key is read back from its bytes, and so from its text. *)
LEMMA KeyText ==
    ASSUME NEW k \in KeyBytes
    PROVE  read_key(k) = Got(k, <<>>)
  <1> DEFINE x == <<>>
  <1>1. x \in Seq(Nat)
    OBVIOUS
  <1>2. k \in Seq(Nat) /\ read_key(k \o x) = Got(k, x)
    BY <1>1, KeyBack
  <1>3. k \o x = k
    BY <1>2
  <1> QED BY <1>2, <1>3

(* So are points in time, bytes, block ids, keys, authorities and no       *)
(* extensions. *)
LEMMA PlainJson ==
    ASSUME NEW net, NEW v
    PROVE  /\ v \in Values(net, "time") => JsonKept(net, "time", "time", v)
           /\ v \in Values(net, "hex") => JsonKept(net, "hex", "hex", v)
           /\ v \in Values(net, "blockid") => JsonKept(net, "blockid", "blockid", v)
           /\ v \in Values(net, "key") => JsonKept(net, "key", "key", v)
           /\ v \in Values(net, "auth") => JsonKept(net, "auth", "auth", v)
           /\ v \in Values(net, "noext") => JsonKept(net, "noext", "noext", v)
  <1>1. ASSUME v \in Values(net, "time") PROVE JsonKept(net, "time", "time", v)
    <2>1. v \in Fixed(4)
      BY <1>1, WidthIs, FixedKinds
    <2> DEFINE j == to_iso(v)
    <2>2. from_iso(j) = Got(v, <<>>)
      BY <2>1, IsoBack
    <2>3. FieldJson("time", v) = j
      BY FieldJsonIs
    <2> HIDE DEF j
    <2>4. ReadFieldJson("time", j) = from_iso(j)
      BY ReadFieldIs
    <2> QED BY <1>1, <2>2, <2>3, <2>4, JsonIs
  <1>2. ASSUME v \in Values(net, "hex") PROVE JsonKept(net, "hex", "hex", v)
    <2>1. v \in Seq(Nat)
      BY <1>2, ValuesAre DEF Blobs
    <2> DEFINE j == to_hex(v)
    <2>2. from_hex(j) = Got(v, <<>>)
      BY <2>1, HexBack
    <2>3. FieldJson("hex", v) = j
      BY FieldJsonIs
    <2> HIDE DEF j
    <2>4. ReadFieldJson("hex", j) = from_hex(j)
      BY ReadFieldIs
    <2> QED BY <1>2, <2>2, <2>3, <2>4, JsonIs
  <1>3. ASSUME v \in Values(net, "blockid") PROVE JsonKept(net, "blockid", "blockid", v)
    <2>1. v \in Fixed(20)
      BY <1>3, WidthIs, FixedKinds
    <2>2. v \in Seq(Nat) /\ Len(v) = 20
      BY <2>1, FixedIs
    <2> DEFINE j == to_hex(v)
    <2>3. from_hex(j) = Got(v, <<>>) /\ Len(j) = 2 * Len(v)
      BY <2>2, HexBack
    <2>4. FieldJson("blockid", v) = j
      BY FieldJsonIs
    <2> HIDE DEF j
    <2>5. Len(j) = 40
      BY <2>2, <2>3
    <2>6. ReadFieldJson("blockid", j) = IF Len(j) = 40 THEN from_hex(j) ELSE Fail
      BY ReadFieldIs
    <2>7. ReadFieldJson("blockid", j) = Got(v, <<>>)
      BY <2>3, <2>5, <2>6
    <2> QED BY <1>3, <2>4, <2>7, JsonIs
  <1>4. ASSUME v \in Values(net, "key") PROVE JsonKept(net, "key", "key", v)
    <2>1. v \in KeyBytes
      BY <1>4, ValuesAre
    <2>2. read_key(v) = Got(v, <<>>)
      BY <2>1, KeyText
    <2>3. FieldJson("key", v) = v
      BY FieldJsonIs
    <2>4. ReadFieldJson("key", v) = read_key(v)
      BY ReadFieldIs
    <2> QED BY <1>4, <2>2, <2>3, <2>4, JsonIs
  <1>5. ASSUME v \in Values(net, "auth") PROVE JsonKept(net, "auth", "auth", v)
    <2>1. v \in Authorities
      BY <1>5, ValuesAre
    <2>2. Authority(v.weight_threshold, v.account_auths, v.key_auths) = Got(v, <<>>)
      BY <2>1, AuthorityKept
    <2>3. FieldJson("auth", v) = v
      BY FieldJsonIs
    <2>4. ReadFieldJson("auth", v) = Authority(v.weight_threshold, v.account_auths, v.key_auths)
      BY ReadFieldIs
    <2> QED BY <1>5, <2>2, <2>3, <2>4, JsonIs
  <1>6. ASSUME v \in Values(net, "noext") PROVE JsonKept(net, "noext", "noext", v)
    <2>1. v = <<>>
      BY <1>6, ValuesAre
    <2>3. FieldJson("noext", v) = v
      BY FieldJsonIs
    <2>4. ReadFieldJson("noext", v) = IF v = <<>> THEN Got(v, <<>>) ELSE Fail
      BY ReadFieldIs
    <2>5. ReadFieldJson("noext", v) = Got(v, <<>>)
      BY <2>1, <2>4
    <2> QED BY <1>6, <2>3, <2>5, JsonIs
  <1> QED BY ONLY <1>1, <1>2, <1>3, <1>4, <1>5, <1>6

(* Extensions of comment options are sorted when they are rendered, too. *)
LEMMA CoextJson ==
    ASSUME NEW net, NEW v \in Values(net, "coext")
    PROVE  JsonKept(net, "coext", "coext", v)
  <1>1. v \in Lists(Lists(AccountEntries))
    BY ValuesAre
  <1> DEFINE N == Len(v)
             S == Lists(AccountEntries)
             k == [i \in DOMAIN v |-> Sorted(v[i], BeneficiaryAccount)]
  <1>2. N \in Nat /\ N <= MaxInt /\ DOMAIN v = 1 .. N /\ \A i \in 1 .. N : v[i] \in S
    BY <1>1, ListIs
  <1>3. k = [i \in 1 .. N |-> k[i]] /\ \A i \in 1 .. N : k[i] = Sorted(v[i], BeneficiaryAccount)
    BY <1>2
  <1>4. FieldJson("coext", v) = k
    BY FieldJsonIs
  <1> HIDE DEF N, k
  <1>5. ASSUME NEW e \in S
        PROVE  /\ Sorted(e, BeneficiaryAccount) \in S
               /\ write_beneficiaries(Sorted(e, BeneficiaryAccount)) = write_beneficiaries(e)
    <2> DEFINE w == Sorted(e, PropertyKey)
    <2>1. Sorted(e, BeneficiaryAccount) = w
      BY BeneficiariesWritten
    <2>2. e \in Lists(Strings \X Fixed(2))
      BY DEF AccountEntries
    <2>3. w \in Lists(Strings \X Fixed(2)) /\ Sorted(w, PropertyKey) = w
      BY <2>2, CarriedList
    <2>4. w \in S
      BY <2>3 DEF AccountEntries
    <2>5. /\ write_beneficiaries(e) = <<0>> \o ArrayOf(AccountWires(w), Len(w))
          /\ write_beneficiaries(w) = <<0>> \o ArrayOf(AccountWires(Sorted(w, PropertyKey)), Len(Sorted(w, PropertyKey)))
      BY BeneficiariesWritten
    <2> HIDE DEF w
    <2>6. write_beneficiaries(w) = write_beneficiaries(e)
      BY <2>3, <2>5
    <2> QED BY <2>1, <2>4, <2>6
  <1>6. \A i \in 1 .. N : k[i] \in S /\ write_beneficiaries(k[i]) = write_beneficiaries(v[i])
    BY <1>2, <1>3, <1>5
  <1> HIDE DEF S
  <1>7. k \in Lists(S) /\ Len(k) = N
    BY <1>2, <1>3, <1>6, IsList
  <1>8. DOMAIN k = 1 .. N
    BY <1>7, ListIs
  <1>9. /\ Write("coext", k) = write_varint32(Len(k)) \o FlattenSeq([i \in DOMAIN k |-> write_beneficiaries(k[i])])
        /\ Write("coext", v) = write_varint32(Len(v)) \o FlattenSeq([i \in DOMAIN v |-> write_beneficiaries(v[i])])
    BY WriteIs DEF write_array
  <1>10. Write("coext", k) = Write("coext", v)
    <2>1. [i \in DOMAIN k |-> write_beneficiaries(k[i])] = [i \in DOMAIN v |-> write_beneficiaries(v[i])]
      BY <1>2, <1>6, <1>8
    <2>2. Len(k) = Len(v)
      BY <1>7 DEF N
    <2> QED BY ONLY <1>9, <2>1, <2>2
  <1>11. k \in Values(net, "coext")
    BY <1>7, ValuesAre DEF S
  <1>12. ReadFieldJson("coext", k) = Got(k, <<>>)
    BY ReadFieldIs
  <1> QED BY <1>4, <1>10, <1>11, <1>12, JsonIs

(* So is an amount, under the name that Hive has for its asset; it is      *)
(* written to the same bytes. *)
LEMMA AmountJson ==
    ASSUME NEW net \in DOMAIN Assets, NEW v \in Values(net, "amount")
    PROVE  JsonKept(net, "amount", "amount", v)
  <1>1. v \in Amounts(net)
    BY ValuesAre
  <1> DEFINE r == parse_amount(amount_text(v))
  <1>2. /\ net # "HiveTestnet" => r.ok
        /\ r.ok => r = Got(r.val, <<>>) /\ r.val \in Amounts(net) /\ write_amount(r.val) = write_amount(v)
    BY <1>1, AmountTextIs
  <1>3. ReadFieldJson("amount", FieldJson("amount", v)) = r
    BY FieldJsonIs, ReadFieldIs
  <1> HIDE DEF r
  <1> DEFINE m == r.val
  <1>5. Write("amount", m) = write_amount(m) /\ Write("amount", v) = write_amount(v)
    BY WriteIs
  <1>6. Values(net, "amount") = Amounts(net)
    BY ValuesAre
  <1>4. r.ok => r.val \in Values(net, "amount") /\ Write("amount", r.val) = Write("amount", v)
    BY <1>2, <1>5, <1>6
  <1> QED BY ONLY <1>2, <1>3, <1>4 DEF JsonKept

(* So are a chain's properties. *)
LEMMA PropsJson ==
    ASSUME NEW net \in DOMAIN Assets, NEW v \in Values(net, "props")
    PROVE  JsonKept(net, "props", "props", v)
  <1> DEFINE a == v[1]
             b == v[2]
             c == v[3]
             r == parse_amount(amount_text(a))
             j == <<amount_text(a), b, c>>
             g == ReadFieldJson("props", FieldJson("props", v))
  <1>1. a \in Amounts(net) /\ b \in Fixed(4) /\ c \in Fixed(2)
    BY ValuesAre
  <1>2. /\ net # "HiveTestnet" => r.ok
        /\ r.ok => r = Got(r.val, <<>>) /\ r.val \in Amounts(net) /\ write_amount(r.val) = write_amount(a)
    BY <1>1, AmountTextIs
  <1>3. FieldJson("props", v) = j
    BY FieldJsonIs
  <1>4. g = IF parse_amount(j[1]).ok THEN Got(<<parse_amount(j[1]).val, j[2], j[3]>>, <<>>) ELSE Fail
    BY <1>3, ReadFieldIs
  <1>5. parse_amount(j[1]) = r /\ j[2] = b /\ j[3] = c
    OBVIOUS
  <1>6. Write("props", v) = write_amount(a) \o b \o c
    BY WriteIs
  <1> DEFINE k == <<r.val, b, c>>
  <1>7. k[1] = r.val /\ k[2] = b /\ k[3] = c
    OBVIOUS
  <1>8. Write("props", k) = write_amount(k[1]) \o k[2] \o k[3]
    BY WriteIs
  <1>9. r.ok => k \in Values(net, "props")
    BY <1>1, <1>2, ValuesAre
  <1>14. g = IF r.ok THEN Got(k, <<>>) ELSE Fail
    <2> HIDE DEF g, r, j
    <2> QED BY <1>4, <1>5
  <1> HIDE DEF a, b, c, r, j, g, k
  <1>10. r.ok => Write("props", k) = Write("props", v)
    BY <1>2, <1>6, <1>7, <1>8
  <1>11. (g.ok <=> r.ok) /\ (g.ok => g = Got(k, <<>>) /\ g.val = k)
    BY <1>14, GotIs, FailIs
  <1>12. /\ net # "HiveTestnet" => g.ok
         /\ g.ok => g = Got(g.val, <<>>) /\ g.val \in Values(net, "props") /\ Write("props", g.val) = Write("props", v)
    BY <1>2, <1>9, <1>10, <1>11
  <1> QED BY ONLY <1>12 DEF JsonKept, g

(* So is a price. *)
LEMMA PriceJson ==
    ASSUME NEW net \in DOMAIN Assets, NEW v \in Values(net, "price")
    PROVE  JsonKept(net, "price", "price", v)
  <1> DEFINE a == v[1]
             b == v[2]
             q == parse_amount(amount_text(a))
             r == parse_amount(amount_text(b))
             j == <<amount_text(a), amount_text(b)>>
             g == ReadFieldJson("price", FieldJson("price", v))
             k == <<q.val, r.val>>
             M(e) == parse_amount(e)
  <1>1. a \in Amounts(net) /\ b \in Amounts(net)
    BY ValuesAre
  <1>2. /\ net # "HiveTestnet" => q.ok
        /\ q.ok => q = Got(q.val, <<>>) /\ q.val \in Amounts(net) /\ write_amount(q.val) = write_amount(a)
    BY <1>1, AmountTextIs
  <1>3. /\ net # "HiveTestnet" => r.ok
        /\ r.ok => r = Got(r.val, <<>>) /\ r.val \in Amounts(net) /\ write_amount(r.val) = write_amount(b)
    BY <1>1, AmountTextIs
  <1>4. g = AmountTexts(j)
    BY FieldJsonIs, PriceTextsAre
  <1>5. DOMAIN j = 1 .. 2 /\ parse_amount(j[1]) = q /\ parse_amount(j[2]) = r
    OBVIOUS
  <1>6. Write("price", v) = write_amount(a) \o write_amount(b)
    BY WriteIs
  <1>7. k[1] = q.val /\ k[2] = r.val /\ [i \in 1 .. 2 |-> k[i]] = k
    OBVIOUS
  <1>8. Write("price", k) = write_amount(k[1]) \o write_amount(k[2])
    BY WriteIs
  <1>9. q.ok /\ r.ok => k \in Values(net, "price")
    BY <1>2, <1>3, ValuesAre
  <1> HIDE DEF a, b, q, r, j, g, k
  <1>10. q.ok /\ r.ok => Write("price", k) = Write("price", v)
    BY <1>2, <1>3, <1>6, <1>7, <1>8
  <1>11. q.ok /\ r.ok => g = Got(k, <<>>)
    <2> SUFFICES ASSUME q.ok, r.ok PROVE g = Got(k, <<>>)
      OBVIOUS
    <2>1. ASSUME NEW i \in 1 .. 2 PROVE parse_amount(j[i]) = Got(k[i], <<>>)
      <3>1. i = 1 \/ i = 2
        OBVIOUS
      <3> QED BY <1>2, <1>3, <1>5, <1>7, <3>1
    <2> DEFINE N == 2
    <2>2. N \in Nat /\ DOMAIN j = 1 .. N /\ \A i \in 1 .. N : parse_amount(j[i]) = Got(k[i], <<>>)
      BY <1>5, <2>1
    <2> HIDE DEF N
    <2>3. AmountTexts(j) = Got([i \in 1 .. N |-> k[i]], <<>>)
      BY ONLY <2>2, AmountTextsBack
    <2> QED BY <1>4, <1>7, <2>3 DEF N
  <1>12. g.ok => q.ok /\ r.ok
    <2> DEFINE N == 2
    <2>1. N \in Nat /\ DOMAIN j = 1 .. N /\ 1 \in 1 .. N /\ 2 \in 1 .. N
      BY <1>5
    <2> HIDE DEF N
    <2>2. AmountTexts(j).ok => \A i \in 1 .. N : parse_amount(j[i]).ok
      BY ONLY <2>1, AmountTextsRead
    <2> QED BY <1>4, <1>5, <2>1, <2>2
  <1>13. /\ net # "HiveTestnet" => g.ok
         /\ g.ok => g = Got(g.val, <<>>) /\ g.val \in Values(net, "price") /\ Write("price", g.val) = Write("price", v)
    BY <1>2, <1>3, <1>9, <1>10, <1>11, <1>12, GotIs
  <1> QED BY ONLY <1>13 DEF JsonKept, g

(* So are authorities. *)
LEMMA AuthsJson ==
    ASSUME NEW net, NEW v \in Values(net, "auths")
    PROVE  JsonKept(net, "auths", "auths", v)
  <1>1. v \in Seq(Authorities)
    BY ValuesAre DEF Lists
  <1> DEFINE N == Len(v)
  <1>2. N \in Nat /\ DOMAIN v = 1 .. N /\ v = [i \in 1 .. N |-> v[i]] /\ \A i \in 1 .. N : v[i] \in Authorities
    BY <1>1
  <1> HIDE DEF N
  <1>3. \A i \in 1 .. N : Authority(v[i].weight_threshold, v[i].account_auths, v[i].key_auths) = Got(v[i], <<>>)
    BY <1>2, AuthorityKept
  <1>4. AuthorityTexts(v) = Got([i \in 1 .. N |-> v[i]], <<>>)
    BY <1>2, <1>3, AuthorityTextsBack
  <1>5. AuthorityTexts(v) = Got(v, <<>>)
    BY <1>2, <1>4
  <1>6. FieldJson("auths", v) = v
    BY FieldJsonIs
  <1>7. ReadFieldJson("auths", v) = Got(v, <<>>)
    BY <1>5, AuthsTextsAre
  <1> QED BY <1>6, <1>7, JsonIs

(* So is an optional authority. *)
LEMMA OptauthJson ==
    ASSUME NEW net, NEW v \in Values(net, "optauth")
    PROVE  JsonKept(net, "optauth", "optauth", v)
  <1>1. v \in Seq(Authorities)
    BY ValuesAre DEF Optional
  <1> DEFINE N == Len(v)
  <1>2. N \in Nat /\ DOMAIN v = 1 .. N /\ v = [i \in 1 .. N |-> v[i]] /\ \A i \in 1 .. N : v[i] \in Authorities
    BY <1>1
  <1> HIDE DEF N
  <1>3. \A i \in 1 .. N : Authority(v[i].weight_threshold, v[i].account_auths, v[i].key_auths) = Got(v[i], <<>>)
    BY <1>2, AuthorityKept
  <1>4. AuthorityTexts(v) = Got([i \in 1 .. N |-> v[i]], <<>>)
    BY <1>2, <1>3, AuthorityTextsBack
  <1>5. AuthorityTexts(v) = Got(v, <<>>)
    BY <1>2, <1>4
  <1>6. FieldJson("optauth", v) = v
    BY FieldJsonIs
  <1>7. ReadFieldJson("optauth", v) = Got(v, <<>>)
    BY <1>5, OptauthTextsAre
  <1> QED BY <1>6, <1>7, JsonIs

(* So is an optional key. *)
LEMMA OptkeyJson ==
    ASSUME NEW net, NEW v \in Values(net, "optkey")
    PROVE  JsonKept(net, "optkey", "optkey", v)
  <1>1. v \in Seq(KeyBytes)
    BY ValuesAre DEF Optional
  <1> DEFINE N == Len(v)
  <1>2. N \in Nat /\ DOMAIN v = 1 .. N /\ v = [i \in 1 .. N |-> v[i]] /\ \A i \in 1 .. N : v[i] \in KeyBytes
    BY <1>1
  <1> HIDE DEF N
  <1>3. \A i \in 1 .. N : read_key(v[i]) = Got(v[i], <<>>)
    BY <1>2, KeyText
  <1>4. KeyTexts(v) = Got([i \in 1 .. N |-> v[i]], <<>>)
    BY <1>2, <1>3, KeyTextsBack
  <1>5. KeyTexts(v) = Got(v, <<>>)
    BY <1>2, <1>4
  <1>6. FieldJson("optkey", v) = v
    BY FieldJsonIs
  <1>7. ReadFieldJson("optkey", v) = Got(v, <<>>)
    BY <1>5, OptkeyTextsAre
  <1> QED BY <1>6, <1>7, JsonIs

(* So are witness properties. *)
LEMMA WpropsJson ==
    ASSUME NEW net, NEW v \in Values(net, "sortedprops")
    PROVE  JsonKept(net, "wprops", "sortedprops", v)
  <1> DEFINE N == Len(v)
             j == [i \in DOMAIN v |-> <<v[i][1], to_hex(v[i][2])>>]
  <1>1. v \in Lists(Properties)
    BY ValuesAre
  <1>2. N \in Nat /\ DOMAIN v = 1 .. N /\ v = [i \in 1 .. N |-> v[i]] /\ \A i \in 1 .. N : v[i] \in Strings \X Blobs
    BY <1>1, ListIs DEF Properties
  <1>3. DOMAIN j = 1 .. N /\ \A i \in 1 .. N : j[i] = <<v[i][1], to_hex(v[i][2])>>
    BY <1>2
  <1>4. FieldJson("wprops", v) = j
    BY FieldJsonIs
  <1> HIDE DEF N, j
  <1>5. ASSUME NEW i \in 1 .. N PROVE property_text(j[i]) = Got(v[i], <<>>)
    <2> DEFINE e == v[i]
               h == from_hex(to_hex(e[2]))
    <2>1. e \in Strings \X Blobs /\ e = <<e[1], e[2]>> /\ e[2] \in Seq(Nat)
      BY <1>2 DEF Blobs
    <2>2. j[i][1] = e[1] /\ j[i][2] = to_hex(e[2])
      BY <1>3
    <2> HIDE DEF e
    <2>3. h = Got(e[2], <<>>)
      BY <2>1, HexBack
    <2>4. from_hex(j[i][2]) = h
      BY <2>2
    <2> HIDE DEF h
    <2>5. h.ok /\ h.val = e[2]
      BY <2>3, GotIs
    <2>6. property_text(j[i]) = Got(e, <<>>)
      BY <2>1, <2>2, <2>4, <2>5 DEF property_text
    <2> QED BY <2>6 DEF e
  <1>6. PropertyTexts(j) = Got([i \in 1 .. N |-> v[i]], <<>>)
    BY <1>2, <1>3, <1>5, PropertyTextsBack
  <1>7. ReadFieldJson("wprops", j) = Got(v, <<>>)
    BY <1>2, <1>6, WpropsTextsAre
  <1> QED BY <1>4, <1>7, JsonIs

-----------------------------------------------------------------------------
(* The tables of the operations, an operation at a time. *)

(* What a field of bytes is read as. *)
ReadAs(kind) ==
    CASE kind = "accounts"    -> "strs"
      [] kind = "ids"         -> "u64s"
      [] kind = "sortedprops" -> "wprops"
      [] OTHER -> kind
Asked(f) == <<f[1], ReadAs(f[2])>>

(* An entry of one part of a table is the table's. *)
LEMMA DeclaredParts ==
    /\ DOMAIN Table!Declared = DOMAIN Table!DeclaredBasic \cup DOMAIN Table!DeclaredEconomy
         \cup DOMAIN Table!DeclaredProposals \cup DOMAIN Table!DeclaredAccounts \cup DOMAIN Table!DeclaredRetired
    /\ \A op \in DOMAIN Table!DeclaredBasic : Table!Declared[op] = Table!DeclaredBasic[op]
    /\ \A op \in DOMAIN Table!DeclaredEconomy : Table!Declared[op] = Table!DeclaredEconomy[op]
    /\ \A op \in DOMAIN Table!DeclaredProposals : Table!Declared[op] = Table!DeclaredProposals[op]
    /\ \A op \in DOMAIN Table!DeclaredAccounts : Table!Declared[op] = Table!DeclaredAccounts[op]
    /\ \A op \in DOMAIN Table!DeclaredRetired : Table!Declared[op] = Table!DeclaredRetired[op]
  <1>1. \A op \in DOMAIN Table!DeclaredBasic :
           /\ op \notin DOMAIN Table!DeclaredEconomy /\ op \notin DOMAIN Table!DeclaredProposals
           /\ op \notin DOMAIN Table!DeclaredAccounts /\ op \notin DOMAIN Table!DeclaredRetired
    BY DEF Table!DeclaredBasic, Table!DeclaredEconomy, Table!DeclaredProposals, Table!DeclaredAccounts, Table!DeclaredRetired
  <1>2. \A op \in DOMAIN Table!DeclaredEconomy :
           /\ op \notin DOMAIN Table!DeclaredProposals
           /\ op \notin DOMAIN Table!DeclaredAccounts /\ op \notin DOMAIN Table!DeclaredRetired
    BY DEF Table!DeclaredEconomy, Table!DeclaredProposals, Table!DeclaredAccounts, Table!DeclaredRetired
  <1>3. \A op \in DOMAIN Table!DeclaredProposals :
           op \notin DOMAIN Table!DeclaredAccounts /\ op \notin DOMAIN Table!DeclaredRetired
    BY DEF Table!DeclaredProposals, Table!DeclaredAccounts, Table!DeclaredRetired
  <1>4. \A op \in DOMAIN Table!DeclaredAccounts : op \notin DOMAIN Table!DeclaredRetired
    BY DEF Table!DeclaredAccounts, Table!DeclaredRetired
  <1> DEFINE parts == {Table!DeclaredBasic, Table!DeclaredEconomy, Table!DeclaredProposals,
                       Table!DeclaredAccounts, Table!DeclaredRetired}
  <1>5. /\ DOMAIN Table!Declared = UNION {DOMAIN p : p \in parts}
        /\ \A op \in UNION {DOMAIN p : p \in parts} : Table!Declared[op] = (CHOOSE p \in parts : op \in DOMAIN p)[op]
    BY DEF Table!Declared, Table!Together
  <1>6. \A op, p : p \in parts /\ op \in DOMAIN p /\ (\A q \in parts : op \in DOMAIN q => q = p)
                   => Table!Declared[op] = p[op]
    BY <1>5
  <1> QED BY <1>1, <1>2, <1>3, <1>4, <1>5, <1>6

(* Written is the three parts of the writer's match. *)
LEMMA WrittenParts ==
    /\ DOMAIN Table!Written = DOMAIN Table!WrittenAccounts \cup DOMAIN Table!WrittenTransfers \cup DOMAIN Table!WrittenEconomy
    /\ \A op \in DOMAIN Table!WrittenAccounts : Table!Written[op] = Table!WrittenAccounts[op]
    /\ \A op \in DOMAIN Table!WrittenTransfers : Table!Written[op] = Table!WrittenTransfers[op]
    /\ \A op \in DOMAIN Table!WrittenEconomy : Table!Written[op] = Table!WrittenEconomy[op]
  <1>1. \A op \in DOMAIN Table!WrittenAccounts :
           op \notin DOMAIN Table!WrittenTransfers /\ op \notin DOMAIN Table!WrittenEconomy
    BY DEF Table!WrittenAccounts, Table!WrittenTransfers, Table!WrittenEconomy
  <1>2. \A op \in DOMAIN Table!WrittenTransfers : op \notin DOMAIN Table!WrittenEconomy
    BY DEF Table!WrittenTransfers, Table!WrittenEconomy
  <1> DEFINE parts == {Table!WrittenAccounts, Table!WrittenTransfers, Table!WrittenEconomy}
  <1>5. /\ DOMAIN Table!Written = UNION {DOMAIN p : p \in parts}
        /\ \A op \in UNION {DOMAIN p : p \in parts} : Table!Written[op] = (CHOOSE p \in parts : op \in DOMAIN p)[op]
    BY DEF Table!Written, Table!Together
  <1>6. \A op, p : p \in parts /\ op \in DOMAIN p /\ (\A q \in parts : op \in DOMAIN q => q = p)
                   => Table!Written[op] = p[op]
    BY <1>5
  <1> QED BY <1>1, <1>2, <1>5, <1>6

(* Read is the three parts of the reader's match. *)
LEMMA ReadParts ==
    /\ DOMAIN Table!Read = DOMAIN Table!ReadAccounts \cup DOMAIN Table!ReadTransfers \cup DOMAIN Table!ReadEconomy
    /\ \A op \in DOMAIN Table!ReadAccounts : Table!Read[op] = Table!ReadAccounts[op]
    /\ \A op \in DOMAIN Table!ReadTransfers : Table!Read[op] = Table!ReadTransfers[op]
    /\ \A op \in DOMAIN Table!ReadEconomy : Table!Read[op] = Table!ReadEconomy[op]
  <1>1. \A op \in DOMAIN Table!ReadAccounts :
           op \notin DOMAIN Table!ReadTransfers /\ op \notin DOMAIN Table!ReadEconomy
    BY DEF Table!ReadAccounts, Table!ReadTransfers, Table!ReadEconomy
  <1>2. \A op \in DOMAIN Table!ReadTransfers : op \notin DOMAIN Table!ReadEconomy
    BY DEF Table!ReadTransfers, Table!ReadEconomy
  <1> DEFINE parts == {Table!ReadAccounts, Table!ReadTransfers, Table!ReadEconomy}
  <1>5. /\ DOMAIN Table!Read = UNION {DOMAIN p : p \in parts}
        /\ \A op \in UNION {DOMAIN p : p \in parts} : Table!Read[op] = (CHOOSE p \in parts : op \in DOMAIN p)[op]
    BY DEF Table!Read, Table!Together
  <1>6. \A op, p : p \in parts /\ op \in DOMAIN p /\ (\A q \in parts : op \in DOMAIN q => q = p)
                   => Table!Read[op] = p[op]
    BY <1>5
  <1> QED BY <1>1, <1>2, <1>5, <1>6

(* JSON is read field by field as the bytes are. *)
LEMMA DeclaredIsRead ==
    ASSUME NEW op \in DOMAIN Table!Declared
    PROVE  op \in DOMAIN Table!Read /\ Table!Read[op] = Table!Declared[op]
  <1>1. ASSUME op \in DOMAIN Table!DeclaredBasic
        PROVE  \/ op \in DOMAIN Table!ReadAccounts /\ Table!ReadAccounts[op] = Table!DeclaredBasic[op]
               \/ op \in DOMAIN Table!ReadTransfers /\ Table!ReadTransfers[op] = Table!DeclaredBasic[op]
    <2>1. CASE op \in {"vote", "comment", "transfer", "transfer_to_vesting"}
      BY <2>1, SMTT(240) DEF Table!ReadAccounts, Table!DeclaredBasic
    <2>2. CASE op \notin {"vote", "comment", "transfer", "transfer_to_vesting"}
      BY <1>1, <2>2, SMTT(240) DEF Table!ReadTransfers, Table!DeclaredBasic
    <2> QED BY <2>1, <2>2
  <1>2. ASSUME op \in DOMAIN Table!DeclaredEconomy
        PROVE  op \in DOMAIN Table!ReadTransfers /\ Table!ReadTransfers[op] = Table!DeclaredEconomy[op]
    BY <1>2, SMTT(240) DEF Table!ReadTransfers, Table!DeclaredEconomy
  <1>3. ASSUME op \in DOMAIN Table!DeclaredProposals
        PROVE  op \in DOMAIN Table!ReadEconomy /\ Table!ReadEconomy[op] = Table!DeclaredProposals[op]
    BY <1>3, SMTT(60) DEF Table!ReadEconomy, Table!DeclaredProposals
  <1>4. ASSUME op \in DOMAIN Table!DeclaredAccounts
        PROVE  op \in DOMAIN Table!ReadAccounts /\ Table!ReadAccounts[op] = Table!DeclaredAccounts[op]
    BY <1>4, SMTT(240) DEF Table!ReadAccounts, Table!DeclaredAccounts
  <1>5. ASSUME op \in DOMAIN Table!DeclaredRetired
        PROVE  op \in DOMAIN Table!ReadAccounts /\ Table!ReadAccounts[op] = Table!DeclaredRetired[op]
    BY <1>5, SMTT(60) DEF Table!ReadAccounts, Table!DeclaredRetired
  <1> QED BY <1>1, <1>2, <1>3, <1>4, <1>5, DeclaredParts, ReadParts

(* The kinds of fields that are written. *)
WireKinds ==
    {"str", "i16", "amount", "u32", "bool", "time", "price", "u16", "hex", "coext", "noext",
    "auth", "key", "optauth", "optkey", "u64", "rtext", "props", "blockid", "auths", "accounts",
    "sortedprops", "ids"}
Known(f) == f[2] \in WireKinds

(* The reader asks for the fields in the order they were written in, no two of them of one name. *)
LEMMA AskedIs ==
    \A f : /\ Asked(Table!str(f)) = Table!str(f) /\ Table!str(f)[1] = f /\ Known(Table!str(f))
           /\ Asked(Table!i16(f)) = Table!i16(f) /\ Table!i16(f)[1] = f /\ Known(Table!i16(f))
           /\ Asked(Table!amount(f)) = Table!amount(f) /\ Table!amount(f)[1] = f /\ Known(Table!amount(f))
           /\ Asked(Table!u32(f)) = Table!u32(f) /\ Table!u32(f)[1] = f /\ Known(Table!u32(f))
           /\ Asked(Table!bool(f)) = Table!bool(f) /\ Table!bool(f)[1] = f /\ Known(Table!bool(f))
           /\ Asked(Table!time(f)) = Table!time(f) /\ Table!time(f)[1] = f /\ Known(Table!time(f))
           /\ Asked(Table!price(f)) = Table!price(f) /\ Table!price(f)[1] = f /\ Known(Table!price(f))
           /\ Asked(Table!u16(f)) = Table!u16(f) /\ Table!u16(f)[1] = f /\ Known(Table!u16(f))
           /\ Asked(Table!hex(f)) = Table!hex(f) /\ Table!hex(f)[1] = f /\ Known(Table!hex(f))
           /\ Asked(Table!coext(f)) = Table!coext(f) /\ Table!coext(f)[1] = f /\ Known(Table!coext(f))
           /\ Asked(Table!noext(f)) = Table!noext(f) /\ Table!noext(f)[1] = f /\ Known(Table!noext(f))
           /\ Asked(Table!auth(f)) = Table!auth(f) /\ Table!auth(f)[1] = f /\ Known(Table!auth(f))
           /\ Asked(Table!key(f)) = Table!key(f) /\ Table!key(f)[1] = f /\ Known(Table!key(f))
           /\ Asked(Table!optauth(f)) = Table!optauth(f) /\ Table!optauth(f)[1] = f /\ Known(Table!optauth(f))
           /\ Asked(Table!optkey(f)) = Table!optkey(f) /\ Table!optkey(f)[1] = f /\ Known(Table!optkey(f))
           /\ Asked(Table!u64(f)) = Table!u64(f) /\ Table!u64(f)[1] = f /\ Known(Table!u64(f))
           /\ Asked(Table!rtext(f)) = Table!rtext(f) /\ Table!rtext(f)[1] = f /\ Known(Table!rtext(f))
           /\ Asked(Table!props(f)) = Table!props(f) /\ Table!props(f)[1] = f /\ Known(Table!props(f))
           /\ Asked(Table!blockid(f)) = Table!blockid(f) /\ Table!blockid(f)[1] = f /\ Known(Table!blockid(f))
           /\ Asked(Table!auths(f)) = Table!auths(f) /\ Table!auths(f)[1] = f /\ Known(Table!auths(f))
           /\ Asked(Table!accounts(f)) = Table!strs(f) /\ Table!accounts(f)[1] = f /\ Known(Table!accounts(f))
           /\ Asked(Table!sortedprops(f)) = Table!wprops(f) /\ Table!sortedprops(f)[1] = f /\ Known(Table!sortedprops(f))
           /\ Asked(Table!ids(f)) = Table!u64s(f) /\ Table!ids(f)[1] = f /\ Known(Table!ids(f))
  BY DEF Asked, ReadAs, Known, WireKinds, Table!strs, Table!wprops, Table!u64s,
         Table!str, Table!i16, Table!amount, Table!u32, Table!bool, Table!time, Table!price,
         Table!u16, Table!hex, Table!coext, Table!noext, Table!auth, Table!key, Table!optauth,
         Table!optkey, Table!u64, Table!rtext, Table!props, Table!blockid, Table!auths,
         Table!accounts, Table!sortedprops, Table!ids

IsReadAs(w, r) ==
    /\ Len(w) \in 1 .. 10 /\ DOMAIN w = 1 .. Len(w) /\ DOMAIN r = DOMAIN w
    /\ \A i \in DOMAIN w : r[i] = Asked(w[i]) /\ Known(w[i])
    /\ \A i \in DOMAIN w, j \in DOMAIN w : w[i][1] = w[j][1] => i = j

(* Layouts of 2 fields that fit. *)
LEMMA Fit2 ==
    \A a1, a2 :
      /\ Known(a1) /\ Known(a2)
      /\ a1[1] # a2[1]
      => IsReadAs(<<a1, a2>>,
              <<Asked(a1), Asked(a2)>>)
  BY SMTT(60) DEF IsReadAs, Known, Asked

(* Layouts of 3 fields that fit. *)
LEMMA Fit3 ==
    \A a1, a2, a3 :
      /\ Known(a1) /\ Known(a2) /\ Known(a3)
      /\ a1[1] # a2[1] /\ a1[1] # a3[1]
      /\ a2[1] # a3[1]
      => IsReadAs(<<a1, a2, a3>>,
              <<Asked(a1), Asked(a2), Asked(a3)>>)
  BY SMTT(60) DEF IsReadAs, Known, Asked

(* Layouts of 4 fields that fit. *)
LEMMA Fit4 ==
    \A a1, a2, a3, a4 :
      /\ Known(a1) /\ Known(a2) /\ Known(a3) /\ Known(a4)
      /\ a1[1] # a2[1] /\ a1[1] # a3[1] /\ a1[1] # a4[1]
      /\ a2[1] # a3[1] /\ a2[1] # a4[1]
      /\ a3[1] # a4[1]
      => IsReadAs(<<a1, a2, a3, a4>>,
              <<Asked(a1), Asked(a2), Asked(a3), Asked(a4)>>)
  BY SMTT(60) DEF IsReadAs, Known, Asked

(* Layouts of 5 fields that fit. *)
LEMMA Fit5 ==
    \A a1, a2, a3, a4, a5 :
      /\ Known(a1) /\ Known(a2) /\ Known(a3) /\ Known(a4) /\ Known(a5)
      /\ a1[1] # a2[1] /\ a1[1] # a3[1] /\ a1[1] # a4[1] /\ a1[1] # a5[1]
      /\ a2[1] # a3[1] /\ a2[1] # a4[1] /\ a2[1] # a5[1]
      /\ a3[1] # a4[1] /\ a3[1] # a5[1]
      /\ a4[1] # a5[1]
      => IsReadAs(<<a1, a2, a3, a4, a5>>,
              <<Asked(a1), Asked(a2), Asked(a3), Asked(a4), Asked(a5)>>)
  BY SMTT(60) DEF IsReadAs, Known, Asked

(* Layouts of 6 fields that fit. *)
LEMMA Fit6 ==
    \A a1, a2, a3, a4, a5, a6 :
      /\ Known(a1) /\ Known(a2) /\ Known(a3) /\ Known(a4) /\ Known(a5) /\ Known(a6)
      /\ a1[1] # a2[1] /\ a1[1] # a3[1] /\ a1[1] # a4[1] /\ a1[1] # a5[1] /\ a1[1] # a6[1]
      /\ a2[1] # a3[1] /\ a2[1] # a4[1] /\ a2[1] # a5[1] /\ a2[1] # a6[1]
      /\ a3[1] # a4[1] /\ a3[1] # a5[1] /\ a3[1] # a6[1]
      /\ a4[1] # a5[1] /\ a4[1] # a6[1]
      /\ a5[1] # a6[1]
      => IsReadAs(<<a1, a2, a3, a4, a5, a6>>,
              <<Asked(a1), Asked(a2), Asked(a3), Asked(a4), Asked(a5), Asked(a6)>>)
  BY SMTT(60) DEF IsReadAs, Known, Asked

(* Layouts of 7 fields that fit. *)
LEMMA Fit7 ==
    \A a1, a2, a3, a4, a5, a6, a7 :
      /\ Known(a1) /\ Known(a2) /\ Known(a3) /\ Known(a4) /\ Known(a5) /\ Known(a6) /\ Known(a7)
      /\ a1[1] # a2[1] /\ a1[1] # a3[1] /\ a1[1] # a4[1] /\ a1[1] # a5[1] /\ a1[1] # a6[1] /\ a1[1] # a7[1]
      /\ a2[1] # a3[1] /\ a2[1] # a4[1] /\ a2[1] # a5[1] /\ a2[1] # a6[1] /\ a2[1] # a7[1]
      /\ a3[1] # a4[1] /\ a3[1] # a5[1] /\ a3[1] # a6[1] /\ a3[1] # a7[1]
      /\ a4[1] # a5[1] /\ a4[1] # a6[1] /\ a4[1] # a7[1]
      /\ a5[1] # a6[1] /\ a5[1] # a7[1]
      /\ a6[1] # a7[1]
      => IsReadAs(<<a1, a2, a3, a4, a5, a6, a7>>,
              <<Asked(a1), Asked(a2), Asked(a3), Asked(a4), Asked(a5), Asked(a6), Asked(a7)>>)
  BY SMTT(60) DEF IsReadAs, Known, Asked

(* Layouts of 8 fields that fit. *)
LEMMA Fit8 ==
    \A a1, a2, a3, a4, a5, a6, a7, a8 :
      /\ Known(a1) /\ Known(a2) /\ Known(a3) /\ Known(a4) /\ Known(a5) /\ Known(a6) /\ Known(a7) /\ Known(a8)
      /\ a1[1] # a2[1] /\ a1[1] # a3[1] /\ a1[1] # a4[1] /\ a1[1] # a5[1] /\ a1[1] # a6[1] /\ a1[1] # a7[1] /\ a1[1] # a8[1]
      /\ a2[1] # a3[1] /\ a2[1] # a4[1] /\ a2[1] # a5[1] /\ a2[1] # a6[1] /\ a2[1] # a7[1] /\ a2[1] # a8[1]
      /\ a3[1] # a4[1] /\ a3[1] # a5[1] /\ a3[1] # a6[1] /\ a3[1] # a7[1] /\ a3[1] # a8[1]
      /\ a4[1] # a5[1] /\ a4[1] # a6[1] /\ a4[1] # a7[1] /\ a4[1] # a8[1]
      /\ a5[1] # a6[1] /\ a5[1] # a7[1] /\ a5[1] # a8[1]
      /\ a6[1] # a7[1] /\ a6[1] # a8[1]
      /\ a7[1] # a8[1]
      => IsReadAs(<<a1, a2, a3, a4, a5, a6, a7, a8>>,
              <<Asked(a1), Asked(a2), Asked(a3), Asked(a4), Asked(a5), Asked(a6), Asked(a7), Asked(a8)>>)
  BY SMTT(60) DEF IsReadAs, Known, Asked

(* Layouts of 9 fields that fit. *)
LEMMA Fit9 ==
    \A a1, a2, a3, a4, a5, a6, a7, a8, a9 :
      /\ Known(a1) /\ Known(a2) /\ Known(a3) /\ Known(a4) /\ Known(a5) /\ Known(a6) /\ Known(a7) /\ Known(a8) /\ Known(a9)
      /\ a1[1] # a2[1] /\ a1[1] # a3[1] /\ a1[1] # a4[1] /\ a1[1] # a5[1] /\ a1[1] # a6[1] /\ a1[1] # a7[1] /\ a1[1] # a8[1] /\ a1[1] # a9[1]
      /\ a2[1] # a3[1] /\ a2[1] # a4[1] /\ a2[1] # a5[1] /\ a2[1] # a6[1] /\ a2[1] # a7[1] /\ a2[1] # a8[1] /\ a2[1] # a9[1]
      /\ a3[1] # a4[1] /\ a3[1] # a5[1] /\ a3[1] # a6[1] /\ a3[1] # a7[1] /\ a3[1] # a8[1] /\ a3[1] # a9[1]
      /\ a4[1] # a5[1] /\ a4[1] # a6[1] /\ a4[1] # a7[1] /\ a4[1] # a8[1] /\ a4[1] # a9[1]
      /\ a5[1] # a6[1] /\ a5[1] # a7[1] /\ a5[1] # a8[1] /\ a5[1] # a9[1]
      /\ a6[1] # a7[1] /\ a6[1] # a8[1] /\ a6[1] # a9[1]
      /\ a7[1] # a8[1] /\ a7[1] # a9[1]
      /\ a8[1] # a9[1]
      => IsReadAs(<<a1, a2, a3, a4, a5, a6, a7, a8, a9>>,
              <<Asked(a1), Asked(a2), Asked(a3), Asked(a4), Asked(a5), Asked(a6), Asked(a7), Asked(a8), Asked(a9)>>)
  BY SMTT(60) DEF IsReadAs, Known, Asked

(* Layouts of 10 fields that fit. *)
LEMMA Fit10 ==
    \A a1, a2, a3, a4, a5, a6, a7, a8, a9, a10 :
      /\ Known(a1) /\ Known(a2) /\ Known(a3) /\ Known(a4) /\ Known(a5) /\ Known(a6) /\ Known(a7) /\ Known(a8) /\ Known(a9) /\ Known(a10)
      /\ a1[1] # a2[1] /\ a1[1] # a3[1] /\ a1[1] # a4[1] /\ a1[1] # a5[1] /\ a1[1] # a6[1] /\ a1[1] # a7[1] /\ a1[1] # a8[1] /\ a1[1] # a9[1] /\ a1[1] # a10[1]
      /\ a2[1] # a3[1] /\ a2[1] # a4[1] /\ a2[1] # a5[1] /\ a2[1] # a6[1] /\ a2[1] # a7[1] /\ a2[1] # a8[1] /\ a2[1] # a9[1] /\ a2[1] # a10[1]
      /\ a3[1] # a4[1] /\ a3[1] # a5[1] /\ a3[1] # a6[1] /\ a3[1] # a7[1] /\ a3[1] # a8[1] /\ a3[1] # a9[1] /\ a3[1] # a10[1]
      /\ a4[1] # a5[1] /\ a4[1] # a6[1] /\ a4[1] # a7[1] /\ a4[1] # a8[1] /\ a4[1] # a9[1] /\ a4[1] # a10[1]
      /\ a5[1] # a6[1] /\ a5[1] # a7[1] /\ a5[1] # a8[1] /\ a5[1] # a9[1] /\ a5[1] # a10[1]
      /\ a6[1] # a7[1] /\ a6[1] # a8[1] /\ a6[1] # a9[1] /\ a6[1] # a10[1]
      /\ a7[1] # a8[1] /\ a7[1] # a9[1] /\ a7[1] # a10[1]
      /\ a8[1] # a9[1] /\ a8[1] # a10[1]
      /\ a9[1] # a10[1]
      => IsReadAs(<<a1, a2, a3, a4, a5, a6, a7, a8, a9, a10>>,
              <<Asked(a1), Asked(a2), Asked(a3), Asked(a4), Asked(a5), Asked(a6), Asked(a7), Asked(a8), Asked(a9), Asked(a10)>>)
  BY SMTT(60) DEF IsReadAs, Known, Asked

(* The reader has the writer's fields, in order: the first part of the     *)
(* writer's match. *)
LEMMA WrittenAccountsFit ==
    ASSUME NEW op \in DOMAIN Table!WrittenAccounts
    PROVE  op \in DOMAIN Table!Read /\ IsReadAs(Table!WrittenAccounts[op], Table!Read[op])
  <1>1. IsReadAs(Table!WrittenAccounts["vote"], Table!ReadAccounts["vote"])
    BY AskedIs, Fit4 DEF Table!WrittenAccounts, Table!ReadAccounts
  <1>2. IsReadAs(Table!WrittenAccounts["comment"], Table!ReadAccounts["comment"])
    BY AskedIs, Fit7, SMTT(60), ZenonT(60) DEF Table!WrittenAccounts, Table!ReadAccounts
  <1>3. IsReadAs(Table!WrittenAccounts["account_create"], Table!ReadAccounts["account_create"])
    BY AskedIs, Fit8, SMTT(90) DEF Table!WrittenAccounts, Table!ReadAccounts
  <1>4. IsReadAs(Table!WrittenAccounts["account_update"], Table!ReadAccounts["account_update"])
    BY AskedIs, Fit6, SMTT(60), ZenonT(60) DEF Table!WrittenAccounts, Table!ReadAccounts
  <1>5. IsReadAs(Table!WrittenAccounts["witness_update"], Table!ReadAccounts["witness_update"])
    BY AskedIs, Fit5 DEF Table!WrittenAccounts, Table!ReadAccounts
  <1>6. IsReadAs(Table!WrittenAccounts["witness_block_approve"], Table!ReadAccounts["witness_block_approve"])
    BY AskedIs, Fit2 DEF Table!WrittenAccounts, Table!ReadAccounts
  <1>7. IsReadAs(Table!WrittenAccounts["request_account_recovery"], Table!ReadAccounts["request_account_recovery"])
    BY AskedIs, Fit4 DEF Table!WrittenAccounts, Table!ReadAccounts
  <1>8. IsReadAs(Table!WrittenAccounts["recover_account"], Table!ReadAccounts["recover_account"])
    BY AskedIs, Fit4 DEF Table!WrittenAccounts, Table!ReadAccounts
  <1>9. IsReadAs(Table!WrittenAccounts["escrow_transfer"], Table!ReadAccounts["escrow_transfer"])
    BY AskedIs, Fit10, SMTT(400) DEF Table!WrittenAccounts, Table!ReadAccounts
  <1>10. IsReadAs(Table!WrittenAccounts["escrow_dispute"], Table!ReadAccounts["escrow_dispute"])
    BY AskedIs, Fit5 DEF Table!WrittenAccounts, Table!ReadAccounts
  <1>11. IsReadAs(Table!WrittenAccounts["escrow_release"], Table!ReadAccounts["escrow_release"])
    BY AskedIs, Fit8, SMTT(400) DEF Table!WrittenAccounts, Table!ReadAccounts
  <1>12. IsReadAs(Table!WrittenAccounts["escrow_approve"], Table!ReadAccounts["escrow_approve"])
    BY AskedIs, Fit6, SMTT(240) DEF Table!WrittenAccounts, Table!ReadAccounts
  <1>13. IsReadAs(Table!WrittenAccounts["custom_binary"], Table!ReadAccounts["custom_binary"])
    BY AskedIs, Fit6, SMTT(60), ZenonT(60) DEF Table!WrittenAccounts, Table!ReadAccounts
  <1>14. IsReadAs(Table!WrittenAccounts["reset_account"], Table!ReadAccounts["reset_account"])
    BY AskedIs, Fit3, SMTT(60), ZenonT(60) DEF Table!WrittenAccounts, Table!ReadAccounts
  <1>15. IsReadAs(Table!WrittenAccounts["set_reset_account"], Table!ReadAccounts["set_reset_account"])
    BY AskedIs, Fit3, SMTT(60), ZenonT(60) DEF Table!WrittenAccounts, Table!ReadAccounts
  <1> HIDE DEF IsReadAs
  <1>16. \A o \in {"vote", "comment", "account_create", "account_update", "witness_update",
  "witness_block_approve", "request_account_recovery", "recover_account", "escrow_transfer",
  "escrow_dispute", "escrow_release", "escrow_approve", "custom_binary", "reset_account",
  "set_reset_account"} : o \in DOMAIN Table!ReadAccounts
    BY DEF Table!ReadAccounts
  <1>17. DOMAIN Table!WrittenAccounts =
        {"vote", "comment", "account_create", "account_update", "witness_update",
        "witness_block_approve", "request_account_recovery", "recover_account",
        "escrow_transfer", "escrow_dispute", "escrow_release", "escrow_approve",
        "custom_binary", "reset_account", "set_reset_account"}
    BY DEF Table!WrittenAccounts
  <1> QED BY <1>1, <1>2, <1>3, <1>4, <1>5, <1>6, <1>7, <1>8, <1>9, <1>10, <1>11, <1>12, <1>13,
  <1>14, <1>15, <1>16, <1>17, ReadParts

(* The second part. *)
LEMMA WrittenTransfersFit ==
    ASSUME NEW op \in DOMAIN Table!WrittenTransfers
    PROVE  op \in DOMAIN Table!Read /\ IsReadAs(Table!WrittenTransfers[op], Table!Read[op])
  <1>1. IsReadAs(Table!WrittenTransfers["account_create_with_delegation"], Table!ReadAccounts["account_create_with_delegation"])
    BY AskedIs, Fit10, SMTT(400) DEF Table!WrittenTransfers, Table!ReadAccounts
  <1>2. IsReadAs(Table!WrittenTransfers["witness_set_properties"], Table!ReadAccounts["witness_set_properties"])
    BY AskedIs, Fit3 DEF Table!WrittenTransfers, Table!ReadAccounts
  <1>3. IsReadAs(Table!WrittenTransfers["transfer"], Table!ReadAccounts["transfer"])
    BY AskedIs, Fit4 DEF Table!WrittenTransfers, Table!ReadAccounts
  <1>4. IsReadAs(Table!WrittenTransfers["transfer_to_vesting"], Table!ReadAccounts["transfer_to_vesting"])
    BY AskedIs, Fit3 DEF Table!WrittenTransfers, Table!ReadAccounts
  <1>5. IsReadAs(Table!WrittenTransfers["withdraw_vesting"], Table!ReadTransfers["withdraw_vesting"])
    BY AskedIs, Fit2 DEF Table!WrittenTransfers, Table!ReadTransfers
  <1>6. IsReadAs(Table!WrittenTransfers["limit_order_create"], Table!ReadTransfers["limit_order_create"])
    BY AskedIs, Fit6 DEF Table!WrittenTransfers, Table!ReadTransfers
  <1>7. IsReadAs(Table!WrittenTransfers["limit_order_cancel"], Table!ReadTransfers["limit_order_cancel"])
    BY AskedIs, Fit2 DEF Table!WrittenTransfers, Table!ReadTransfers
  <1>8. IsReadAs(Table!WrittenTransfers["feed_publish"], Table!ReadTransfers["feed_publish"])
    BY AskedIs, Fit2 DEF Table!WrittenTransfers, Table!ReadTransfers
  <1>9. IsReadAs(Table!WrittenTransfers["convert"], Table!ReadTransfers["convert"])
    BY AskedIs, Fit3 DEF Table!WrittenTransfers, Table!ReadTransfers
  <1>10. IsReadAs(Table!WrittenTransfers["account_witness_vote"], Table!ReadTransfers["account_witness_vote"])
    BY AskedIs, Fit3 DEF Table!WrittenTransfers, Table!ReadTransfers
  <1>11. IsReadAs(Table!WrittenTransfers["account_witness_proxy"], Table!ReadTransfers["account_witness_proxy"])
    BY AskedIs, Fit2 DEF Table!WrittenTransfers, Table!ReadTransfers
  <1>12. IsReadAs(Table!WrittenTransfers["custom"], Table!ReadTransfers["custom"])
    BY AskedIs, Fit3 DEF Table!WrittenTransfers, Table!ReadTransfers
  <1>13. IsReadAs(Table!WrittenTransfers["delete_comment"], Table!ReadTransfers["delete_comment"])
    BY AskedIs, Fit2 DEF Table!WrittenTransfers, Table!ReadTransfers
  <1>14. IsReadAs(Table!WrittenTransfers["custom_json"], Table!ReadTransfers["custom_json"])
    BY AskedIs, Fit4 DEF Table!WrittenTransfers, Table!ReadTransfers
  <1>15. IsReadAs(Table!WrittenTransfers["comment_options"], Table!ReadTransfers["comment_options"])
    BY AskedIs, Fit7, SMTT(60), ZenonT(60) DEF Table!WrittenTransfers, Table!ReadTransfers
  <1> HIDE DEF IsReadAs
  <1>16. \A o \in {"account_create_with_delegation", "witness_set_properties", "transfer",
  "transfer_to_vesting"} : o \in DOMAIN Table!ReadAccounts
    BY DEF Table!ReadAccounts
  <1>17. \A o \in {"withdraw_vesting", "limit_order_create", "limit_order_cancel",
  "feed_publish", "convert", "account_witness_vote", "account_witness_proxy", "custom",
  "delete_comment", "custom_json", "comment_options"} : o \in DOMAIN Table!ReadTransfers
    BY DEF Table!ReadTransfers
  <1>18. DOMAIN Table!WrittenTransfers =
        {"account_create_with_delegation", "witness_set_properties", "transfer",
        "transfer_to_vesting", "withdraw_vesting", "limit_order_create", "limit_order_cancel",
        "feed_publish", "convert", "account_witness_vote", "account_witness_proxy", "custom",
        "delete_comment", "custom_json", "comment_options"}
    BY DEF Table!WrittenTransfers
  <1> QED BY <1>1, <1>2, <1>3, <1>4, <1>5, <1>6, <1>7, <1>8, <1>9, <1>10, <1>11, <1>12, <1>13,
  <1>14, <1>15, <1>16, <1>17, <1>18, ReadParts

(* The third part. *)
LEMMA WrittenEconomyFit ==
    ASSUME NEW op \in DOMAIN Table!WrittenEconomy
    PROVE  op \in DOMAIN Table!Read /\ IsReadAs(Table!WrittenEconomy[op], Table!Read[op])
  <1>1. IsReadAs(Table!WrittenEconomy["set_withdraw_vesting_route"], Table!ReadTransfers["set_withdraw_vesting_route"])
    BY AskedIs, Fit4 DEF Table!WrittenEconomy, Table!ReadTransfers
  <1>2. IsReadAs(Table!WrittenEconomy["limit_order_create2"], Table!ReadTransfers["limit_order_create2"])
    BY AskedIs, Fit6 DEF Table!WrittenEconomy, Table!ReadTransfers
  <1>3. IsReadAs(Table!WrittenEconomy["claim_account"], Table!ReadTransfers["claim_account"])
    BY AskedIs, Fit3 DEF Table!WrittenEconomy, Table!ReadTransfers
  <1>4. IsReadAs(Table!WrittenEconomy["create_claimed_account"], Table!ReadTransfers["create_claimed_account"])
    BY AskedIs, Fit8, SMTT(90) DEF Table!WrittenEconomy, Table!ReadTransfers
  <1>5. IsReadAs(Table!WrittenEconomy["change_recovery_account"], Table!ReadTransfers["change_recovery_account"])
    BY AskedIs, Fit3 DEF Table!WrittenEconomy, Table!ReadTransfers
  <1>6. IsReadAs(Table!WrittenEconomy["transfer_to_savings"], Table!ReadTransfers["transfer_to_savings"])
    BY AskedIs, Fit4 DEF Table!WrittenEconomy, Table!ReadTransfers
  <1>7. IsReadAs(Table!WrittenEconomy["transfer_from_savings"], Table!ReadTransfers["transfer_from_savings"])
    BY AskedIs, Fit5 DEF Table!WrittenEconomy, Table!ReadTransfers
  <1>8. IsReadAs(Table!WrittenEconomy["cancel_transfer_from_savings"], Table!ReadTransfers["cancel_transfer_from_savings"])
    BY AskedIs, Fit2 DEF Table!WrittenEconomy, Table!ReadTransfers
  <1>9. IsReadAs(Table!WrittenEconomy["decline_voting_rights"], Table!ReadTransfers["decline_voting_rights"])
    BY AskedIs, Fit2 DEF Table!WrittenEconomy, Table!ReadTransfers
  <1>10. IsReadAs(Table!WrittenEconomy["claim_reward_balance"], Table!ReadTransfers["claim_reward_balance"])
    BY AskedIs, Fit4 DEF Table!WrittenEconomy, Table!ReadTransfers
  <1>11. IsReadAs(Table!WrittenEconomy["delegate_vesting_shares"], Table!ReadTransfers["delegate_vesting_shares"])
    BY AskedIs, Fit3 DEF Table!WrittenEconomy, Table!ReadTransfers
  <1>12. IsReadAs(Table!WrittenEconomy["account_update2"], Table!ReadTransfers["account_update2"])
    BY AskedIs, Fit8, SMTT(240) DEF Table!WrittenEconomy, Table!ReadTransfers
  <1>13. IsReadAs(Table!WrittenEconomy["create_proposal"], Table!ReadEconomy["create_proposal"])
    BY AskedIs, Fit8, SMTT(90) DEF Table!WrittenEconomy, Table!ReadEconomy
  <1>14. IsReadAs(Table!WrittenEconomy["update_proposal_votes"], Table!ReadEconomy["update_proposal_votes"])
    BY AskedIs, Fit4 DEF Table!WrittenEconomy, Table!ReadEconomy
  <1>15. IsReadAs(Table!WrittenEconomy["remove_proposal"], Table!ReadEconomy["remove_proposal"])
    BY AskedIs, Fit3 DEF Table!WrittenEconomy, Table!ReadEconomy
  <1>16. IsReadAs(Table!WrittenEconomy["update_proposal"], Table!ReadEconomy["update_proposal"])
    BY AskedIs, Fit6 DEF Table!WrittenEconomy, Table!ReadEconomy
  <1>17. IsReadAs(Table!WrittenEconomy["collateralized_convert"], Table!ReadEconomy["collateralized_convert"])
    BY AskedIs, Fit3 DEF Table!WrittenEconomy, Table!ReadEconomy
  <1>18. IsReadAs(Table!WrittenEconomy["recurrent_transfer"], Table!ReadEconomy["recurrent_transfer"])
    BY AskedIs, Fit7, SMTT(60), ZenonT(60) DEF Table!WrittenEconomy, Table!ReadEconomy
  <1> HIDE DEF IsReadAs
  <1>19. \A o \in {"set_withdraw_vesting_route", "limit_order_create2", "claim_account",
  "create_claimed_account", "change_recovery_account", "transfer_to_savings",
  "transfer_from_savings", "cancel_transfer_from_savings", "decline_voting_rights",
  "claim_reward_balance", "delegate_vesting_shares", "account_update2"} : o \in DOMAIN
  Table!ReadTransfers
    BY DEF Table!ReadTransfers
  <1>20. \A o \in {"create_proposal", "update_proposal_votes", "remove_proposal",
  "update_proposal", "collateralized_convert", "recurrent_transfer"} : o \in DOMAIN
  Table!ReadEconomy
    BY DEF Table!ReadEconomy
  <1>21. DOMAIN Table!WrittenEconomy =
        {"set_withdraw_vesting_route", "limit_order_create2", "claim_account",
        "create_claimed_account", "change_recovery_account", "transfer_to_savings",
        "transfer_from_savings", "cancel_transfer_from_savings", "decline_voting_rights",
        "claim_reward_balance", "delegate_vesting_shares", "account_update2", "create_proposal",
        "update_proposal_votes", "remove_proposal", "update_proposal", "collateralized_convert",
        "recurrent_transfer"}
    BY DEF Table!WrittenEconomy
  <1> QED BY <1>1, <1>2, <1>3, <1>4, <1>5, <1>6, <1>7, <1>8, <1>9, <1>10, <1>11, <1>12, <1>13,
  <1>14, <1>15, <1>16, <1>17, <1>18, <1>19, <1>20, <1>21, ReadParts

(* Every operation a caller can build is written and read by one layout. *)
LEMMA LayoutsFit ==
    ASSUME NEW op \in DOMAIN Table!Declared
    PROVE  /\ op \in DOMAIN Table!Read /\ Table!Declared[op] = Table!Read[op]
           /\ IsReadAs(Table!Written[op], Table!Read[op])
  <1>1. op \in DOMAIN Table!Read /\ Table!Read[op] = Table!Declared[op]
    BY DeclaredIsRead
  <1>2. op \in DOMAIN Table!Written
    <2>1. op \in DOMAIN Table!ReadAccounts => op \in DOMAIN Table!Written
      BY WrittenParts DEF Table!ReadAccounts, Table!WrittenAccounts, Table!WrittenTransfers
    <2>2. op \in DOMAIN Table!ReadTransfers => op \in DOMAIN Table!Written
      BY WrittenParts DEF Table!ReadTransfers, Table!WrittenTransfers, Table!WrittenEconomy
    <2>3. op \in DOMAIN Table!ReadEconomy => op \in DOMAIN Table!Written
      BY WrittenParts DEF Table!ReadEconomy, Table!WrittenEconomy
    <2> QED BY <1>1, <2>1, <2>2, <2>3, ReadParts
  <1> QED BY <1>1, <1>2, WrittenParts, WrittenAccountsFit, WrittenTransfersFit, WrittenEconomyFit

-----------------------------------------------------------------------------
(* What hived has of a value once it has its bytes. *)
Kept(net, kind, v) ==
    CASE kind = "str"    -> hived_transport_form(v)
      [] kind = "amount" -> AmountOn(net, v)
      [] kind = "price"  -> <<AmountOn(net, v[1]), AmountOn(net, v[2])>>
      [] kind = "props"  -> <<AmountOn(net, v[1]), v[2], v[3]>>
      [] kind = "auth"   -> CarriedAuthority(v)
      [] kind \in {"auths", "optauth"} -> [i \in DOMAIN v |-> CarriedAuthority(v[i])]
      [] kind = "coext"  -> [i \in DOMAIN v |-> Carried(v[i])]
      [] kind = "accounts"    -> CarriedNames(v)
      [] kind = "ids"         -> Sorted(v, ProposalOrder)
      [] kind = "sortedprops" -> Carried(v)
      [] OTHER -> v

(* Kept, kind by kind. *)
LEMMA KeptKinds ==
    ASSUME NEW net, NEW v
    PROVE  /\ Kept(net, "str", v) = hived_transport_form(v)
           /\ Kept(net, "amount", v) = AmountOn(net, v)
           /\ Kept(net, "hex", v) = v
           /\ Kept(net, "key", v) = v
           /\ Kept(net, "noext", v) = v
           /\ Kept(net, "bool", v) = v
           /\ Kept(net, "price", v) = <<AmountOn(net, v[1]), AmountOn(net, v[2])>>
           /\ Kept(net, "props", v) = <<AmountOn(net, v[1]), v[2], v[3]>>
           /\ Kept(net, "auth", v) = CarriedAuthority(v)
           /\ Kept(net, "auths", v) = [i \in DOMAIN v |-> CarriedAuthority(v[i])]
           /\ Kept(net, "optauth", v) = [i \in DOMAIN v |-> CarriedAuthority(v[i])]
           /\ Kept(net, "coext", v) = [i \in DOMAIN v |-> Carried(v[i])]
           /\ Kept(net, "accounts", v) = CarriedNames(v)
           /\ Kept(net, "ids", v) = Sorted(v, ProposalOrder)
           /\ Kept(net, "sortedprops", v) = Carried(v)
           /\ Kept(net, "optkey", v) = v
           /\ Kept(net, "rtext", v) = v
           /\ \A kind \in {"i16", "u16", "u32", "u64", "time", "blockid"} : Kept(net, kind, v) = v
  <1>1. Kept(net, "str", v) = hived_transport_form(v)
    BY DEF Kept
  <1>2. Kept(net, "amount", v) = AmountOn(net, v)
    BY DEF Kept
  <1>3. Kept(net, "hex", v) = v
    BY DEF Kept
  <1>4. Kept(net, "key", v) = v
    BY DEF Kept
  <1>5. Kept(net, "noext", v) = v
    BY DEF Kept
  <1>6. Kept(net, "bool", v) = v
    BY DEF Kept
  <1>7. Kept(net, "price", v) = <<AmountOn(net, v[1]), AmountOn(net, v[2])>>
    BY DEF Kept
  <1>8. Kept(net, "props", v) = <<AmountOn(net, v[1]), v[2], v[3]>>
    BY DEF Kept
  <1>9. Kept(net, "auth", v) = CarriedAuthority(v)
    BY DEF Kept
  <1>10. Kept(net, "auths", v) = [i \in DOMAIN v |-> CarriedAuthority(v[i])]
    BY DEF Kept
  <1>11. Kept(net, "optauth", v) = [i \in DOMAIN v |-> CarriedAuthority(v[i])]
    BY DEF Kept
  <1>12. Kept(net, "coext", v) = [i \in DOMAIN v |-> Carried(v[i])]
    BY DEF Kept
  <1>13. Kept(net, "accounts", v) = CarriedNames(v)
    BY DEF Kept
  <1>14. Kept(net, "ids", v) = Sorted(v, ProposalOrder)
    BY DEF Kept
  <1>15. Kept(net, "sortedprops", v) = Carried(v)
    BY DEF Kept
  <1>16. Kept(net, "optkey", v) = v
    BY DEF Kept
  <1>17. Kept(net, "rtext", v) = v
    BY DEF Kept
  <1>18. \A kind \in {"i16", "u16", "u32", "u64", "time", "blockid"} : Kept(net, kind, v) = v
    BY DEF Kept
  <1> QED BY <1>1, <1>2, <1>3, <1>4, <1>5, <1>6, <1>7, <1>8, <1>9, <1>10, <1>11, <1>12, <1>13, <1>14, <1>15, <1>16, <1>17, <1>18

(* A value of any kind is read back as what hived has of it. *)
LEMMA KindBack ==
    ASSUME NEW net \in DOMAIN Assets, NEW kind \in WireKinds, NEW v \in Values(net, kind)
    PROVE  KindKept(net, kind, ReadAs(kind), v, Kept(net, kind, v))
  <1>1. CASE kind = "str"
    <2>1. ReadAs("str") = "str"
      BY DEF ReadAs
    <2>2. Kept(net, "str", v) = hived_transport_form(v)
      BY KeptKinds
    <2>3. KindKept(net, "str", "str", v, hived_transport_form(v))
      BY <1>1, PlainKept
    <2> QED BY ONLY <1>1, <2>1, <2>2, <2>3
  <1>2. CASE kind = "amount"
    <2>1. ReadAs("amount") = "amount"
      BY DEF ReadAs
    <2>2. Kept(net, "amount", v) = AmountOn(net, v)
      BY KeptKinds
    <2>3. KindKept(net, "amount", "amount", v, AmountOn(net, v))
      BY <1>2, PlainKept
    <2> QED BY ONLY <1>2, <2>1, <2>2, <2>3
  <1>3. CASE kind = "hex"
    <2>1. ReadAs("hex") = "hex"
      BY DEF ReadAs
    <2>2. Kept(net, "hex", v) = v
      BY KeptKinds
    <2>3. KindKept(net, "hex", "hex", v, v)
      BY <1>3, PlainKept
    <2> QED BY ONLY <1>3, <2>1, <2>2, <2>3
  <1>4. CASE kind = "key"
    <2>1. ReadAs("key") = "key"
      BY DEF ReadAs
    <2>2. Kept(net, "key", v) = v
      BY KeptKinds
    <2>3. KindKept(net, "key", "key", v, v)
      BY <1>4, PlainKept
    <2> QED BY ONLY <1>4, <2>1, <2>2, <2>3
  <1>5. CASE kind = "noext"
    <2>1. ReadAs("noext") = "noext"
      BY DEF ReadAs
    <2>2. Kept(net, "noext", v) = v
      BY KeptKinds
    <2>3. KindKept(net, "noext", "noext", v, v)
      BY <1>5, PlainKept
    <2> QED BY ONLY <1>5, <2>1, <2>2, <2>3
  <1>6. CASE kind = "bool"
    <2>1. ReadAs("bool") = "bool"
      BY DEF ReadAs
    <2>2. Kept(net, "bool", v) = v
      BY KeptKinds
    <2>3. KindKept(net, "bool", "bool", v, v)
      BY <1>6, BoolKept
    <2> QED BY ONLY <1>6, <2>1, <2>2, <2>3
  <1>7. CASE kind = "price"
    <2>1. ReadAs("price") = "price"
      BY DEF ReadAs
    <2>2. Kept(net, "price", v) = <<AmountOn(net, v[1]), AmountOn(net, v[2])>>
      BY KeptKinds
    <2>3. KindKept(net, "price", "price", v, <<AmountOn(net, v[1]), AmountOn(net, v[2])>>)
      BY <1>7, PriceKept
    <2> QED BY ONLY <1>7, <2>1, <2>2, <2>3
  <1>8. CASE kind = "props"
    <2>1. ReadAs("props") = "props"
      BY DEF ReadAs
    <2>2. Kept(net, "props", v) = <<AmountOn(net, v[1]), v[2], v[3]>>
      BY KeptKinds
    <2>3. KindKept(net, "props", "props", v, <<AmountOn(net, v[1]), v[2], v[3]>>)
      BY <1>8, PropsKept
    <2> QED BY ONLY <1>8, <2>1, <2>2, <2>3
  <1>9. CASE kind = "auth"
    <2>1. ReadAs("auth") = "auth"
      BY DEF ReadAs
    <2>2. Kept(net, "auth", v) = CarriedAuthority(v)
      BY KeptKinds
    <2>3. KindKept(net, "auth", "auth", v, CarriedAuthority(v))
      BY <1>9, AuthorityBytes
    <2> QED BY ONLY <1>9, <2>1, <2>2, <2>3
  <1>10. CASE kind = "auths"
    <2>1. ReadAs("auths") = "auths"
      BY DEF ReadAs
    <2>2. Kept(net, "auths", v) = [i \in DOMAIN v |-> CarriedAuthority(v[i])]
      BY KeptKinds
    <2>3. KindKept(net, "auths", "auths", v, [i \in DOMAIN v |-> CarriedAuthority(v[i])])
      BY <1>10, AuthoritiesKept
    <2> QED BY ONLY <1>10, <2>1, <2>2, <2>3
  <1>11. CASE kind = "optauth"
    <2>1. ReadAs("optauth") = "optauth"
      BY DEF ReadAs
    <2>2. Kept(net, "optauth", v) = [i \in DOMAIN v |-> CarriedAuthority(v[i])]
      BY KeptKinds
    <2>3. KindKept(net, "optauth", "optauth", v, [i \in DOMAIN v |-> CarriedAuthority(v[i])])
      BY <1>11, OptAuthorityKept
    <2> QED BY ONLY <1>11, <2>1, <2>2, <2>3
  <1>12. CASE kind = "coext"
    <2>1. ReadAs("coext") = "coext"
      BY DEF ReadAs
    <2>2. Kept(net, "coext", v) = [i \in DOMAIN v |-> Carried(v[i])]
      BY KeptKinds
    <2>3. KindKept(net, "coext", "coext", v, [i \in DOMAIN v |-> Carried(v[i])])
      BY <1>12, BeneficiariesKept
    <2> QED BY ONLY <1>12, <2>1, <2>2, <2>3
  <1>13. CASE kind = "accounts"
    <2>1. ReadAs("accounts") = "strs"
      BY DEF ReadAs
    <2>2. Kept(net, "accounts", v) = CarriedNames(v)
      BY KeptKinds
    <2>3. KindKept(net, "accounts", "strs", v, CarriedNames(v))
      BY <1>13, NamesKept
    <2> QED BY ONLY <1>13, <2>1, <2>2, <2>3
  <1>14. CASE kind = "ids"
    <2>1. ReadAs("ids") = "u64s"
      BY DEF ReadAs
    <2>2. Kept(net, "ids", v) = Sorted(v, ProposalOrder)
      BY KeptKinds
    <2>3. KindKept(net, "ids", "u64s", v, Sorted(v, ProposalOrder))
      BY <1>14, IdsKept
    <2> QED BY ONLY <1>14, <2>1, <2>2, <2>3
  <1>15. CASE kind = "sortedprops"
    <2>1. ReadAs("sortedprops") = "wprops"
      BY DEF ReadAs
    <2>2. Kept(net, "sortedprops", v) = Carried(v)
      BY KeptKinds
    <2>3. KindKept(net, "sortedprops", "wprops", v, Carried(v))
      BY <1>15, PropertiesKept
    <2> QED BY ONLY <1>15, <2>1, <2>2, <2>3
  <1>16. CASE kind = "optkey"
    <2>1. ReadAs("optkey") = "optkey"
      BY DEF ReadAs
    <2>2. v = [i \in DOMAIN v |-> v[i]]
      <3>1. v \in Seq(KeyBytes)
        BY <1>16, ValuesAre DEF Optional
      <3> QED BY ONLY <3>1
    <2>3. KindKept(net, "optkey", "optkey", v, [i \in DOMAIN v |-> v[i]])
      BY <1>16, OptKeyKept
    <2>4. KindKept(net, "optkey", "optkey", v, v)
      BY ONLY <2>2, <2>3
    <2>5. Kept(net, "optkey", v) = v
      BY KeptKinds
    <2> QED BY ONLY <1>16, <2>1, <2>4, <2>5
  <1>17. CASE kind = "rtext"
    <2>1. ReadAs("rtext") = "rtext"
      BY DEF ReadAs
    <2>2. v = [i \in DOMAIN v |-> v[i]]
      <3>1. v \in Seq(Fixed(1))
        BY <1>17, ValuesAre DEF Lists
      <3> QED BY ONLY <3>1
    <2>3. KindKept(net, "rtext", "rtext", v, [i \in DOMAIN v |-> v[i]])
      BY <1>17, PairIdsKept
    <2>4. KindKept(net, "rtext", "rtext", v, v)
      BY ONLY <2>2, <2>3
    <2>5. Kept(net, "rtext", v) = v
      BY KeptKinds
    <2> QED BY ONLY <1>17, <2>1, <2>4, <2>5
  <1>18. CASE kind \in {"i16", "u16", "u32", "u64", "time", "blockid"}
    <2>1. ReadAs(kind) = kind
      BY <1>18 DEF ReadAs
    <2>2. Kept(net, kind, v) = v
      BY <1>18, KeptKinds
    <2>3. kind \in DOMAIN Width \ {"bool"}
      BY <1>18, WidthIs
    <2>4. KindKept(net, kind, kind, v, v)
      BY <2>3, FixedKept
    <2> QED BY ONLY <2>1, <2>2, <2>4
  <1> QED BY <1>1, <1>2, <1>3, <1>4, <1>5, <1>6, <1>7, <1>8, <1>9, <1>10, <1>11, <1>12, <1>13, <1>14, <1>15, <1>16, <1>17, <1>18 DEF WireKinds

(* The JSON of a field is read as what is written to the same bytes. *)
LEMMA KindJson ==
    ASSUME NEW net \in DOMAIN Assets, NEW kind \in WireKinds, NEW v \in Values(net, kind)
    PROVE  JsonKept(net, ReadAs(kind), kind, v)
  <1>1. CASE kind \in {"i16", "u16", "u32", "u64", "str", "bool", "rtext", "accounts", "ids"}
    <2>1. ReadAs(kind) \in AsIs
      BY <1>1 DEF ReadAs, AsIs
    <2> QED BY <2>1, AsIsKept
  <1>2. CASE kind = "amount"
    <2>1. ReadAs("amount") = "amount"
      BY DEF ReadAs
    <2>2. JsonKept(net, "amount", "amount", v)
      BY <1>2, AmountJson
    <2> QED BY ONLY <1>2, <2>1, <2>2
  <1>3. CASE kind = "time"
    <2>1. ReadAs("time") = "time"
      BY DEF ReadAs
    <2>2. JsonKept(net, "time", "time", v)
      BY <1>3, PlainJson
    <2> QED BY ONLY <1>3, <2>1, <2>2
  <1>4. CASE kind = "hex"
    <2>1. ReadAs("hex") = "hex"
      BY DEF ReadAs
    <2>2. JsonKept(net, "hex", "hex", v)
      BY <1>4, PlainJson
    <2> QED BY ONLY <1>4, <2>1, <2>2
  <1>5. CASE kind = "blockid"
    <2>1. ReadAs("blockid") = "blockid"
      BY DEF ReadAs
    <2>2. JsonKept(net, "blockid", "blockid", v)
      BY <1>5, PlainJson
    <2> QED BY ONLY <1>5, <2>1, <2>2
  <1>6. CASE kind = "key"
    <2>1. ReadAs("key") = "key"
      BY DEF ReadAs
    <2>2. JsonKept(net, "key", "key", v)
      BY <1>6, PlainJson
    <2> QED BY ONLY <1>6, <2>1, <2>2
  <1>7. CASE kind = "auth"
    <2>1. ReadAs("auth") = "auth"
      BY DEF ReadAs
    <2>2. JsonKept(net, "auth", "auth", v)
      BY <1>7, PlainJson
    <2> QED BY ONLY <1>7, <2>1, <2>2
  <1>8. CASE kind = "noext"
    <2>1. ReadAs("noext") = "noext"
      BY DEF ReadAs
    <2>2. JsonKept(net, "noext", "noext", v)
      BY <1>8, PlainJson
    <2> QED BY ONLY <1>8, <2>1, <2>2
  <1>9. CASE kind = "coext"
    <2>1. ReadAs("coext") = "coext"
      BY DEF ReadAs
    <2>2. JsonKept(net, "coext", "coext", v)
      BY <1>9, CoextJson
    <2> QED BY ONLY <1>9, <2>1, <2>2
  <1>10. CASE kind = "props"
    <2>1. ReadAs("props") = "props"
      BY DEF ReadAs
    <2>2. JsonKept(net, "props", "props", v)
      BY <1>10, PropsJson
    <2> QED BY ONLY <1>10, <2>1, <2>2
  <1>11. CASE kind = "price"
    <2>1. ReadAs("price") = "price"
      BY DEF ReadAs
    <2>2. JsonKept(net, "price", "price", v)
      BY <1>11, PriceJson
    <2> QED BY ONLY <1>11, <2>1, <2>2
  <1>12. CASE kind = "auths"
    <2>1. ReadAs("auths") = "auths"
      BY DEF ReadAs
    <2>2. JsonKept(net, "auths", "auths", v)
      BY <1>12, AuthsJson
    <2> QED BY ONLY <1>12, <2>1, <2>2
  <1>13. CASE kind = "optauth"
    <2>1. ReadAs("optauth") = "optauth"
      BY DEF ReadAs
    <2>2. JsonKept(net, "optauth", "optauth", v)
      BY <1>13, OptauthJson
    <2> QED BY ONLY <1>13, <2>1, <2>2
  <1>14. CASE kind = "optkey"
    <2>1. ReadAs("optkey") = "optkey"
      BY DEF ReadAs
    <2>2. JsonKept(net, "optkey", "optkey", v)
      BY <1>14, OptkeyJson
    <2> QED BY ONLY <1>14, <2>1, <2>2
  <1>15. CASE kind = "sortedprops"
    <2>1. ReadAs("sortedprops") = "wprops"
      BY DEF ReadAs
    <2>2. JsonKept(net, "wprops", "sortedprops", v)
      BY <1>15, WpropsJson
    <2> QED BY ONLY <1>15, <2>1, <2>2
  <1> QED BY <1>1, <1>2, <1>3, <1>4, <1>5, <1>6, <1>7, <1>8, <1>9, <1>10, <1>11, <1>12, <1>13, <1>14, <1>15 DEF WireKinds

-----------------------------------------------------------------------------
(* No id from FIRST_VIRTUAL_OP on is that of an operation struct. *)
LEMMA DeclaredOps ==
    ASSUME NEW i \in 51 .. 93
    PROVE  Table!OperationId[i] \notin DOMAIN Table!Declared
  <1>1. Table!OperationId[i] \notin DOMAIN Table!DeclaredBasic
    BY DEF Table!OperationId, Table!DeclaredBasic
  <1>2. Table!OperationId[i] \notin DOMAIN Table!DeclaredEconomy
    BY DEF Table!OperationId, Table!DeclaredEconomy
  <1>3. Table!OperationId[i] \notin DOMAIN Table!DeclaredProposals
    BY DEF Table!OperationId, Table!DeclaredProposals
  <1>4. Table!OperationId[i] \notin DOMAIN Table!DeclaredAccounts
    BY DEF Table!OperationId, Table!DeclaredAccounts
  <1>5. Table!OperationId[i] \notin DOMAIN Table!DeclaredRetired
    BY DEF Table!OperationId, Table!DeclaredRetired
  <1> QED BY <1>1, <1>2, <1>3, <1>4, <1>5 DEF Table!Declared, Table!Together

(* No id below FIRST_VIRTUAL_OP is that of a virtual payload. *)
LEMMA EmittedOps ==
    ASSUME NEW i \in 1 .. 50
    PROVE  Table!OperationId[i] \notin DOMAIN Table!Emitted
  <1>1. Table!OperationId[i] \notin DOMAIN Table!EmittedRewards
    BY DEF Table!OperationId, Table!EmittedRewards
  <1>2. Table!OperationId[i] \notin DOMAIN Table!EmittedTreasury
    BY DEF Table!OperationId, Table!EmittedTreasury
  <1>3. Table!OperationId[i] \notin DOMAIN Table!EmittedHf25
    BY DEF Table!OperationId, Table!EmittedHf25
  <1> QED BY <1>1, <1>2, <1>3 DEF Table!Emitted, Table!Together

(* Every operation struct has an id. *)
LEMMA DeclaredKnown ==
    ASSUME NEW op \in DOMAIN Table!Declared
    PROVE  \E i \in 1 .. 93 : Table!OperationId[i] = op
  <1>1. CASE op \in DOMAIN Table!DeclaredBasic
    BY <1>1 DEF Table!OperationId, Table!DeclaredBasic
  <1>2. CASE op \in DOMAIN Table!DeclaredEconomy
    BY <1>2 DEF Table!OperationId, Table!DeclaredEconomy
  <1>3. CASE op \in DOMAIN Table!DeclaredProposals
    BY <1>3 DEF Table!OperationId, Table!DeclaredProposals
  <1>4. CASE op \in DOMAIN Table!DeclaredAccounts
    BY <1>4 DEF Table!OperationId, Table!DeclaredAccounts
  <1>5. CASE op \in DOMAIN Table!DeclaredRetired
    BY <1>5 DEF Table!OperationId, Table!DeclaredRetired
  <1> QED BY <1>1, <1>2, <1>3, <1>4, <1>5 DEF Table!Declared, Table!Together

(* The fields of a virtual payload are numbered from one on. *)
LEMMA LayoutsAre ==
    ASSUME NEW op \in DOMAIN Table!Emitted
    PROVE  \E n \in Nat : DOMAIN Table!Emitted[op] = 1 .. n
  <1>1. \A o \in DOMAIN Table!EmittedRewards :
          \E n \in {1, 2, 3, 4, 5, 6, 7, 8} : DOMAIN Table!EmittedRewards[o] = 1 .. n
    BY SMTT(60), ZenonT(60) DEF Table!EmittedRewards
  <1>2. \A o \in DOMAIN Table!EmittedTreasury :
          \E n \in {1, 2, 3, 4, 5, 6, 7, 8} : DOMAIN Table!EmittedTreasury[o] = 1 .. n
    BY SMTT(60), ZenonT(60) DEF Table!EmittedTreasury
  <1>3. \A o \in DOMAIN Table!EmittedHf25 :
          \E n \in {1, 2, 3, 4, 5, 6, 7, 8} : DOMAIN Table!EmittedHf25[o] = 1 .. n
    BY DEF Table!EmittedHf25
  <1> DEFINE parts == {Table!EmittedRewards, Table!EmittedTreasury, Table!EmittedHf25}
             part == CHOOSE p \in parts : op \in DOMAIN p
  <1>4. part \in parts /\ op \in DOMAIN part
    BY DEF Table!Emitted, Table!Together
  <1>5. Table!Emitted[op] = part[op]
    BY DEF Table!Emitted, Table!Together
  <1> HIDE DEF part
  <1>6. \E n \in {1, 2, 3, 4, 5, 6, 7, 8} : DOMAIN part[op] = 1 .. n
    BY <1>1, <1>2, <1>3, <1>4
  <1> QED BY <1>5, <1>6

(* Every virtual payload has an id and a name, and is not the one alias. *)
LEMMA EmittedNamed ==
    ASSUME NEW op \in DOMAIN Table!Emitted
    PROVE  /\ \E i \in 1 .. 93 : Table!OperationId[i] = op
           /\ \E i \in DOMAIN Table!NAMES : Table!NAMES[i] = op
           /\ op # "recurring_transfer"
           /\ \E n \in Nat : DOMAIN Table!Emitted[op] = 1 .. n
  <1>1. CASE op \in DOMAIN Table!EmittedRewards
    <2>1. \E i \in 1 .. 93 : Table!OperationId[i] = op
      BY <1>1 DEF Table!OperationId, Table!EmittedRewards
    <2>2. \E i \in DOMAIN Table!NAMES : Table!NAMES[i] = op
      BY <1>1 DEF Table!NAMES, Table!EmittedRewards
    <2>3. op # "recurring_transfer"
      BY <1>1 DEF Table!EmittedRewards
    <2> QED BY <2>1, <2>2, <2>3, LayoutsAre
  <1>2. CASE op \in DOMAIN Table!EmittedTreasury
    <2>1. \E i \in 1 .. 93 : Table!OperationId[i] = op
      BY <1>2 DEF Table!OperationId, Table!EmittedTreasury
    <2>2. \E i \in DOMAIN Table!NAMES : Table!NAMES[i] = op
      BY <1>2 DEF Table!NAMES, Table!EmittedTreasury
    <2>3. op # "recurring_transfer"
      BY <1>2 DEF Table!EmittedTreasury
    <2> QED BY <2>1, <2>2, <2>3, LayoutsAre
  <1>3. CASE op \in DOMAIN Table!EmittedHf25
    <2>1. \E i \in 1 .. 93 : Table!OperationId[i] = op
      BY <1>3 DEF Table!OperationId, Table!EmittedHf25
    <2>2. \E i \in DOMAIN Table!NAMES : Table!NAMES[i] = op
      BY <1>3 DEF Table!NAMES, Table!EmittedHf25
    <2>3. op # "recurring_transfer"
      BY <1>3 DEF Table!EmittedHf25
    <2> QED BY <2>1, <2>2, <2>3, LayoutsAre
  <1> QED BY <1>1, <1>2, <1>3 DEF Table!Emitted, Table!Together

(* What can be read from bytes is declared. *)
LEMMA ReadDeclared ==
    ASSUME NEW op \in DOMAIN Table!Read
    PROVE  op \in DOMAIN Table!Declared
  <1> DEFINE Parts == DOMAIN Table!DeclaredBasic \cup DOMAIN Table!DeclaredEconomy
                 \cup DOMAIN Table!DeclaredProposals \cup DOMAIN Table!DeclaredAccounts
                 \cup DOMAIN Table!DeclaredRetired
  <1>1. DOMAIN Table!Declared = Parts
    BY DEF Table!Declared, Table!Together
  <1>2. \A x \in DOMAIN Table!ReadAccounts : x \in Parts
    BY DEF Table!ReadAccounts, Table!DeclaredBasic, Table!DeclaredEconomy,
         Table!DeclaredProposals, Table!DeclaredAccounts, Table!DeclaredRetired
  <1>3. \A x \in DOMAIN Table!ReadTransfers : x \in Parts
    BY DEF Table!ReadTransfers, Table!DeclaredBasic, Table!DeclaredEconomy,
         Table!DeclaredProposals, Table!DeclaredAccounts, Table!DeclaredRetired
  <1>4. \A x \in DOMAIN Table!ReadEconomy : x \in Parts
    BY DEF Table!ReadEconomy, Table!DeclaredBasic, Table!DeclaredEconomy,
         Table!DeclaredProposals, Table!DeclaredAccounts, Table!DeclaredRetired
  <1> HIDE DEF Parts
  <1> QED BY <1>1, <1>2, <1>3, <1>4 DEF Table!Read, Table!Together

(* An operation a caller can build is not virtual, by its id. *)
LEMMA DeclaredNotVirtual ==
    ASSUME NEW op \in DOMAIN Table!Declared
    PROVE  ~Table!is_virtual(op)
  <1> DEFINE n == Table!as_u32(op)
  <1>1. PICK i \in 1 .. 93 : Table!OperationId[i] = op
    BY DeclaredKnown
  <1>2. i - 1 \in 0 .. 92 /\ Table!OperationId[(i - 1) + 1] = op
    BY <1>1
  <1>3. n \in 0 .. 92 /\ Table!OperationId[n + 1] = op
    BY <1>2 DEF Table!as_u32, Table!LAST_OP
  <1>4. ~(n + 1 \in 51 .. 93)
    BY <1>3, DeclaredOps
  <1> HIDE DEF n
  <1>5. ~(n >= 50)
    BY <1>3, <1>4
  <1> QED BY <1>5 DEF n, Table!is_virtual, Table!FIRST_VIRTUAL_OP

(* What the chain emits is. *)
LEMMA EmittedVirtual ==
    ASSUME NEW op \in DOMAIN Table!Emitted
    PROVE  Table!is_virtual(op)
  <1> DEFINE n == Table!as_u32(op)
  <1>1. PICK i \in 1 .. 93 : Table!OperationId[i] = op
    BY EmittedNamed
  <1>2. i - 1 \in 0 .. 92 /\ Table!OperationId[(i - 1) + 1] = op
    BY <1>1
  <1>3. n \in 0 .. 92 /\ Table!OperationId[n + 1] = op
    BY <1>2 DEF Table!as_u32, Table!LAST_OP
  <1>4. ~(n + 1 \in 1 .. 50)
    BY <1>3, EmittedOps
  <1> HIDE DEF n
  <1>5. n >= 50
    BY <1>3, <1>4
  <1> QED BY <1>5 DEF n, Table!is_virtual, Table!FIRST_VIRTUAL_OP

(* Every id has its own name, and a name finds its operation again. *)
LEMMA NamesAreIds ==
    ASSUME NEW i \in 1 .. 93, NEW op, Table!OperationId[i] = op
    PROVE  Table!name(op) = op /\ Table!from_name(op) = {op}
  <1> DEFINE n == Table!as_u32(op)
  <1>1. Table!NAMES = Table!OperationId
    BY DEF Table!NAMES, Table!OperationId
  <1>2. DOMAIN Table!OperationId = 1 .. 93
    BY DEF Table!OperationId
  <1>3. op # "recurring_transfer"
    BY DEF Table!OperationId
  <1>4. i - 1 \in 0 .. 92 /\ Table!OperationId[(i - 1) + 1] = op
    OBVIOUS
  <1>5. Table!OperationId[n + 1] = op
    BY <1>4 DEF Table!as_u32, Table!LAST_OP
  <1> HIDE DEF n
  <1>6. Table!name(op) = op
    BY <1>1, <1>5 DEF n, Table!name
  <1>7. Table!from_name(op) = {op}
    BY <1>1, <1>2, <1>3 DEF Table!from_name
  <1> QED BY <1>6, <1>7

(* The fields of an operation struct are numbered from one on. *)
LEMMA StructsAre ==
    ASSUME NEW op \in DOMAIN Table!Declared
    PROVE  \E n \in Nat : DOMAIN Table!Declared[op] = 1 .. n
  <1>1. IsReadAs(Table!Written[op], Table!Declared[op])
    BY LayoutsFit
  <1> QED BY <1>1 DEF IsReadAs

(* The id of an operation is its place, and the operation is found by it. *)
LEMMA TagsAre ==
    ASSUME NEW op \in DOMAIN Table!Declared
    PROVE  /\ Table!as_u32(op) \in 0 .. 92 /\ Table!from_u32(Table!as_u32(op)) = {op}
           /\ Table!name(op) = op /\ Table!from_name(op) = {op}
  <1> DEFINE n == Table!as_u32(op)
  <1>1. PICK i \in 1 .. 93 : Table!OperationId[i] = op
    BY DeclaredKnown
  <1>2. i - 1 \in 0 .. 92 /\ Table!OperationId[(i - 1) + 1] = op
    BY <1>1
  <1>3. n \in 0 .. 92 /\ Table!OperationId[n + 1] = op
    BY <1>2 DEF Table!as_u32, Table!LAST_OP
  <1>4. Table!NAMES = Table!OperationId
    BY DEF Table!NAMES, Table!OperationId
  <1>5. DOMAIN Table!OperationId = 1 .. 93
    BY DEF Table!OperationId
  <1> HIDE DEF n
  <1>6. Table!from_u32(n) = {op}
    <2>1. {n + 1} \cap DOMAIN Table!NAMES = {n + 1}
      <3>1. n + 1 \in 1 .. 93
        BY <1>3
      <3>2. n + 1 \in DOMAIN Table!NAMES
        BY <1>4, <1>5, <3>1
      <3> QED BY ONLY <3>2
    <2> QED BY <1>3, <1>4, <2>1 DEF Table!from_u32
  <1>7. Table!name(op) = op /\ Table!from_name(op) = {op}
    BY <1>1, NamesAreIds
  <1>8. Table!as_u32(op) \in 0 .. 92 /\ Table!from_u32(Table!as_u32(op)) = {op}
    BY <1>3, <1>6 DEF n
  <1> QED BY <1>7, <1>8

(* No field of a virtual payload is an optional of hived's. *)
IsOptional(f) == f[2] \in {"optauth", "optkey"}

(* Of the kinds of fields that the chain emits none is optional. *)
LEMMA KindsOfEmitted ==
    \A f : /\ ~IsOptional(Table!str(f)) /\ ~IsOptional(Table!strs(f)) /\ ~IsOptional(Table!bool(f))
           /\ ~IsOptional(Table!u8(f)) /\ ~IsOptional(Table!u16(f)) /\ ~IsOptional(Table!u32(f))
           /\ ~IsOptional(Table!u64(f)) /\ ~IsOptional(Table!i64(f)) /\ ~IsOptional(Table!amount(f))
           /\ ~IsOptional(Table!amounts(f)) /\ ~IsOptional(Table!rtext(f))
  BY DEF IsOptional, Table!str, Table!strs, Table!bool, Table!u8, Table!u16, Table!u32,
         Table!u64, Table!i64, Table!amount, Table!amounts, Table!rtext

(* No field that the chain emits is optional. *)
LEMMA EmittedRequired ==
    ASSUME NEW op \in DOMAIN Table!Emitted, NEW i \in DOMAIN Table!Emitted[op]
    PROVE  ~IsOptional(Table!Emitted[op][i])
  <1>1. ASSUME NEW o \in DOMAIN Table!EmittedRewards, NEW x \in DOMAIN Table!EmittedRewards[o]
        PROVE  ~IsOptional(Table!EmittedRewards[o][x])
    BY SMT, KindsOfEmitted DEF Table!EmittedRewards
  <1>2. ASSUME NEW o \in DOMAIN Table!EmittedTreasury, NEW x \in DOMAIN Table!EmittedTreasury[o]
        PROVE  ~IsOptional(Table!EmittedTreasury[o][x])
    BY SMT, KindsOfEmitted DEF Table!EmittedTreasury
  <1>3. ASSUME NEW o \in DOMAIN Table!EmittedHf25, NEW x \in DOMAIN Table!EmittedHf25[o]
        PROVE  ~IsOptional(Table!EmittedHf25[o][x])
    BY SMT, KindsOfEmitted DEF Table!EmittedHf25
  <1> DEFINE parts == {Table!EmittedRewards, Table!EmittedTreasury, Table!EmittedHf25}
             part == CHOOSE p \in parts : op \in DOMAIN p
  <1>4. part \in parts /\ op \in DOMAIN part
    BY DEF Table!Emitted, Table!Together
  <1>5. Table!Emitted[op] = part[op]
    BY DEF Table!Emitted, Table!Together
  <1> HIDE DEF part
  <1> QED BY <1>1, <1>2, <1>3, <1>4, <1>5

-----------------------------------------------------------------------------
(* The fields of an operation, one after the other. *)
OneField(p, field, c) == ReadKind(p, field[2], c)
FieldTurns == INSTANCE InTurnProofs WITH R <- OneField

(* What the instance takes as known, from the library. *)
LEMMA FieldBasics == FieldTurns!Basics
  BY ForTurns DEF FieldTurns!Basics, FieldTurns!Least, FieldTurns!Induction, FieldTurns!Counted, FieldTurns!Cardinality, Cardinality
FieldsOf(p, layout, b) == FieldTurns!InTurnOf(p, b, layout)

(* How the fields of an operation are read. *)
LEMMA DecodedIs ==
    ASSUME NEW p, NEW op, NEW b
    PROVE  decoded(p, op, b) = LET r == FieldsOf(p, Table!Read[op], b)
                               IN  IF r.ok THEN Got(Operation(op, Named(Table!Read[op], r.val)), r.rest) ELSE Fail
  BY DEF decoded, FieldsOf, InTurn, FoldLeft, MapThenFoldSet, Then, Max, Got, Fail, FieldTurns!InTurnOf, FieldTurns!Turns, FieldTurns!TurnStep, FieldTurns!Turn, FieldTurns!Got, FieldTurns!Fail, FieldTurns!Largest, OneField

(* The bytes of the fields of a layout with the values v. *)
Wires(w, v) == [i \in DOMAIN w |-> Write(w[i][2], v[i])]

(* Fields that are each read back are read back one after the other. *)
EachKept(net, w, r, N, v, k) ==
    k = [i \in 1 .. N |-> k[i]] /\ \A i \in 1 .. N : KindKept(net, w[i][2], r[i][2], v[i], k[i])

(* Fields that are each read back are read back in turn. *)
LEMMA LayoutBack ==
    ASSUME NEW net, NEW w, NEW r, NEW N \in Nat, DOMAIN w = 1 .. N, DOMAIN r = 1 .. N, NEW v, NEW k,
           EachKept(net, w, r, N, v, k)
    PROVE  /\ FlattenSeq(Wires(w, v)) \in Seq(Nat)
           /\ \A x \in Seq(Nat) : FieldsOf(net, r, FlattenSeq(Wires(w, v)) \o x) = Got(k, x)
  <1> DEFINE W == Wires(w, v)
  <1>1. ASSUME NEW i \in 1 .. N
        PROVE  /\ W[i] \in Seq(Nat)
               /\ \A x \in Seq(Nat) : ReadKind(net, r[i][2], W[i] \o x) = Got(k[i], x)
    <2>1. W[i] = Write(w[i][2], v[i])
      BY DEF Wires
    <2>2. KindKept(net, w[i][2], r[i][2], v[i], k[i])
      BY DEF EachKept
    <2> QED BY ONLY <2>1, <2>2 DEF KindKept
  <1>2. W \in [1 .. N -> Seq(Nat)]
    <2>1. W = [i \in 1 .. N |-> W[i]]
      BY DEF Wires
    <2> HIDE DEF W
    <2> QED BY ONLY <1>1, <2>1
  <1> HIDE DEF W
  <1>3. FlattenSeq(W) \in Seq(Nat)
    BY <1>2, FlattenIsSeq
  <1>4. ASSUME NEW x \in Seq(Nat)
        PROVE  FieldsOf(net, r, FlattenSeq(W) \o x) = Got(k, x)
    <2>1. PICK t : Tails(W, N, x, t) /\ \A i \in 0 .. N : t[i] \in Seq(Nat)
      BY <1>2, FlattenTails
    <2>2. t[0] = FlattenSeq(W) \o x /\ t[N] = x /\ \A i \in 1 .. N : t[i - 1] = W[i] \o t[i]
      BY <2>1 DEF Tails
    <2>3. ASSUME NEW i \in 1 .. N PROVE OneField(net, r[i], t[i - 1]) = [ok |-> TRUE, val |-> k[i], rest |-> t[i]]
      <3>0. i \in 0 .. N
        OBVIOUS
      <3>1. t[i] \in Seq(Nat) /\ t[i - 1] = W[i] \o t[i]
        BY ONLY <2>1, <2>2, <3>0
      <3>2. ReadKind(net, r[i][2], W[i] \o t[i]) = Got(k[i], t[i])
        BY <1>1, <3>1
      <3> QED BY ONLY <3>1, <3>2 DEF OneField, Got
    <2>4. FieldTurns!Reads(net, r, N, t, k)
      BY <2>3 DEF FieldTurns!Reads
    <2>5. FieldTurns!InTurnOf(net, t[0], r) = [ok |-> TRUE, val |-> [i \in 1 .. N |-> k[i]], rest |-> t[N]]
      BY <2>4, FieldBasics, FieldTurns!InTurnFollows
    <2>6. [i \in 1 .. N |-> k[i]] = k
      BY DEF EachKept
    <2> QED BY <2>2, <2>5, <2>6 DEF FieldsOf, Got
  <1> QED BY <1>3, <1>4 DEF W

(* Fields that can be read are there, and are read whatever comes after them. *)
LEMMA LayoutSound ==
    ASSUME NEW net \in DOMAIN Assets, NEW r, NEW N \in Nat, DOMAIN r = 1 .. N, NEW b \in Seq(Nat),
           \A i \in 1 .. N : r[i][2] \in ReadKinds, FieldsOf(net, r, b).ok
    PROVE  LET g == FieldsOf(net, r, b)
           IN  /\ g = Got(g.val, g.rest) /\ g.rest \in Seq(Nat)
               /\ \A x \in Seq(Nat) : FieldsOf(net, r, b \o x) = Got(g.val, g.rest \o x)
               /\ Small(b) => \A i \in 1 .. N : g.val[i] \in Values(net, r[i][2])
  <1>1. ASSUME NEW i \in 1 .. N, NEW c \in Seq(Nat), OneField(net, r[i], c).ok
        PROVE  /\ Took(OneField(net, r[i], c), c) /\ (Small(c) => OneField(net, r[i], c).val \in Values(net, r[i][2]))
               /\ \A x \in Seq(Nat) : OneField(net, r[i], c \o x) =
                    Got(OneField(net, r[i], c).val, OneField(net, r[i], c).rest \o x)
    <2> DEFINE kind == r[i][2]
    <2>1. \A y : OneField(net, r[i], y) = ReadKind(net, kind, y)
      BY DEF OneField
    <2>2. kind \in ReadKinds /\ ReadKind(net, kind, c).ok
      BY <1>1, <2>1
    <2> HIDE DEF kind
    <2>3. KindSound(net, kind, c)
      BY <2>2, KindReadSound
    <2> QED BY ONLY <2>1, <2>3 DEF KindSound, kind
  <1>2. FieldTurns!Prefixed(net, r, N)
    <2>1. ASSUME NEW i \in 1 .. N, NEW c \in Seq(Nat), OneField(net, r[i], c).ok
          PROVE  /\ OneField(net, r[i], c).rest \in Seq(Nat) /\ Len(OneField(net, r[i], c).rest) <= Len(c)
                 /\ \A x \in Seq(Nat) : OneField(net, r[i], c \o x) =
                      [ok |-> TRUE, val |-> OneField(net, r[i], c).val, rest |-> OneField(net, r[i], c).rest \o x]
      BY <1>1, <2>1 DEF Took, Got
    <2> QED BY <2>1 DEF FieldTurns!Prefixed
  <1>3. FieldTurns!InTurnOf(net, b, r).ok
    BY DEF FieldsOf
  <1>4. PICK v, d : FieldTurns!Comes(net, b, r, N, v, d)
    BY <1>2, <1>3, FieldBasics, FieldTurns!InTurnComes
  <1>5. /\ d \in Seq(Nat) /\ FieldsOf(net, r, b) = Got(v, d)
        /\ \A x \in Seq(Nat) : FieldsOf(net, r, b \o x) = Got(v, d \o x)
        /\ \A i \in 1 .. N : \E c \in Seq(Nat) :
             Len(c) <= Len(b) /\ OneField(net, r[i], c).ok /\ v[i] = OneField(net, r[i], c).val
    BY <1>4 DEF FieldTurns!Comes, FieldsOf, Got
  <1>6. ASSUME Small(b), NEW i \in 1 .. N PROVE v[i] \in Values(net, r[i][2])
    <2>1. PICK c \in Seq(Nat) : Len(c) <= Len(b) /\ OneField(net, r[i], c).ok /\ v[i] = OneField(net, r[i], c).val
      BY <1>5
    <2>2. Small(c)
      BY <1>6, <2>1, SmallPart
    <2> QED BY <1>1, <2>1, <2>2
  <1> DEFINE g == FieldsOf(net, r, b)
  <1>7. g = Got(v, d)
    BY <1>5
  <1> HIDE DEF g
  <1>8. g.val = v /\ g.rest = d
    BY <1>7, GotIs
  <1> QED BY <1>5, <1>6, <1>7, <1>8 DEF g

-----------------------------------------------------------------------------
(* The values of a layout by their names. *)
FieldNames(layout) == {layout[i][1] : i \in DOMAIN layout}

(* Fields by name have the values they were given. *)
LEMMA NamedIs ==
    ASSUME NEW layout, NEW vals, \A i \in DOMAIN layout, j \in DOMAIN layout : layout[i][1] = layout[j][1] => i = j
    PROVE  /\ DOMAIN Named(layout, vals) = FieldNames(layout)
           /\ \A i \in DOMAIN layout : Named(layout, vals)[layout[i][1]] = vals[i]
  <1>1. ASSUME NEW i \in DOMAIN layout PROVE Named(layout, vals)[layout[i][1]] = vals[i]
    <2> DEFINE f == layout[i][1]
               j == CHOOSE x \in DOMAIN layout : layout[x][1] = f
    <2>1. j \in DOMAIN layout /\ layout[j][1] = f
      OBVIOUS
    <2>2. j = i
      <3> HIDE DEF j
      <3> QED BY <2>1
    <2>3. f \in {layout[x][1] : x \in DOMAIN layout}
      OBVIOUS
    <2>4. Named(layout, vals)[f] = vals[j]
      BY <2>3 DEF Named
    <2> QED BY <2>2, <2>4
  <1> QED BY <1>1 DEF Named, FieldNames

(* Two layouts of the same names name them alike. *)
LEMMA NamedSame ==
    ASSUME NEW w, NEW r, NEW vals, DOMAIN r = DOMAIN w, \A i \in DOMAIN w : r[i][1] = w[i][1]
    PROVE  Named(r, vals) = Named(w, vals)
  <1>1. {r[i][1] : i \in DOMAIN r} = {w[i][1] : i \in DOMAIN w}
    OBVIOUS
  <1>2. ASSUME NEW f PROVE (CHOOSE i \in DOMAIN r : r[i][1] = f) = (CHOOSE i \in DOMAIN w : w[i][1] = f)
    OBVIOUS
  <1> DEFINE S == {w[i][1] : i \in DOMAIN w}
             one(f) == vals[CHOOSE i \in DOMAIN w : w[i][1] = f]
             two(f) == vals[CHOOSE i \in DOMAIN r : r[i][1] = f]
  <1>3. Named(r, vals) = [f \in S |-> two(f)] /\ Named(w, vals) = [f \in S |-> one(f)]
    BY <1>1 DEF Named
  <1>4. \A f : one(f) = two(f)
    BY <1>2
  <1> HIDE DEF S, one, two
  <1> QED BY <1>3, <1>4

(* The bytes of an operation are its tag and those of its fields. *)
LEMMA AppendIs ==
    ASSUME NEW op, NEW fields, NEW v, \A i \in DOMAIN Table!Written[op] : fields[Table!Written[op][i][1]] = v[i]
    PROVE  append_to(Operation(op, fields)) = write_varint32(Table!as_u32(op)) \o FlattenSeq(Wires(Table!Written[op], v))
  <1> DEFINE o == Operation(op, fields)
             w == Table!Written[op]
  <1>1. o.op = op /\ o.fields = fields
    BY DEF Operation
  <1> HIDE DEF o
  <1>2. append_to(o) = write_varint32(Table!as_u32(op))
                         \o FlattenSeq([i \in DOMAIN w |-> Write(w[i][2], fields[w[i][1]])])
    BY <1>1 DEF append_to, id
  <1>3. [i \in DOMAIN w |-> Write(w[i][2], fields[w[i][1]])] = Wires(w, v)
    BY DEF Wires
  <1> QED BY <1>2, <1>3 DEF o

-----------------------------------------------------------------------------
(* The operation that hived has once it has the bytes of o. *)
Given(o) == [i \in DOMAIN Table!Written[o.op] |-> o.fields[Table!Written[o.op][i][1]]]
Taken(net, o) ==
    [i \in DOMAIN Table!Written[o.op] |-> Kept(net, Table!Written[o.op][i][2], o.fields[Table!Written[o.op][i][1]])]
KeptOperation(net, o) == Operation(o.op, Named(Table!Written[o.op], Taken(net, o)))

(* What an operation is, field by field. *)
LEMMA OperationIs ==
    ASSUME NEW net, NEW o, IsOperation(net, o)
    PROVE  LET w == Table!Written[o.op]
               r == Table!Read[o.op]
               N == Len(w)
           IN  /\ o = Operation(o.op, o.fields) /\ o.op \in DOMAIN Table!Declared /\ o.op \in DOMAIN Table!Read
               /\ Table!Declared[o.op] = r /\ N \in Nat /\ N >= 1 /\ DOMAIN w = 1 .. N /\ DOMAIN r = 1 .. N
               /\ \A i \in 1 .. N : w[i][2] \in WireKinds /\ r[i][1] = w[i][1] /\ r[i][2] = ReadAs(w[i][2])
               /\ \A i \in 1 .. N, j \in 1 .. N : w[i][1] = w[j][1] => i = j
               /\ DOMAIN o.fields = {w[i][1] : i \in 1 .. N}
               /\ \A i \in 1 .. N : o.fields[w[i][1]] \in Values(net, w[i][2])
  <1> DEFINE op == o.op
             w == Table!Written[op]
             r == Table!Read[op]
  <1>1. o = Operation(op, o.fields) /\ op \in DOMAIN Table!Declared
    BY DEF IsOperation
  <1>2. /\ DOMAIN o.fields = {w[i][1] : i \in DOMAIN w}
        /\ \A i \in DOMAIN w : o.fields[w[i][1]] \in Values(net, w[i][2])
    BY DEF IsOperation
  <1>3. op \in DOMAIN Table!Read /\ Table!Declared[op] = r /\ IsReadAs(w, r)
    BY <1>1, LayoutsFit
  <1> HIDE DEF w, r
  <1> DEFINE N == Len(w)
  <1>4. N \in Nat /\ N >= 1 /\ DOMAIN w = 1 .. N /\ DOMAIN r = 1 .. N
    BY ONLY <1>3 DEF IsReadAs
  <1>5. \A i \in DOMAIN w : w[i][2] \in WireKinds /\ r[i][1] = w[i][1] /\ r[i][2] = ReadAs(w[i][2])
    BY ONLY <1>3 DEF IsReadAs, Known, Asked
  <1>6. \A i \in DOMAIN w, j \in DOMAIN w : w[i][1] = w[j][1] => i = j
    BY ONLY <1>3 DEF IsReadAs
  <1> HIDE DEF N
  <1> QED BY ONLY <1>1, <1>2, <1>3, <1>4, <1>5, <1>6 DEF w, r, N

(* An operation is what its layout asks for. *)
EachValue(net, w, v) == \A i \in DOMAIN w : v[i] \in Values(net, w[i][2])
Has(o, w, v) == \A i \in DOMAIN w : o.fields[w[i][1]] = v[i]

(* Values of the layout's kinds make an operation, and it is written as    *)
(* they are. *)
LEMMA IsOperationIf ==
    ASSUME NEW net, NEW op \in DOMAIN Table!Declared, NEW v, EachValue(net, Table!Written[op], v)
    PROVE  LET o == Operation(op, Named(Table!Written[op], v))
           IN  /\ IsOperation(net, o) /\ o.op = op /\ Has(o, Table!Written[op], v)
               /\ append_to(o) = write_varint32(Table!as_u32(op)) \o FlattenSeq(Wires(Table!Written[op], v))
  <1> DEFINE w == Table!Written[op]
             f == Named(w, v)
             o == Operation(op, f)
  <1>1. IsReadAs(w, Table!Read[op])
    BY LayoutsFit
  <1>2. \A i \in DOMAIN w, j \in DOMAIN w : w[i][1] = w[j][1] => i = j
    <2> HIDE DEF w
    <2> QED BY ONLY <1>1 DEF IsReadAs
  <1>3. DOMAIN f = FieldNames(w) /\ \A i \in DOMAIN w : f[w[i][1]] = v[i]
    <2> HIDE DEF w
    <2> QED BY <1>2, NamedIs
  <1> HIDE DEF f
  <1>4. o.op = op /\ o.fields = f
    BY DEF Operation
  <1>5. append_to(o) = write_varint32(Table!as_u32(op)) \o FlattenSeq(Wires(w, v))
    BY <1>3, AppendIs
  <1>6. IsOperation(net, o)
    <2>1. o = Operation(o.op, o.fields)
      BY <1>4
    <2> HIDE DEF o
    <2> QED BY <1>3, <1>4, <2>1 DEF IsOperation, FieldNames, EachValue
  <1>7. Has(o, w, v)
    <2> HIDE DEF o
    <2> QED BY <1>3, <1>4 DEF Has
  <1> QED BY <1>4, <1>5, <1>6, <1>7 DEF f

(* Values that are written to the same bytes are so in an operation. *)
LEMMA WiresSame ==
    ASSUME NEW w, NEW v, NEW k, \A i \in DOMAIN w : Write(w[i][2], k[i]) = Write(w[i][2], v[i])
    PROVE  Wires(w, k) = Wires(w, v)
  BY DEF Wires

(* The bytes of an operation are read, to the last, as the operation that  *)
(* hived has of it; which is an operation, of the same bytes.              *)
LEMMA OperationBack ==
    ASSUME NEW net \in DOMAIN Assets, NEW o, IsOperation(net, o)
    PROVE  /\ append_to(o) \in Seq(Nat) /\ append_to(o) # <<>>
           /\ read_from(net, append_to(o)) = Got(KeptOperation(net, o), <<>>)
           /\ IsOperation(net, KeptOperation(net, o)) /\ KeptOperation(net, o).op = o.op
           /\ Has(KeptOperation(net, o), Table!Written[o.op], Taken(net, o))
           /\ append_to(KeptOperation(net, o)) = append_to(o)
  <1> DEFINE op == o.op
             w == Table!Written[op]
             r == Table!Read[op]
             N == Len(w)
             v == Given(o)
             k == Taken(net, o)
             tag == Table!as_u32(op)
             B == FlattenSeq(Wires(w, v))
             x == <<>>
  <1>1. /\ o = Operation(op, o.fields) /\ op \in DOMAIN Table!Declared /\ op \in DOMAIN Table!Read
        /\ N \in Nat /\ DOMAIN w = 1 .. N /\ DOMAIN r = 1 .. N
        /\ \A i \in 1 .. N : w[i][2] \in WireKinds /\ r[i][1] = w[i][1] /\ r[i][2] = ReadAs(w[i][2])
        /\ \A i \in 1 .. N : o.fields[w[i][1]] \in Values(net, w[i][2])
    BY OperationIs
  <1>2. \A i \in 1 .. N : v[i] = o.fields[w[i][1]] /\ k[i] = Kept(net, w[i][2], v[i])
    BY <1>1 DEF Given, Taken
  <1>21. k = [i \in 1 .. N |-> k[i]]
    BY <1>1 DEF Taken
  <1> HIDE DEF v, k, w, r, N, tag
  <1>3. ASSUME NEW i \in 1 .. N PROVE KindKept(net, w[i][2], r[i][2], v[i], k[i])
    <2> DEFINE kind == w[i][2]
    <2>1. kind \in WireKinds /\ v[i] \in Values(net, kind) /\ r[i][2] = ReadAs(kind) /\ k[i] = Kept(net, kind, v[i])
      BY <1>1, <1>2
    <2> HIDE DEF kind
    <2>2. KindKept(net, kind, ReadAs(kind), v[i], Kept(net, kind, v[i]))
      BY <2>1, KindBack
    <2> QED BY ONLY <2>1, <2>2 DEF kind
  <1>4. B \in Seq(Nat) /\ \A y \in Seq(Nat) : FieldsOf(net, r, B \o y) = Got(k, y)
    <2>1. EachKept(net, w, r, N, v, k)
      BY ONLY <1>21, <1>3 DEF EachKept
    <2>2. N \in Nat /\ DOMAIN w = 1 .. N /\ DOMAIN r = 1 .. N
      BY ONLY <1>1
    <2>3. /\ FlattenSeq(Wires(w, v)) \in Seq(Nat)
          /\ \A y \in Seq(Nat) : FieldsOf(net, r, FlattenSeq(Wires(w, v)) \o y) = Got(k, y)
      BY ONLY <2>1, <2>2, LayoutBack
    <2> QED BY ONLY <2>3
  <1> HIDE DEF B
  <1>5. append_to(o) = write_varint32(tag) \o B
    <2>1. append_to(Operation(op, o.fields)) = write_varint32(tag) \o B
      <3>1. \A i \in DOMAIN w : o.fields[w[i][1]] = v[i]
        BY ONLY <1>1, <1>2
      <3> QED BY <3>1, AppendIs DEF w, tag, B
    <2> QED BY ONLY <1>1, <2>1
  <1>6. tag \in 0 .. 92 /\ Table!from_u32(tag) = {op} /\ ~Table!is_virtual(op)
    BY <1>1, TagsAre, DeclaredNotVirtual DEF tag
  <1>7. /\ write_varint32(tag) \in Seq(Nat) /\ write_varint32(tag) # <<>>
        /\ read_varint32(write_varint32(tag) \o B) = Got(tag, B)
    <2>1. tag \in Nat /\ tag <= MaxInt
      BY <1>6, SMT DEF MaxInt
    <2> QED BY <1>4, <2>1, VarintReadsBack
  <1>8. \A i \in DOMAIN w : k[i] \in Values(net, w[i][2]) /\ Write(w[i][2], k[i]) = Write(w[i][2], v[i])
    BY <1>1, <1>3 DEF KindKept
  <1>9. LET ko == Operation(op, Named(w, k))
        IN  /\ IsOperation(net, ko) /\ ko.op = op /\ Has(ko, w, k)
            /\ append_to(ko) = write_varint32(tag) \o FlattenSeq(Wires(w, k))
    <2>1. op \in DOMAIN Table!Declared /\ EachValue(net, w, k)
      BY ONLY <1>1, <1>8 DEF EachValue
    <2> HIDE DEF op
    <2> QED BY <2>1, IsOperationIf DEF w, tag
  <1>10. Wires(w, k) = Wires(w, v)
    BY <1>8, WiresSame
  <1>11. KeptOperation(net, o) = Operation(op, Named(w, k))
    BY DEF KeptOperation, k, w
  <1>12. Named(r, k) = Named(w, k)
    BY <1>1, NamedSame
  <1>13. append_to(o) \in Seq(Nat) /\ append_to(o) # <<>>
    <2>1. Len(write_varint32(tag)) >= 1
      BY <1>7
    <2>2. Len(write_varint32(tag) \o B) = Len(write_varint32(tag)) + Len(B) /\ Len(B) \in Nat
          /\ write_varint32(tag) \o B \in Seq(Nat)
      BY <1>4, <1>7, Joins
    <2>3. Len(append_to(o)) >= 1
      BY <1>5, <2>1, <2>2
    <2> QED BY <1>5, <2>2, <2>3
  <1>14. read_from(net, append_to(o)) = Got(Operation(op, Named(w, k)), <<>>)
    <2>1. x \in Seq(Nat) /\ B \o x = B
      BY <1>4
    <2>2. FieldsOf(net, r, B) = Got(k, <<>>)
      <3>1. FieldsOf(net, r, B \o x) = Got(k, x)
        BY <1>4, <2>1
      <3> QED BY ONLY <2>1, <3>1 DEF x
    <2>3. decoded(net, op, B) = Got(Operation(op, Named(w, k)), <<>>)
      <3> DEFINE g == FieldsOf(net, r, B)
      <3>1. g.ok /\ g.val = k /\ g.rest = <<>>
        BY ONLY <2>2, GotIs
      <3>2. decoded(net, op, B) = IF g.ok THEN Got(Operation(op, Named(r, g.val)), g.rest) ELSE Fail
        BY DecodedIs DEF r
      <3> HIDE DEF g
      <3> QED BY ONLY <1>12, <3>1, <3>2
    <2> DEFINE t == read_varint32(append_to(o))
               d == decoded(net, op, B)
    <2>4. t.ok /\ t.val = tag /\ t.rest = B
      BY <1>5, <1>7, GotIs
    <2>5. read_from(net, append_to(o)) =
            IF t.ok THEN IF \E a \in Table!from_u32(t.val) : ~Table!is_virtual(a) /\ a \in DOMAIN Table!Read
                         THEN expect_end(decoded(net, CHOOSE a \in Table!from_u32(t.val) : TRUE, t.rest)) ELSE Fail
            ELSE Fail
      BY DEF read_from, Then
    <2> HIDE DEF t
    <2>6. (CHOOSE a \in {op} : TRUE) = op
      OBVIOUS
    <2>7. read_from(net, append_to(o)) = expect_end(d)
      BY ONLY <1>1, <1>6, <2>4, <2>5, <2>6 DEF d
    <2>8. d.rest = <<>>
      BY ONLY <2>3, GotIs DEF d
    <2> QED BY ONLY <2>3, <2>7, <2>8 DEF expect_end, d
  <1> DEFINE ko == Operation(op, Named(w, k))
  <1>15. /\ IsOperation(net, ko) /\ ko.op = op /\ Has(ko, w, k)
         /\ append_to(ko) = append_to(o)
    <2> HIDE DEF ko
    <2> QED BY <1>5, <1>9, <1>10 DEF ko, B
  <1> HIDE DEF ko
  <1> QED BY ONLY <1>11, <1>13, <1>14, <1>15 DEF ko, w, k

-----------------------------------------------------------------------------
(* Every kind that is written is read, as a kind of the same values. *)
LEMMA KindsMatch ==
    ASSUME NEW net, NEW kind \in WireKinds
    PROVE  ReadAs(kind) \in ReadKinds /\ Values(net, ReadAs(kind)) = Values(net, kind)
  <1>1. CASE kind = "accounts"
    <2>1. ReadAs(kind) = "strs" /\ Values(net, "strs") = Values(net, "accounts")
      BY <1>1, ValuesAre DEF ReadAs
    <2> QED BY <1>1, <2>1 DEF ReadKinds
  <1>2. CASE kind = "ids"
    <2>1. ReadAs(kind) = "u64s" /\ Values(net, "u64s") = Values(net, "ids")
      BY <1>2, ValuesAre DEF ReadAs
    <2> QED BY <1>2, <2>1 DEF ReadKinds
  <1>3. CASE kind = "sortedprops"
    <2>1. ReadAs(kind) = "wprops" /\ Values(net, "wprops") = Values(net, "sortedprops")
      BY <1>3, ValuesAre DEF ReadAs
    <2> QED BY <1>3, <2>1 DEF ReadKinds
  <1>4. CASE kind \notin {"accounts", "ids", "sortedprops"}
    <2>1. ReadAs(kind) = kind
      BY <1>4 DEF ReadAs
    <2>2. kind \in ReadKinds
      BY <1>4, WidthIs DEF WireKinds, ReadKinds
    <2> QED BY <2>1, <2>2
  <1> QED BY <1>1, <1>2, <1>3, <1>4

(* What the fields of an operation are when they are read. *)
LEMMA DecodedSound ==
    ASSUME NEW net \in DOMAIN Assets, NEW op \in DOMAIN Table!Read, NEW b \in Seq(Nat), decoded(net, op, b).ok
    PROVE  LET d == decoded(net, op, b)
           IN  /\ d = Got(d.val, d.rest) /\ d.rest \in Seq(Nat)
               /\ \A x \in Seq(Nat) : decoded(net, op, b \o x) = Got(d.val, d.rest \o x)
               /\ Small(b) => IsOperation(net, d.val)
  <1> DEFINE w == Table!Written[op]
             r == Table!Read[op]
             N == Len(w)
             g == FieldsOf(net, r, b)
             o == Operation(op, Named(r, g.val))
             d == decoded(net, op, b)
  <1>1. op \in DOMAIN Table!Declared
    BY ReadDeclared
  <1>2. IsReadAs(w, r)
    BY <1>1, LayoutsFit
  <1>3. \A y : decoded(net, op, y) = LET f == FieldsOf(net, r, y)
                                       IN  IF f.ok THEN Got(Operation(op, Named(r, f.val)), f.rest) ELSE Fail
    BY DecodedIs
  <1> HIDE DEF w, r
  <1>4. N \in Nat /\ DOMAIN w = 1 .. N /\ DOMAIN r = 1 .. N
    BY ONLY <1>2 DEF IsReadAs
  <1>5. \A i \in DOMAIN w : w[i][2] \in WireKinds /\ r[i][1] = w[i][1] /\ r[i][2] = ReadAs(w[i][2])
    BY ONLY <1>2 DEF IsReadAs, Known, Asked
  <1>6. \A i \in 1 .. N : r[i][2] \in ReadKinds /\ Values(net, r[i][2]) = Values(net, w[i][2])
    BY <1>4, <1>5, KindsMatch
  <1> HIDE DEF N
  <1>7. d = IF g.ok THEN Got(o, g.rest) ELSE Fail
    BY <1>3
  <1>8. g.ok
    <2> HIDE DEF g
    <2>1. ~Fail.ok
      BY DEF Fail
    <2> QED BY <1>7, <2>1
  <1>9. /\ g = Got(g.val, g.rest) /\ g.rest \in Seq(Nat)
        /\ \A x \in Seq(Nat) : FieldsOf(net, r, b \o x) = Got(g.val, g.rest \o x)
        /\ Small(b) => \A i \in 1 .. N : g.val[i] \in Values(net, r[i][2])
    BY <1>4, <1>6, <1>8, LayoutSound
  <1>10. ASSUME Small(b) PROVE IsOperation(net, o)
    <2>1. EachValue(net, w, g.val)
      <3> HIDE DEF g
      <3> QED BY <1>4, <1>6, <1>9, <1>10 DEF EachValue
    <2>2. Named(r, g.val) = Named(w, g.val)
      BY <1>4, <1>5, NamedSame
    <2>3. IsOperation(net, Operation(op, Named(w, g.val)))
      BY <1>1, <2>1, IsOperationIf DEF w
    <2> QED BY <2>2, <2>3
  <1>11. ASSUME NEW x \in Seq(Nat) PROVE decoded(net, op, b \o x) = Got(o, g.rest \o x)
    <2> DEFINE f == FieldsOf(net, r, b \o x)
    <2>1. decoded(net, op, b \o x) = IF f.ok THEN Got(Operation(op, Named(r, f.val)), f.rest) ELSE Fail
      BY <1>3
    <2>2. f = Got(g.val, g.rest \o x)
      BY <1>9
    <2> HIDE DEF f, g
    <2>3. f.ok /\ f.val = g.val /\ f.rest = g.rest \o x
      BY <2>2, GotIs, SMTT(60), ZenonT(60)
    <2> QED BY <2>1, <2>3
  <1>12. d = Got(o, g.rest)
    BY <1>7, <1>8
  <1> HIDE DEF d, o
  <1>13. d.val = o /\ d.rest = g.rest
    BY <1>12, GotIs
  <1> HIDE DEF g
  <1> QED BY <1>9, <1>10, <1>11, <1>12, <1>13 DEF d

(* Bytes that are read, to the last, are those of an operation; with more  *)
(* bytes after them they are refused.                                      *)
LEMMA WireSound ==
    ASSUME NEW net \in DOMAIN Assets, NEW b \in Seq(Nat), read_from(net, b).ok
    PROVE  /\ Small(b) => IsOperation(net, read_from(net, b).val)
           /\ \A x \in Seq(Nat) : x # <<>> => ~read_from(net, b \o x).ok
  <1> DEFINE tag(c) == read_varint32(c)
             known(c) == Table!from_u32(tag(c).val)
             one(c) == CHOOSE op \in known(c) : TRUE
             op == one(b)
             c0 == tag(b).rest
             d == decoded(net, op, c0)
  <1>1. \A c : read_from(net, c) =
          IF tag(c).ok THEN IF \E o \in known(c) : ~Table!is_virtual(o) /\ o \in DOMAIN Table!Read
                         THEN expect_end(decoded(net, one(c), tag(c).rest)) ELSE Fail
          ELSE Fail
    BY DEF read_from, Then
  <1>2. known(b) = {} \/ \E o : known(b) = {o}
    BY DEF Table!from_u32
  <1>3. ~Fail.ok
    BY DEF Fail
  <1>4. \A x \in Seq(Nat) : tag(b).ok => tag(b \o x).ok /\ tag(b \o x).val = tag(b).val /\ tag(b \o x).rest = tag(b).rest \o x
    <2> SUFFICES ASSUME tag(b).ok, NEW x \in Seq(Nat)
                 PROVE  tag(b \o x).ok /\ tag(b \o x).val = tag(b).val /\ tag(b \o x).rest = tag(b).rest \o x
      OBVIOUS
    <2> DEFINE g == read_varint32(b \o x)
               q == read_varint32(b)
    <2>1. g = Got(q.val, q.rest \o x)
      BY VarintSound
    <2> HIDE DEF g, q
    <2>2. g.ok /\ g.val = q.val /\ g.rest = q.rest \o x
      BY <2>1, GotIs
    <2> QED BY <2>2 DEF g, q
  <1>5. tag(b).ok => c0 \in Seq(Nat) /\ Len(c0) <= Len(b)
    <2> SUFFICES ASSUME tag(b).ok PROVE c0 \in Seq(Nat) /\ Len(c0) <= Len(b)
      OBVIOUS
    <2>1. c0 \in Seq(Nat) /\ Len(c0) < Len(b)
      BY VarintSound
    <2> HIDE DEF c0
    <2> QED BY <2>1
  <1>6. \A c : known(c) = Table!from_u32(tag(c).val) /\ one(c) = CHOOSE o \in known(c) : TRUE
    OBVIOUS
  <1> HIDE DEF tag, known
  <1>7. tag(b).ok /\ op \in DOMAIN Table!Read /\ ~Table!is_virtual(op) /\ op \in known(b) /\ read_from(net, b) = expect_end(d)
    BY <1>1, <1>2, <1>3
  <1> HIDE DEF one
  <1>8. \A x \in Seq(Nat) : known(b \o x) = known(b) /\ one(b \o x) = op
    BY <1>4, <1>6, <1>7
  <1>9. d.rest = <<>> /\ d.ok /\ read_from(net, b) = d
    BY <1>3, <1>7 DEF expect_end
  <1> HIDE DEF op, c0
  <1>10. /\ d.rest \in Seq(Nat) /\ (Small(c0) => IsOperation(net, d.val))
         /\ \A x \in Seq(Nat) : decoded(net, op, c0 \o x) = Got(d.val, d.rest \o x)
    BY <1>5, <1>7, <1>9, DecodedSound
  <1>11. Small(b) => Small(c0)
    BY <1>5, <1>7, SmallPart
  <1>12. ASSUME NEW x \in Seq(Nat), x # <<>> PROVE ~read_from(net, b \o x).ok
    <2> DEFINE e == decoded(net, op, c0 \o x)
    <2>1. tag(b \o x).ok /\ tag(b \o x).rest = c0 \o x /\ known(b \o x) = known(b) /\ one(b \o x) = op
      BY <1>4, <1>7, <1>8 DEF c0
    <2>2. read_from(net, b \o x) = expect_end(e)
      BY <1>1, <1>7, <2>1
    <2>3. e = Got(d.val, d.rest \o x)
      BY <1>10
    <2>4. d.rest \o x = x
      BY <1>9
    <2> HIDE DEF e, d
    <2>5. e.rest = x
      BY <2>3, <2>4, GotIs
    <2> QED BY <1>3, <1>12, <2>2, <2>5 DEF expect_end
  <1> HIDE DEF d
  <1> QED BY <1>9, <1>10, <1>11, <1>12

-----------------------------------------------------------------------------
(* A JSON object, field by field: p is the operation and the object. *)
FieldRead(op, value, field) ==
    IF field[1] \in DOMAIN value THEN ReadFieldJson(field[2], value[field[1]])
    ELSE IF may_be_missing(op, field[2]) THEN Got(<<>>, <<>>) ELSE Fail
OnePart(p, field, c) == FieldRead(p[1], p[2], field)
PartTurns == INSTANCE InTurnProofs WITH R <- OnePart

(* What the instance takes as known, from the library. *)
LEMMA PartBasics == PartTurns!Basics
  BY ForTurns DEF PartTurns!Basics, PartTurns!Least, PartTurns!Induction, PartTurns!Counted, PartTurns!Cardinality, Cardinality
PartsOf(p, layout) == PartTurns!InTurnOf(p, <<>>, layout)

(* How the parts of a JSON object are read. *)
LEMMA PartsAre ==
    ASSUME NEW p, NEW layout
    PROVE  from_parts(p[1], layout, p[2]) =
             LET r == PartsOf(p, layout)
             IN  IF r.ok THEN Got(Operation(p[1], Named(layout, r.val)), <<>>) ELSE Fail
  BY DEF from_parts, Each, PartsOf, InTurn, FoldLeft, MapThenFoldSet, Then, Max, Got, Fail, FieldRead, PartTurns!InTurnOf, PartTurns!Turns, PartTurns!TurnStep, PartTurns!Turn, PartTurns!Got, PartTurns!Fail, PartTurns!Largest, OnePart

(* An operation from its parts in JSON. *)
LEMMA FromPartsIs ==
    ASSUME NEW op, NEW value, NEW layout
    PROVE  from_parts(op, layout, value) =
             LET r == PartsOf(<<op, value>>, layout)
             IN  IF r.ok THEN Got(Operation(op, Named(layout, r.val)), <<>>) ELSE Fail
  <1> DEFINE p == <<op, value>>
  <1>1. p[1] = op /\ p[2] = value
    OBVIOUS
  <1> HIDE DEF p
  <1>2. from_parts(p[1], layout, p[2]) =
             LET r == PartsOf(p, layout)
             IN  IF r.ok THEN Got(Operation(p[1], Named(layout, r.val)), <<>>) ELSE Fail
    BY PartsAre
  <1> QED BY ONLY <1>1, <1>2 DEF p

(* An object is read when each of its fields is. *)
LEMMA AllFieldsRead ==
    ASSUME NEW op, NEW value, NEW layout, NEW N \in Nat, DOMAIN layout = 1 .. N
    PROVE  PartsOf(<<op, value>>, layout).ok
             <=> \A i \in 1 .. N : FieldRead(op, value, layout[i]).ok
  <1> DEFINE p == <<op, value>>
             one(i) == FieldRead(op, value, layout[i])
  <1>1. \A i, c : OnePart(p, layout[i], c) = one(i)
    BY DEF OnePart
  <1> HIDE DEF p, one
  <1>2. ASSUME PartsOf(p, layout).ok, NEW i \in 1 .. N PROVE one(i).ok
    <2>1. PICK t : PartTurns!Left(p, <<>>, layout, N, t)
      BY <1>2, PartBasics, PartTurns!InTurnTraced DEF PartsOf
    <2> QED BY <1>1, <2>1 DEF PartTurns!Left
  <1>3. ASSUME \A i \in 1 .. N : one(i).ok PROVE PartsOf(p, layout).ok
    <2> DEFINE t == [i \in 0 .. N |-> IF i = 0 THEN <<>> ELSE one(i).rest]
    <2>1. t[0] = <<>> /\ \A i \in 1 .. N : t[i] = one(i).rest
      OBVIOUS
    <2> HIDE DEF t
    <2>2. PartTurns!Left(p, <<>>, layout, N, t)
      BY <1>1, <1>3, <2>1 DEF PartTurns!Left
    <2> QED BY <2>2, PartBasics, PartTurns!InTurnReadable DEF PartsOf
  <1> QED BY ONLY <1>2, <1>3 DEF p, one

(* The values are those of the fields. *)
EachRead(op, value, layout, v) ==
    \A i \in DOMAIN layout : FieldRead(op, value, layout[i]) = Got(v[i], <<>>)

(* Members of an object that are each read are read in turn. *)
LEMMA FieldsFollow ==
    ASSUME NEW op, NEW value, NEW layout, NEW N \in Nat, DOMAIN layout = 1 .. N, NEW v,
           EachRead(op, value, layout, v), v = [i \in 1 .. N |-> v[i]]
    PROVE  from_parts(op, layout, value) = Got(Operation(op, Named(layout, v)), <<>>)
  <1> DEFINE p == <<op, value>>
             t == [i \in 0 .. N |-> <<>>]
  <1>1. \A i, c : OnePart(p, layout[i], c) = FieldRead(op, value, layout[i])
    BY DEF OnePart
  <1>2. \A i \in 1 .. N : t[i - 1] = <<>> /\ t[i] = <<>>
    <2>1. \A i \in 1 .. N : i - 1 \in 0 .. N /\ i \in 0 .. N
      OBVIOUS
    <2> QED BY <2>1
  <1>3. t[0] = <<>> /\ t[N] = <<>>
    OBVIOUS
  <1> HIDE DEF p, t
  <1>4. PartTurns!Reads(p, layout, N, t, v)
    <2>1. ASSUME NEW i \in 1 .. N PROVE OnePart(p, layout[i], t[i - 1]) = [ok |-> TRUE, val |-> v[i], rest |-> t[i]]
      BY <1>1, <1>2 DEF EachRead, Got
    <2> QED BY <2>1 DEF PartTurns!Reads
  <1>5. PartTurns!InTurnOf(p, t[0], layout) = [ok |-> TRUE, val |-> [i \in 1 .. N |-> v[i]], rest |-> t[N]]
    BY <1>4, PartBasics, PartTurns!InTurnFollows
  <1> DEFINE r == PartsOf(p, layout)
  <1>6. r = Got(v, <<>>)
    BY <1>3, <1>5 DEF PartsOf, Got
  <1>7. from_parts(op, layout, value) = IF r.ok THEN Got(Operation(op, Named(layout, r.val)), <<>>) ELSE Fail
    BY FromPartsIs DEF p
  <1> HIDE DEF r
  <1>8. r.ok /\ r.val = v
    BY <1>6, GotIs
  <1> QED BY ONLY <1>7, <1>8

(* Then it is an operation of that name, with the fields of the layout. *)
LEMMA PartsRead ==
    ASSUME NEW op, NEW value, NEW layout, NEW N \in Nat, DOMAIN layout = 1 .. N,
           \A i \in 1 .. N : FieldRead(op, value, layout[i]).ok
    PROVE  /\ from_parts(op, layout, value).ok
           /\ from_parts(op, layout, value).val.op = op
           /\ DOMAIN from_parts(op, layout, value).val.fields = {layout[i][1] : i \in DOMAIN layout}
  <1> DEFINE r == PartsOf(<<op, value>>, layout)
  <1>1. r.ok
    BY AllFieldsRead
  <1>2. from_parts(op, layout, value) = IF r.ok THEN Got(Operation(op, Named(layout, r.val)), <<>>) ELSE Fail
    BY FromPartsIs
  <1> HIDE DEF r
  <1>3. from_parts(op, layout, value) = Got(Operation(op, Named(layout, r.val)), <<>>)
    BY <1>1, <1>2
  <1> QED BY <1>3 DEF Got, Operation, Named

(* What is read as an operation of a name has it. *)
LEMMA PartsName ==
    ASSUME NEW op, NEW value, NEW layout, from_parts(op, layout, value).ok
    PROVE  from_parts(op, layout, value).val.op = op
  <1> DEFINE r == PartsOf(<<op, value>>, layout)
  <1>1. from_parts(op, layout, value) = IF r.ok THEN Got(Operation(op, Named(layout, r.val)), <<>>) ELSE Fail
    BY FromPartsIs
  <1> HIDE DEF r
  <1> QED BY <1>1 DEF Got, Operation, Fail

(* And each of its fields was there, or may be missing. *)
LEMMA PartsComplete ==
    ASSUME NEW op, NEW value, NEW layout, NEW N \in Nat, DOMAIN layout = 1 .. N,
           from_parts(op, layout, value).ok
    PROVE  \A i \in 1 .. N : layout[i][1] \in DOMAIN value \/ may_be_missing(op, layout[i][2])
  <1> DEFINE r == PartsOf(<<op, value>>, layout)
  <1>1. from_parts(op, layout, value) = IF r.ok THEN Got(Operation(op, Named(layout, r.val)), <<>>) ELSE Fail
    BY FromPartsIs
  <1> HIDE DEF r
  <1>2. r.ok
    BY <1>1 DEF Fail
  <1>3. \A i \in 1 .. N : FieldRead(op, value, layout[i]).ok
    BY <1>2, AllFieldsRead DEF r
  <1> QED BY <1>3 DEF FieldRead, Fail

-----------------------------------------------------------------------------
(* JSON of o, in either shape. *)
IsJsonOf(j, o) == j.name = to_json(o).name /\ j.value = to_json(o).value /\ j.shape \in {"pair", "typed"}

(* What the JSON of an operation has for each of its fields. *)
LEMMA JsonFields ==
    ASSUME NEW net \in DOMAIN Assets, NEW o, IsOperation(net, o)
    PROVE  LET r == Table!Read[o.op]
           IN  /\ to_json(o).name = o.op
               /\ \A i \in DOMAIN r : /\ r[i][1] \in DOMAIN to_json(o).value
                                      /\ to_json(o).value[r[i][1]] = FieldJson(r[i][2], o.fields[r[i][1]])
  <1> DEFINE op == o.op
             r == Table!Read[op]
             N == Len(Table!Written[op])
             u == [i \in DOMAIN r |-> FieldJson(r[i][2], o.fields[r[i][1]])]
  <1>1. /\ op \in DOMAIN Table!Declared /\ Table!Declared[op] = r /\ DOMAIN r = 1 .. N
        /\ \A i \in 1 .. N, k \in 1 .. N : r[i][1] = r[k][1] => i = k
    <2>1. LET w == Table!Written[op]
          IN  /\ op \in DOMAIN Table!Declared /\ Table!Declared[op] = r /\ DOMAIN r = 1 .. N
              /\ \A i \in 1 .. N : r[i][1] = w[i][1]
              /\ \A i \in 1 .. N, k \in 1 .. N : w[i][1] = w[k][1] => i = k
      BY OperationIs
    <2> HIDE DEF r, N, op
    <2> QED BY ONLY <2>1
  <1>2. Table!name(op) = op
    BY <1>1, TagsAre
  <1>3. to_json(o).name = Table!name(op) /\ to_json(o).value = Named(r, u)
    BY <1>1 DEF to_json
  <1>4. \A i \in DOMAIN r : u[i] = FieldJson(r[i][2], o.fields[r[i][1]])
    OBVIOUS
  <1> HIDE DEF u, r, N
  <1>51. \A i \in DOMAIN r, k \in DOMAIN r : r[i][1] = r[k][1] => i = k
    BY ONLY <1>1
  <1>5. DOMAIN Named(r, u) = FieldNames(r) /\ \A i \in DOMAIN r : Named(r, u)[r[i][1]] = u[i]
    BY ONLY <1>51, NamedIs
  <1>6. \A i \in DOMAIN r : r[i][1] \in FieldNames(r)
    BY DEF FieldNames
  <1> QED BY ONLY <1>2, <1>3, <1>4, <1>5, <1>6 DEF r

(* It is read as an operation of the same bytes; on every chain whose      *)
(* assets Hive knows it is read.                                           *)
LEMMA JsonBack ==
    ASSUME NEW net \in DOMAIN Assets, NEW o, IsOperation(net, o), NEW j, IsJsonOf(j, o)
    PROVE  /\ net # "HiveTestnet" => from_json(j).ok
           /\ from_json(j).ok => /\ IsOperation(net, from_json(j).val)
                                 /\ append_to(from_json(j).val) = append_to(o)
           /\ any_from_json(j) = from_json(j)
  <1> DEFINE op == o.op
             w == Table!Written[op]
             r == Table!Read[op]
             N == Len(w)
             v == Given(o)
             q(i) == ReadFieldJson(r[i][2], FieldJson(r[i][2], v[i]))
             u == [i \in 1 .. N |-> q(i).val]
             value == j.value
  <1>1. /\ o = Operation(op, o.fields) /\ op \in DOMAIN Table!Declared /\ Table!Declared[op] = r
        /\ N \in Nat /\ DOMAIN w = 1 .. N /\ DOMAIN r = 1 .. N
        /\ \A i \in 1 .. N : w[i][2] \in WireKinds /\ r[i][1] = w[i][1] /\ r[i][2] = ReadAs(w[i][2])
        /\ \A i \in 1 .. N : o.fields[w[i][1]] \in Values(net, w[i][2])
    BY OperationIs
  <1>2. \A i \in 1 .. N : v[i] = o.fields[w[i][1]]
    BY <1>1 DEF Given
  <1>3. j.name = op /\ \A i \in DOMAIN r : r[i][1] \in DOMAIN value /\ value[r[i][1]] = FieldJson(r[i][2], o.fields[r[i][1]])
    BY JsonFields DEF IsJsonOf
  <1>4. from_json(j) = from_parts(op, r, value) /\ any_from_json(j) = from_json(j)
    <2>1. Table!from_name(j.name) = {op} /\ ~Table!is_virtual(op)
      BY <1>1, <1>3, TagsAre, DeclaredNotVirtual
    <2>2. (CHOOSE a \in {op} : TRUE) = op
      OBVIOUS
    <2>3. split_operation_json(j).ok
      BY DEF split_operation_json, Got, IsJsonOf
    <2> HIDE DEF op, r
    <2> QED BY <1>1, <2>1, <2>2, <2>3 DEF from_json, any_from_json, signable_from_parts
  <1> HIDE DEF v, w, r, N
  <1>5. ASSUME NEW i \in 1 .. N
        PROVE  FieldRead(op, value, r[i]) = q(i) /\ JsonKept(net, r[i][2], w[i][2], v[i])
    <2>1. r[i][1] \in DOMAIN value /\ value[r[i][1]] = FieldJson(r[i][2], v[i])
      BY <1>1, <1>2, <1>3
    <2>2. FieldRead(op, value, r[i]) = q(i)
      BY <2>1 DEF FieldRead
    <2> DEFINE kind == w[i][2]
    <2>3. kind \in WireKinds /\ v[i] \in Values(net, kind) /\ r[i][2] = ReadAs(kind)
      BY <1>1, <1>2
    <2> HIDE DEF kind, q
    <2>4. JsonKept(net, ReadAs(kind), kind, v[i])
      BY <2>3, KindJson
    <2> QED BY ONLY <2>2, <2>3, <2>4 DEF kind
  <1>6. ASSUME NEW i \in 1 .. N
        PROVE  /\ net # "HiveTestnet" => q(i).ok
               /\ q(i).ok => q(i) = Got(q(i).val, <<>>) /\ q(i).val \in Values(net, w[i][2])
                             /\ Write(w[i][2], q(i).val) = Write(w[i][2], v[i])
    BY ONLY <1>5 DEF JsonKept
  <1>7. \A i \in 1 .. N : u[i] = q(i).val
    OBVIOUS
  <1>71. u = [i \in 1 .. N |-> u[i]]
    OBVIOUS
  <1> HIDE DEF q, u, value
  <1>8. ASSUME net # "HiveTestnet" PROVE from_json(j).ok
    <2>1. \A i \in 1 .. N : FieldRead(op, value, r[i]).ok
      BY ONLY <1>5, <1>6, <1>8
    <2> HIDE DEF op
    <2> QED BY <1>1, <1>4, <2>1, PartsRead
  <1>9. ASSUME from_json(j).ok
        PROVE  IsOperation(net, from_json(j).val) /\ append_to(from_json(j).val) = append_to(o)
    <2>1. \A i \in 1 .. N : FieldRead(op, value, r[i]).ok
      <3>1. PartsOf(<<op, value>>, r).ok
        <4> DEFINE g == PartsOf(<<op, value>>, r)
        <4>1. from_parts(op, r, value) = IF g.ok THEN Got(Operation(op, Named(r, g.val)), <<>>) ELSE Fail
          BY FromPartsIs
        <4> HIDE DEF g
        <4> QED BY ONLY <1>4, <1>9, <4>1 DEF Fail, g
      <3> HIDE DEF op
      <3> QED BY <1>1, <3>1, AllFieldsRead
    <2>2. \A i \in 1 .. N : FieldRead(op, value, r[i]) = Got(u[i], <<>>)
      BY ONLY <1>5, <1>6, <1>7, <2>1
    <2>3. EachRead(op, value, r, u)
      BY ONLY <1>1, <2>2 DEF EachRead
    <2>4. from_parts(op, r, value) = Got(Operation(op, Named(r, u)), <<>>)
      <3> HIDE DEF op
      <3> QED BY <1>1, <1>71, <2>3, FieldsFollow
    <2>5. Named(r, u) = Named(w, u)
      BY <1>1, NamedSame
    <2> DEFINE ko == Operation(op, Named(w, u))
               f == from_json(j)
    <2>6. f = Got(ko, <<>>)
      BY <1>4, <2>4, <2>5
    <2>7. \A i \in DOMAIN w : u[i] \in Values(net, w[i][2]) /\ Write(w[i][2], u[i]) = Write(w[i][2], v[i])
      BY ONLY <1>1, <1>5, <1>6, <1>7, <2>1
    <2>8. /\ IsOperation(net, ko)
          /\ append_to(ko) = write_varint32(Table!as_u32(op)) \o FlattenSeq(Wires(w, u))
      <3>1. op \in DOMAIN Table!Declared /\ EachValue(net, w, u)
        BY ONLY <1>1, <2>7 DEF EachValue
      <3> HIDE DEF op
      <3> QED BY <3>1, IsOperationIf DEF w
    <2>9. Wires(w, u) = Wires(w, v)
      BY <2>7, WiresSame
    <2>10. append_to(Operation(op, o.fields)) = write_varint32(Table!as_u32(op)) \o FlattenSeq(Wires(w, v))
      <3>1. \A i \in DOMAIN w : o.fields[w[i][1]] = v[i]
        BY ONLY <1>1, <1>2
      <3> QED BY <3>1, AppendIs DEF w
    <2>11. append_to(o) = append_to(ko)
      <3> DEFINE oo == Operation(op, o.fields)
      <3>1. o = oo
        BY ONLY <1>1
      <3>2. append_to(oo) = append_to(ko)
        BY <2>8, <2>9, <2>10
      <3> HIDE DEF oo
      <3> QED BY ONLY <3>1, <3>2
    <2> HIDE DEF ko, f
    <2>12. f.val = ko
      BY <2>6, GotIs
    <2> QED BY ONLY <2>8, <2>11, <2>12 DEF f
  <1> QED BY ONLY <1>4, <1>8, <1>9

-----------------------------------------------------------------------------
(* What hived has of a value, in the words of the journey and of the wire. *)
LEMMA SeenParts ==
    ASSUME NEW v
    PROVE  /\ Sorted(Mapped(v, Transported), First) = Carried(v)
           /\ Sorted(Mapped(v, hived_transport_form), Itself) = CarriedNames(v)
           /\ Sorted(v, Reverse) = Sorted(v, ProposalOrder)
           /\ AmountSeen(v) = AmountOn(chain, v)
  <1>1. Sorted(Mapped(v, Transported), First) = Carried(v)
    BY DEF Sorted, Mapped, Transported, First, Carried, CarriedEntries, CarriedEntry, ByFirst
  <1>2. Sorted(Mapped(v, hived_transport_form), Itself) = CarriedNames(v)
    BY DEF Sorted, Mapped, Itself, CarriedNames, ByItself
  <1>3. Sorted(v, Reverse) = Sorted(v, ProposalOrder)
    BY DEF Sorted, ProposalOrder
  <1>4. AmountSeen(v) = AmountOn(chain, v)
    BY DEF AmountSeen, AmountOn
  <1> QED BY ONLY <1>1, <1>2, <1>3, <1>4

(* What the chain sees of an authority is what is read back. *)
LEMMA SeenAuthority ==
    ASSUME NEW v
    PROVE  /\ AuthoritySeen(v) = CarriedAuthority(v)
           /\ Mapped(v, AuthoritySeen) = [i \in DOMAIN v |-> CarriedAuthority(v[i])]
  <1>1. \A a : AuthoritySeen(a) = CarriedAuthority(a)
    BY SeenParts DEF AuthoritySeen, CarriedAuthority
  <1>2. Mapped(v, AuthoritySeen) = [i \in DOMAIN v |-> AuthoritySeen(v[i])]
    BY DEF Mapped
  <1> QED BY ONLY <1>1, <1>2

(* What the chain sees of a value is what is read back, of every kind. *)
LEMMA SeenIsKept ==
    ASSUME NEW kind \in WireKinds, NEW v \in Values(chain, kind)
    PROVE  Seen(kind, v) = Kept(chain, kind, v)
  <1>1. CASE kind \in {"bool", "u32", "time", "i16", "u16", "u64", "blockid", "hex", "noext", "key", "optkey", "rtext"}
    BY <1>1 DEF Seen, Kept
  <1>2. CASE kind = "str"
    BY <1>2 DEF Seen, Kept
  <1>3. CASE kind = "amount"
    BY <1>3, SeenParts DEF Seen, Kept
  <1>4. CASE kind = "price"
    <2>1. v \in Amounts(chain) \X Amounts(chain)
      BY <1>4, ValuesAre
    <2>2. DOMAIN v = 1 .. 2 /\ v = <<v[1], v[2]>>
      BY ONLY <2>1
    <2>3. [i \in DOMAIN v |-> AmountSeen(v[i])] = <<AmountSeen(v[1]), AmountSeen(v[2])>>
      BY ONLY <2>2
    <2>4. Seen("price", v) = [i \in DOMAIN v |-> AmountSeen(v[i])]
      BY DEF Seen, Mapped
    <2>5. Kept(chain, "price", v) = <<AmountOn(chain, v[1]), AmountOn(chain, v[2])>>
      BY KeptKinds
    <2>6. AmountSeen(v[1]) = AmountOn(chain, v[1]) /\ AmountSeen(v[2]) = AmountOn(chain, v[2])
      BY SeenParts
    <2> QED BY ONLY <1>4, <2>3, <2>4, <2>5, <2>6
  <1>5. CASE kind = "props"
    <2>1. Seen("props", v) = <<AmountSeen(v[1]), v[2], v[3]>>
      BY DEF Seen
    <2>2. Kept(chain, "props", v) = <<AmountOn(chain, v[1]), v[2], v[3]>>
      BY KeptKinds
    <2>3. AmountSeen(v[1]) = AmountOn(chain, v[1])
      BY SeenParts
    <2> QED BY ONLY <1>5, <2>1, <2>2, <2>3
  <1>6. CASE kind = "auth"
    BY <1>6, SeenAuthority DEF Seen, Kept
  <1>7. CASE kind \in {"auths", "optauth"}
    BY <1>7, SeenAuthority DEF Seen, Kept
  <1>8. CASE kind = "coext"
    <2>1. Seen("coext", v) = [i \in DOMAIN v |-> Sorted(Mapped(v[i], Transported), First)]
      BY DEF Seen
    <2>2. Kept(chain, "coext", v) = [i \in DOMAIN v |-> Carried(v[i])]
      BY KeptKinds
    <2>3. \A x : Sorted(Mapped(x, Transported), First) = Carried(x)
      BY SeenParts
    <2> QED BY <1>8, <2>1, <2>2, <2>3
  <1>9. CASE kind = "accounts"
    <2>1. Seen("accounts", v) = Sorted(Mapped(v, hived_transport_form), Itself)
      BY DEF Seen
    <2>2. Sorted(Mapped(v, hived_transport_form), Itself) = CarriedNames(v)
      BY SeenParts
    <2>3. Kept(chain, "accounts", v) = CarriedNames(v)
      BY KeptKinds
    <2> QED BY ONLY <1>9, <2>1, <2>2, <2>3
  <1>10. CASE kind = "ids"
    <2>1. Seen("ids", v) = Sorted(v, Reverse)
      BY DEF Seen
    <2>2. Sorted(v, Reverse) = Sorted(v, ProposalOrder)
      BY SeenParts
    <2>3. Kept(chain, "ids", v) = Sorted(v, ProposalOrder)
      BY KeptKinds
    <2> QED BY ONLY <1>10, <2>1, <2>2, <2>3
  <1>11. CASE kind = "sortedprops"
    <2>1. Seen("sortedprops", v) = Sorted(Mapped(v, Transported), First)
      BY DEF Seen
    <2>2. Sorted(Mapped(v, Transported), First) = Carried(v)
      BY SeenParts
    <2>3. Kept(chain, "sortedprops", v) = Carried(v)
      BY KeptKinds
    <2> QED BY ONLY <1>11, <2>1, <2>2, <2>3
  <1> QED BY <1>1, <1>2, <1>3, <1>4, <1>5, <1>6, <1>7, <1>8, <1>9, <1>10, <1>11 DEF WireKinds

(* So of an operation. *)
LEMMA SeenOperation ==
    ASSUME NEW o, IsOperation(chain, o)
    PROVE  SeenByHived(o) = KeptOperation(chain, o)
  <1> DEFINE w == Table!Written[o.op]
             s == [i \in DOMAIN w |-> Seen(w[i][2], o.fields[w[i][1]])]
             k == Taken(chain, o)
             N == Len(w)
  <1>1. DOMAIN w = 1 .. N /\ \A i \in 1 .. N : w[i][2] \in WireKinds /\ o.fields[w[i][1]] \in Values(chain, w[i][2])
    BY OperationIs
  <1> HIDE DEF N
  <1>2. SeenByHived(o) = Operation(o.op, Named(w, s))
    BY DEF SeenByHived
  <1>3. KeptOperation(chain, o) = Operation(o.op, Named(w, k))
    BY DEF KeptOperation
  <1>4. k = [i \in DOMAIN w |-> Kept(chain, w[i][2], o.fields[w[i][1]])]
    BY DEF Taken
  <1> HIDE DEF w, k
  <1>5. \A i \in DOMAIN w : Seen(w[i][2], o.fields[w[i][1]]) = Kept(chain, w[i][2], o.fields[w[i][1]])
    BY <1>1, SeenIsKept
  <1>6. s = k
    BY ONLY <1>4, <1>5
  <1> QED BY ONLY <1>2, <1>3, <1>6

-----------------------------------------------------------------------------
(* What a value that is allowed comes to: in strictly increasing order. *)
Canonical(kind, v) ==
    /\ kind = "strs" => Increasing(v, Itself)
    /\ kind = "u64s" => v # <<>> /\ Increasing(v, Reverse)
    /\ kind = "wprops" => Increasing(v, First)
    /\ kind = "coext" => \A x \in DOMAIN v : v[x] # <<>> /\ Increasing(v[x], First)

(* A value that validate() allows is read back in strictly increasing      *)
(* order. *)
LEMMA AllowedIsCanonical ==
    ASSUME NEW net, NEW kind \in WireKinds, NEW v \in Values(net, kind), field_allowed(kind, v)
    PROVE  Canonical(ReadAs(kind), Kept(net, kind, v))
  <1>1. CASE kind = "accounts"
    <2> DEFINE u == CarriedNames(v)
    <2>1. v \in Lists(Strings)
      BY <1>1, ValuesAre
    <2>2. ~Repeats(v, hived_transport_form)
      BY <1>1 DEF field_allowed, account_set_allowed
    <2>3. Len(u) = Len(v) /\ \A n \in 1 .. Len(v) - 1 : Before(u[n], u[n + 1])
      BY <2>1, <2>2, NamesOf
    <2>4. Kept(net, "accounts", v) = u /\ ReadAs("accounts") = "strs"
      BY KeptKinds DEF ReadAs
    <2> HIDE DEF u
    <2>5. Increasing(u, Itself)
      BY ONLY <2>3 DEF Increasing, Itself
    <2> QED BY ONLY <1>1, <2>4, <2>5 DEF Canonical
  <1>2. CASE kind = "ids"
    <2> DEFINE u == Sorted(v, ProposalOrder)
    <2>1. v \in Lists(Fixed(8))
      BY <1>2, ValuesAre
    <2>2. ~Repeats(v, ProposalOrder) /\ v # <<>>
      BY <1>2 DEF field_allowed, proposal_ids_allowed
    <2>3. u \in Lists(Fixed(8)) /\ Len(u) = Len(v) /\ \A n \in 1 .. Len(v) - 1 : Before(Reverse(u[n]), Reverse(u[n + 1]))
      BY <2>1, <2>2, IdsOf
    <2>4. Kept(net, "ids", v) = u /\ ReadAs("ids") = "u64s"
      BY KeptKinds DEF ReadAs
    <2> HIDE DEF u
    <2>5. Increasing(u, Reverse)
      BY ONLY <2>3 DEF Increasing
    <2>6. u # <<>>
      <3>1. Len(v) # 0
        BY <2>1, <2>2 DEF Lists
      <3> QED BY <2>3, <3>1
    <2> QED BY ONLY <1>2, <2>4, <2>5, <2>6 DEF Canonical
  <1>3. CASE kind = "sortedprops"
    <2> DEFINE u == Carried(v)
    <2>1. v \in Lists(Properties)
      BY <1>3, ValuesAre
    <2>2. ~Repeats(v, PropertyKey)
      BY <1>3 DEF field_allowed, properties_allowed
    <2>3. Len(u) = Len(v) /\ \A n \in 1 .. Len(v) - 1 : Before(u[n][1], u[n + 1][1])
      BY <2>1, <2>2, PropertiesOf
    <2>4. Kept(net, "sortedprops", v) = u /\ ReadAs("sortedprops") = "wprops"
      BY KeptKinds DEF ReadAs
    <2> HIDE DEF u
    <2>5. Increasing(u, First)
      BY ONLY <2>3 DEF Increasing, First
    <2> QED BY ONLY <1>3, <2>4, <2>5 DEF Canonical
  <1>4. CASE kind = "coext"
    <2> DEFINE k == [i \in DOMAIN v |-> Carried(v[i])]
    <2>1. v \in Lists(Lists(AccountEntries))
      BY <1>4, ValuesAre
    <2>2. \A i \in DOMAIN v : beneficiaries_allowed(v[i])
      BY <1>4 DEF field_allowed
    <2>5. \A s : beneficiaries_allowed(s) => s # <<>> /\ ~Repeats(s, BeneficiaryAccount)
      BY DEF beneficiaries_allowed, Repeats, FoldLeft, MapThenFoldSet
    <2>3. ASSUME NEW x \in DOMAIN v PROVE k[x] # <<>> /\ Increasing(k[x], First)
      <3> DEFINE s == v[x]
                 u == Carried(s)
      <3>1. s \in Lists(Strings \X Fixed(2))
        <4>1. v \in Seq(Lists(AccountEntries))
          BY ONLY <2>1 DEF Lists
        <4>2. s \in Lists(AccountEntries)
          BY <4>1, ElementOfSeq
        <4> QED BY <4>2 DEF AccountEntries
      <3>2. s # <<>> /\ ~Repeats(s, BeneficiaryAccount)
        BY <2>2, <2>5
      <3>3. k[x] = u
        OBVIOUS
      <3> HIDE DEF s
      <3>4. ~Repeats(s, PropertyKey)
        BY <3>2 DEF Repeats, BeneficiaryAccount, PropertyKey
      <3>5. u \in Lists(Strings \X Fixed(2)) /\ Len(u) = Len(s) /\ \A n \in 1 .. Len(s) - 1 : Before(u[n][1], u[n + 1][1])
        BY <3>1, <3>4, CarriedList
      <3> HIDE DEF u, k
      <3>6. Increasing(u, First)
        BY ONLY <3>5 DEF Increasing, First
      <3>7. u # <<>>
        <4>1. Len(s) # 0
          BY <3>1, <3>2 DEF Lists
        <4> QED BY <3>5, <4>1
      <3> QED BY <3>3, <3>6, <3>7 DEF Increasing, First
    <2>4. Kept(net, "coext", v) = k /\ ReadAs("coext") = "coext" /\ DOMAIN k = DOMAIN v
      BY KeptKinds DEF ReadAs
    <2> HIDE DEF k
    <2> QED BY ONLY <1>4, <2>3, <2>4 DEF Canonical, Increasing, First
  <1>5. CASE kind \notin {"accounts", "ids", "sortedprops", "coext"}
    BY <1>5 DEF WireKinds, ReadAs, Canonical
  <1> QED BY <1>1, <1>2, <1>3, <1>4, <1>5

-----------------------------------------------------------------------------
(* Bytes are read as an operation a caller could have built, or not at all. *)
LEMMA WireSignable ==
    ASSUME NEW c, NEW b, read_from(c, b).ok
    PROVE  read_from(c, b).val.op \in DOMAIN Table!Declared
  <1> DEFINE tag == read_varint32(b)
             known == Table!from_u32(tag.val)
             op == CHOOSE op \in known : TRUE
  <1>1. read_from(c, b) =
          IF tag.ok THEN IF \E o \in known : ~Table!is_virtual(o) /\ o \in DOMAIN Table!Read
                         THEN expect_end(decoded(c, op, tag.rest)) ELSE Fail
          ELSE Fail
    BY DEF read_from, Then
  <1>2. known = {} \/ \E o : known = {o}
    BY DEF Table!from_u32
  <1> HIDE DEF tag, known
  <1>3. op \in DOMAIN Table!Read /\ read_from(c, b) = expect_end(decoded(c, op, tag.rest))
    BY <1>1, <1>2 DEF Fail
  <1> HIDE DEF op
  <1>4. PICK r : decoded(c, op, tag.rest) =
                   IF r.ok THEN Got(Operation(op, Named(Table!Read[op], r.val)), r.rest) ELSE Fail
    BY DEF decoded, Then, InTurn, FoldLeft, MapThenFoldSet
  <1>5. read_from(c, b).val.op = op
    BY <1>3, <1>4 DEF expect_end, Got, Operation, Fail
  <1> QED BY <1>3, <1>5, ReadDeclared

(* So is JSON. *)
LEMMA JsonSignable ==
    ASSUME NEW j, from_json(j).ok
    PROVE  from_json(j).val.op \in DOMAIN Table!Declared
  <1> DEFINE op == CHOOSE op \in Table!from_name(j.name) : TRUE
  <1>1. from_json(j) = signable_from_parts(op, j.value)
    BY DEF from_json, Fail
  <1> HIDE DEF op
  <1>2. op \in DOMAIN Table!Declared /\ from_json(j) = from_parts(op, Table!Declared[op], j.value)
    BY <1>1 DEF signable_from_parts, Fail
  <1> QED BY <1>2, PartsName

(* History is read as such an operation or as a virtual one. *)
LEMMA HistoryKnown ==
    ASSUME NEW j, any_from_json(j).ok
    PROVE  \/ any_from_json(j).val.op \in DOMAIN Table!Declared
           \/ any_from_json(j).val.op \in DOMAIN Table!Emitted
  <1> DEFINE op == CHOOSE op \in Table!from_name(j.name) : TRUE
  <1>1. any_from_json(j) = virtual_from_parts(op, j.value) \/ any_from_json(j) = from_json(j)
    BY DEF any_from_json
  <1> HIDE DEF op
  <1>2. CASE any_from_json(j) = from_json(j)
    BY <1>2, JsonSignable
  <1>3. CASE any_from_json(j) = virtual_from_parts(op, j.value)
    <2>1. op \in DOMAIN Table!Emitted /\ any_from_json(j) = from_parts(op, Table!Emitted[op], j.value)
      BY <1>3 DEF virtual_from_parts, Fail
    <2> QED BY <2>1, PartsName
  <1> QED BY <1>1, <1>2, <1>3

(* JSON whose name is that of an operation. *)
IsNamed(j) == j.name \in DOMAIN Table!Declared \cup DOMAIN Table!Emitted

(* The name resolves to that operation. *)
LEMMA NamesResolve ==
    ASSUME NEW j, IsNamed(j)
    PROVE  Table!name(j.name) = j.name /\ Table!from_name(j.name) = {j.name}
  <1>1. PICK i \in 1 .. 93 : Table!OperationId[i] = j.name
    BY DeclaredKnown, EmittedNamed DEF IsNamed
  <1> QED BY <1>1, NamesAreIds

(* What LostJsonRefused asks of a JSON object with the fields of a name. *)
Complete(name, value) ==
    LET emitted == name \in DOMAIN Table!Emitted
        layout == IF emitted THEN Table!Emitted[name] ELSE Table!Declared[name]
    IN  \A i \in DOMAIN layout :
          \/ layout[i][1] \in DOMAIN value
          \/ layout[i][2] \in IF emitted THEN {"rtext"} ELSE {"optauth", "optkey"}

(* JSON that is read as an operation to send has all its fields. *)
LEMMA JsonComplete ==
    ASSUME NEW j, IsNamed(j), from_json(j).ok
    PROVE  j.shape \in {"pair", "typed"} /\ Complete(j.name, j.value)
  <1> DEFINE op == j.name
  <1>1. Table!from_name(j.name) = {op} /\ (CHOOSE o \in Table!from_name(j.name) : TRUE) = op
    BY NamesResolve
  <1>2. split_operation_json(j).ok /\ from_json(j) = signable_from_parts(op, j.value)
    BY <1>1 DEF from_json, Fail
  <1>3. j.shape \in {"pair", "typed"}
    BY <1>2 DEF split_operation_json, Fail
  <1>4. op \in DOMAIN Table!Declared /\ from_parts(op, Table!Declared[op], j.value).ok
    BY <1>2 DEF signable_from_parts, Fail
  <1>5. PICK N \in Nat : DOMAIN Table!Declared[op] = 1 .. N
    BY <1>4, StructsAre
  <1>6. ~Table!is_virtual(op) /\ op \notin DOMAIN Table!Emitted
    BY <1>4, DeclaredNotVirtual, EmittedVirtual
  <1>7. \A i \in 1 .. N : \/ Table!Declared[op][i][1] \in DOMAIN j.value
                          \/ may_be_missing(op, Table!Declared[op][i][2])
    BY <1>4, <1>5, PartsComplete
  <1>8. \A i \in 1 .. N : \/ Table!Declared[op][i][1] \in DOMAIN j.value
                          \/ Table!Declared[op][i][2] \in {"optauth", "optkey"}
    BY <1>6, <1>7 DEF may_be_missing
  <1> QED BY <1>3, <1>5, <1>6, <1>8 DEF Complete

(* So has JSON that is read as history. *)
LEMMA HistoryComplete ==
    ASSUME NEW j, IsNamed(j), any_from_json(j).ok
    PROVE  j.shape \in {"pair", "typed"} /\ Complete(j.name, j.value)
  <1> DEFINE op == j.name
  <1>1. Table!from_name(j.name) = {op} /\ (CHOOSE o \in Table!from_name(j.name) : TRUE) = op
    BY NamesResolve
  <1>2. CASE any_from_json(j) = from_json(j)
    BY <1>2, JsonComplete
  <1>3. CASE any_from_json(j) # from_json(j)
    <2>1. split_operation_json(j).ok /\ any_from_json(j) = virtual_from_parts(op, j.value)
      BY <1>1, <1>3 DEF any_from_json
    <2>2. j.shape \in {"pair", "typed"}
      BY <2>1 DEF split_operation_json, Fail
    <2>3. op \in DOMAIN Table!Emitted /\ from_parts(op, Table!Emitted[op], j.value).ok
      BY <2>1 DEF virtual_from_parts, Fail
    <2>4. PICK N \in Nat : DOMAIN Table!Emitted[op] = 1 .. N
      BY <2>3, EmittedNamed
    <2>5. \A i \in 1 .. N : \/ Table!Emitted[op][i][1] \in DOMAIN j.value
                            \/ may_be_missing(op, Table!Emitted[op][i][2])
      BY <2>3, <2>4, PartsComplete
    <2>6. \A i \in 1 .. N : ~IsOptional(Table!Emitted[op][i])
      BY <2>3, <2>4, EmittedRequired
    <2>7. \A i \in 1 .. N : \/ Table!Emitted[op][i][1] \in DOMAIN j.value
                            \/ Table!Emitted[op][i][2] = "rtext"
      BY <2>5, <2>6 DEF may_be_missing, IsOptional
    <2> QED BY <2>2, <2>3, <2>4, <2>7 DEF Complete
  <1> QED BY <1>2, <1>3

(* JSON the chain emitted, in either shape. *)
FromHistory(j) ==
    \E h \in History : j.name = h.name /\ j.value = h.value /\ j.shape \in {"pair", "typed"}

(* What the chain emitted is read in history, by its name and whole. *)
LEMMA HistoryReads ==
    ASSUME NEW j, FromHistory(j)
    PROVE  /\ any_from_json(j).ok /\ any_from_json(j).val.op = j.name
           /\ Table!is_virtual(j.name)
           /\ DOMAIN j.value \subseteq DOMAIN any_from_json(j).val.fields
  <1> DEFINE op == j.name
             layout == Table!Emitted[op]
  <1>1. /\ j.shape \in {"pair", "typed"} /\ op \in DOMAIN Table!Emitted
        /\ DOMAIN j.value \subseteq {layout[i][1] : i \in DOMAIN layout}
        /\ \A i \in DOMAIN layout :
             IF layout[i][1] \in DOMAIN j.value
             THEN ReadFieldJson(layout[i][2], j.value[layout[i][1]]).ok
             ELSE may_be_missing(op, layout[i][2])
    <2>1. PICK h \in History : j.name = h.name /\ j.value = h.value /\ j.shape \in {"pair", "typed"}
      BY DEF FromHistory
    <2> QED BY <2>1, JourneyAssumption
  <1>2. PICK N \in Nat : DOMAIN layout = 1 .. N
    BY <1>1, EmittedNamed
  <1>3. Table!is_virtual(op)
    BY <1>1, EmittedVirtual
  <1>4. Table!from_name(j.name) = {op}
    BY <1>1, EmittedNamed DEF Table!from_name
  <1>5. any_from_json(j) = from_parts(op, layout, j.value)
    <2>1. split_operation_json(j).ok
      BY <1>1 DEF split_operation_json, Got
    <2>2. (CHOOSE o \in Table!from_name(j.name) : TRUE) = op
      BY <1>4
    <2>3. any_from_json(j) = virtual_from_parts(op, j.value)
      BY <1>3, <1>4, <2>1, <2>2 DEF any_from_json
    <2> QED BY <1>1, <2>3 DEF virtual_from_parts
  <1> HIDE DEF layout
  <1>6. \A i \in 1 .. N : FieldRead(op, j.value, layout[i]).ok
    BY <1>1, <1>2 DEF FieldRead, Got
  <1> QED BY <1>1, <1>2, <1>3, <1>5, <1>6, PartsRead

-----------------------------------------------------------------------------
(* The inductive invariant, in four parts.  What is held is an operation   *)
(* of the chain, validated if it is said to have been, and of the bytes    *)
(* that were there first.                                                  *)
HeldInv ==
    /\ chain \in DOMAIN Assets
    /\ held = Nothing \/ IsOperation(chain, held)
    /\ passed => held # Nothing /\ validate(held)
    /\ origin # <<>> => held # Nothing /\ origin = append_to(held)

(* Bytes under way are those of what is held, or came in an amount that    *)
(* memory holds; damaged they cannot be read.  What is damaged stays under *)
(* way.                                                                    *)
WireInv ==
    /\ wire \in Seq(Nat) /\ (wire # <<>> => json = NoJson)
    /\ (wire # <<>> /\ intact) => IF held = Nothing THEN Small(wire) ELSE wire = append_to(held)
    /\ (wire # <<>> /\ ~intact) => ~read_from(chain, wire).ok
    /\ ~intact => wire # <<>> \/ json # NoJson

(* JSON under way is named after an operation, and is that of what is held *)
(* or the chain's own.                                                     *)
JsonInv ==
    /\ json = Json(json.shape, json.name, json.value) /\ (json # NoJson => IsNamed(json))
    /\ (json # NoJson /\ intact) => IF held = Nothing THEN FromHistory(json) ELSE IsJsonOf(json, held)

(* What was read is what a reader makes of what is under way. *)
ReadInv ==
    \/ read = Unread
    \/ wire # <<>> /\ read = Result(read_from(chain, wire), "wire")
    \/ json # NoJson /\ read = Result(from_json(json), "json")
    \/ json # NoJson /\ read = Result(any_from_json(json), "history")

JourneyInv == HeldInv /\ WireInv /\ JsonInv /\ ReadInv

-----------------------------------------------------------------------------
(* An operation is something, and so are its bytes. *)
LEMMA SomethingHeld ==
    ASSUME NEW net \in DOMAIN Assets, NEW o, IsOperation(net, o)
    PROVE  /\ o # Nothing /\ o.op \in DOMAIN Table!Declared
           /\ append_to(o) \in Seq(Nat) /\ append_to(o) # <<>>
  <1>1. o.op \in DOMAIN Table!Declared
    BY DEF IsOperation
  <1>2. PICK i \in 1 .. 93 : Table!OperationId[i] = o.op
    BY <1>1, DeclaredKnown
  <1>3. o.op # "none"
    BY <1>2 DEF Table!OperationId
  <1>4. o # Nothing
    BY <1>3 DEF Nothing
  <1> QED BY <1>1, <1>4, OperationBack

(* So is JSON with a name. *)
LEMMA SomethingNamed ==
    ASSUME NEW j, IsNamed(j)
    PROVE  j # NoJson
  <1>1. PICK i \in 1 .. 93 : Table!OperationId[i] = j.name
    BY DeclaredKnown, EmittedNamed DEF IsNamed
  <1>2. j.name # "none"
    BY <1>1 DEF Table!OperationId
  <1> QED BY <1>2 DEF NoJson, Json

(* What was read, by how it was read. *)
LEMMA ReadIsResult ==
    ASSUME ReadInv
    PROVE  /\ read.how \in {"unread", "wire", "json", "history"}
           /\ read.how = "unread" => ~read.ok
           /\ read.how = "wire" => /\ wire # <<>> /\ read.ok = read_from(chain, wire).ok
                                   /\ read.ok => read.val = read_from(chain, wire).val
           /\ read.how = "json" => /\ json # NoJson /\ read.ok = from_json(json).ok
                                   /\ read.ok => read.val = from_json(json).val
           /\ read.how = "history" => /\ json # NoJson /\ read.ok = any_from_json(json).ok
                                      /\ read.ok => read.val = any_from_json(json).val
  <1>1. Unread.how = "unread" /\ ~Unread.ok
    BY DEF Unread
  <1>2. \A r, how : /\ Result(r, how).how = how /\ Result(r, how).ok = r.ok
                    /\ Result(r, how).ok => Result(r, how).val = r.val
    BY DEF Result
  <1>3. CASE read = Unread
    BY <1>1, <1>3
  <1>4. CASE wire # <<>> /\ read = Result(read_from(chain, wire), "wire")
    BY <1>2, <1>4
  <1>5. CASE json # NoJson /\ read = Result(from_json(json), "json")
    BY <1>2, <1>5
  <1>6. CASE json # NoJson /\ read = Result(any_from_json(json), "history")
    BY <1>2, <1>6
  <1> QED BY <1>3, <1>4, <1>5, <1>6 DEF ReadInv

(* The chain's own JSON is not read as an operation to send. *)
LEMMA HistoryIsNotSent ==
    ASSUME NEW j, FromHistory(j)
    PROVE  ~from_json(j).ok /\ any_from_json(j).ok /\ Table!is_virtual(any_from_json(j).val.op)
  <1>1. /\ any_from_json(j).ok /\ any_from_json(j).val.op = j.name /\ Table!is_virtual(j.name)
    BY HistoryReads
  <1>2. IsNamed(j)
    <2>1. PICK h \in History : j.name = h.name /\ j.value = h.value /\ j.shape \in {"pair", "typed"}
      BY DEF FromHistory
    <2> QED BY <2>1, JourneyAssumption DEF IsNamed
  <1>3. Table!from_name(j.name) = {j.name}
    BY <1>2, NamesResolve
  <1>4. ~from_json(j).ok
    BY <1>1, <1>3 DEF from_json, Fail
  <1> QED BY <1>1, <1>4

(* What can be sent on is an operation, of the bytes of the one before. *)
LEMMA SentOn ==
    ASSUME JourneyInv, read.ok, intact, ~Table!is_virtual(read.val.op)
    PROVE  /\ IsOperation(chain, read.val)
           /\ held # Nothing => append_to(read.val) = append_to(held)
  <1>1. chain \in DOMAIN Assets /\ (held = Nothing \/ IsOperation(chain, held))
    BY DEF JourneyInv, HeldInv
  <1>2. read.how \in {"wire", "json", "history"}
    BY ReadIsResult DEF JourneyInv
  <1>3. CASE read.how = "wire"
    <2>1. wire # <<>> /\ wire \in Seq(Nat) /\ read_from(chain, wire).ok /\ read.val = read_from(chain, wire).val
      BY <1>3, ReadIsResult DEF JourneyInv, WireInv
    <2>2. CASE held = Nothing
      <3>1. Small(wire)
        BY <2>1, <2>2 DEF JourneyInv, WireInv
      <3> QED BY <1>1, <2>1, <2>2, <3>1, WireSound
    <2>3. CASE held # Nothing
      <3>1. wire = append_to(held) /\ IsOperation(chain, held)
        BY <1>1, <2>1, <2>3 DEF JourneyInv, WireInv
      <3> DEFINE k == KeptOperation(chain, held)
                 g == read_from(chain, wire)
      <3>2. g = Got(k, <<>>) /\ IsOperation(chain, k) /\ append_to(k) = append_to(held)
        BY <1>1, <3>1, OperationBack
      <3>3. read.val = g.val
        BY <2>1
      <3> HIDE DEF k, g
      <3>4. g.val = k
        BY <3>2, GotIs
      <3> QED BY <3>2, <3>3, <3>4
    <2> QED BY <2>2, <2>3
  <1>4. CASE read.how \in {"json", "history"}
    <2>1. json # NoJson
      BY <1>4, ReadIsResult DEF JourneyInv
    <2>2. CASE held = Nothing
      <3>1. ~from_json(json).ok /\ any_from_json(json).ok /\ Table!is_virtual(any_from_json(json).val.op)
        BY <2>1, <2>2, HistoryIsNotSent DEF JourneyInv, JsonInv
      <3> QED BY <1>4, <3>1, ReadIsResult DEF JourneyInv
    <2>3. CASE held # Nothing
      <3>1. IsJsonOf(json, held) /\ IsOperation(chain, held)
        BY <1>1, <2>1, <2>3 DEF JourneyInv, JsonInv
      <3>2. /\ from_json(json).ok => /\ IsOperation(chain, from_json(json).val)
                                     /\ append_to(from_json(json).val) = append_to(held)
            /\ any_from_json(json) = from_json(json)
        BY <1>1, <3>1, JsonBack
      <3>3. from_json(json).ok /\ read.val = from_json(json).val
        BY <1>4, <3>2, ReadIsResult DEF JourneyInv
      <3> QED BY <3>2, <3>3
    <2> QED BY <2>2, <2>3
  <1> QED BY <1>2, <1>3, <1>4

-----------------------------------------------------------------------------
(* JourneyInv holds in the beginning. *)
LEMMA JourneyInvInit == Init => JourneyInv
  <1> SUFFICES ASSUME Init PROVE JourneyInv
    OBVIOUS
  <1>1. passed = FALSE /\ intact = TRUE /\ read = Unread /\ origin = <<>>
    BY DEF Init
  <1>2. ReadInv
    BY <1>1 DEF ReadInv
  <1>3. NoJson = Json(NoJson.shape, NoJson.name, NoJson.value) /\ <<>> \in Seq(Nat)
    BY DEF NoJson, Json
  <1>4. CASE \E b \in Built : chain = b[1] /\ held = b[2] /\ wire = <<>> /\ json = NoJson
    <2>1. chain \in DOMAIN Assets /\ IsOperation(chain, held) /\ wire = <<>> /\ json = NoJson
      BY <1>4, JourneyAssumption
    <2> QED BY <1>1, <1>2, <1>3, <2>1 DEF JourneyInv, HeldInv, WireInv, JsonInv
  <1>5. CASE \E f \in Foreign : chain = f[1] /\ held = Nothing /\ wire = f[2] /\ json = NoJson
    <2>1. chain \in DOMAIN Assets /\ held = Nothing /\ wire \in Seq(Nat) /\ Small(wire) /\ json = NoJson
      BY <1>5, JourneyAssumption
    <2> QED BY <1>1, <1>2, <1>3, <2>1 DEF JourneyInv, HeldInv, WireInv, JsonInv
  <1>6. CASE \E j \in History : chain = "Hive" /\ held = Nothing /\ wire = <<>> /\ json = j
    <2>1. PICK j \in History : chain = "Hive" /\ held = Nothing /\ wire = <<>> /\ json = j
      BY <1>6
    <2>2. j = Json(j.shape, j.name, j.value) /\ IsNamed(j) /\ FromHistory(j)
      BY JourneyAssumption DEF IsNamed, FromHistory
    <2>3. "Hive" \in DOMAIN Assets
      BY DEF Assets
    <2> QED BY <1>1, <1>2, <1>3, <2>1, <2>2, <2>3 DEF JourneyInv, HeldInv, WireInv, JsonInv
  <1> QED BY <1>4, <1>5, <1>6 DEF Init

(* While an operation is held and nothing is under way, nothing was read. *)
LEMMA HoldingIsUnread ==
    ASSUME ReadInv, Holding
    PROVE  read = Unread /\ held # Nothing /\ wire = <<>> /\ json = NoJson
  BY DEF ReadInv, Holding

(* The JSON of an operation. *)
LEMMA JsonOfHeld ==
    ASSUME NEW net \in DOMAIN Assets, NEW o, IsOperation(net, o)
    PROVE  /\ to_json(o) = Json(to_json(o).shape, to_json(o).name, to_json(o).value)
           /\ IsNamed(to_json(o)) /\ IsJsonOf(to_json(o), o)
  <1>1. to_json(o).shape = "pair" /\ to_json(o) = Json(to_json(o).shape, to_json(o).name, to_json(o).value)
    BY DEF to_json, Json
  <1>2. to_json(o).name = o.op /\ o.op \in DOMAIN Table!Declared
    BY JsonFields, SomethingHeld
  <1> QED BY <1>1, <1>2 DEF IsNamed, IsJsonOf

(* Bytes are what they are cut into. *)
LEMMA CutInTwo ==
    ASSUME NEW b \in Seq(Nat), NEW m \in 0 .. Len(b) - 1
    PROVE  LET c == SubSeq(b, 1, m)
               y == SubSeq(b, m + 1, Len(b))
           IN  c \in Seq(Nat) /\ y \in Seq(Nat) /\ y # <<>> /\ b = c \o y
  <1> DEFINE c == SubSeq(b, 1, m)
             y == SubSeq(b, m + 1, Len(b))
             L == Len(b)
             z == c \o y
  <1>1. L \in Nat /\ m \in Nat /\ m < L
    OBVIOUS
  <1>2. c \in Seq(Nat) /\ Len(c) = m /\ \A i \in 1 .. m : c[i] = b[i]
    OBVIOUS
  <1>3. y \in Seq(Nat) /\ Len(y) = L - m /\ \A i \in 1 .. L - m : y[i] = b[m + i]
    OBVIOUS
  <1>4. b = [i \in 1 .. L |-> b[i]]
    OBVIOUS
  <1> HIDE DEF c, y
  <1>50. c \in Seq(Nat) /\ y \in Seq(Nat)
    BY <1>2, <1>3
  <1>5. z \in Seq(Nat) /\ Len(z) = Len(c) + Len(y)
    BY ONLY <1>50
  <1>6. \A i \in 1 .. Len(c) + Len(y) : z[i] = IF i <= Len(c) THEN c[i] ELSE y[i - Len(c)]
    BY ONLY <1>50
  <1> HIDE DEF z, L
  <1>7. Len(z) = L
    BY <1>1, <1>2, <1>3, <1>5
  <1>8. ASSUME NEW i \in 1 .. L PROVE z[i] = b[i]
    <2>1. CASE i <= m
      <3>1. i \in 1 .. m /\ i \in 1 .. Len(c) + Len(y) /\ i <= Len(c)
        BY <1>1, <1>2, <1>3, <2>1
      <3> QED BY <1>2, <1>6, <3>1
    <2>2. CASE ~(i <= m)
      <3>1. i - m \in 1 .. L - m /\ m + (i - m) = i /\ i \in 1 .. Len(c) + Len(y) /\ ~(i <= Len(c)) /\ i - Len(c) = i - m
        BY <1>1, <1>2, <1>3, <2>2
      <3> QED BY <1>3, <1>6, <3>1
    <2> QED BY <2>1, <2>2
  <1>9. z = [i \in 1 .. L |-> z[i]]
    BY <1>5, <1>7
  <1>10. z = b
    BY ONLY <1>4, <1>8, <1>9
  <1>11. y # <<>>
    <2>1. Len(y) # 0
      BY <1>1, <1>3
    <2> QED BY <2>1
  <1> QED BY ONLY <1>2, <1>3, <1>10, <1>11 DEF z, c, y

(* Bytes that could be read cannot be after they were cut or ran on. *)
LEMMA DamagedBytes ==
    ASSUME NEW net \in DOMAIN Assets, NEW b \in Seq(Nat), b # <<>>, read_from(net, b).ok,
           NEW c \in {SubSeq(b, 1, Len(b) - 1), SubSeq(b, 1, Len(b) \div 2), Append(b, 0)}
    PROVE  c \in Seq(Nat) /\ ~read_from(net, c).ok
  <1>1. ASSUME NEW m \in 0 .. Len(b) - 1, c = SubSeq(b, 1, m)
        PROVE  c \in Seq(Nat) /\ ~read_from(net, c).ok
    <2> DEFINE y == SubSeq(b, m + 1, Len(b))
    <2>1. c \in Seq(Nat) /\ y \in Seq(Nat) /\ y # <<>> /\ b = c \o y
      BY <1>1, CutInTwo
    <2> HIDE DEF y
    <2>4. ASSUME read_from(net, c).ok PROVE FALSE
      <3>1. ~read_from(net, c \o y).ok
        BY <2>1, <2>4, WireSound
      <3> QED BY <2>1, <3>1
    <2> QED BY <2>1, <2>4
  <1>2. CASE c = Append(b, 0)
    <2> DEFINE x == <<0>>
    <2>1. x \in Seq(Nat) /\ x # <<>> /\ c = b \o x
      BY <1>2
    <2> HIDE DEF x
    <2>2. ~read_from(net, b \o x).ok
      BY <2>1, WireSound
    <2> QED BY <2>1, <2>2
  <1>3. Len(b) - 1 \in 0 .. Len(b) - 1 /\ Len(b) \div 2 \in 0 .. Len(b) - 1
    <2>1. Len(b) \in Nat /\ Len(b) # 0
      OBVIOUS
    <2> QED BY <2>1
  <1> QED BY <1>1, <1>2, <1>3

-----------------------------------------------------------------------------
(* Every step keeps JourneyInv. *)
LEMMA JourneyInvStep == JourneyInv /\ [Next]_vars => JourneyInv'
  <1> SUFFICES ASSUME JourneyInv, [Next]_vars PROVE JourneyInv'
    OBVIOUS
  <1>0. HeldInv /\ WireInv /\ JsonInv /\ ReadInv
    BY DEF JourneyInv
  <1>1. CASE Validate
    <2>1. /\ held # Nothing /\ validate(held) /\ passed' = TRUE
          /\ UNCHANGED <<chain, held, wire, json, intact, read, origin, legs>>
      BY <1>0, <1>1, HoldingIsUnread DEF Validate
    <2>2. HeldInv'
      BY <1>0, <2>1 DEF HeldInv
    <2>3. WireInv' /\ JsonInv' /\ ReadInv'
      BY <1>0, <2>1 DEF WireInv, JsonInv, ReadInv
    <2> QED BY <2>2, <2>3 DEF JourneyInv
  <1>2. CASE Serialize
    <2>1. /\ read = Unread /\ held # Nothing /\ wire = <<>> /\ json = NoJson
          /\ wire' = append_to(held) /\ origin' = IF origin = <<>> THEN wire' ELSE origin
          /\ UNCHANGED <<chain, held, passed, json, intact, read, legs>>
      BY <1>0, <1>2, HoldingIsUnread DEF Serialize
    <2>2. append_to(held) \in Seq(Nat) /\ append_to(held) # <<>>
      BY <1>0, <2>1, SomethingHeld DEF HeldInv
    <2>3. HeldInv'
      BY <1>0, <2>1 DEF HeldInv
    <2>4. WireInv'
      <3>1. intact
        BY <1>0, <2>1 DEF WireInv
      <3> QED BY <1>0, <2>1, <2>2, <3>1 DEF WireInv
    <2>5. JsonInv' /\ ReadInv'
      BY <1>0, <2>1 DEF JsonInv, ReadInv
    <2> QED BY <2>3, <2>4, <2>5 DEF JourneyInv
  <1>3. CASE Render
    <2>1. /\ read = Unread /\ held # Nothing /\ wire = <<>> /\ json = NoJson
          /\ json' = to_json(held) /\ origin' = IF origin = <<>> THEN append_to(held) ELSE origin
          /\ UNCHANGED <<chain, held, passed, wire, intact, read, legs>>
      BY <1>0, <1>3, HoldingIsUnread DEF Render
    <2>2. /\ to_json(held) = Json(to_json(held).shape, to_json(held).name, to_json(held).value)
          /\ IsNamed(to_json(held)) /\ IsJsonOf(to_json(held), held)
      BY <1>0, <2>1, JsonOfHeld DEF HeldInv
    <2>3. HeldInv'
      BY <1>0, <2>1 DEF HeldInv
    <2>4. WireInv'
      BY <1>0, <2>1 DEF WireInv
    <2>5. JsonInv'
      BY <2>1, <2>2 DEF JsonInv
    <2>6. ReadInv'
      BY <2>1 DEF ReadInv
    <2> QED BY <2>3, <2>4, <2>5, <2>6 DEF JourneyInv
  <1>4. CASE Reshape
    <2>1. /\ read = Unread /\ json # NoJson /\ json.shape = "pair"
          /\ json' = [json EXCEPT !.shape = "typed"]
          /\ UNCHANGED <<chain, held, passed, wire, intact, read, origin, legs>>
      BY <1>4 DEF Reshape
    <2>2. json = Json(json.shape, json.name, json.value) /\ IsNamed(json) /\ wire = <<>>
      BY <1>0, <2>1 DEF JsonInv, WireInv
    <2>3. json' = Json("typed", json.name, json.value)
      BY <2>1, <2>2 DEF Json
    <2>4. json'.shape = "typed" /\ json'.name = json.name /\ json'.value = json.value
      BY <2>3 DEF Json
    <2>5. HeldInv'
      BY <1>0, <2>1 DEF HeldInv
    <2>6. WireInv'
      <3>1. json' # NoJson
        BY <2>4 DEF NoJson, Json
      <3> QED BY <1>0, <2>1, <2>2, <3>1 DEF WireInv
    <2>7. JsonInv'
      <3>1. IsNamed(json')
        BY <2>2, <2>4 DEF IsNamed
      <3>2. ASSUME intact, held = Nothing PROVE FromHistory(json')
        <4>1. FromHistory(json)
          BY <1>0, <2>1, <3>2 DEF JsonInv
        <4> QED BY <2>4, <4>1 DEF FromHistory
      <3>3. ASSUME intact, held # Nothing PROVE IsJsonOf(json', held)
        <4>1. IsJsonOf(json, held)
          BY <1>0, <2>1, <3>3 DEF JsonInv
        <4> QED BY <2>4, <4>1 DEF IsJsonOf
      <3> QED BY <2>1, <2>3, <2>4, <3>1, <3>2, <3>3 DEF JsonInv
    <2>8. ReadInv'
      BY <2>1 DEF ReadInv
    <2> QED BY <2>5, <2>6, <2>7, <2>8 DEF JourneyInv
  <1>5. CASE Damage
    <2>1. /\ intact' = FALSE /\ read = Unread
          /\ UNCHANGED <<chain, held, passed, read, origin, legs>>
      BY <1>5 DEF Damage
    <2>2. HeldInv' /\ ReadInv'
      BY <1>0, <2>1 DEF HeldInv, ReadInv
    <2>3. CASE /\ wire # <<>> /\ read_from(chain, wire).ok
               /\ wire' \in {SubSeq(wire, 1, Len(wire) - 1), SubSeq(wire, 1, Len(wire) \div 2),
                             Append(wire, 0)} \ {<<>>}
               /\ UNCHANGED json
      <3>1. wire \in Seq(Nat) /\ json = NoJson /\ chain \in DOMAIN Assets
        BY <1>0, <2>3 DEF WireInv, HeldInv
      <3>2. wire' \in {SubSeq(wire, 1, Len(wire) - 1), SubSeq(wire, 1, Len(wire) \div 2), Append(wire, 0)}
        BY <2>3
      <3>3. wire' \in Seq(Nat) /\ ~read_from(chain, wire').ok
        BY <2>3, <3>1, <3>2, DamagedBytes
      <3>4. WireInv'
        BY <2>1, <2>3, <3>1, <3>3 DEF WireInv
      <3>5. JsonInv'
        BY <1>0, <2>1, <2>3 DEF JsonInv
      <3> QED BY <2>2, <3>4, <3>5 DEF JourneyInv
    <2>4. CASE /\ json # NoJson
               /\ \/ json' = [json EXCEPT !.shape = "other"]
                  \/ \E f \in DOMAIN json.value :
                       \/ json' = [json EXCEPT !.value = Without(f)]
                       \/ json' = [json EXCEPT !.value = Misspelt(f)]
               /\ UNCHANGED wire
      <3>1. json = Json(json.shape, json.name, json.value) /\ IsNamed(json) /\ wire = <<>>
        BY <1>0, <2>4 DEF JsonInv, WireInv
      <3>2. \E shape, value : json' = Json(shape, json.name, value)
        <4>1. CASE json' = [json EXCEPT !.shape = "other"]
          BY <3>1, <4>1 DEF Json
        <4>2. CASE \E f \in DOMAIN json.value : json' = [json EXCEPT !.value = Without(f)]
          BY <3>1, <4>2 DEF Json
        <4>3. CASE \E f \in DOMAIN json.value : json' = [json EXCEPT !.value = Misspelt(f)]
          BY <3>1, <4>3 DEF Json
        <4> QED BY <2>4, <4>1, <4>2, <4>3
      <3>3. json' = Json(json'.shape, json'.name, json'.value) /\ IsNamed(json')
        BY <3>1, <3>2 DEF Json, IsNamed
      <3>4. WireInv'
        BY <1>0, <2>4, <3>1, <3>3, SomethingNamed DEF WireInv
      <3>5. JsonInv'
        BY <2>1, <3>3 DEF JsonInv
      <3> QED BY <2>2, <3>4, <3>5 DEF JourneyInv
    <2> QED BY <1>5, <2>3, <2>4 DEF Damage
  <1>6. CASE ReadWire
    <2>1. /\ wire # <<>> /\ read' = Result(read_from(chain, wire), "wire")
          /\ UNCHANGED <<chain, held, passed, wire, json, intact, origin, legs>>
      BY <1>6 DEF ReadWire
    <2> QED BY <1>0, <2>1 DEF JourneyInv, HeldInv, WireInv, JsonInv, ReadInv
  <1>7. CASE ReadJson
    <2>1. /\ json # NoJson /\ read' = Result(from_json(json), "json")
          /\ UNCHANGED <<chain, held, passed, wire, json, intact, origin, legs>>
      BY <1>7 DEF ReadJson
    <2> QED BY <1>0, <2>1 DEF JourneyInv, HeldInv, WireInv, JsonInv, ReadInv
  <1>8. CASE ReadHistory
    <2>1. /\ json # NoJson /\ read' = Result(any_from_json(json), "history")
          /\ UNCHANGED <<chain, held, passed, wire, json, intact, origin, legs>>
      BY <1>8 DEF ReadHistory
    <2> QED BY <1>0, <2>1 DEF JourneyInv, HeldInv, WireInv, JsonInv, ReadInv
  <1>9. CASE SendOn
    <2>1. /\ read.ok /\ intact /\ ~Table!is_virtual(read.val.op)
          /\ held' = read.val /\ passed' = FALSE /\ wire' = <<>> /\ json' = NoJson /\ read' = Unread
          /\ UNCHANGED <<chain, intact, origin>>
      BY <1>9 DEF SendOn
    <2>2. IsOperation(chain, held') /\ (held # Nothing => append_to(held') = append_to(held))
      BY <2>1, SentOn
    <2>3. chain \in DOMAIN Assets
      BY <1>0 DEF HeldInv
    <2>4. held' # Nothing
      BY <2>2, <2>3, SomethingHeld
    <2>5. HeldInv'
      BY <1>0, <2>1, <2>2, <2>3, <2>4 DEF HeldInv
    <2>6. NoJson = Json(NoJson.shape, NoJson.name, NoJson.value) /\ <<>> \in Seq(Nat)
      BY DEF NoJson, Json
    <2>7. WireInv' /\ JsonInv' /\ ReadInv'
      BY <2>1, <2>6 DEF WireInv, JsonInv, ReadInv
    <2> QED BY <2>5, <2>7 DEF JourneyInv
  <1>10. CASE UNCHANGED vars
    BY <1>0, <1>10 DEF vars, JourneyInv, HeldInv, WireInv, JsonInv, ReadInv
  <1> QED BY <1>1, <1>2, <1>3, <1>4, <1>5, <1>6, <1>7, <1>8, <1>9, <1>10 DEF Next

(* The inductive invariant holds of every journey, whatever was built,     *)
(* whatever bytes others wrote, and however it was damaged.                *)
THEOREM JourneyInvariant == Spec => []JourneyInv
  BY JourneyInvInit, JourneyInvStep, PTL DEF Spec

-----------------------------------------------------------------------------
(* Nothing the chain emits becomes an operation that can be sent, from     *)
(* bytes or from JSON of any making, and history reads it under its own    *)
(* name and complete. (OperationId::from_u32, is_virtual, Operation and    *)
(* VirtualOperation from JSON)                                             *)
THEOREM NothingEmittedIsSent == Spec => []NeverSignable
  <1>1. JourneyInv => NeverSignable
    <2> SUFFICES ASSUME JourneyInv PROVE NeverSignable
      OBVIOUS
    <2>1. held # Nothing => held.op \in DOMAIN Table!Declared
      BY DEF JourneyInv, HeldInv, IsOperation
    <2>2. ReadInv
      BY DEF JourneyInv
    <2>3. ASSUME read.ok, Table!is_virtual(read.val.op) PROVE read.how = "history"
      <3>1. CASE read.how = "wire"
        <4>1. read_from(chain, wire).ok /\ read.val = read_from(chain, wire).val
          BY <2>2, <2>3, <3>1, ReadIsResult
        <4> QED BY <2>3, <4>1, WireSignable, DeclaredNotVirtual
      <3>2. CASE read.how = "json"
        <4>1. from_json(json).ok /\ read.val = from_json(json).val
          BY <2>2, <2>3, <3>2, ReadIsResult
        <4> QED BY <2>3, <4>1, JsonSignable, DeclaredNotVirtual
      <3> QED BY <2>2, <2>3, <3>1, <3>2, ReadIsResult
    <2>4. ASSUME read.how = "history", intact, held = Nothing
          PROVE  /\ read.ok /\ read.val.op = json.name /\ Table!is_virtual(json.name)
                 /\ DOMAIN json.value \subseteq DOMAIN read.val.fields
      <3>1. json # NoJson /\ read.ok = any_from_json(json).ok /\ (read.ok => read.val = any_from_json(json).val)
        BY <2>2, <2>4, ReadIsResult
      <3>2. FromHistory(json)
        BY <2>4, <3>1 DEF JourneyInv, JsonInv
      <3> QED BY <3>1, <3>2, HistoryReads
    <2> QED BY <2>1, <2>3, <2>4 DEF NeverSignable
  <1> QED BY <1>1, JourneyInvariant, PTL

(* JSON that lost its frame or a field that is not optional never becomes  *)
(* an operation, to be sent or in history, however it was damaged.         *)
(* (split_operation_json, serde's required fields)                         *)
LEMMA LostIsMissed == JourneyInv => LostJsonRefused
  <1> SUFFICES ASSUME JourneyInv, read.ok, read.how # "wire"
               PROVE  json.shape # "other" /\ Complete(json.name, json.value)
    BY DEF LostJsonRefused, Complete
  <1>1. ReadInv /\ (json # NoJson => IsNamed(json))
    BY DEF JourneyInv, JsonInv
  <1>2. CASE read.how = "json"
    <2>1. json # NoJson /\ from_json(json).ok
      BY <1>1, <1>2, ReadIsResult
    <2> QED BY <1>1, <2>1, JsonComplete
  <1>3. CASE read.how = "history"
    <2>1. json # NoJson /\ any_from_json(json).ok
      BY <1>1, <1>3, ReadIsResult
    <2> QED BY <1>1, <2>1, HistoryComplete
  <1> QED BY <1>1, <1>2, <1>3, ReadIsResult

(* JSON that lost its frame or a field that is not optional never becomes  *)
(* an operation, to be sent or in history (serde's required fields;        *)
(* from_json, any_from_json). *)
THEOREM LostFieldsAreMissed == Spec => []LostJsonRefused
  BY LostIsMissed, JourneyInvariant, PTL

(* Nor do bytes that were cut short or ran on, for any operation on any    *)
(* chain, whoever wrote them. (Reader, expect_end in from_wire)            *)
THEOREM DamageIsDetected == Spec => []DamageDetected
  <1>1. JourneyInv => DamageDetected
    <2> SUFFICES ASSUME JourneyInv, ~intact, read.ok, read.how = "wire" PROVE FALSE
      BY LostIsMissed DEF DamageDetected
    <2>1. wire # <<>> /\ read_from(chain, wire).ok
      BY ReadIsResult DEF JourneyInv
    <2> QED BY <2>1 DEF JourneyInv, WireInv
  <1> QED BY <1>1, JourneyInvariant, PTL

(* For every operation, every value of its fields and every chain: the     *)
(* bytes are read as the operation hived has of them, field for field, the *)
(* JSON as one of the same bytes, or on a chain whose symbols Hive does    *)
(* not know not at all. (Operation::append_to, read_from, to_json,         *)
(* from_json)                                                              *)
THEOREM OperationsReadBack == Spec => []ReadsBack
  <1>1. JourneyInv => ReadsBack
    <2> SUFFICES ASSUME JourneyInv, read.how # "unread", intact, held # Nothing
                 PROVE  /\ read.how = "wire" => read.ok /\ read.val = SeenByHived(held)
                        /\ read.how # "wire" => (chain # "HiveTestnet" => read.ok)
                        /\ read.ok => append_to(read.val) = append_to(held)
      BY DEF ReadsBack
    <2>1. chain \in DOMAIN Assets /\ IsOperation(chain, held) /\ ReadInv
      BY DEF JourneyInv, HeldInv
    <2>2. CASE read.how = "wire"
      <3>1. /\ wire # <<>> /\ read.ok = read_from(chain, wire).ok
            /\ read.ok => read.val = read_from(chain, wire).val
        BY <2>1, <2>2, ReadIsResult
      <3>2. wire = append_to(held)
        BY <3>1 DEF JourneyInv, WireInv
      <3> DEFINE k == KeptOperation(chain, held)
                 g == read_from(chain, wire)
      <3>3. g = Got(k, <<>>) /\ append_to(k) = append_to(held)
        BY <2>1, <3>2, OperationBack
      <3>4. k = SeenByHived(held)
        BY <2>1, SeenOperation
      <3>5. read.ok = g.ok /\ (read.ok => read.val = g.val)
        BY <3>1
      <3> HIDE DEF k, g
      <3>6. g.ok /\ g.val = k
        BY <3>3, GotIs
      <3> QED BY <2>2, <3>3, <3>4, <3>5, <3>6
    <2>3. CASE read.how \in {"json", "history"}
      <3>1. /\ json # NoJson
            /\ read.how = "json" => read.ok = from_json(json).ok /\ (read.ok => read.val = from_json(json).val)
            /\ read.how = "history" => /\ read.ok = any_from_json(json).ok
                                       /\ read.ok => read.val = any_from_json(json).val
        BY <2>1, <2>3, ReadIsResult
      <3>2. IsJsonOf(json, held)
        BY <3>1 DEF JourneyInv, JsonInv
      <3>3. /\ chain # "HiveTestnet" => from_json(json).ok
            /\ from_json(json).ok => append_to(from_json(json).val) = append_to(held)
            /\ any_from_json(json) = from_json(json)
        BY <2>1, <3>2, JsonBack
      <3>4. read.ok = from_json(json).ok /\ (read.ok => read.val = from_json(json).val)
        BY <2>3, <3>1, <3>3
      <3> QED BY <2>3, <3>3, <3>4
    <2> QED BY <2>1, <2>2, <2>3, ReadIsResult
  <1> QED BY <1>1, JourneyInvariant, PTL

(* However often an operation is read and sent on, as bytes or as JSON,    *)
(* its bytes are those of the first time, so that a signature over them    *)
(* stays one over them. (append_to after read_from, after from_json)       *)
THEOREM BytesSettle == Spec => []Settles
  <1>1. JourneyInv => Settles
    BY DEF JourneyInv, HeldInv, WireInv, Settles
  <1> QED BY <1>1, JourneyInvariant, PTL

(* What validate() let through arrives at hived in the order and without   *)
(* the repetitions its containers ask for, transport form included.        *)
(* (account_set_allowed, proposal_ids_allowed, properties_allowed,         *)
(* beneficiaries_allowed; write_sorted_account_set and its like)           *)
THEOREM ValidatedArrivesCanonical == Spec => []ValidatedIsCanonical
  <1>1. JourneyInv => ValidatedIsCanonical
    <2> SUFFICES ASSUME JourneyInv, passed, read.ok, read.how = "wire", intact
                 PROVE  \A i \in DOMAIN Table!Read[read.val.op] :
                          Canonical(Table!Read[read.val.op][i][2], read.val.fields[Table!Read[read.val.op][i][1]])
      BY DEF ValidatedIsCanonical, Canonical
    <2>1. chain \in DOMAIN Assets /\ held # Nothing /\ IsOperation(chain, held) /\ validate(held) /\ ReadInv
      BY DEF JourneyInv, HeldInv
    <2>2. wire # <<>> /\ read.val = read_from(chain, wire).val
      BY <2>1, ReadIsResult
    <2>3. wire = append_to(held)
      BY <2>1, <2>2 DEF JourneyInv, WireInv
    <2> DEFINE op == held.op
               w == Table!Written[op]
               r == Table!Read[op]
               N == Len(w)
               k == KeptOperation(chain, held)
               g == read_from(chain, wire)
               v == Taken(chain, held)
    <2>4. g = Got(k, <<>>) /\ k.op = op /\ Has(k, w, v)
      BY <2>1, <2>3, OperationBack
    <2>5. /\ DOMAIN w = 1 .. N /\ DOMAIN r = 1 .. N
          /\ \A i \in 1 .. N : w[i][2] \in WireKinds /\ r[i][1] = w[i][1] /\ r[i][2] = ReadAs(w[i][2])
          /\ \A i \in 1 .. N : held.fields[w[i][1]] \in Values(chain, w[i][2])
      BY <2>1, OperationIs
    <2>6. \A i \in DOMAIN w : field_allowed(w[i][2], held.fields[w[i][1]])
      BY <2>1 DEF validate
    <2>7. v = [i \in DOMAIN w |-> Kept(chain, w[i][2], held.fields[w[i][1]])]
      BY DEF Taken
    <2>8. read.val = g.val
      BY <2>2
    <2> HIDE DEF w, r, N, k, g, v
    <2>9. g.val = k
      BY <2>4, GotIs
    <2>10. ASSUME NEW i \in DOMAIN r PROVE Canonical(r[i][2], k.fields[r[i][1]])
      <3> DEFINE kind == w[i][2]
                 x == held.fields[w[i][1]]
      <3>1. /\ i \in DOMAIN w /\ kind \in WireKinds /\ r[i][1] = w[i][1] /\ r[i][2] = ReadAs(kind)
            /\ x \in Values(chain, kind) /\ field_allowed(kind, x)
        BY <2>5, <2>6
      <3>2. k.fields[w[i][1]] = v[i] /\ v[i] = Kept(chain, kind, x)
        BY <2>4, <2>7, <3>1 DEF Has
      <3> HIDE DEF kind, x
      <3>3. Canonical(ReadAs(kind), Kept(chain, kind, x))
        BY <3>1, AllowedIsCanonical
      <3>4. r[i][1] = w[i][1] /\ r[i][2] = ReadAs(kind)
        BY ONLY <3>1
      <3> QED BY ONLY <3>2, <3>3, <3>4
    <2> QED BY <2>4, <2>8, <2>9, <2>10 DEF r
  <1> QED BY <1>1, JourneyInvariant, PTL

=============================================================================
