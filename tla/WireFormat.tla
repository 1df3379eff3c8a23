------------------------------ MODULE WireFormat ------------------------------
(***************************************************************************)
(* The Graphene wire format: what hivecomb/src/types.rs writes and         *)
(* reader.rs reads, with the assets (asset.rs, chains.rs), the authorities *)
(* (authority.rs) and the nested values of operations/mod.rs.              *)
(*                                                                         *)
(* A wire is a sequence of bytes.  A string is a sequence of bytes below   *)
(* 128, a fixed-width integer or time is the sequence of its little-endian *)
(* bytes, an optional is the empty sequence or a sequence of one value.  A *)
(* reader takes the bytes that are left and returns the value and the rest *)
(* of them, or Fail.                                                       *)
(***************************************************************************)
EXTENDS Naturals, Sequences, FiniteSets, SequencesExt

CONSTANT MaxAuthorityMembership      \* MAX_AUTHORITY_MEMBERSHIP

Fail == [ok |-> FALSE, val |-> <<>>, rest |-> <<>>]
Got(v, rest) == [ok |-> TRUE, val |-> v, rest |-> rest]
Then(r, Rest(_, _)) == IF r.ok THEN Rest(r.val, r.rest) ELSE Fail

(* Byte strings in the order Rust compares them, and a stable sort by a key. *)
Before(s, t) ==
  \E i \in DOMAIN t : /\ \A j \in 1..(i - 1) : j \in DOMAIN s /\ s[j] = t[j]
                      /\ i \in DOMAIN s => s[i] < t[i]
Sorted(items, Key(_)) ==
  LET place(i) == Cardinality({j \in DOMAIN items :
                    \/ Before(Key(items[j]), Key(items[i]))
                    \/ Key(items[j]) = Key(items[i]) /\ j <= i})
  IN  [n \in DOMAIN items |-> items[CHOOSE i \in DOMAIN items : place(i) = n]]
Repeats(items, Key(_)) ==
  \E i, j \in DOMAIN items : i # j /\ Key(items[i]) = Key(items[j])

----------------------------------------------------------------------------
(* Strings as hived's JSON parser will have them: it drops the backslash of *)
(* the escapes it does not know and keeps the rest.                         *)
Affected(c) == c < 32 /\ c \notin {9, 10, 13}
HexDigit(d) == IF d < 10 THEN 48 + d ELSE 87 + d
hived_transport_form(s) ==
  FlattenSeq([i \in DOMAIN s |->
    CASE s[i] = 8  -> <<98>>
      [] s[i] = 12 -> <<102>>
      [] Affected(s[i]) /\ s[i] \notin {8, 12} ->
           <<117, 48, 48, HexDigit(s[i] \div 16), HexDigit(s[i] % 16)>>
      [] OTHER -> <<s[i]>>])

(* Writers. *)
write_varint32_unmasked(n) ==
  LET v[m \in Nat] == IF m < 128 THEN <<m>> ELSE <<128 + m>> \o v[m \div 128]
  IN  v[n]
write_varint32(n) ==
  LET v[m \in Nat] == IF m < 128 THEN <<m>> ELSE <<128 + (m % 128)>> \o v[m \div 128]
  IN  v[n]
write_bytes(b) == write_varint32(Len(b)) \o b
write_string_as_given(s) == write_bytes(s)
write_string(s) == write_bytes(hived_transport_form(s))
write_array(items, W(_)) ==
  write_varint32(Len(items)) \o FlattenSeq([i \in DOMAIN items |-> W(items[i])])
write_optional(v, W(_)) == IF v = <<>> THEN <<0>> ELSE <<1>> \o W(v[1])

(* Readers.  A varint that would not fit an int here stands as MaxInt, which *)
(* like the number itself is no length, tag or count a reader accepts.       *)
MaxInt == 2147483647
read_varint32(b) ==
  LET ends == {i \in DOMAIN b : b[i] < 128}
      n == CHOOSE i \in ends : \A j \in ends : i <= j
      from[i \in 1..6] == IF i > n THEN 0 ELSE (b[i] % 128) + 128 * from[i + 1]
  IN  IF ends = {} \/ n > 5 \/ (n = 5 /\ b[5] > 15) THEN Fail
      ELSE Got(IF n = 5 /\ b[5] > 7 THEN MaxInt ELSE from[1], SubSeq(b, n + 1, Len(b)))
take(b, n) == IF Len(b) < n THEN Fail ELSE Got(SubSeq(b, 1, n), SubSeq(b, n + 1, Len(b)))
read_bool(b) ==
  Then(take(b, 1), LAMBDA v, rest : IF v \in {<<0>>, <<1>>} THEN Got(v, rest) ELSE Fail)
length(b) ==
  Then(read_varint32(b), LAMBDA n, rest : IF n <= Len(rest) THEN Got(n, rest) ELSE Fail)
read_bytes(b) == Then(length(b), LAMBDA n, rest : take(rest, n))
read_string(b) ==
  Then(read_bytes(b), LAMBDA s, rest :
         IF \A i \in DOMAIN s : s[i] < 128 THEN Got(s, rest) ELSE Fail)

(* Values read one after the other, an array of them, and an optional one. *)
InTurn(b, items, R(_, _)) ==
  FoldLeft(LAMBDA got, item :
             Then(got, LAMBDA vals, left :
                    Then(R(item, left), LAMBDA v, rest : Got(Append(vals, v), rest))),
           Got(<<>>, b), items)
read_array(b, R(_)) ==
  Then(length(b), LAMBDA n, rest : InTurn(rest, [i \in 1..n |-> i], LAMBDA i, c : R(c)))
read_optional(b, R(_)) ==
  Then(read_bool(b), LAMBDA present, left :
         IF present = <<0>> THEN Got(<<>>, left)
         ELSE Then(R(left), LAMBDA v, rest : Got(<<v>>, rest)))

----------------------------------------------------------------------------
(* Assets.  A NAI is shortened to its last digits. *)
ChainAsset(nai, symbol, wire, precision) ==
  [nai |-> nai, symbol |-> symbol, wire_symbol |-> wire, precision |-> precision]
HBD == <<72, 66, 68>>
SBD == <<83, 66, 68>>
TBD == <<84, 66, 68>>
HIVE == <<72, 73, 86, 69>>
STEEM == <<83, 84, 69, 69, 77>>
TESTS == <<84, 69, 83, 84, 83>>
VESTS == <<86, 69, 83, 84, 83>>
Assets ==
  [ Hive        |-> <<ChainAsset(<<13>>, HBD, SBD, 3), ChainAsset(<<21>>, HIVE, STEEM, 3),
                      ChainAsset(<<37>>, VESTS, VESTS, 6)>>,
    HiveTestnet |-> <<ChainAsset(<<13>>, TBD, TBD, 3), ChainAsset(<<21>>, TESTS, TESTS, 3),
                      ChainAsset(<<37>>, VESTS, VESTS, 6)>>,
    SteemLegacy |-> <<ChainAsset(<<13>>, SBD, SBD, 3), ChainAsset(<<21>>, STEEM, STEEM, 3),
                      ChainAsset(<<37>>, VESTS, VESTS, 6)>> ]
asset(chain, s) ==
  LET known == Assets[chain]
      named == {i \in DOMAIN known : s \in {known[i].symbol, known[i].nai, known[i].wire_symbol}}
  IN  IF named = {} THEN <<>> ELSE <<known[CHOOSE i \in named : \A j \in named : i <= j]>>

Amount(units, a) == [units |-> units, precision |-> a.precision, symbol |-> a.symbol,
                     wire_symbol |-> a.wire_symbol]
write_amount(a) ==
  a.units \o <<a.precision>>
    \o [i \in 1..7 |-> IF i <= Len(a.wire_symbol) THEN a.wire_symbol[i] ELSE 0]
AmountOf(chain, units, precision, raw) ==
  LET end == Cardinality({i \in 1..7 : \A j \in 1..i : raw[j] # 0})
      found == asset(chain, SubSeq(raw, 1, end))
  IN  IF /\ \A i \in (end + 1)..7 : raw[i] = 0
         /\ \A i \in 1..end : raw[i] < 128
         /\ found # <<>>
         /\ found[1].precision = precision
      THEN Got(Amount(units, found[1]), <<>>)
      ELSE Fail
read_amount(chain, b) ==
  Then(take(b, 16), LAMBDA v, rest :
         Then(AmountOf(chain, SubSeq(v, 1, 8), v[9], SubSeq(v, 10, 16)),
              LAMBDA a, none : Got(a, rest)))

(* A compressed key: PublicKey::from_bytes refuses what is no curve point, *)
(* here every first byte but 2 and 3.                                      *)
read_key(b) ==
  Then(take(b, 33), LAMBDA k, rest : IF k[1] \in {2, 3} THEN Got(k, rest) ELSE Fail)

(* Authority::new: both maps sorted and without repetitions, the threshold *)
(* positive, the two maps within one budget.  An entry is <<who, weight>>. *)
Authority(threshold, accounts, keys) ==
  LET Name(a) == hived_transport_form(a[1])
      Serialized(k) == k[1]
  IN  IF \/ Repeats(accounts, Name)
         \/ Repeats(keys, Serialized)
         \/ \A i \in DOMAIN threshold : threshold[i] = 0
         \/ Len(accounts) + Len(keys) > MaxAuthorityMembership
      THEN Fail
      ELSE Got([weight_threshold |-> threshold, account_auths |-> Sorted(accounts, Name),
                key_auths |-> Sorted(keys, Serialized)], <<>>)
write_authority(a) ==
  a.weight_threshold \o write_array(a.account_auths, LAMBDA e : write_string(e[1]) \o e[2])
                     \o write_array(a.key_auths, LAMBDA e : e[1] \o e[2])
Weighted(e) == Then(e, LAMBDA who, left :
                      Then(take(left, 2), LAMBDA w, rest : Got(<<who, w>>, rest)))
read_account_auth(b) == Weighted(read_string(b))
read_key_auth(b) == Weighted(read_key(b))
read_authority(b) ==
  Then(take(b, 4), LAMBDA threshold, b1 :
    Then(read_array(b1, read_account_auth), LAMBDA accounts, b2 :
      Then(read_array(b2, read_key_auth), LAMBDA keys, rest :
        Then(Authority(threshold, accounts, keys), LAMBDA a, none : Got(a, rest)))))

----------------------------------------------------------------------------
(* The static variants of mod.rs: a tag, then what it announces.  The only *)
(* comment_options extension is a list of beneficiaries <<account, weight>>, *)
(* sorted on the way out; the only recurrent_transfer one is a pair id.      *)
BeneficiaryAccount(e) == hived_transport_form(e[1])
write_beneficiaries(list) ==
  <<0>> \o write_array(Sorted(list, BeneficiaryAccount), LAMBDA e : write_string(e[1]) \o e[2])
Tagged(b, tag, R(_)) ==
  Then(read_varint32(b), LAMBDA n, rest : IF n = tag THEN R(rest) ELSE Fail)
read_beneficiaries(b) == Tagged(b, 0, LAMBDA c : read_array(c, read_account_auth))
write_pair_id(p) == <<1>> \o p
read_pair_id(b) == Tagged(b, 1, LAMBDA c : take(c, 1))
read_no_extensions(b) == Tagged(b, 0, LAMBDA c : Got(<<>>, c))

(* write_sorted_account_set, write_sorted_proposal_ids, and the flat_map of *)
(* witness_set_properties: hived's ordered containers.                      *)
ProposalOrder(p) == Reverse(p)
PropertyKey_as_given(p) == p[1]
PropertyKey(p) == hived_transport_form(p[1])
Width == [bool |-> 1, u8 |-> 1, i16 |-> 2, u16 |-> 2, u32 |-> 4, time |-> 4, u64 |-> 8,
          blockid |-> 20]

Write(kind, v) ==
  CASE kind \in DOMAIN Width \cup {"key"} -> v
    [] kind = "str"     -> write_string(v)
    [] kind = "hex"     -> write_bytes(v)
    [] kind = "amount"  -> write_amount(v)
    [] kind = "price"   -> write_amount(v[1]) \o write_amount(v[2])
    [] kind = "props"   -> write_amount(v[1]) \o v[2] \o v[3]
    [] kind = "auth"    -> write_authority(v)
    [] kind = "auths"   -> write_array(v, write_authority)
    [] kind = "optauth" -> write_optional(v, write_authority)
    [] kind = "optkey"  -> write_optional(v, LAMBDA k : k)
    [] kind = "noext"   -> <<0>>
    [] kind = "coext"   -> write_array(v, write_beneficiaries)
    [] kind = "rtext"   -> write_array(v, write_pair_id)
    [] kind = "accounts" -> write_array(Sorted(v, hived_transport_form), write_string)
    [] kind = "ids"     -> write_array(Sorted(v, ProposalOrder), LAMBDA p : p)
    [] kind = "sortedprops" ->
         write_array(Sorted(v, PropertyKey), LAMBDA p : write_string(p[1]) \o write_bytes(p[2]))

(* A witness property: the bytes its value would have as a field of a kind. *)
property(key, kind, v) == <<key, Write(kind, v)>>

ReadKind(chain, kind, b) ==
  CASE kind = "bool"    -> read_bool(b)
    [] kind \in DOMAIN Width \ {"bool"} -> take(b, Width[kind])
    [] kind = "key"     -> read_key(b)
    [] kind = "str"     -> read_string(b)
    [] kind = "hex"     -> read_bytes(b)
    [] kind = "amount"  -> read_amount(chain, b)
    [] kind = "price"   -> InTurn(b, <<1, 2>>, LAMBDA i, c : read_amount(chain, c))
    [] kind = "props"   -> InTurn(b, <<16, 4, 2>>, LAMBDA w, c :
                                    IF w = 16 THEN read_amount(chain, c) ELSE take(c, w))
    [] kind = "auth"    -> read_authority(b)
    [] kind = "auths"   -> read_array(b, read_authority)
    [] kind = "optauth" -> read_optional(b, read_authority)
    [] kind = "optkey"  -> read_optional(b, read_key)
    [] kind = "noext"   -> read_no_extensions(b)
    [] kind = "coext"   -> read_array(b, read_beneficiaries)
    [] kind = "rtext"   -> read_array(b, read_pair_id)
    [] kind = "strs"    -> read_array(b, read_string)
    [] kind = "u64s"    -> read_array(b, LAMBDA c : take(c, 8))
    [] kind = "wprops"  -> read_array(b, LAMBDA c : InTurn(c, <<1, 2>>, LAMBDA i, d :
                                    IF i = 1 THEN read_string(d) ELSE read_bytes(d)))

----------------------------------------------------------------------------
(* What a field of a kind can hold: the Rust types of the fields, with the *)
(* private fields of Amount and Authority as their constructors leave them. *)
(* A length is what a varint can say.                                      *)
Text == Seq(0..127)
Fixed(n) == {s \in Seq(Nat) : Len(s) = n}
Lists(S) == {v \in Seq(S) : Len(v) <= MaxInt}
Optional(S) == {v \in Seq(S) : Len(v) <= 1}
Bools == {<<0>>, <<1>>}
Small(b) == 5 * Len(b) <= MaxInt    \* so are those of what is read from b, in transport
Blobs == {s \in Seq(Nat) : Len(s) <= MaxInt}
Strings == {s \in Text : Len(hived_transport_form(s)) <= MaxInt}
KeyBytes == {k \in Fixed(33) : k[1] \in {2, 3}}
AccountEntries == Strings \X Fixed(2)
KeyEntries == KeyBytes \X Fixed(2)
Properties == Strings \X Blobs

AuthorityFields == [weight_threshold : Fixed(4), account_auths : Lists(AccountEntries),
                    key_auths : Lists(KeyEntries)]
Authorities ==
  {a \in AuthorityFields : Authority(a.weight_threshold, a.account_auths, a.key_auths) = Got(a, <<>>)}

(* An amount may have come by JSON, under the name Hive has for an asset   *)
(* that is the same on the wire.                                           *)
AmountFields == [units : Fixed(8), precision : Nat, symbol : Seq(Nat), wire_symbol : Seq(Nat)]
KnownAssets == UNION {{Assets[c][i] : i \in DOMAIN Assets[c]} : c \in DOMAIN Assets}
Denominations(chain) ==
  {a \in KnownAssets : \E i \in DOMAIN Assets[chain] :
                         /\ Assets[chain][i].wire_symbol = a.wire_symbol
                         /\ Assets[chain][i].precision = a.precision}
Amounts(chain) == {v \in AmountFields : \E a \in Denominations(chain) : v = Amount(v.units, a)}

Values(chain, kind) ==
  CASE kind = "bool"     -> Bools
    [] kind \in DOMAIN Width \ {"bool"} -> Fixed(Width[kind])
    [] kind = "key"      -> KeyBytes
    [] kind = "str"      -> Strings
    [] kind = "hex"      -> Blobs
    [] kind = "amount"   -> Amounts(chain)
    [] kind = "price"    -> Amounts(chain) \X Amounts(chain)
    [] kind = "props"    -> Amounts(chain) \X Fixed(4) \X Fixed(2)
    [] kind = "auth"     -> Authorities
    [] kind = "auths"    -> Lists(Authorities)
    [] kind = "optauth"  -> Optional(Authorities)
    [] kind = "optkey"   -> Optional(KeyBytes)
    [] kind = "noext"    -> {<<>>}
    [] kind = "coext"    -> Lists(Lists(AccountEntries))
    [] kind = "rtext"    -> Lists(Fixed(1))
    [] kind \in {"accounts", "strs"} -> Lists(Strings)
    [] kind \in {"ids", "u64s"} -> Lists(Fixed(8))
    [] kind \in {"sortedprops", "wprops"} -> Lists(Properties)
=============================================================================
