----------------------------- MODULE OperationCodec -----------------------------
(***************************************************************************)
(* hivecomb/src/operations/mod.rs: an operation on its way to bytes and    *)
(* back, to JSON and back, and through validate().  An operation is the    *)
(* record of its name and of its fields; the tables say which fields it    *)
(* has, WireFormat what their bytes are.                                   *)
(***************************************************************************)
EXTENDS WireFormat

CONSTANTS MAX_TITLE_LEN, MAX_PERMLINK_LEN, MAX_MEMO_LEN, MAX_PROPOSAL_SUBJECT_LEN,
          MAX_WITNESS_URL_LEN, MAX_CUSTOM_ID_LEN, MAX_CUSTOM_DATA_LEN, MAX_PROPOSAL_IDS,
          MAX_BENEFICIARIES

Table == INSTANCE OperationTable

Named(layout, read) ==
  [f \in {layout[i][1] : i \in DOMAIN layout} |->
     read[CHOOSE i \in DOMAIN layout : layout[i][1] = f]]
Operation(op, fields) == [op |-> op, fields |-> fields]

(* An operation a caller may hold: the fields of its variant, each of its type. *)
IsOperation(chain, o) ==
  /\ o = Operation(o.op, o.fields) /\ o.op \in DOMAIN Table!Declared
  /\ LET layout == Table!Written[o.op]
     IN  /\ DOMAIN o.fields = {layout[i][1] : i \in DOMAIN layout}
         /\ \A i \in DOMAIN layout : o.fields[layout[i][1]] \in Values(chain, layout[i][2])

----------------------------------------------------------------------------
id(o) == Table!as_u32(o.op)

(* append_to: the tag, then every field in the writer's order. *)
append_to(o) ==
  LET layout == Table!Written[o.op]
  IN  write_varint32(id(o))
        \o FlattenSeq([i \in DOMAIN layout |-> Write(layout[i][2], o.fields[layout[i][1]])])

(* read_from, and the trailing bytes from_wire refuses.  A tag that is a   *)
(* virtual operation's or nobody's is refused; the mining operations have  *)
(* no decoder.                                                             *)
decoded(chain, op, b) ==
  Then(InTurn(b, Table!Read[op], LAMBDA field, c : ReadKind(chain, field[2], c)),
       LAMBDA vals, rest : Got(Operation(op, Named(Table!Read[op], vals)), rest))
expect_end_ignored(r) == r
expect_end(r) == IF r.rest = <<>> THEN r ELSE Fail
read_from(chain, b) ==
  Then(read_varint32(b), LAMBDA tag, rest :
         LET known == Table!from_u32(tag)
         IN  IF \E op \in known : ~Table!is_virtual(op) /\ op \in DOMAIN Table!Read
             THEN expect_end(decoded(chain, CHOOSE op \in known : TRUE, rest))
             ELSE Fail)

----------------------------------------------------------------------------
(* JSON.  An amount is its text, "1.234 HIVE", read on Hive whatever the   *)
(* chain; a time is the signed reading of its bits; bytes are hex digits.  *)
(* A key's text stands for its bytes.                                      *)
to_hex(b) == FlattenSeq([i \in DOMAIN b |-> <<b[i] \div 16, b[i] % 16>>])
from_hex(h) == IF Len(h) % 2 = 1 THEN Fail
               ELSE Got([i \in 1..(Len(h) \div 2) |-> 16 * h[2 * i - 1] + h[2 * i]], <<>>)
to_iso(t) == IF t[4] >= 128 THEN [before_epoch |-> TRUE, secs |-> [i \in 1..4 |-> 255 - t[i]]]
             ELSE [before_epoch |-> FALSE, secs |-> t]
from_iso(iso) == Got(IF iso.before_epoch THEN [i \in 1..4 |-> 255 - iso.secs[i]] ELSE iso.secs, <<>>)
amount_text(a) == [digits |-> a.units, decimals |-> a.precision, symbol |-> a.symbol]
parse_amount(text) ==
  LET found == asset("Hive", text.symbol)
  IN  IF found = <<>> \/ (found # <<>> /\ text.decimals # found[1].precision) THEN Fail
      ELSE Got(Amount(text.digits, found[1]), <<>>)

Each(items, R(_)) == InTurn(<<>>, items, LAMBDA item, c : R(item))
FieldJson(kind, v) ==
  CASE kind = "amount"  -> amount_text(v)
    [] kind = "amounts" -> [i \in DOMAIN v |-> amount_text(v[i])]
    [] kind = "price"   -> <<amount_text(v[1]), amount_text(v[2])>>
    [] kind = "props"   -> <<amount_text(v[1]), v[2], v[3]>>
    [] kind = "time"    -> to_iso(v)
    [] kind \in {"hex", "blockid"} -> to_hex(v)
    [] kind = "wprops"  -> [i \in DOMAIN v |-> <<v[i][1], to_hex(v[i][2])>>]
    [] kind = "coext"   -> [i \in DOMAIN v |-> Sorted(v[i], BeneficiaryAccount)]
    [] OTHER -> v
ReadFieldJson(kind, j) ==
  CASE kind = "amount"  -> parse_amount(j)
    [] kind = "amounts" -> Each(j, parse_amount)
    [] kind = "price"   -> Each(j, parse_amount)
    [] kind = "props"   -> Then(parse_amount(j[1]), LAMBDA fee, none :
                                  Got(<<fee, j[2], j[3]>>, <<>>))
    [] kind = "time"    -> from_iso(j)
    [] kind = "hex"     -> from_hex(j)
    [] kind = "blockid" -> IF Len(j) = 40 THEN from_hex(j) ELSE Fail
    [] kind = "key"     -> read_key(j)
    [] kind = "optkey"  -> IF j = <<>> THEN Got(j, <<>>) ELSE Each(j, read_key)
    [] kind = "auth"    -> Authority(j.weight_threshold, j.account_auths, j.key_auths)
    [] kind \in {"auths", "optauth"} ->
         Each(j, LAMBDA a : Authority(a.weight_threshold, a.account_auths, a.key_auths))
    [] kind = "wprops"  -> Each(j, LAMBDA p : Then(from_hex(p[2]), LAMBDA value, none :
                                                  Got(<<p[1], value>>, <<>>)))
    [] kind = "noext"   -> IF j = <<>> THEN Got(j, <<>>) ELSE Fail
    [] OTHER -> Got(j, <<>>)

(* JSON is [name, {fields}] (a pair), or {"type", "value"} from appbase. *)
Json(shape, name, value) == [shape |-> shape, name |-> name, value |-> value]
split_operation_json(j) == IF j.shape \in {"pair", "typed"} THEN Got(j, <<>>) ELSE Fail

to_json(o) ==
  LET layout == Table!Declared[o.op]
  IN  [shape |-> "pair", name |-> Table!name(o.op),
       value |-> Named(layout, [i \in DOMAIN layout |->
                                  FieldJson(layout[i][2], o.fields[layout[i][1]])])]

(* serde: every declared field must be there, save an Option and, in the   *)
(* chain's operations, the recurrent_transfer extensions.                  *)
may_be_missing(op, kind) == kind \in {"optauth", "optkey"} \/ (kind = "rtext" /\ Table!is_virtual(op))
from_parts(op, layout, value) ==
  Then(Each(layout, LAMBDA field :
              IF field[1] \in DOMAIN value THEN ReadFieldJson(field[2], value[field[1]])
              ELSE IF may_be_missing(op, field[2]) THEN Got(<<>>, <<>>) ELSE Fail),
       LAMBDA vals, none : Got(Operation(op, Named(layout, vals)), <<>>))

(* A signable operation is never read from a virtual one's name; history   *)
(* holds both kinds.                                                       *)
signable_from_parts(op, value) ==
  IF op \in DOMAIN Table!Declared THEN from_parts(op, Table!Declared[op], value) ELSE Fail
virtual_from_parts(op, value) ==
  IF op \in DOMAIN Table!Emitted THEN from_parts(op, Table!Emitted[op], value) ELSE Fail
from_json(j) ==
  LET known == Table!from_name(j.name)
  IN  IF split_operation_json(j).ok /\ \E op \in known : ~Table!is_virtual(op)
      THEN signable_from_parts(CHOOSE op \in known : TRUE, j.value) ELSE Fail
any_from_json(j) ==
  LET known == Table!from_name(j.name)
  IN  IF split_operation_json(j).ok /\ \E op \in known : Table!is_virtual(op)
      THEN virtual_from_parts(CHOOSE op \in known : TRUE, j.value) ELSE from_json(j)

----------------------------------------------------------------------------
(* validate(): the lengths, of the strings as they were given; the ordered *)
(* sets; custom_json's accounts; the beneficiaries.                        *)
check_len ==
  { <<"comment", "title", MAX_TITLE_LEN>>, <<"comment", "permlink", MAX_PERMLINK_LEN>>,
    <<"comment", "parent_permlink", MAX_PERMLINK_LEN>>,
    <<"witness_update", "url", MAX_WITNESS_URL_LEN>>,
    <<"custom_binary", "id", MAX_CUSTOM_ID_LEN>>, <<"custom_json", "id", MAX_CUSTOM_ID_LEN>>,
    <<"custom_json", "json", MAX_CUSTOM_DATA_LEN>>, <<"custom", "data", MAX_CUSTOM_DATA_LEN>>,
    <<"transfer", "memo", MAX_MEMO_LEN>>, <<"transfer_to_savings", "memo", MAX_MEMO_LEN>>,
    <<"transfer_from_savings", "memo", MAX_MEMO_LEN>>,
    <<"recurrent_transfer", "memo", MAX_MEMO_LEN>>,
    <<"create_proposal", "subject", MAX_PROPOSAL_SUBJECT_LEN>>,
    <<"create_proposal", "permlink", MAX_PERMLINK_LEN>>,
    <<"update_proposal", "subject", MAX_PROPOSAL_SUBJECT_LEN>>,
    <<"update_proposal", "permlink", MAX_PERMLINK_LEN>> }
lengths_allowed(o) == \A c \in check_len : c[1] = o.op => Len(o.fields[c[2]]) <= c[3]

account_set_allowed_as_given(s) == ~Repeats(s, LAMBDA a : a)
account_set_allowed(s) == ~Repeats(s, hived_transport_form)
proposal_ids_allowed(s) == s # <<>> /\ Len(s) <= MAX_PROPOSAL_IDS /\ ~Repeats(s, ProposalOrder)
properties_allowed(s) == ~Repeats(s, PropertyKey)

TwoBytes(w) == w[1] + 256 * w[2]
beneficiaries_allowed(list) ==
  /\ list # <<>>
  /\ Len(list) <= MAX_BENEFICIARIES
  /\ FoldLeft(LAMBDA sum, e : sum + TwoBytes(e[2]), 0, list) <= 10000
  /\ ~Repeats(list, BeneficiaryAccount)

field_allowed(kind, v) ==
  CASE kind = "accounts"    -> account_set_allowed(v)
    [] kind = "ids"         -> proposal_ids_allowed(v)
    [] kind = "sortedprops" -> properties_allowed(v)
    [] kind = "coext"       -> \A i \in DOMAIN v : beneficiaries_allowed(v[i])
    [] OTHER -> TRUE
custom_json_allowed(o) ==
  o.op = "custom_json" =>
    /\ Len(o.fields.required_auths) + Len(o.fields.required_posting_auths) <= MaxAuthorityMembership
    /\ o.fields.required_auths # <<>> \/ o.fields.required_posting_auths # <<>>

validate(o) ==
  /\ lengths_allowed(o)
  /\ custom_json_allowed(o)
  /\ LET layout == Table!Written[o.op]
     IN  \A i \in DOMAIN layout : field_allowed(layout[i][2], o.fields[layout[i][1]])
=============================================================================
