------------------------------ MODULE MC_Codec ------------------------------
(***************************************************************************)
(* The parts of the crate that need no network, side by side: operations   *)
(* on their journeys, memos and mana.                                      *)
(*                                                                         *)
(* Inputs for OperationJourney: every operation with telling defaults (no  *)
(* two fields of a kind hold the same value) and, one field at a time, the *)
(* boundary values of its kind.                                            *)
(***************************************************************************)
EXTENDS OperationJourney, Memo, Manabar

Ctl == <<1>>                                   \* one byte here, five on the wire
Bytes(n, fill) == [i \in 1..n |-> IF i = 1 THEN fill ELSE 0]
Key(n) == [i \in 1..33 |-> IF i = 1 THEN 2 ELSE n]
AssetOf(c, i) == Assets[c][i]
Units(n) == Bytes(8, n)
AuthorityOf(accounts, keys) == Authority(Bytes(4, 1), accounts, keys).val
Plain(n) == AuthorityOf(<<>>, << <<Key(n), Bytes(2, 1)>> >>)
Shared(n) == AuthorityOf(<< <<<<97>>, Bytes(2, n)>>, <<Ctl, Bytes(2, 1)>> >>,
                         << <<Key(9), Bytes(2, 1)>>, <<Key(8), Bytes(2, n)>> >>)

Default(c, kind, n) ==
  CASE kind = "str" -> <<96 + n>>
    [] kind \in {"i16", "u16"} -> Bytes(2, n)
    [] kind \in {"u32", "time"} -> Bytes(4, n)
    [] kind = "u64" -> Bytes(8, n)
    [] kind = "bool" -> <<n % 2>>
    [] kind = "amount" -> Amount(Units(n), AssetOf(c, 1 + (n % 3)))
    [] kind = "price" -> <<Amount(Units(n), AssetOf(c, 1)), Amount(Units(n), AssetOf(c, 2))>>
    [] kind = "props" -> <<Amount(Units(n), AssetOf(c, 2)), Bytes(4, n), Bytes(2, n)>>
    [] kind = "hex" -> <<n, 200>>
    [] kind = "blockid" -> Bytes(20, n)
    [] kind = "key" -> Key(n)
    [] kind = "auth" -> Plain(n)
    [] kind \in {"accounts", "strs"} -> << <<96 + n>> >>
    [] kind \in {"ids", "u64s"} -> << Bytes(8, n) >>
    [] kind = "amounts" -> << Amount(Units(n), AssetOf(c, 1)) >>
    [] OTHER -> <<>>

Boundary(c, kind) ==
  CASE kind = "str"  -> {<<>>, Ctl, <<8, 12>>, <<97, 98, 99>>}
    [] kind \in {"time", "u32"} -> {<<255, 255, 255, 255>>, <<0, 0, 0, 128>>}
    [] kind = "hex"  -> {[i \in 1..127 |-> i], [i \in 1..128 |-> 3]}
    [] kind = "optkey" -> {<<Key(7)>>}
    [] kind = "auth" -> {Shared(3)}
    [] kind = "optauth" -> {<<Plain(4)>>, <<Shared(5)>>}
    [] kind = "auths" -> {<<Shared(6), Plain(5)>>}
    [] kind = "accounts" -> {<<>>, << <<98>>, <<97>> >>, <<Ctl, <<97>> >>, << <<8>>, <<98>> >>}
    [] kind = "ids" -> {<<>>, <<Bytes(8, 2), Bytes(8, 1)>>, <<Bytes(8, 1), Bytes(8, 1)>>,
                        << <<0, 1, 0, 0, 0, 0, 0, 0>>, Bytes(8, 2)>>}
    [] kind = "sortedprops" -> {<< property(<<98>>, "str", Ctl), <<Ctl, <<2>>>>, property(<<97>>, "u16", <<1, 0>>) >>,
                                << <<<<8>>, <<1>>>>, <<<<98>>, <<2>>>> >>}
    [] kind = "coext" -> {<< << <<<<98>>, Bytes(2, 1)>>, <<<<97>>, Bytes(2, 2)>> >> >>,
                          << << <<<<8>>, Bytes(2, 1)>>, <<<<98>>, Bytes(2, 2)>> >> >>, << <<>> >>}
    [] kind = "rtext" -> {<< <<7>> >>}
    [] OTHER -> {}

Filled(c, op) ==
  LET layout == Table!Written[op]
  IN  Operation(op, Named(layout, [i \in DOMAIN layout |-> Default(c, layout[i][2], i)]))
Variants(c, op) ==
  {Filled(c, op)} \cup
  UNION {{[Filled(c, op) EXCEPT !.fields[Table!Written[op][i][1]] = v] :
            v \in Boundary(c, Table!Written[op][i][2])} : i \in DOMAIN Table!Written[op]}
OnHive == UNION {{"Hive"} \X Variants("Hive", op) : op \in DOMAIN Table!Written}
Elsewhere == {<<c, Filled(c, op)>> : c \in {"HiveTestnet", "SteemLegacy"},
                op \in {"transfer", "feed_publish", "witness_update", "claim_reward_balance"}}
MCBuilt == OnHive \cup Elsewhere

(* Bytes of others: a tag nobody has, tags of virtual and mining operations,  *)
(* a bool that is neither, and sets, maps and an authority out of order.      *)
AsGiven(kind, v) ==
  CASE kind = "accounts" -> write_array(v, write_string)
    [] kind = "ids" -> write_array(v, LAMBDA p : p)
    [] OTHER -> Write(kind, v)
OutOfOrder(o) ==
  LET layout == Table!Written[o.op]
  IN  write_varint32(Table!as_u32(o.op))
        \o FlattenSeq([i \in DOMAIN layout |-> AsGiven(layout[i][2], o.fields[layout[i][1]])])
Backwards == [Shared(3) EXCEPT !.account_auths = Reverse(@)]
ResetWith(a) == OutOfOrder([Filled("Hive", "reset_account") EXCEPT !.fields.new_owner_authority = a])
MCForeign ==
  {"Hive"} \X
    ({<<50>>, <<92>>, <<93>>, <<14>>, <<30>>, <<140, 1>>, <<128, 128, 128, 128, 128, 1>>,
      write_varint32(36) \o write_string(<<97>>) \o <<2>>}
     \cup {OutOfOrder(o) : o \in UNION {Variants("Hive", op) : op \in {"custom", "remove_proposal"}}}
     \cup {ResetWith(Backwards), ResetWith([Shared(3) EXCEPT !.weight_threshold = Bytes(4, 0)])})

MCHistory ==
  {[shape |-> "pair", name |-> op,
    value |-> Named(Table!Emitted[op],
                [i \in DOMAIN Table!Emitted[op] |->
                   FieldJson(Table!Emitted[op][i][2],
                             Default("Hive", Table!Emitted[op][i][2], i))])] :
     op \in DOMAIN Table!Emitted}

(* Messages that fill no, one and two blocks, that are marked, that look   *)
(* like padding, also where a block ends, and whose first byte is and is   *)
(* not the length of the rest, or of what a cut at a block leaves of it.   *)
MCTexts ==
  {<<>>, <<97>>, <<35, 97>>, <<97, 98, 99>>, <<97, 98, 99, 100>>, <<97, 98, 99, 100, 101>>,
   <<1, 97>>, <<2, 2, 2>>, <<4, 4, 4, 4>>, <<1>>, <<35>>,
   <<97, 98, 1, 99>>, <<2, 97, 98, 1, 99>>}

(* A behaviour is of one of the three parts; the others stay as they are.  *)
VARIABLE part

NoJourney ==
  /\ chain = "Hive" /\ held = Nothing /\ wire = <<>> /\ json = NoJson
  /\ passed = FALSE /\ intact = TRUE /\ read = Unread /\ origin = <<>> /\ legs = 0
NoMana ==
  /\ time = 0 /\ max_rc = 0 /\ exact = 0 /\ bar = Bar(0, 0) /\ spent = TRUE
  /\ copy = [current_mana |-> <<"null", 0>>, max_rc |-> <<"null", 0>>, last_update_time |-> 0]

OfflineInit ==
  \/ part = "operations" /\ Init /\ MemoInit /\ NoMana
  \/ part = "memos" /\ NoJourney /\ MemoInit /\ NoMana
  \/ part = "mana" /\ NoJourney /\ MemoInit /\ ManaInit
OfflineNext ==
  /\ UNCHANGED part
  /\ \/ part = "operations" /\ Next /\ UNCHANGED <<memo_vars, mana_vars>>
     \/ part = "memos" /\ MemoNext /\ UNCHANGED <<vars, mana_vars>>
     \/ part = "mana" /\ ManaNext /\ UNCHANGED <<vars, memo_vars>>
OfflineSpec == OfflineInit /\ [][OfflineNext]_<<part, vars, memo_vars, mana_vars>>
=============================================================================
