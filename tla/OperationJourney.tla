---------------------------- MODULE OperationJourney ----------------------------
(***************************************************************************)
(* An operation on its travels: built by a caller, checked, written to     *)
(* bytes or to JSON, perhaps damaged or rewritten by someone else on the   *)
(* way, read, and sent on again by whoever read it.  The reader's result   *)
(* is what every later leg starts from.                                    *)
(***************************************************************************)
EXTENDS OperationCodec

CONSTANTS Built,         \* pairs of a chain and an operation a caller has built for it
          Foreign,       \* pairs of a chain and bytes another implementation wrote
          History,       \* JSON of operations the chain emitted, from account history
          MaxLegs        \* how often an operation is read and sent on

(* A caller builds what the enum Operation has variants for, with fields of *)
(* their types; bytes come in an amount that memory holds, however long the *)
(* strings in them grow in transport; the chain emits what its own payloads *)
(* declare, a field that serde has a default for perhaps left out.          *)
ASSUME JourneyAssumption ==
  /\ \A b \in Built : b[1] \in DOMAIN Assets /\ IsOperation(b[1], b[2])
  /\ \A f \in Foreign :
       f[1] \in DOMAIN Assets /\ f[2] \in Seq(Nat) /\ f[2] # <<>> /\ Small(f[2])
  /\ \A j \in History :
       /\ j = Json(j.shape, j.name, j.value)
       /\ j.shape \in {"pair", "typed"} /\ j.name \in DOMAIN Table!Emitted
       /\ LET layout == Table!Emitted[j.name]
          IN  /\ DOMAIN j.value \subseteq {layout[i][1] : i \in DOMAIN layout}
              /\ \A i \in DOMAIN layout :
                   IF layout[i][1] \in DOMAIN j.value
                   THEN ReadFieldJson(layout[i][2], j.value[layout[i][1]]).ok
                   ELSE may_be_missing(j.name, layout[i][2])

VARIABLES chain, held, passed, wire, json, intact, read, origin, legs
vars == <<chain, held, passed, wire, json, intact, read, origin, legs>>

Nothing == [op |-> "none", fields |-> <<>>]
NoJson == Json("pair", "none", <<>>)
Unread == [ok |-> FALSE, val |-> Nothing, how |-> "unread"]
Result(r, how) == [ok |-> r.ok, val |-> IF r.ok THEN r.val ELSE Nothing, how |-> how]

Init ==
  /\ passed = FALSE /\ intact = TRUE /\ read = Unread /\ origin = <<>> /\ legs = 0
  /\ \/ \E b \in Built : chain = b[1] /\ held = b[2] /\ wire = <<>> /\ json = NoJson
     \/ \E f \in Foreign : chain = f[1] /\ held = Nothing /\ wire = f[2] /\ json = NoJson
     \/ \E j \in History : chain = "Hive" /\ held = Nothing /\ wire = <<>> /\ json = j

Holding == held # Nothing /\ wire = <<>> /\ json = NoJson

Validate ==
  /\ Holding /\ ~passed /\ validate(held)
  /\ passed' = TRUE
  /\ UNCHANGED <<chain, held, wire, json, intact, read, origin, legs>>

Serialize ==
  /\ Holding
  /\ wire' = append_to(held)
  /\ origin' = IF origin = <<>> THEN wire' ELSE origin
  /\ UNCHANGED <<chain, held, passed, json, intact, read, legs>>

Render ==
  /\ Holding
  /\ json' = to_json(held)
  /\ origin' = IF origin = <<>> THEN append_to(held) ELSE origin
  /\ UNCHANGED <<chain, held, passed, wire, intact, read, legs>>

(* Another API renders the same operation in the other JSON shape. *)
Reshape ==
  /\ json # NoJson /\ read = Unread /\ json.shape = "pair"
  /\ json' = [json EXCEPT !.shape = "typed"]
  /\ UNCHANGED <<chain, held, passed, wire, intact, read, origin, legs>>

(* The way: the bytes of an operation are cut short or run on, a JSON      *)
(* object loses a field or has it misspelt, and its frame may lose the     *)
(* name or the value.                                                      *)
Without(f) == [g \in DOMAIN json.value \ {f} |-> json.value[g]]
Misspelt(f) ==
  [g \in DOMAIN Without(f) \cup {"misspelt"} |-> json.value[IF g = "misspelt" THEN f ELSE g]]
Damage ==
  /\ intact /\ read = Unread
  /\ \/ /\ wire # <<>> /\ read_from(chain, wire).ok
        /\ wire' \in {SubSeq(wire, 1, Len(wire) - 1), SubSeq(wire, 1, Len(wire) \div 2),
                      Append(wire, 0)} \ {<<>>}
        /\ UNCHANGED json
     \/ /\ json # NoJson
        /\ \/ json' = [json EXCEPT !.shape = "other"]
           \/ \E f \in DOMAIN json.value :
                \/ json' = [json EXCEPT !.value = Without(f)]
                \/ json' = [json EXCEPT !.value = Misspelt(f)]
        /\ UNCHANGED wire
  /\ intact' = FALSE
  /\ UNCHANGED <<chain, held, passed, read, origin, legs>>

ReadWire ==
  /\ wire # <<>> /\ read = Unread
  /\ read' = Result(read_from(chain, wire), "wire")
  /\ UNCHANGED <<chain, held, passed, wire, json, intact, origin, legs>>
ReadJson ==
  /\ json # NoJson /\ read = Unread
  /\ read' = Result(from_json(json), "json")
  /\ UNCHANGED <<chain, held, passed, wire, json, intact, origin, legs>>
ReadHistory ==
  /\ json # NoJson /\ read = Unread
  /\ read' = Result(any_from_json(json), "history")
  /\ UNCHANGED <<chain, held, passed, wire, json, intact, origin, legs>>

(* What was read, if it can be sent at all, is sent on. *)
SendOn ==
  /\ read.ok /\ intact /\ legs < MaxLegs /\ ~Table!is_virtual(read.val.op)
  /\ held' = read.val /\ legs' = legs + 1
  /\ passed' = FALSE /\ wire' = <<>> /\ json' = NoJson /\ read' = Unread
  /\ UNCHANGED <<chain, intact, origin>>

Next == Validate \/ Serialize \/ Render \/ Reshape \/ Damage \/ ReadWire \/ ReadJson \/ ReadHistory \/ SendOn
Spec == Init /\ [][Next]_vars

----------------------------------------------------------------------------
(* An operation as hived keeps it once it has the bytes: strings in their  *)
(* transport form, sets and maps in their order, an amount under the       *)
(* symbol of the reader's chain.                                           *)
Transported(e) == <<hived_transport_form(e[1]), e[2]>>
Mapped(s, F(_)) == [i \in DOMAIN s |-> F(s[i])]
Itself(x) == x
First(e) == e[1]
AuthoritySeen(a) == [a EXCEPT !.account_auths = Sorted(Mapped(@, Transported), First)]
AmountSeen(a) == [a EXCEPT !.symbol = asset(chain, a.wire_symbol)[1].symbol]
Seen(kind, v) ==
  CASE kind = "str"      -> hived_transport_form(v)
    [] kind = "amount"   -> AmountSeen(v)
    [] kind = "price"    -> Mapped(v, AmountSeen)
    [] kind = "props"    -> <<AmountSeen(v[1]), v[2], v[3]>>
    [] kind = "accounts" -> Sorted(Mapped(v, hived_transport_form), Itself)
    [] kind = "ids"      -> Sorted(v, Reverse)
    [] kind = "sortedprops" -> Sorted(Mapped(v, Transported), First)
    [] kind = "coext"    -> [i \in DOMAIN v |-> Sorted(Mapped(v[i], Transported), First)]
    [] kind = "auth"     -> AuthoritySeen(v)
    [] kind \in {"auths", "optauth"} -> Mapped(v, AuthoritySeen)
    [] OTHER -> v
SeenByHived(o) ==
  LET layout == Table!Written[o.op]
  IN  Operation(o.op, Named(layout, [i \in DOMAIN layout |->
                                       Seen(layout[i][2], o.fields[layout[i][1]])]))

(* The three hand-kept lists agree: bytes this library wrote are read back *)
(* to the operation hived has, field for field, and its JSON is read back  *)
(* as an operation of the same bytes.  On a chain whose symbols Hive does  *)
(* not know the JSON is refused and never becomes another asset.           *)
ReadsBack ==
  (read.how # "unread" /\ intact /\ held # Nothing) =>
    /\ read.how = "wire" => read.ok /\ read.val = SeenByHived(held)
    /\ read.how # "wire" => (chain # "HiveTestnet" => read.ok)
    /\ read.ok => append_to(read.val) = append_to(held)

(* However often an operation is read and sent on, as bytes or as JSON,    *)
(* the bytes a signature would cover stay those of the first time.         *)
Settles == (wire # <<>> /\ intact /\ origin # <<>>) => wire = origin

(* JSON that lost a field that is not optional, or its frame, never        *)
(* becomes an operation (serde's required fields; from_json).              *)
LostJsonRefused ==
  (~intact /\ read.ok /\ read.how # "wire") =>
    /\ json.shape # "other"
    /\ LET emitted == json.name \in DOMAIN Table!Emitted
           layout == IF emitted THEN Table!Emitted[json.name] ELSE Table!Declared[json.name]
       IN  \A i \in DOMAIN layout :
             \/ layout[i][1] \in DOMAIN json.value
             \/ layout[i][2] \in IF emitted THEN {"rtext"} ELSE {"optauth", "optkey"}

(* Neither do bytes that lost a tail or gained one.                        *)
DamageDetected ==
  /\ ~intact /\ read.ok => read.how # "wire"
  /\ LostJsonRefused

(* What validate() let through reaches hived with its sets and maps in     *)
(* strictly increasing order: no entry twice, even when two different      *)
(* strings become one in transport, and no empty list of proposals.        *)
Increasing(s, Key(_)) == \A i \in 1..(Len(s) - 1) : Before(Key(s[i]), Key(s[i + 1]))
ValidatedIsCanonical ==
  (passed /\ read.ok /\ read.how = "wire" /\ intact) =>
    LET layout == Table!Read[read.val.op]
    IN  \A i \in DOMAIN layout :
          LET v == read.val.fields[layout[i][1]]
          IN  CASE layout[i][2] = "strs"   -> Increasing(v, Itself)
                [] layout[i][2] = "u64s"   -> v # <<>> /\ Increasing(v, Reverse)
                [] layout[i][2] = "wprops" -> Increasing(v, First)
                [] layout[i][2] = "coext"  -> \A x \in DOMAIN v : v[x] # <<>> /\ Increasing(v[x], First)
                [] OTHER -> TRUE

(* Nothing the chain emits ever becomes an operation that can be sent, by  *)
(* bytes or by JSON; history reads it, under its own name and complete.    *)
NeverSignable ==
  /\ held # Nothing => held.op \in DOMAIN Table!Declared
  /\ (read.ok /\ Table!is_virtual(read.val.op)) => read.how = "history"
  /\ (read.how = "history" /\ intact /\ held = Nothing) =>
       /\ read.ok /\ read.val.op = json.name /\ Table!is_virtual(json.name)
       /\ DOMAIN json.value \subseteq DOMAIN read.val.fields

(* Refuted.  hivecomb-py/src/lib.rs:612: "Unknown fields are refused, so a *)
(* typo in a field name fails loudly".                                     *)
UnknownFieldsRefused ==
  (read.ok /\ read.how = "json") =>
    \A f \in DOMAIN json.value : \E i \in DOMAIN Table!Declared[read.val.op] :
                                   Table!Declared[read.val.op][i][1] = f
=============================================================================
