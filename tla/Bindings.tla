------------------------------- MODULE Bindings -------------------------------
(***************************************************************************)
(* The foreign-language edges of hivecomb: hivecomb-py/src/lib.rs and      *)
(* hivecomb-node/src/lib.rs.  Both turn a caller's description of the      *)
(* operations into the library's own, sign it, and hand back what a node   *)
(* is to be sent together with its id.  A payload (the `json' of a custom  *)
(* operation) may be given as text or as a value, which is then rendered;  *)
(* what is signed is the text.                                             *)
(*                                                                         *)
(* A value is a pair of its kind and its content.  An integer is one of    *)
(* three widths, a float finite or not; containers hold scalars, since the *)
(* conversions treat every level alike.  Rendering JSON is injective, so a *)
(* text is the value it renders.                                           *)
(***************************************************************************)
EXTENDS Transactions

NoneValue == <<"none", "none">>
Text(j) == <<"string", <<"rendered", j>>>>
Plain(s) == <<"string", <<"plain", s>>>>

-----------------------------------------------------------------------------
(* Python values to JSON and back *)

(* Seeded bug: an integer is looked for before a bool, which in Python is  *)
(* an integer as well. *)
scalar_to_json_int_first(v) ==
    CASE v[1] = "none"               -> {<<"null", "null">>}
      [] v[1] = "bool"               -> {<<"number", IF v[2] THEN "one" ELSE "nil">>}
      [] v[1] = "int"                -> {<<"number", IF v[2] = "huge" THEN "rounded" ELSE v[2]>>}
      [] v[1] = "float" /\ v[2] # "nan" -> {<<"number", v[2]>>}
      [] v[1] = "str"                -> {Plain(v[2])}
      [] OTHER                       -> {}

(* The extractions in their order.  One that converts takes an integer too *)
(* wide for 64 bits for a float; NaN and the infinities have no JSON form. *)
scalar_to_json(v) ==
    CASE v[1] = "none"               -> {<<"null", "null">>}
      [] v[1] = "bool"               -> {<<"bool", v[2]>>}
      [] v[1] = "int"                -> {<<"number", IF v[2] = "huge" THEN "rounded" ELSE v[2]>>}
      [] v[1] = "float" /\ v[2] # "nan" -> {<<"number", v[2]>>}
      [] v[1] = "str"                -> {Plain(v[2])}
      [] OTHER                       -> {}

Converted(items) == [i \in DOMAIN items |-> CHOOSE j \in scalar_to_json(items[i]) : TRUE]
AllConvert(items) == \A i \in DOMAIN items : scalar_to_json(items[i]) # {}

(* A list and a tuple are both arrays; a field name must be a string.      *)
py_to_json(v) ==
    CASE v[1] = "dict" -> IF AllConvert(v[2]) THEN {<<"object", Converted(v[2])>>} ELSE {}
      [] v[1] \in {"list", "tuple"} -> IF AllConvert(v[2]) THEN {<<"array", Converted(v[2])>>} ELSE {}
      [] OTHER -> scalar_to_json(v)

scalar_to_py(j) ==
    CASE j[1] = "null"   -> NoneValue
      [] j[1] = "bool"   -> j
      [] j[1] = "number" -> <<IF j[2] \in {"nil", "one", "i64", "u64"} THEN "int" ELSE "float", j[2]>>
      [] OTHER           -> <<"str", j[2][2]>>

json_to_py(j) ==
    CASE j[1] = "object" -> <<"dict", [f \in DOMAIN j[2] |-> scalar_to_py(j[2][f])]>>
      [] j[1] = "array"  -> <<"list", [i \in DOMAIN j[2] |-> scalar_to_py(j[2][i])]>>
      [] OTHER           -> scalar_to_py(j)

-----------------------------------------------------------------------------
(* Describing an operation *)

(* A payload that is not text already is rendered.                         *)
AsText(j) == IF j[1] = "string" THEN j ELSE Text(j)

WithPayload(op, j) == [op EXCEPT ![3] = AsText(j)]

(* hivecomb-py: a (name, dict) pair whose fields are converted first.  The  *)
(* decoder behind both bindings refuses a name it does not know.           *)
operation_from_py(op) ==
    IF TypeOf(op) = "unknown" THEN {}
    ELSE {WithPayload(op, j) : j \in py_to_json(PayloadOf(op))}

(* hivecomb-node: the value arrives as JSON, as a pair or with its type.   *)
operation_from_json(op, j) == IF TypeOf(op) = "unknown" THEN {} ELSE {WithPayload(op, j)}

(* Every operation, or none. *)
AllOrNone(results) ==
    IF \E i \in DOMAIN results : results[i] = {} THEN {}
    ELSE {[i \in DOMAIN results |-> CHOOSE op \in results[i] : TRUE]}

operations_from_py(ops) ==
    AllOrNone([i \in DOMAIN ops |-> operation_from_py(ops[i])])

(* The Node side refuses an empty list before anything else. *)
operations_from_json(ops) ==
    IF ops = <<>> THEN {}
    ELSE AllOrNone([i \in DOMAIN ops |->
             UNION {operation_from_json(ops[i], j) : j \in py_to_json(PayloadOf(ops[i]))}])

-----------------------------------------------------------------------------
(* Keys, chains and errors *)

(* The chain id behind each name; the one of the legacy chain is zero.     *)
ChainIds ==
    [None |-> "hive", HIVE |-> "hive", HIVE2 |-> "hive", TESTNET |-> "testnet",
     STEEM |-> ZeroChain]

chain_from_name(name) == {ChainIds[n] : n \in {name} \cap DOMAIN ChainIds}

(* PrivateKey::parse: a key text is the key, or is refused. *)
Malformed == "malformed"
parse_keys(texts) == IF \E i \in DOMAIN texts : texts[i] = Malformed THEN {} ELSE {texts}

-----------------------------------------------------------------------------
(* The entry points *)

(* What both hand back: the signed transaction and its id. *)
Signed(tx, keys, chain) == {[signed |-> s, trx_id |-> id(tx)] : s \in sign(tx, keys, chain)}

SignedWith(ops, block_ref, texts, secs, chain, clock) ==
    UNION {UNION {Signed(tx, keys, c) :
                     tx \in Transaction_new(block_ref, operations, secs, clock)} :
              c \in chain_from_name(chain), operations \in ops, keys \in parse_keys(texts)}

sign_transaction(ops, block_ref, texts, secs, chain, clock) ==
    SignedWith(operations_from_py(ops), block_ref, texts, secs, chain, clock)

sign_transaction_node(ops, block_ref, texts, secs, chain, clock) ==
    SignedWith(operations_from_json(ops), block_ref, texts, secs, chain, clock)

(* The digest and the id of operations that are not signed: nothing is     *)
(* validated, and the expiration is given.                                 *)
Unsigned(operations, block_ref, expiration) ==
    [block_ref |-> block_ref, expiration |-> expiration, operations |-> operations]

transaction_digest(ops, block_ref, expiration, chain) ==
    UNION {digest(Unsigned(operations, block_ref, expiration), c) :
              c \in chain_from_name(chain), operations \in operations_from_py(ops)}

transaction_id(ops, block_ref, expiration) ==
    {id(Unsigned(operations, block_ref, expiration)) : operations \in operations_from_py(ops)}

transaction_digest_node(ops, block_ref, expiration, chain) ==
    UNION {digest(Unsigned(operations, block_ref, expiration), c) :
              c \in chain_from_name(chain), operations \in operations_from_json(ops)}

transaction_id_node(ops, block_ref, expiration) ==
    {id(Unsigned(operations, block_ref, expiration)) : operations \in operations_from_json(ops)}

(* What is posted: the body and the signatures, the id left out.           *)
to_json(s) ==
    [transaction |-> body_bytes(s.transaction),
     signatures  |-> [i \in DOMAIN s.signatures |-> s.signatures[i]]]

(* check_authority: the report, with its reading. *)
check_authority(auth, keys) ==
    LET c == check(auth, keys)
    IN  [satisfied |-> c.satisfied, conclusive |-> is_conclusive(c),
         shortfall |-> shortfall(c), unresolved |-> c.unresolved]
=============================================================================
