----------------------------- MODULE Transactions -----------------------------
(***************************************************************************)
(* hivecomb/src/transaction.rs, sign.rs and the offline half of            *)
(* authority.rs: building a transaction, refusing what hived is certain to *)
(* refuse, the digest, signing, recovering, the wire form and the check of *)
(* a set of keys against an authority.  Everything here is a function of   *)
(* its arguments; a result that may be an error is a set, empty for it.    *)
(*                                                                         *)
(* sha256 is taken to be injective: a digest is what it was taken over.  A *)
(* signature is the key that made it and the digest it was made over.      *)
(***************************************************************************)
EXTENDS Integers, Sequences, FiniteSets, FiniteSetsExt, SequencesExt

CONSTANTS
    MAX_EXPIRATION_SECS,        \* hived's window, in ticks
    MAX_CUSTOM_OPS_PER_BLOCK    \* per account

ASSUME TransactionAssumption ==
    MAX_EXPIRATION_SECS \in Nat \ {0} /\ MAX_CUSTOM_OPS_PER_BLOCK \in Nat

(* The all-zero chain id, which nothing is signed against. *)
ZeroChain == "zero"

-----------------------------------------------------------------------------
(* The budget of custom operations *)

(* An operation: its type, the accounts each of its lists of authorities   *)
(* names, its payload, and what Operation::validate says of it.            *)
Op(type, auths, payload, valid) == <<type, auths, payload, valid>>
TypeOf(op) == op[1]
owner(op) == op[2][1]
active(op) == op[2][2]
posting(op) == op[2][3]
PayloadOf(op) == op[3]
IsValid(op) == op[4]

(* Every account an operation counts against, once per list naming it. *)
custom_op_accounts(op) ==
    CASE TypeOf(op) = "custom"        -> owner(op)
      [] TypeOf(op) = "custom_json"   -> active(op) \o posting(op)
      [] TypeOf(op) = "custom_binary" -> owner(op) \o active(op) \o posting(op)
      [] OTHER                        -> <<>>

Named(ops) == FlattenSeq([i \in DOMAIN ops |-> custom_op_accounts(ops[i])])

Tally(account, names) == Cardinality({i \in DOMAIN names : names[i] = account})

(* Seeded bug: the shortcut bounds operations, not the names they carry. *)
check_custom_op_budget_by_operation(ops) ==
    \/ Cardinality({i \in DOMAIN ops : custom_op_accounts(ops[i]) # <<>>})
           <= MAX_CUSTOM_OPS_PER_BLOCK
    \/ \A i \in DOMAIN Named(ops) :
           Tally(Named(ops)[i], Named(ops)) <= MAX_CUSTOM_OPS_PER_BLOCK

(* As many names as the budget cannot breach it; otherwise they are tallied. *)
check_custom_op_budget(ops) ==
    \/ Len(Named(ops)) <= MAX_CUSTOM_OPS_PER_BLOCK
    \/ \A i \in DOMAIN Named(ops) :
           Tally(Named(ops)[i], Named(ops)) <= MAX_CUSTOM_OPS_PER_BLOCK

(* Transaction::validate *)
validate(tx) ==
    /\ \A i \in DOMAIN tx.operations : IsValid(tx.operations[i])
    /\ check_custom_op_budget(tx.operations)

-----------------------------------------------------------------------------
(* Building and signing *)

(* Transaction::new at the moment `clock' of the signer's own clock. *)
Transaction_new(block_ref, operations, expiration_secs, clock) ==
    IF \/ operations = <<>>
       \/ expiration_secs = 0 \/ expiration_secs > MAX_EXPIRATION_SECS
    THEN {}
    ELSE {[block_ref |-> block_ref, expiration |-> clock + expiration_secs,
           operations |-> operations]}

(* What the digest and the id cover: everything but the signatures. *)
body_bytes(tx) ==
    [block_ref |-> tx.block_ref, expiration |-> tx.expiration, operations |-> tx.operations]

digest(tx, chain) == IF chain = ZeroChain THEN {} ELSE {<<chain, body_bytes(tx)>>}

(* The chain id is no part of the transaction id. *)
id(tx) == body_bytes(tx)

sign_digest(d, key) == [key |-> key, over |-> d]

(* The keys without the repeats, in the order of their first appearance. *)
unique(keys) ==
    LET first == {i \in DOMAIN keys : \A j \in 1 .. i - 1 : keys[j] # keys[i]}
        upto[i \in 0 .. Len(keys)] ==
            IF i = 0 THEN <<>>
            ELSE IF i \in first THEN Append(upto[i - 1], keys[i]) ELSE upto[i - 1]
    IN  upto[Len(keys)]

(* Seeded bug: a key given twice signs twice. *)
sign_every_key(tx, keys, chain) ==
    IF keys = <<>> \/ ~validate(tx) THEN {}
    ELSE {[transaction |-> tx, signatures |-> [i \in DOMAIN keys |-> sign_digest(d, keys[i])]] :
             d \in digest(tx, chain)}

(* Transaction::sign: nothing is signed that was not validated. *)
sign(tx, keys, chain) ==
    IF keys = <<>> \/ ~validate(tx) THEN {}
    ELSE {[transaction |-> tx,
           signatures  |-> [i \in DOMAIN unique(keys) |-> sign_digest(d, unique(keys)[i])]] :
             d \in digest(tx, chain)}

-----------------------------------------------------------------------------
(* Recovering and verifying *)

(* Recovery succeeds for any digest: for another one than was signed it    *)
(* yields a key that nobody holds.  Recovering, then verifying against the *)
(* key recovered, is therefore the same as recovering. *)
Stranger == "stranger"
recover(d, signature) == IF signature.over = d THEN signature.key ELSE Stranger

(* sign::verify: made by the key that is expected. *)
sign_verify(d, signature, expected) == recover(d, signature) = expected

signers(signed, chain) ==
    {[i \in DOMAIN signed.signatures |-> recover(d, signed.signatures[i])] :
        d \in digest(signed.transaction, chain)}

(* Seeded bug: the keys are looked for, not who signed what. *)
verify_unrecovered(signed, required, chain) ==
    /\ chain # ZeroChain
    /\ \A k \in required : \E i \in DOMAIN signed.signatures : signed.signatures[i].key = k

(* Every required key signed this transaction for this chain. *)
verify(signed, required, chain) ==
    \E found \in signers(signed, chain) :
        \A k \in required : \E i \in DOMAIN found : found[i] = k

-----------------------------------------------------------------------------
(* The wire form: a token per field, per operation and per signature.      *)

tok(kind, v) == <<kind, v>>

OpTokens(ops) == [i \in DOMAIN ops |-> tok("operation", ops[i])]
SigTokens(sigs) == [i \in DOMAIN sigs |-> tok("signature", sigs[i])]

to_wire(signed) ==
    << tok("ref", signed.transaction.block_ref),
       tok("time", signed.transaction.expiration),
       tok("count", Len(signed.transaction.operations)) >>
    \o OpTokens(signed.transaction.operations)
    \o << tok("count", 0), tok("count", Len(signed.signatures)) >>
    \o SigTokens(signed.signatures)

(* The reader expects a token of each kind in its place. *)
Holds(wire, i, kind) == i \in DOMAIN wire /\ wire[i][1] = kind
AllHold(wire, from, n, kind) == \A i \in from .. from + n - 1 : Holds(wire, i, kind)

(* read_body accepts at least one operation and no extension.             *)
read_body(wire) ==
    /\ Holds(wire, 1, "ref") /\ Holds(wire, 2, "time") /\ Holds(wire, 3, "count")
    /\ wire[3][2] > 0 /\ AllHold(wire, 4, wire[3][2], "operation")
    /\ Holds(wire, 4 + wire[3][2], "count") /\ wire[4 + wire[3][2]][2] = 0

Body(wire) ==
    [block_ref |-> wire[1][2], expiration |-> wire[2][2],
     operations |-> [i \in 1 .. wire[3][2] |-> wire[3 + i][2]]]

Values(tokens) == [i \in DOMAIN tokens |-> tokens[i][2]]

(* from_body_bytes: nothing may follow the body. *)
from_body_bytes(wire) ==
    {Body(w) : w \in {w \in {wire} : read_body(w) /\ Len(w) = 4 + w[3][2]}}

(* from_wire: the count must fit what remains, and nothing may follow.     *)
from_wire(wire) ==
    IF ~read_body(wire) THEN {}
    ELSE LET at == 5 + wire[3][2]
         IN  IF /\ Holds(wire, at, "count") /\ wire[at][2] <= Len(wire) - at
                /\ AllHold(wire, at + 1, wire[at][2], "signature")
                /\ Len(wire) = at + wire[at][2]
             THEN {[transaction |-> Body(wire),
                    signatures  |-> Values(SubSeq(wire, at + 1, Len(wire)))]}
             ELSE {}

-----------------------------------------------------------------------------
(* Authority::check: what keys alone say of an authority.                  *)

Weight(entries) == MapThenSumSet(LAMBDA e : e.weight, entries)

check(auth, keys) ==
    LET matched == {e \in auth.key_auths : e.of \in keys}
    IN  [satisfied |-> Weight(matched) >= auth.threshold, weight |-> Weight(matched),
         threshold |-> auth.threshold, matched |-> {e.of : e \in matched},
         unresolved |-> auth.account_auths]

(* Seeded bug: an unsatisfied check is taken for final. *)
is_conclusive_always(c) == TRUE

is_conclusive(c) == c.satisfied \/ c.unresolved = {}

shortfall(c) == IF c.threshold > c.weight THEN c.threshold - c.weight ELSE 0

is_satisfiable(auth) == Weight(auth.account_auths \cup auth.key_auths) >= auth.threshold
=============================================================================
