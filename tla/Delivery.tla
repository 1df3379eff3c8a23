------------------------------- MODULE Delivery -------------------------------
(***************************************************************************)
(* A transaction from its builder to the chain: TransactionBuilder and     *)
(* Hive (python/beem), the bindings and the crate under them, one          *)
(* broadcast at a time (NodeClient::call over the nodes one by one, or     *)
(* race over several at once; each in a module of its own), and the nodes. *)
(* A request may be lost, or reach its node long after the call gave it    *)
(* up, as may the answer; the process may restart with what it stored in   *)
(* wire form.  The nodes and the chain are modelled after what the code    *)
(* expects of them: a node refuses a transaction it has, one whose         *)
(* expiration is past or too far ahead, and one whose signatures do not    *)
(* satisfy the authority; the chain takes a transaction id once.           *)
(***************************************************************************)
EXTENDS Bindings

CONSTANTS
    Nodes,
    OpBatches,          \* what a caller may append or pass in one go
    KeyTexts,           \* key texts a caller may add to a builder
    WalletKeys,         \* the key lists a wallet hands to finalizeOp
    Signer,             \* the account that the operations need
    Setups,             \* clock skew, Hive.expiration, Hive.race_width and authorities
    MaxRefAge,          \* TaposCache max_age_seconds
    MaxOps, MaxKeys,    \* bounds: operations and keys of a builder,
    MaxSignings,        \*   transactions signed,
    MaxBroadcasts,      \*   broadcasts started,
    MaxCalls,           \*   both together,
    MaxTime             \*   and ticks of the clock

Operations == UNION {{batch[i] : i \in DOMAIN batch} : batch \in OpBatches}

(* Keys and accounts are named by text, never by what stands for a key that *)
(* nobody holds; weights are a u16, and no threshold is zero.               *)
ASSUME DeliveryAssumption ==
    /\ Nodes # {} /\ IsFiniteSet(Nodes)
    /\ KeyTexts \subseteq STRING \ {Stranger}
    /\ WalletKeys \subseteq Seq(STRING \ {Stranger})
    /\ OpBatches \subseteq Seq(Operations)
    /\ \A op \in Operations :
          /\ op = Op(TypeOf(op), <<owner(op), active(op), posting(op)>>, PayloadOf(op), IsValid(op))
          /\ TypeOf(op) \in STRING /\ IsValid(op) \in BOOLEAN
          /\ {owner(op), active(op), posting(op)} \subseteq Seq(STRING)
    /\ \A s \in Setups :
          /\ s.skew \in Int /\ s.expiration \in Nat /\ s.width \in Nat \ {0}
          /\ Signer \in DOMAIN s.authority
          /\ \A account \in DOMAIN s.authority :
                LET auth == s.authority[account]
                IN  /\ auth.key_auths \cup auth.account_auths \subseteq [of : STRING, weight : Nat]
                    /\ IsFiniteSet(auth.key_auths) /\ IsFiniteSet(auth.account_auths)
                    /\ auth.threshold \in Nat \ {0}

VARIABLES
    now,        \* the chain's head time
    skew,       \* the signer's clock is this much ahead
    authority,  \* the authority of every account
    settings,   \* Hive.expiration and Hive.race_width
    block_ref,  \* TaposCache: the reference and when it was stored
    builder,    \* TransactionBuilder: ops, wifs, _signed
    call,       \* the broadcast in progress
    copies,     \* requests under way: a signed transaction and a node
    pool,       \* what each node has accepted and not yet seen in a block
    landed,     \* the transactions on the chain
    stored,     \* a signed transaction in wire form, kept over restarts
    made,       \* history: what was signed, of what, and when
    signings, broadcasts \* history: how often

caller_vars == <<block_ref, builder, call, stored, made, signings, broadcasts>>
chain_vars == <<now, pool, landed>>
fixed_vars == <<skew, authority, settings>>
delivery_vars == <<caller_vars, chain_vars, copies, fixed_vars>>

Idle == [pc |-> "idle", signed |-> {}, left |-> {}, asked |-> {}]
EmptyBuilder == [ops |-> <<>>, wifs |-> <<>>, signed |-> {}]
MoreSignings == signings < MaxSignings /\ signings + broadcasts < MaxCalls
chain_name == "HIVE"
local_clock == now + skew

-----------------------------------------------------------------------------
(* The nodes and the chain *)

(* The accounts that the keys speak for: by key, and through the accounts  *)
(* they delegate to, as deep as the chain looks. *)
Speaks(keys) ==
    LET depth[d \in 0 .. 2] ==
            {a \in DOMAIN authority :
                Weight({e \in authority[a].key_auths : e.of \in keys}
                       \cup (IF d = 0 THEN {}
                             ELSE {e \in authority[a].account_auths : e.of \in depth[d - 1]}))
                    >= authority[a].threshold}
    IN  depth[2]

SignerKeys(s) == UNION {{found[i] : i \in DOMAIN found} : found \in signers(s, "hive")}

Refusal(n, s) ==
    LET tx == body_bytes(s.transaction)
    IN  CASE tx \in landed \cup pool[n]                        -> "duplicate"
          [] tx.expiration <= now                              -> "expired"
          [] tx.expiration > now + MAX_EXPIRATION_SECS         -> "too far"
          [] Signer \notin Speaks(SignerKeys(s))               -> "authority"
          [] OTHER                                             -> "none"

(* A node takes the transaction into a block, and every node sees it.      *)
Land(n) ==
    /\ \E tx \in pool[n] :
         /\ landed' = landed \cup {tx}
         /\ pool' = [k \in Nodes |-> pool[k] \ {tx}]
    /\ UNCHANGED <<now, caller_vars, copies, fixed_vars>>

(* What has expired is dropped. *)
Tick ==
    /\ now < MaxTime /\ now' = now + 1
    /\ pool' = [k \in Nodes |-> {tx \in pool[k] : tx.expiration > now'}]
    /\ UNCHANGED <<landed, caller_vars, copies, fixed_vars>>

-----------------------------------------------------------------------------
(* Building and signing *)

(* appendOps leaves what is already signed as it is.  A builder that can    *)
(* sign nothing more is left alone.                                        *)
appendOps(batch) ==
    /\ call.pc = "idle" /\ MoreSignings /\ Len(builder.ops \o batch) <= MaxOps
    /\ builder' = [builder EXCEPT !.ops = @ \o batch]
    /\ UNCHANGED <<block_ref, call, stored, made, signings, broadcasts,
                   chain_vars, copies, fixed_vars>>

appendWif(text) ==
    /\ call.pc = "idle" /\ MoreSignings /\ Len(builder.wifs) < MaxKeys
    /\ builder' = [builder EXCEPT !.wifs = Append(@, text)]
    /\ UNCHANGED <<block_ref, call, stored, made, signings, broadcasts,
                   chain_vars, copies, fixed_vars>>

(* Seeded bug: the signed transaction outlives what it was made of.        *)
clear_keeps_signed ==
    /\ call.pc = "idle"
    /\ builder' = [EmptyBuilder EXCEPT !.signed = builder.signed]
    /\ UNCHANGED <<block_ref, call, stored, made, signings, broadcasts,
                   chain_vars, copies, fixed_vars>>

clear ==
    /\ call.pc = "idle" /\ builder' = EmptyBuilder
    /\ UNCHANGED <<block_ref, call, stored, made, signings, broadcasts,
                   chain_vars, copies, fixed_vars>>

(* _block_ref: the cached reference while it is fresh, or the head's.      *)
_block_ref ==
    IF block_ref.at # -1 /\ now - block_ref.at <= MaxRefAge THEN block_ref
    ELSE [block |-> now, at |-> now]

(* What sign_transaction makes of operations and keys now. *)
Made(ops, texts) ==
    sign_transaction(ops, _block_ref.block, texts, settings.expiration, chain_name, local_clock)

(* One signing, which may be refused. *)
Signing(ops, texts) ==
    /\ call.pc = "idle" /\ MoreSignings
    /\ ops # <<>> /\ texts # <<>>
    /\ signings' = signings + 1 /\ block_ref' = _block_ref
    /\ made' = made \cup {[signed |-> m.signed, ops |-> ops, texts |-> texts, at |-> now] :
                             m \in Made(ops, texts)}

Start(s) ==
    /\ broadcasts < MaxBroadcasts /\ signings + broadcasts < MaxCalls /\ broadcasts' = broadcasts + 1
    /\ call' = [pc |-> "running", signed |-> {s}, left |-> Nodes, asked |-> {}]

(* TransactionBuilder.sign *)
builder_sign ==
    /\ Signing(builder.ops, builder.wifs)
    /\ builder' = [builder EXCEPT !.signed =
                      IF Made(builder.ops, builder.wifs) = {} THEN @
                      ELSE {m.signed : m \in Made(builder.ops, builder.wifs)}]
    /\ UNCHANGED <<call, stored, broadcasts, chain_vars, copies, fixed_vars>>

(* TransactionBuilder.broadcast signs first if nothing is signed; the      *)
(* nodes' answers follow.                                                  *)
builder_broadcast ==
    /\ call.pc = "idle" /\ \E s \in builder.signed : Start(s)
    /\ UNCHANGED <<block_ref, builder, stored, made, signings, chain_vars, copies, fixed_vars>>

builder_sign_and_broadcast ==
    /\ builder.signed = {}
    /\ Signing(builder.ops, builder.wifs)
    /\ \E m \in Made(builder.ops, builder.wifs) :
         /\ Start(m.signed)
         /\ builder' = [builder EXCEPT !.signed = {m.signed}]
    /\ UNCHANGED <<stored, chain_vars, copies, fixed_vars>>

(* Hive.finalizeOp: signed anew every time, and broadcast. *)
finalizeOp(batch, texts) ==
    /\ Signing(batch, texts)
    /\ \E m \in Made(batch, texts) : Start(m.signed)
    /\ UNCHANGED <<builder, stored, chain_vars, copies, fixed_vars>>

-----------------------------------------------------------------------------
(* Broadcasting *)

(* Seeded bug: every node gets a transaction signed for it.                *)
Payload_signed_per_node(s) ==
    CHOOSE t \in UNION {sign([s.transaction EXCEPT !.expiration = local_clock + settings.expiration],
                             [i \in DOMAIN s.signatures |-> s.signatures[i].key], "hive")} : TRUE

(* What is sent: the one transaction that was signed. *)
Payload(s) == s

(* Failover asks the next node when the last has failed; a race asks       *)
(* race_width of them and no more. *)
Ask ==
    /\ call.pc = "running" /\ call.left # {}
    /\ Cardinality(call.asked) < settings.width
    /\ \E n \in call.left :
         /\ call' = [call EXCEPT !.asked = @ \cup {n},
                        !.left = IF settings.width > 1
                                    /\ Cardinality(call.asked) + 1 = settings.width
                                 THEN {} ELSE @ \ {n}]
         /\ copies' = copies \cup {<<Payload(s), n>> : s \in call.signed}
    /\ UNCHANGED <<block_ref, builder, stored, made, signings, broadcasts,
                   chain_vars, fixed_vars>>

(* The answer of node n to the call in progress: the first acceptance ends *)
(* it, a refusal is one node less. *)
Answered(s, n, accepted) ==
    call' = IF call.pc = "running" /\ s \in {Payload(t) : t \in call.signed} /\ n \in call.asked
            THEN IF accepted THEN Idle ELSE [call EXCEPT !.asked = @ \ {n}]
            ELSE call

(* A request reaches its node, maybe after the call gave it up, and the    *)
(* answer reaches the caller or is lost.  One that is never delivered is   *)
(* lost.                                                                   *)
Deliver ==
    /\ \E c \in copies :
         /\ copies' = copies \ {c}
         /\ LET taken == Refusal(c[2], c[1]) = "none"
            IN  /\ pool' = IF taken
                           THEN [pool EXCEPT ![c[2]] = @ \cup {body_bytes(c[1].transaction)}]
                           ELSE pool
                /\ Answered(c[1], c[2], taken) \/ call' = call
    /\ UNCHANGED <<now, landed, block_ref, builder, stored, made, signings, broadcasts,
                   fixed_vars>>

(* The call stops waiting for a node. *)
TimeOut ==
    /\ call.pc = "running"
    /\ \E n \in call.asked : call' = [call EXCEPT !.asked = @ \ {n}]
    /\ UNCHANGED <<block_ref, builder, stored, made, signings, broadcasts,
                   chain_vars, copies, fixed_vars>>

(* Every node that was to be asked has failed. *)
GiveUp ==
    /\ call.pc = "running" /\ call.left = {} /\ call.asked = {}
    /\ call' = Idle
    /\ UNCHANGED <<block_ref, builder, stored, made, signings, broadcasts,
                   chain_vars, copies, fixed_vars>>

-----------------------------------------------------------------------------
(* Stored, damaged, restarted *)

Store ==
    /\ stored = {} /\ call.pc = "idle"
    /\ \E s \in builder.signed : stored' = {to_wire(s)}
    /\ UNCHANGED <<block_ref, builder, call, made, signings, broadcasts,
                   chain_vars, copies, fixed_vars>>

(* The process starts anew, with what it stored. *)
Restart ==
    /\ builder # EmptyBuilder \/ call # Idle
    /\ builder' = EmptyBuilder /\ call' = Idle
    /\ block_ref' = [block |-> 0, at |-> -1]
    /\ UNCHANGED <<stored, made, signings, broadcasts, chain_vars, copies, fixed_vars>>

(* What is read back, if it verifies for the keys. *)
Restored(wire, keys) == {t \in from_wire(wire) : verify(t, keys, "hive")}

Resume ==
    /\ call.pc = "idle"
    /\ \E wire \in stored : \E t \in from_wire(wire) : Start(t)
    /\ UNCHANGED <<block_ref, builder, stored, made, signings, chain_vars, copies, fixed_vars>>

-----------------------------------------------------------------------------
DeliveryInit ==
    /\ now = 0
    /\ \E s \in Setups : /\ skew = s.skew /\ authority = s.authority
                         /\ settings = [expiration |-> s.expiration, width |-> s.width]
    /\ block_ref = [block |-> 0, at |-> -1]
    /\ builder = EmptyBuilder /\ call = Idle
    /\ copies = {} /\ pool = [n \in Nodes |-> {}] /\ landed = {}
    /\ stored = {} /\ made = {} /\ signings = 0 /\ broadcasts = 0

CallSteps == Ask \/ Deliver \/ TimeOut \/ GiveUp

DeliveryNext ==
    \/ \E batch \in OpBatches : appendOps(batch)
    \/ \E text \in KeyTexts : appendWif(text)
    \/ clear
    \/ builder_sign \/ builder_broadcast \/ builder_sign_and_broadcast
    \/ \E batch \in OpBatches, texts \in WalletKeys : finalizeOp(batch, texts)
    \/ CallSteps
    \/ Store \/ Restart \/ Resume
    \/ \E n \in Nodes : Land(n)
    \/ Tick

DeliverySpec == DeliveryInit /\ [][DeliveryNext]_delivery_vars

-----------------------------------------------------------------------------
(* Properties *)

(* async_client.rs: racing and failing over are safe because one signed    *)
(* transaction is sent: whatever is lost, late, repeated, restarted or     *)
(* timed out after it was applied, what lands was signed, and no more      *)
(* lands than was signed, each once. *)
LandsAsSigned ==
    landed \subseteq {body_bytes(m.signed.transaction) : m \in made}

(* A builder's signed transaction is made of operations it still holds:    *)
(* what was cleared is never sent with a later broadcast.                  *)
SendsNothingDiscarded ==
    \A s \in builder.signed : \E m \in made :
        m.signed = s /\ IsPrefix(m.ops, builder.ops)

(* check_custom_op_budget: its shortcut lets nothing through that breaks   *)
(* the budget, counting an account once for every list that names it.      *)
BudgetIsKept ==
    \A m \in made : \A i \in DOMAIN Named(m.ops) :
        Tally(Named(m.ops)[i], Named(m.ops)) <= MAX_CUSTOM_OPS_PER_BLOCK

(* Every key given signs once, and nobody else: recovering the signers     *)
(* gives the keys back. *)
SignedByEachKeyOnce ==
    \A m \in made :
        /\ SignerKeys(m.signed) = {m.texts[i] : i \in DOMAIN m.texts}
        /\ Len(m.signed.signatures) = Cardinality(SignerKeys(m.signed))

(* A stored transaction is read back whole, and one that was damaged - a   *)
(* token lost, repeated or changed for another - verifies for its signers  *)
(* only if it is still the one they signed.                                *)
Damages(w) ==
    {SubSeq(w, 1, i - 1) \o SubSeq(w, i + 1, Len(w)) : i \in DOMAIN w}
    \cup {SubSeq(w, 1, i) \o SubSeq(w, i, Len(w)) : i \in DOMAIN w}
    \cup {[w EXCEPT ![i][2] = @ + 1] : i \in {j \in DOMAIN w : w[j][1] \in {"time", "count"}}}
    \cup {[w EXCEPT ![i][2] = @ - 1] :
             i \in {j \in DOMAIN w : w[j][1] = "count" /\ w[j][2] > 0}}

VerifiedIsSigned ==
    \A m \in {m \in made : to_wire(m.signed) \in stored} :
        /\ from_wire(to_wire(m.signed)) = {m.signed}
        /\ \A w \in Damages(to_wire(m.signed)) : \A t \in Restored(w, SignerKeys(m.signed)) :
              t.transaction = m.signed.transaction

(* AuthorityCheck: an answer that calls itself conclusive is the chain's,  *)
(* although the check sees only keys and the chain follows the accounts.   *)
ConclusiveIsFinal ==
    \A m \in made :
        LET c == check_authority(authority[Signer], SignerKeys(m.signed))
        IN  c.conclusive => (c.satisfied <=> Signer \in Speaks(SignerKeys(m.signed)))

AsList(v) == IF v[1] = "tuple" THEN <<"list", v[2]>> ELSE v
ReadBack(text) ==
    IF text[2][1] = "rendered" THEN json_to_py(text[2][2]) ELSE <<"str", text[2][2]>>

(* The payload that is signed reads back as what the caller gave: text as  *)
(* it is, a value as the value; a tuple becomes a list.                    *)
PayloadIsKept ==
    \A m \in made : \A i \in DOMAIN m.ops :
        ReadBack(PayloadOf(m.signed.transaction.operations[i])) = AsList(PayloadOf(m.ops[i]))

(* The two bindings sign the same: for one description of the operations   *)
(* both name the digest and the id of the transaction that was signed.     *)
BindingsAgree ==
    \A m \in {m \in made : m.signed \in builder.signed} :
        LET tx == m.signed.transaction
        IN  /\ transaction_digest(m.ops, tx.block_ref, tx.expiration, chain_name)
                   = digest(tx, "hive")
            /\ transaction_digest_node(m.ops, tx.block_ref, tx.expiration, chain_name)
                   = digest(tx, "hive")
            /\ transaction_id(m.ops, tx.block_ref, tx.expiration) = {id(tx)}
            /\ transaction_id_node(m.ops, tx.block_ref, tx.expiration) = {id(tx)}
            /\ m.signed \in {r.signed : r \in sign_transaction_node(m.ops, tx.block_ref, m.texts,
                                  settings.expiration, chain_name, m.at + skew)}

SignsWhatWasGiven == PayloadIsKept /\ BindingsAgree
=============================================================================
