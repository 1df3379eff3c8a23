------------------------------ MODULE TaposCache ------------------------------
(***************************************************************************)
(* TaposCache (hivecomb/src/tapos.rs) between the tasks that refresh it    *)
(* (NodeClient::refresh_tapos) and the ones that sign with what it serves  *)
(* (Transaction::new).  A block reference is read by a node, travels, is   *)
(* stored under a later instant, is served until max_age after that, and   *)
(* is then good for as long as the transaction it went into: the chain     *)
(* resolves it by the low bits of the block number only.                   *)
(*                                                                         *)
(* One refresh is one NodeClient::call, bounded by FetchBudget.  The chain *)
(* and its nodes are the environment; a node serves a head at most MaxLag  *)
(* blocks old, and may mix the number of one block with the id of another. *)
(***************************************************************************)
EXTENDS Integers

CONSTANTS
    Refreshers,         \* tasks that refresh the cache
    Signers,            \* tasks that sign
    max_age,            \* TaposCache.max_age
    MaxExpiration,      \* MAX_EXPIRATION_SECS
    Expirations,        \* values callers pass as expiration_secs
    Window,             \* 2^16: ref_block_num is the low half of the number
    block_interval,
    FetchBudget,        \* the longest a refresh's call takes
    HoldBudget,         \* the longest a signer holds a reference before signing
    MaxLag,             \* blocks a node may lag
    GenesisHead,        \* the head when the clock starts
    MaxTime             \* bound on the clock

ASSUME TaposAssumption ==
    /\ max_age \in Nat /\ MaxExpiration \in Nat /\ Expirations \subseteq Nat
    /\ Window \in Nat \ {0} /\ block_interval \in Nat \ {0}
    /\ FetchBudget \in Nat /\ HoldBudget \in Nat
    /\ MaxLag \in Nat /\ GenesisHead \in Nat /\ MaxLag < GenesisHead
    /\ MaxTime \in Nat

VARIABLES
    now,            \* the monotonic clock
    chain_head,     \* the chain's head block number
    since_block,    \* ticks since that block was produced
    entry,          \* Mutex<Option<Entry>>
    refresh,        \* the locals of each refresher
    signer          \* the locals of each signer

tapos_vars == <<now, chain_head, since_block, entry, refresh, signer>>

(* Option::None; no block has the number 0. *)
NoEntry == [block_num |-> 0, fetched_at |-> 0]

IdleRefresh == [pc |-> "idle", id |-> 0, number |-> 0, since |-> 0]
IdleSigner  == [pc |-> "idle", block_num |-> 0, since |-> 0, expires |-> 0]

(* Blocks the chain produces, at most, in d ticks. *)
Produced(d) == (d + block_interval - 1) \div block_interval

-----------------------------------------------------------------------------
(* refresh_tapos *)

Ask(r) ==
    /\ refresh[r].pc = "idle"
    /\ refresh' = [refresh EXCEPT ![r] = [IdleRefresh EXCEPT !.pc = "asked", !.since = now]]
    /\ UNCHANGED <<now, chain_head, since_block, entry, signer>>

(* A node answers with head_block_number and head_block_id. *)
Serve(r) ==
    /\ refresh[r].pc = "asked"
    /\ \E lag \in 0 .. MaxLag :
         LET head == chain_head - lag
         IN  \E other \in {head, 1} :
               refresh' = [refresh EXCEPT ![r] =
                   [@ EXCEPT !.pc = "served", !.number = head, !.id = other]]
    /\ UNCHANGED <<now, chain_head, since_block, entry, signer>>

RefreshFails(r) ==
    /\ refresh[r].pc \in {"asked", "served"}
    /\ refresh' = [refresh EXCEPT ![r] = IdleRefresh]
    /\ UNCHANGED <<now, chain_head, since_block, entry, signer>>

(* Seeded bug: the number the id encodes is not compared with the head. *)
agrees_unchecked(r) == refresh[r].pc = "served"

(* DynamicGlobalProperties::block_ref. *)
agrees(r) == refresh[r].pc = "served" /\ refresh[r].id = refresh[r].number

(* store stamps the entry with the instant it is stored at. *)
Store(r) ==
    /\ agrees(r)
    /\ entry' = [block_num |-> refresh[r].id, fetched_at |-> now]
    /\ refresh' = [refresh EXCEPT ![r] = IdleRefresh]
    /\ UNCHANGED <<now, chain_head, since_block, signer>>

(* The response contradicts itself: an error, and the entry stays. *)
Refuse(r) ==
    /\ refresh[r].pc = "served" /\ ~agrees(r)
    /\ refresh' = [refresh EXCEPT ![r] = IdleRefresh]
    /\ UNCHANGED <<now, chain_head, since_block, entry, signer>>

Invalidate ==
    /\ entry' = NoEntry
    /\ UNCHANGED <<now, chain_head, since_block, refresh, signer>>

-----------------------------------------------------------------------------
(* Signing *)

(* Seeded bug: whatever is cached is served. *)
is_fresh_always == entry # NoEntry

is_fresh == entry # NoEntry /\ now - entry.fetched_at <= max_age

(* TaposCache::block_ref; without a fresh entry it is an error. *)
TakeRef(s) ==
    /\ signer[s].pc = "idle" /\ is_fresh
    /\ signer' = [signer EXCEPT ![s] = [@ EXCEPT !.pc = "holding", !.since = now,
                                                 !.block_num = entry.block_num]]
    /\ UNCHANGED <<now, chain_head, since_block, entry, refresh>>

expiration_allowed(secs) == secs # 0 /\ secs <= MaxExpiration

(* Transaction::new and sign. *)
Sign(s) ==
    /\ signer[s].pc = "holding"
    /\ \E secs \in Expirations :
         /\ expiration_allowed(secs)
         /\ signer' = [signer EXCEPT ![s] = [@ EXCEPT !.pc = "signed", !.since = now,
                                                      !.expires = now + secs]]
    /\ UNCHANGED <<now, chain_head, since_block, entry, refresh>>

(* The transaction is on the chain, or lost, or was never built. *)
Done(s) ==
    /\ signer[s].pc # "idle"
    /\ signer' = [signer EXCEPT ![s] = IdleSigner]
    /\ UNCHANGED <<now, chain_head, since_block, entry, refresh>>

-----------------------------------------------------------------------------
(* Time passes within the budgets; MaxTime bounds the model. *)
TaposTick ==
    /\ now < MaxTime
    /\ \A r \in Refreshers : refresh[r].pc # "idle" => now < refresh[r].since + FetchBudget
    /\ \A s \in Signers : signer[s].pc = "holding" => now < signer[s].since + HoldBudget
    /\ now' = now + 1
    /\ IF since_block + 1 = block_interval
       THEN chain_head' = chain_head + 1 /\ since_block' = 0
       ELSE chain_head' = chain_head /\ since_block' = since_block + 1
    /\ UNCHANGED <<entry, refresh, signer>>

TaposInit ==
    /\ now = 0 /\ chain_head = GenesisHead /\ since_block \in 0 .. block_interval - 1
    /\ entry = NoEntry
    /\ refresh = [r \in Refreshers |-> IdleRefresh]
    /\ signer = [s \in Signers |-> IdleSigner]

TaposNext ==
    \/ TaposTick \/ Invalidate
    \/ \E r \in Refreshers : Ask(r) \/ Serve(r) \/ RefreshFails(r) \/ Store(r) \/ Refuse(r)
    \/ \E s \in Signers : TakeRef(s) \/ Sign(s) \/ Done(s)

TaposSpec == TaposInit /\ [][TaposNext]_tapos_vars

-----------------------------------------------------------------------------
(* Properties *)

(* Every local keeps its type, and a signed transaction expires within     *)
(* hived's window. *)
TaposTypeOK ==
    /\ now \in Nat /\ chain_head \in Nat /\ since_block \in 0 .. block_interval - 1
    /\ entry \in [block_num : Nat, fetched_at : Nat]
    /\ refresh \in [Refreshers -> [pc : {"idle", "asked", "served"}, id : Nat,
                                   number : Nat, since : Nat]]
    /\ signer \in [Signers -> [pc : {"idle", "holding", "signed"}, block_num : Nat,
                               since : Nat, expires : Nat]]
    /\ \A s \in Signers : signer[s].pc = "signed" =>
           signer[s].expires \in signer[s].since + 1 .. signer[s].since + MaxExpiration

(* hived finds the block of a reference by its low bits: the latest block  *)
(* that has them. *)
Resolves(block_num) ==
    \A k \in block_num + 1 .. chain_head : k % Window # block_num % Window

(* The longest a reference can be from being read to the last moment the   *)
(* transaction that uses it can be included. *)
Lifetime == FetchBudget + max_age + HoldBudget + MaxExpiration

(* The cache never causes the silent failure it was built against: as long *)
(* as a signed transaction has not expired, its reference still names the  *)
(* block it was taken from, whichever refresh it came from, whoever        *)
(* stored over whom, and however old it was when it was stored -- provided *)
(* the ages add up to less than the window. *)
ReferenceOutlivesTransaction ==
    MaxLag + Produced(Lifetime) < Window =>
        \A s \in Signers :
            signer[s].pc = "signed" /\ now <= signer[s].expires
                => Resolves(signer[s].block_num)

(* Refreshes overtake one another, and an older one may replace a newer    *)
(* reference and be stamped afresh; it can never set the cache back by     *)
(* more than a fetch and the node's lag account for. *)
RegressIsBounded ==
    [][entry # NoEntry /\ entry' # NoEntry =>
           entry'.block_num + MaxLag + Produced(FetchBudget) >= entry.block_num]_tapos_vars
=============================================================================
