# hivecomb, in TLA+

A verification development of hivecomb, the Hive client library: a Rust core
(`hivecomb/`), its Python and Node bindings (`hivecomb-py/`, `hivecomb-node/`)
and a Python layer with beem's interface (`python/`). It models two kinds of code:
what keeps state over time and is shared by threads, tasks or processes (the node
health tracker, the failover client, the racing client and its window of block
fetches, the block stream, the TaPoS cache, the encrypted wallet, the way of a
transaction from its builder to the chain), and the pure algorithms whose errors
would be signed (the operations and their wire format, authorities, memos, mana).
Paths below are relative to the repository's root, which is `src/` in
`PROJECT.json`; the exact lines behind every definition are there, under `map`.

To check: `tlc -config X.cfg MC_Y.tla` for a run (`PROJECT.json` names the module of each
`.cfg`), `tlapm XProofs.tla` for the proofs.

## 1. The system and its parts

| Part | Source | State it keeps | Operations |
|---|---|---|---|
| Health tracker | `hivecomb/src/rpc/health.rs` | per node: failure streak, its methods, cooldown; per node and method: failures, cooldown; last head block and when it was heard | `order`, `record_success`, `record_failure`, `observe_head_block`, `snapshot`, each under one mutex |
| Node client | `hivecomb/src/rpc/client.rs`, `types.rs` | node list, retry settings, a shared tracker; per call: pass, order, failures | `call`, `try_node`, `call_order`, `note`, `broadcast`, typed wrappers |
| Async client | `hivecomb/src/rpc/async_client.rs` | the same; per race: requests in flight | `call`, `race`, `blocks` (a window of fetches) |
| Block stream | `hivecomb/src/rpc/client.rs` (`BlockStream`) | mode, next block, last head heard of, stop | `Iterator::next`, `until` |
| TaPoS cache | `hivecomb/src/tapos.rs`, `types.rs` (`block_ref`) | one reference and the instant it was stored | `store`, `block_ref`, `invalidate`, `refresh_tapos` |
| Wallet | `hivecomb/src/wallet.rs` | in memory: the file's content and the derived key; on disk: the file and its `.tmp` | `create`, `open`, `unlock`, `lock`, `add_key`, `remove_key`, `change_passphrase`, `save` |
| Transactions, signing | `hivecomb/src/transaction.rs`, `sign.rs` | none (values) | `new`, `sign`, `merge_signatures`, `verify`, `from_wire`, the custom-operation budget |
| Authorities | `hivecomb/src/authority.rs` | none | `new` (limits, order), `check`: which keys satisfy one, and whether that is final |
| Operations | `hivecomb/src/operations/` | none | `append_to`, `read_from`, JSON both ways, `validate`, required authorities, virtual operations |
| Wire format, assets | `hivecomb/src/types.rs`, `reader.rs`, `asset.rs` | none | varints, strings, amounts |
| Chain values | `hivecomb/src/chain/` | none | parsing; mana regeneration |
| Keys, memo, encodings | `hivecomb/src/keys/`, `memo.rs`, `base58.rs`, `bip*.rs` | none | cryptography |
| Transports | `hivecomb/src/rpc/{ureq,reqwest}_transport.rs` | none | one HTTP request with a timeout |
| Python Hive, TransactionBuilder | `python/beem/hive.py`, `transactionbuilder.py` | pending operations, signed transaction, keys | `appendOps`, `sign`, `broadcast`, refresh |
| Python RPC, wallet, blockchain | `python/hivecomb_compat.py`, `python/beem/{wallet,blockchain,block}.py` | node list, wallet handle, stream position | failover, lookup, iteration |
| Python domain objects, CLI, shims | `python/beem/*.py`, `python/beembase/`, `python/beemgraphenebase/` | caches of responses | sequential wrappers |
| Bindings | `hivecomb-py/src/lib.rs`, `hivecomb-node/src/lib.rs` | handles on Rust values | conversions |

How they interact. A client calls its transport, node after node, and reports
each outcome to its tracker (`note`); it asks the tracker for the order of the
nodes at the start of each pass. Threads and tasks share a client, and so its
tracker, by reference. The stream calls the client twice per block, and the two
calls may end at different nodes. `refresh_tapos` calls the client and stores in
the cache; signers take references from the cache later, on other threads. The
wallet talks to the file system, where other processes may have the same file. A
Python caller's operations go through `TransactionBuilder` or `Hive`, the binding
(which turns Python values into JSON and JSON into operations), the crate's
`Transaction::new` and `sign`, and then as one signed transaction to one node after
another, or to several at once. Whoever reads an operation from bytes or JSON may
sign or send what it has read.

What is hard about it, and what makes each part correct:

- **Tracker.** Operations read the clock before they take the mutex, so they
  apply with stale instants; success forgets some counters and keeps others;
  heads are read at different times and compared at one. Correct: a cooldown
  stands for the failures the policy asks for and expires; a node is stale
  only relative to a fresher one; a node in sync is never demoted, a laggard is.
- **Client.** The order is fixed per pass while other callers change the
  tracker; nodes fail in every way. Correct: whole passes, no early error, a
  bounded time, every call returns.
- **Race.** Outcomes arrive in any order, losers are dropped unpolled. Correct:
  one timeout at most, lost only by all, losers are not blamed, it ends.
- **Stream.** Nodes at different heights and on forks answer its two calls.
  Correct: no block twice or left out silently, none before its finality, and
  an outage does not end it.
- **TaPoS cache.** Refreshers overtake each other; ages add up along the way.
  Correct: the chain resolves a reference as long as the transaction lives.
- **Wallet.** Saves fail and processes die at every step; memory is changed
  before the save. Correct: one passphrase opens every entry, the file is never
  truncated, what was acknowledged is durable.
- **Window of fetches.** Answers complete in any order, an error drops what is in
  flight. Correct: each block of the range once, in order, and the window empties.
- **Transactions.** Requests and answers get lost or come late, a broadcast is
  repeated after it was applied, the builder keeps operations and signatures over
  calls, the process restarts, the clock is off. Correct: what lands was signed, as
  often as it was signed; what is signed is what was given; every key signs once;
  what was discarded stays discarded.
- **Codec.** Three hand-kept lists (writer, reader, JSON) per operation; strings that
  change in transport; sets that must be sorted by what hived will see. Correct: what
  is written is read back as hived has it, damage is noticed, and nothing virtual
  becomes an operation to sign.
- **Memos, mana.** Two formats that have to be told apart; products near the top of an
  `i64`. Correct: a memo opens for its two ends only, and for them as what was written; the
  extrapolation is the chain's count; a full bar is at 100 percent.

`PROJECT.json` lists these hazards at their lines, with the properties that
cover each and a note where none does.

## 2. The modules

| Module | Models | Interacts |
|---|---|---|
| `HealthTracker` | every operation of `HealthTracker`, under arbitrary callers | |
| `FailoverCall` | abstract: what a call promises | |
| `NodeClient` | `NodeClient::call`, `AsyncNodeClient::call`, nodes and network | extends `HealthTracker`; implements `FailoverCall` |
| `NodeRace` | `AsyncNodeClient::race` | extends `HealthTracker` |
| `BlockStream` | `BlockStream::next` over nodes, forks and outages | a whole client call is one step |
| `TaposCache` | the cache between refreshers and signers | a whole client call is bounded by `FetchBudget` |
| `WalletStore` | `Wallet`, its file, and other processes | |
| `BlockWindow` | `AsyncNodeClient::blocks` | `MC_Race` puts it beside `NodeRace`, of one client |
| `Transactions` | `Transaction::new`, `sign`, `verify`, wire form, budget; `Authority::check` | |
| `Bindings` | the entry points of both bindings, Python values and JSON | extends `Transactions` |
| `Delivery` | `TransactionBuilder`, `Hive`, one broadcast at a time, nodes and chain | extends `Bindings` |
| `WireFormat` | writers and readers of every kind of field; `Authority::new` | |
| `OperationTable` | names, ids and fields of all operations, as data | |
| `OperationCodec` | an operation to bytes, to JSON and back; `validate` | extends `WireFormat`, instantiates `OperationTable` |
| `OperationJourney` | an operation built, written, damaged, read, sent on | extends `OperationCodec` |
| `Memo` | `memo.rs`: both formats, sender, receiver, the way between | extends `WireFormat` |
| `Manabar` | `chain/manabar.rs`, `RcAccount`, and the chain that meters | `MC_Codec` puts the last three side by side |
| `HealthTrackerProofs`, `NodeClientProofs`, `DeliveryProofs` | the proofs about one module | |
| `AsyncClientProofs` | the proofs about `NodeRace` and `BlockWindow` | |
| `LocalStateProofs` | the proofs about `TaposCache`, `BlockStream`, `Manabar` and `WalletStore`, a section each | |
| `InTurnProofs` | of any reader of one value: what reading several in turn gives | instantiated by name, once per reader |
| `WireProofs` | the proofs about `WireFormat` and `Memo` | instantiates `InTurnProofs` |
| `OperationProofs` | the proofs about `OperationCodec` and `OperationJourney` | extends `WireProofs` |
| `MC_*` | inputs, model values and symmetry for TLC | `MC_Local` puts `TaposCache` and `WalletStore` side by side |

**HealthTracker.** `state[n]` is the `NodeState` of node `n`; an absent
`Option<Instant>` or map entry is 0. `record_success`, `record_failure` and
`observe_head_block` are one action each; `at` is the instant the operation read
before it got the mutex. `order` sorts by tier, stably: the model gives the
tiers, and `FirstInOrder` picks the node a walk of the sorted list takes next.
Projections are kept in units of a block over the interval, so they are whole
numbers; the rounding of `f64` is left out.

**NodeClient.** `caller[c]` holds the locals of a running `call`. One action per
step between which another caller may run: `Send`, `Serve` (the node reads its
head), `Answer` / `AnswerError` / `TransportFails`, then `NoteSuccess` and
`NoteHead` (two separate locks of the mutex in the code) or `NoteFailure`, then
the next node, `Backoff`/`Retry`, or `GiveUp`. Node `n` serves the chain's head
`lag[n]` blocks late; a request that was served may still fail in transit.

**NodeRace.** `race[t]` holds `inflight` (`pending`) and `failures` (`failing`).
`Wins` drops everything in flight; `Return` from a running race is a caller that
drops the future.

**BlockStream.** `next`, `head` and `mode` are the fields, `pc` and `wanted` where
`Iterator::next` is. `TakeHead`, `Poll` and `Fetch` are each a client call that any
node may have answered; `CallFails` is the call for which all nodes fail.

**TaposCache.** `entry` is the `Mutex<Option<Entry>>`. A refresh is `Ask`, `Serve`,
then `Store`, `Refuse` (number and id disagree) or `RefreshFails`. A signer does
`TakeRef` (with the age check) and later `Sign` (with the expiration check).
`Resolves` is how hived looks a reference up: by the low half of the number.

**WalletStore.** `handle[h]` is a `Wallet` in some process, `disk` and `temp` the two
paths. A derived key is named by its salt, and an entry is the salt whose key
seals it. An operation changes memory and then saves in steps: `Truncate`, `FillPart`, `Fill`,
`Rename`, each of which may fail (`SaveFails`) or be the process's last (`Crash`). A file that is
not whole is `"torn"`: `Truncate` leaves one, and `FillPart` another where two processes write
the same. `behind` is history: the last save of this handle failed, so that
its memory may be ahead of the file. `RemoveAbsent` is the `Ok(false)` of `remove_key`, which
saves nothing.

**BlockWindow.** `window` is where the loop is, `pending` the `FuturesUnordered`, `fetched`
the vector. `Request` fills one place, `Completes` takes any answer, `Errs` returns at
the first error, `Returns` sorts, `Dropped` is the caller who drops the future.

**Transactions, Bindings.** A hash is the value it is of, and a signature the pair of a key and a
digest: both are taken to be injective. A result that may be an error is a set, empty
for it. A transaction in wire form is a sequence of tokens, so that one can be lost,
repeated or changed. A Python value is tagged with its type, in the order in which
`scalar_to_json` tries them.

**Delivery.** `builder` is a `TransactionBuilder` (operations, key texts, what is signed),
`block_ref` the cache of `Hive`, `call` the broadcast in progress, `copies` the requests under
way, `pool` and `landed` the nodes and the chain. A request is delivered at any time
after it was sent, or never; its answer arrives or is lost. `Ask` covers failover (width 1)
and racing. `Restart` keeps only what `Store` wrote.

**WireFormat, OperationCodec, OperationTable.** Bytes are numbers. Strings keep the distinction that
matters: hived's JSON parser changes control characters (`hived_transport_form`), and the
writers sort by what hived sees. `OperationTable` holds, per operation, its fields in the
order of the struct (`Declared`), of the writer (`Written`) and of the reader (`Read`), and those of the
virtual operations (`Emitted`), each transcribed from its own code, so that a field
swapped in one of them is a difference TLC sees. An amount is its units and symbol; its
decimal text is left out. `Values` is what a field of each kind can hold, and `IsOperation` an
operation whose fields are of their types: `JourneyAssumption` has a caller build no other.

**OperationJourney.** A behaviour is one operation: built, perhaps validated, written or rendered,
perhaps damaged, read as bytes, as JSON or as history, and sent on. The bytes may also be
somebody else's (out of order, virtual, unknown), the JSON the chain's.

**Memo, Manabar.** `Memo`: the ciphertext stands as its plaintext, as the key is checked first, so that
of a memo that is cut the whole cipher blocks in front stay readable (CBC). Three formats
arrive: hivecomb's, beem's as the tests have it (padded always), and beem's as the comment on
`pad` has it (aligned text left alone). `Alteration` is whoever carries the memo: it cuts any
number of bytes, adjusting the length or not. `Manabar`: the chain counts in fractions, the
client extrapolates from a copy of any age with a clock that may be behind. `percentage` is
a quotient of two `f64`, each the fraction of `MANTISSA` digits nearest to its value.

## 3. The runs

| Run | Shows | Bounds |
|---|---|---|
| `health` | counters, streaks and cooldowns agree; cooldowns expire; never all stale | 2 nodes, 2 methods, both thresholds 2, counters saturate at 2, clock 0..2 with waits of 1 |
| `client_failover` | `KeepsPromise` (refines `FailoverCall`, with its liveness), `CallBudget` | 2 callers, 2 nodes, 2 methods, 2 passes, one call each |
| `client_heads` | `InSyncNeverDemoted`, `LaggardIsCaught` | 2 callers with two calls, one node may lag by 4, 2 ticks a block, answers late by 1 |
| `race` | `OneTimeoutAtMost`, `LostOnlyByAll`, `JudgedOnOutcomes`, `RaceEnds`; `EachBlockOnce`, `InBlockOrder`, `WindowEnds` | 2 tasks, 3 nodes, widths 0, 2 and 4; or one of five ranges (up to four blocks, some backwards or beyond a node's head), windows 0, 2 and 3 |
| `stream` | `Consecutive`, `WaitsForFinality`, `CatchesUp` | 2 nodes, chain grows from 2 to 5, one fork, one outage, both modes, three starts |
| `local` | `ReferenceOutlivesTransaction`, `RegressIsBounded`; `OnePassphraseOpensAll`, `NeverTruncated`, `AcknowledgedIsDurable` | the cache: 2 refreshers, 1 signer, a window of 6 blocks the ages only just fit into; the wallet: 2 processes, 2 keys, 2 passphrases, 2 salts |
| `codec` | `ReadsBack`, `Settles`, `DamageDetected`, `ValidatedIsCanonical`, `NeverSignable`; `OpensForItsEnds`; `ExtrapolatesTheChain` | every operation, one field at a time at each boundary value of its kind, 3 chains, 2 legs; 3 parties, 2 nonces, texts of 0 to 5 bytes over blocks of 4, some of which begin with their own length or end like padding; maxima up to an `i64` of 15, a horizon of 9 |
| `delivery` | `LandsAsSigned`, `SendsNothingDiscarded`, `BudgetIsKept`, `SignedByEachKeyOnce`, `VerifiedIsSigned`, `ConclusiveIsFinal`, `SignsWhatWasGiven` | 2 nodes, 2 operations of a builder, 2 signings and 2 broadcasts (3 together), 1 tick, 4 setups of clock, expiration, width and authorities |
| `rpc_errors`, `locked_rekey`, `unknown_fields`, `full_bar` | the findings of section 6: each must be violated | as the run it belongs to; `full_bar` with an `f64` of 7 digits |

Why the bounds are enough for what they are for. Cooldowns need two failures on
two methods and the clock to pass them, which two methods, thresholds of 2
and `MaxTime` beyond the shorter duration give; saturation is reached at 2. Two
callers are what it takes for one to change the tracker under the other's pass,
and two nodes for an order to change; two passes give one backoff. For the heads,
the phase of block production (`since_block`) matters, so a block lasts two
ticks and starts in either phase. Three nodes let two races overlap without being
equal. The stream's chain spans an announced, a missing and a confirmed block in
each mode. In `local` the assumption of the property is one block away
from failing (`MaxLag + Produced(Lifetime)` is 5, the window 6), so a reference that
is served, held or used for a block longer breaks it. Two salts allow a creation and one change of
passphrase, and both creators of a race. A window of 3 over ranges of up to four
blocks makes answers overtake each other and errors meet a full and an empty window. A
field of an operation is read and written on its own, so one field at a time at its
boundary reaches every branch of the codec; the second leg is the first whose input is
what the library itself has read. Two signings and one broadcast, or the reverse, are
what it takes to send a stale, a repeated or a discarded transaction; the setups cover a
clock that is behind and ahead, an expiration beyond the window, an authority through
another account and one that is not satisfied. Seven digits of an `f64` are to a bar of 7, whose
hundredfold takes ten, what 53 are to one of 382460490081487, whose hundredfold takes 56. Every property is paired with a mutant
of the code in `PROJECT.json` that violates it under the same bounds.

The runs disable the deadlock check because these systems may stop: calls, races, legs,
salts and the clock are bounded, a stream ends at `stop`. Runs with a liveness property use
no symmetry.

Fairness. `ClientFairness`: a running call keeps being scheduled, and time passes;
`ClientTick` is blocked while a request is at its timeout, which is the transports'
contract (both pass the timeout to the HTTP library). No answer is assumed: a
node may never answer. `RaceFairness`: the clock runs and a racing task is polled, its transport keeping the
timeout. `WindowFairness`: the loop is polled and its fetches end (each is a call of its own, which
returns).
`BlockStream!Spec`: the consumer asks, the iterator runs, the chain grows, nodes
follow it; outages are finitely many (`Outages`) and nothing is assumed about which
node answers.  `FailoverCall!Fairness` is what `KeepsPromise` derives.

## 4. What is proved

By TLAPS, for every value of the constants that satisfies the module's named
assumption:

- `HealthTrackerProofs` (assumes `PolicyAssumption`). `HealthInv` says of each
  node on its own: types, a whole-node cooldown only with more than one method
  in a long enough streak, each method of the streak counted, cooldowns within the
  policy's duration of now. The parts need each other: a failure renews a cooldown
  by comparing counters whose agreement with the streak is another conjunct. It
  gives `HealthTypeOK`, `BroadlyBrokenOnly`, `StreakIsCounted`, `CooldownsExpire`.
  `SomeNodeIsCurrent` is not about histories at all: the best reading is fresh and not
  stale in any typed state (`BestIsNotStale`). `EveryNodeHasItsTurn`: the order leaves
  exactly one next node while any is left.
- `NodeClientProofs` (adds `ClientAssumption`). `InSyncNeverDemoted` is not inductive:
  the state does not say how old a recorded head was when it was recorded.
  `ClientInv` adds it. With the chain's position measured in ticks (blocks times
  interval plus ticks since), an answer in flight carries a head read no longer ago
  than its request, so at most `timeout`; and a recorded head, projected from the
  moment it was recorded, is never ahead of the chain's position (less the lag) and
  at most `timeout` plus one block behind it. Both bounds survive time passing, as both
  sides grow alike. The theorems `InSyncNodesStay` and `LaggardsAreCaught` then compare
  two such readings and floor the difference.
- Calls, in the second half of `NodeClientProofs` (same assumptions). `CallsInv` adds to `ClientInv` what a call has behind it. In
  attempts: a node counts as many failures as there were passes that reached it, so one
  more than the pass's number once it was tried in this pass, the node in flight
  excepted. In time: with a pass and the sleep after it costing at most `PassCost`, a
  step is taken no later than `Latest` says for the nodes this pass has gone to; a request
  in flight and a sleeper have their own deadline before that, which is why the clock
  may pass them. Neither follows from the other run-checked properties: `CallBudget`
  alone does not know how many attempts are left. It gives `ClientTypeOK`, `CallBudget` and,
  step by step, the safety part of the refinement: `KeepsPromiseStepByStep` proves that
  `ClientSafety` implies `FailoverCall`'s `Init` and `[][Next]`, `NoteFailure` being `AttemptFails`
  (its node has failed as often as the pass's number, and nobody less), `NoteHead` being
  `AttemptSucceeds`, and the rest stuttering.
- `AsyncClientProofs`, the race (adds `RaceAssumption`). `RaceInv` says of each race that what it went to is
  in flight or has failed, with nothing in flight outside a running race, and that all
  requests in flight left at its start: a race's timeout is then one request's
  (`OneTimeoutAtMost`). `LostOnlyByAll` needs in addition that a race goes to one node at least
  whatever width is given, which is `SomebodyIsRaced`: clamping and the first of the order.
  `JudgedOnOutcomes` is inductive with the tracker's own invariant.
- `AsyncClientProofs`, the window (assumes `WindowAssumption`, and `WindowRoom`: no range ends at the
  last number). `WindowInv`: the numbers asked for are those below `next`, each in flight or
  fetched and in one of the two only once; so the window stays within `concurrency`, and a
  result has every number of the range (`RangeIsComplete`). `BlocksInOrder` adds that sorting
  puts the i-th of them in the i-th place: as the numbers are those of an interval, each once,
  an element's place is its number less the first.
- `LocalStateProofs`, the stream (assumes `StreamAssumption`). `StreamInv` ties the iterator's own fields to what the
  consumer has: `next` is the number after the last item's and, once the poll has bounded it,
  is the block `wanted`; and the head an irreversible stream heard of is final already.
- `LocalStateProofs`, the cache (assumes `TaposAssumption`). `TaposInv` bounds how long ago a
  reference was served at each stage: asked, served, cached, held, signed, each
  adding its own budget. `ReferencesResolve` turns the sum into blocks and shows
  that no later block within the window has the same low bits; `RegressBound` is the
  action property, from the same invariant.

- `LocalStateProofs`, the wallet (assumes `WalletAssumption`). `FileStoreInv` holds whoever has the
  wallet open: every file and handle is sealed by its own salt only, a salt drawn
  already, and an unlocked handle holds that salt's key; it gives `WalletTypeOK` and
  `OnePassphraseOpensAll`. `SoleInv`, under `~shared`, adds what crash consistency needs
  and neither `NeverTruncated` nor `AcknowledgedIsDurable` says: the file in memory honours
  the same reports as the one on disk, and is the one on disk unless its last save failed (which
  is what an `Ok(false)` of `remove_key` rests on); the `.tmp` file is what the one saver has
  written of it, and the report that an unfinished save will make is already true of
  the file in memory (`Promised`). The rename then carries all of it over at once.

- `DeliveryProofs` (assumes `DeliveryAssumption`). `DeliveryInv` follows a transaction: each record of
  `made` is what `sign` made of these operations, key texts and reference (`IsSigned`), the
  builder's `signed` is one of them, and the copies under way, the pools, the chain and the
  stored bytes hold nothing but bodies of them. `LandsAsSigned` and `SendsNothingDiscarded` follow at
  once; the others rest on what the functions do for every input: `BudgetIsKept` on the accounts that
  operations name, `SignedByEachKeyOnce` on the keys without their repeats,
  `VerifiedIsSigned` on the wire form, where one token changed, lost or repeated gives nothing
  that reads and verifies, `ConclusiveIsFinal` on the weights of an authority: a sum over the entries that
  speak, which an account can only add to, and which the chain's walk, however deep, bounds
  by all of them. `SignsWhatWasGiven` carries a hypothesis: the payloads are ones JSON holds
  exactly (`IsExact`), as an integer of 2^64 or more becomes a float on the way.
- `LocalStateProofs`, mana (assumes `ManaAssumption`). The chain counts in fractions, a maximum's worth each
  second; `ManaInv` says that its count is `min(R * current_mana + max * elapsed, max * R)`, R being
  `REGENERATION_SECONDS`. `ExtrapolationIsTheChains` is then that the client's formula, with its two
  roundings, two limits and a saturated sum, is that count divided by R, and grows with the clock; and
  that the seconds of `seconds_until_full` are at most one short. All of this is integer
  arithmetic in the code; the percentages, which are not, are left to the run `full_bar`.
- `WireProofs`, memos (assumes `MemoAssumption`). `MemoInv`: nothing was sent, or the memo under way is
  what its writer made of some text, altered once at most and only while unopened, and what a party has
  opened is what `decode` makes of it. `MemosOpenForTheirEnds` rests on `DecodeIs` (as many bytes as
  the length says are decoded, by a key that fits the check value), `Padding` (a padded text is whole
  blocks, and comes off as it went on), `VarintReadsBack` (what `write_varint32` writes of
  31 bits, `read_varint32` reads, whatever follows) and `CutLeaves` (whole blocks, cut within one, are
  none). `FilledIsRead` has what every format makes of a text, and `PieceIsRead` what can be
  made of its first blocks: the last byte may happen to look like padding and the first like a length,
  so a piece of it is read, if anything. No text is longer than the length in front of it can say, which
  `encode` refuses.
- `WireProofs`, fields. `Values` (in `WireFormat`) is what a field of each kind can hold: the Rust type of
  the field, private fields as their constructors leave them, lengths that a varint can say. For a
  kind, `KindKept` says that what `Write` writes, followed by anything, is read by `ReadKind` to the value
  the chain has, which is of its kind too, with the rest untouched, and that this value is written to
  the same bytes; `KindBack` (in `OperationProofs`) has it for all of them. The lemmas it rests on are about the
  transport form of a string (a second time it changes nothing), about `Sorted` (what orders a list
  by its keys is the same for two lists with the same items, and leaves one in order alone), about `Authority`
  (built from its own entries it is itself), and about amounts (a symbol on the wire names one asset
  of a chain). The other direction is soundness (`KindReadSound`): what is read from *any*
  bytes is of its kind, and is read again, leaving what follows untouched, whatever comes after those bytes.
- `InTurnProofs`. A reader of a list, of the entries of an authority, of the fields of an operation or of
  the members of a JSON object is one fold of a reader of one item. The module has that reader as a
  constant operator `R`, with no assumption about it: `InTurnOf` reads all items exactly when each can
  be read where the one before it ended, and gives their values in order; if of each item
  nothing is read beyond it (`Prefixed`), the same is so of all (`InTurnComes`). Who needs this of a
  reader instantiates the module with it, by name (`StringTurns`, `FieldTurns`, `PartTurns`, ...). Facts about the naturals and finite sets are passed to
  its theorems as a hypothesis (`Basics`), which each instance proves from the library.
- `OperationProofs` (assumes `JourneyAssumption`: a caller builds operations whose fields are of their types,
  foreign bytes are as many as memory holds, and the chain emits what its payloads declare, a field
  with a default perhaps missing). `LayoutsFit` compares the tables: the writer's fields of each operation
  are the reader's, in order, each of a kind that reads what the other wrote, and are those of the struct.
  `OperationBack` and `WireSound` then put the fields together along a layout of any length, for bytes;
  `KindJson` and `JsonBack` do it for JSON, whose asset names Hive resolves.
  `JourneyInv` has four parts that need each other. `HeldInv`: what is held is an operation of the
  fields' types, validated if it is said to be, and of the bytes that were there first. `WireInv`: bytes under
  way are those of what is held, and once damaged cannot be read. `JsonInv`: JSON under way is that
  of what is held, or the chain's own. `ReadInv`: what was read is what reading those gives. Sending on
  what was read needs that it is of the fields' types again, which is why soundness is proved for bytes
  of any making; JSON that is sent on is that of an operation that was held.
  From it: `OperationsReadBack` (`ReadsBack`), `BytesSettle` (`Settles`), `DamageIsDetected` (`DamageDetected`: cut anywhere, what
  can be read is refused, and so is what runs on: no bytes that are read whole are the start of others), `ValidatedArrivesCanonical`
  (`ValidatedIsCanonical`: a list that `validate` accepts has no repeats in its transport form, so sorting makes it strictly
  increasing), `NothingEmittedIsSent` (`NeverSignable`: declared names are below `FIRST_VIRTUAL_OP` and emitted ones are
  from there on; `read_from` knows no operation that is not declared) and `LostFieldsAreMissed`, the JSON half
  of `DamageDetected` by itself.
  In these value sets a byte is any natural, which only makes them larger, and an authority is
  one that `Authority::new` returns, although `weight_threshold` is a public field.

The induction over data that these need is over sets of naturals: `LeastNatural` and
`AllNaturals` are the least-element principle and induction with a set in the place of a
property, and a function defined by recursion (`Weight`, `unique`, the flattening of a
sequence, the varint, the fold of a reader) is shown to satisfy its equation by extending solutions of it from one
natural to the next.

The proofs of invariance have one lemma per action, and the lemmas about
arithmetic (`Distribute`, `NextMultiple`, `DivUpper`, ...) keep the nonlinear facts
out of the steps that use them.

## 5. What is only model-checked, and what is not modelled

With TLC only: liveness (`KeepsPromise`'s fairness part, `CatchesUp`, `RaceEnds`, `WindowEnds`), which is
beyond the prover, as is everything with `ENABLED`. Every other property of a run is a theorem, except the
four that must be violated. Of those theorems TLC still checks the small instance, with the
mutants that violate it.

Simplified in what is modelled:

- *Numbers and text.* The `f64` of projections, and of the target of `Manabar::seconds_until`, which is left
  out; hashes and signatures (injective values) and the loop that looks for a canonical signature; the
  regular expressions and number formats in `validate` and in JSON; the decimal text of an
  amount; nested Python containers (one level is kept); text of one byte a character: `read_string`
  refuses bytes from 128 on, of which UTF-8 makes longer characters.
- *Tracker and clients.* `snapshot`, which only reads; a dropped `AsyncNodeClient::call`, which leaves nothing
  behind but its missing record. An instant that grows old while its reader waits for the mutex is
  `HealthTracker`'s, where any operation may; `NodeClient` stamps a head when it is applied. `NodeRace`
  has a tracker always; without one, as by default (`async_client.rs:183-184`), the
  first nodes of the list are raced, which is the order of a tracker that has recorded nothing.
- *Wallet.* Account and role tags of entries. A crash is the end of a process: what a power cut
  does to writes that were not synced (`save` calls no `fsync`) is left out.
- *Delivery.* `Ask` goes over the nodes once: further passes send further copies of the same payload, which
  a racing width already does. A refresh of the reference that fails (`hive.py:173-182`) raises before
  anything is signed, and is left out, as are the keys that `sign` takes from `Hive` when the
  builder has none (`transactionbuilder.py:86`) and `nobroadcast` (`hive.py:225`). `parse_keys` takes
  keys for what they are; a text that is no key is an error before anything is signed
  (`hivecomb-py/src/lib.rs:678-681`). The clock of the signer is off by at most one tick.

Not modelled, and why:

- *The Python RPC client* (`hivecomb_compat.py`, `beemapi/noderpc.py`): a second implementation of
  failover and race with the promises of `NodeClient` and `NodeRace`; single-threaded use.
- *The Python wallet, blockchain and block* (`beem/wallet.py`, `blockchain.py`, `block.py`): lookups over
  `WalletStore`'s handle, and generators over single blocks with the shape of `BlockStream`.
- *Python domain objects, CLI, shims*: one operation built or one response read per call.
- *Transports*: one HTTP request; their timeout is assumed by `NodeClient` and `NodeRace`.
- *Keys, base58, BIP 32/38/39*: pure functions over byte strings whose correctness is that of
  the primitives. Of `chain/`, what only parses responses.

Durability in `WalletStore` is claimed for one process at a time (`~shared`): the
code takes no lock. With two, TLC shows that a second `create` that was deriving its key
replaces the first one's file (`wallet.rs:186` looks for the file once), that a handle
opened earlier writes its old copy over newer keys, and that two savers sharing the
`.tmp` path can leave a file that does not parse. `OnePassphraseOpensAll` holds even
then. `WindowEnds` is claimed for ranges that end before `u32::MAX`: `next += 1` at that number
panics in a debug build and wraps in a release build, where the loop starts over.

## 6. Where the code and its documentation part

Four are runs that must be violated; `PROJECT.json` quotes the lines.

1. `rpc_errors`: a JSON-RPC error is said to count as an answer; it is retried on every
   node and counts as a failure of each.
2. `locked_rekey`: a locked wallet without keys can be put under a new passphrase.
3. `unknown_fields`: the Python binding says unknown fields of an operation are refused; a
   misspelt optional field is dropped.
4. `full_bar`: a percentage is said to be at most 100; it is the quotient of two rounded `f64`, and a full
   bar can be at 100.00000000000001 percent. It takes a hundredfold beyond the 53 digits of an `f64`,
   which the module's own example (10^14 VESTS) is.

Observations made while modelling, by reading or with a model, that have no run of
their own:

- `record_success` is documented to clear a node's cooldowns; those of other methods stay
  (`health.rs:461-472`).
- Nodes in sync are said to project to a gap of zero (`health.rs:123-127`); the age is counted from the
  arrival of an answer (`:513`), and one delayed past a block boundary projects a block
  behind. The threshold absorbs it (`InSyncNeverDemoted`).
- An irreversible stream asks for the head and for the block in two calls; the second may reach a
  node on a fork that has not made the block irreversible (`client.rs:583-602`).
- An authority that is read unsorted is said to be rejected (`authority.rs:305-307`); `Authority::new` sorts it,
  so that it gets other bytes than it came with.
- Length limits are checked on the string as given (`operations/mod.rs:1304`), not on its longer
  transport form (`types.rs:168-169`).
- `seconds_until_full` rounds down (`manabar.rs:59-67`): the mana may be there a second later, which is
  why `ExtrapolatesTheChain` looks at the second after.
- The target of `Manabar::seconds_until` is an `f64` too (`manabar.rs:74`). Above 2^53 the whole of a maximum may
  be rounded down, so that the bar counts as full before it is, or up: of 2^53 + 3 it is one more, and
  a full bar is then said to be full in 0 seconds, for ever.
- After a `remove_key` whose save failed, the key is gone from memory only: asked again, the same
  handle says `Ok(false)` and saves nothing (`wallet.rs:396-400`), while the key stays in the file
  until some later save succeeds. `AcknowledgedIsDurable` counts that answer for handles only
  whose last save did not fail.
- The comment on `pad` (`memo.rs:96-98`) says that beem adds no block to text that fills its blocks. Its
  unit test (`memo.rs:388`) and the comparison with beem itself
  (`tests/differential_beem.py:235-242`, texts of 16 bytes and of none) pad it like `pad` does, so
  it is likely the comment that is wrong; were it right, `decode` would refuse most of beem's aligned memos,
  against `memo.rs:41-42`, as `unpad` takes padding for granted. `Memo` has both formats; the second is
  claimed to be read as a piece of its text at most.
- A memo is not authenticated (`memo.rs:8-11` says so). Cut at a cipher block it may still open, if the last byte left looks
  like padding; within a block, or with its length left as it was, never.
- `transaction.rs` says that the budget check runs inside `body_bytes`; it runs in `validate`.
- `TransactionBuilder.broadcast` sends what was signed before a later `appendOps`
  (`_signed` is only reset by `clear`; `transactionbuilder.py:22`, `:99`). `SendsNothingDiscarded` allows it: nothing that was discarded goes out.
- `py_to_json` turns an integer of 2^64 or more into a float. The Python
  `transaction_digest` and `transaction_id` accept an empty list of operations, the Node ones refuse it.
- `EncryptedMemo::from_wire` accepts trailing bytes; `encode` strips one leading `#`; a memo in beem's format
  whose first byte equals the length of the rest is read without that byte.
- Recovering a signature over another digest yields some key, not an error: only `verify`
  compares.
- Two equal transactions made within one second from one reference have one id; the chain takes it once.

## 7. What could come next

1. The Python client of `hivecomb_compat.py` as a second implementation of `FailoverCall`.
2. `BlockStream` over `NodeClient` instead of one step per call, if a property needs the calls' insides.
3. The values `validate` refuses by their text (account names, permlinks), which need strings of characters.
