----------------------------- MODULE BlockStream -----------------------------
(***************************************************************************)
(* BlockStream (hivecomb/src/rpc/client.rs): the iterator that follows the *)
(* head of the chain and hands out one block at a time.  It asks for the   *)
(* head, then for the block, through NodeClient::call; failover means that *)
(* any node may answer each of the two, so a block can be missing on the   *)
(* node that is asked although another one has announced it.               *)
(*                                                                         *)
(* A whole NodeClient::call is one step here: some node answers, or every  *)
(* node failed.  The nodes and the chain are the environment.  A node may  *)
(* be on a fork that the chain later drops: what it serves above its own   *)
(* last irreversible block is then not what the chain keeps.               *)
(***************************************************************************)
EXTENDS Naturals, Sequences, FiniteSets

CONSTANTS
    Nodes,
    Modes,              \* StreamModes to open a stream with
    Starts,             \* blocks to start it at; FollowHead for None
    stop,               \* BlockStream::until
    FirstHead,          \* the chain's head when the stream is created
    LastHead,           \* bound: the chain stops growing there
    Confirmations,      \* how far a node's irreversible block is behind its head
    Forks,              \* bound: how often a node may get onto a fork
    Outages             \* bound: calls for which every node fails

(* Option::None, for `next'. *)
FollowHead == 0

ASSUME StreamAssumption ==
    /\ Nodes # {} /\ IsFiniteSet(Nodes)
    /\ Modes \subseteq {"Irreversible", "Head"} /\ Forks \in Nat
    /\ Starts \subseteq Nat /\ stop \in Nat
    /\ FirstHead \in Nat /\ LastHead \in Nat /\ FirstHead <= LastHead
    /\ Confirmations \in Nat /\ Confirmations < FirstHead
    /\ Outages \in Nat

VARIABLES
    chain,      \* the head of the chain that is kept
    node,       \* what each node has
    forks,      \* how often a node got onto a fork so far
    outages,    \* calls that have failed so far
    mode,       \* BlockStream.mode
    next,       \* BlockStream.next
    head,       \* BlockStream.head
    pc,         \* where Iterator::next is
    wanted,     \* its local
    items       \* history: the blocks handed out and the fetches reported failed

stream_vars == <<mode, next, head, pc, wanted, items>>
vars == <<chain, node, forks, outages, stream_vars>>

NodeView == [height : Nat, irreversible : Nat, forked : BOOLEAN]
Item == [number : Nat, kind : {"block", "orphan", "error"}]

-----------------------------------------------------------------------------
(* The chain and its nodes *)

ChainGrows ==
    /\ chain < LastHead /\ chain' = chain + 1
    /\ UNCHANGED <<node, forks, outages, stream_vars>>

NodeAdvances(n) ==
    /\ ~node[n].forked /\ node[n].height < chain
    /\ node' = [node EXCEPT ![n].height = @ + 1]
    /\ UNCHANGED <<chain, forks, outages, stream_vars>>

NodeConfirms(n) ==
    /\ ~node[n].forked
    /\ node[n].irreversible + Confirmations < node[n].height
    /\ node' = [node EXCEPT ![n].irreversible = @ + 1]
    /\ UNCHANGED <<chain, forks, outages, stream_vars>>

(* What a node has above its irreversible block turns out to be of a fork, *)
(* until the node switches to the chain that is kept. *)
NodeForks(n) ==
    /\ forks < Forks /\ ~node[n].forked /\ node[n].height > node[n].irreversible
    /\ node' = [node EXCEPT ![n].forked = TRUE] /\ forks' = forks + 1
    /\ UNCHANGED <<chain, outages, stream_vars>>

NodeSwitches(n) ==
    /\ node[n].forked
    /\ node' = [node EXCEPT ![n].forked = FALSE]
    /\ UNCHANGED <<chain, forks, outages, stream_vars>>

(* Nobody reverts block k any more. *)
Final(k) == \E n \in Nodes : k <= node[n].irreversible

Has(n, k) == 0 < k /\ k <= node[n].height

Served(n, k) ==
    [ number |-> k,
      kind   |-> IF node[n].forked /\ k > node[n].irreversible THEN "orphan" ELSE "block" ]

(* current_head, if node n answers. *)
reported_head(n) ==
    IF mode = "Irreversible" THEN node[n].irreversible ELSE node[n].height

-----------------------------------------------------------------------------
(* Iterator::next *)

(* The consumer asks for an item. *)
AskNext ==
    /\ pc = "ready" /\ pc' = "loop"
    /\ UNCHANGED <<chain, node, forks, outages, mode, next, head, wanted, items>>

(* A call for which every node fails makes Iterator::next yield an error. *)
CallFails ==
    /\ outages < Outages /\ outages' = outages + 1
    /\ pc' = "ready"
    /\ UNCHANGED <<chain, node, forks, mode>>

(* The top of the loop: the next block, or the head if there is none yet. *)
Take ==
    /\ pc = "loop" /\ next # FollowHead
    /\ wanted' = next /\ pc' = "bounded"
    /\ UNCHANGED <<chain, node, forks, outages, mode, next, head, items>>

TakeHead ==
    /\ pc = "loop" /\ next = FollowHead
    /\ \E n \in Nodes : head' = reported_head(n) /\ wanted' = reported_head(n)
    /\ pc' = "bounded"
    /\ UNCHANGED <<chain, node, forks, outages, mode, next, items>>

TakeHeadFails ==
    /\ pc = "loop" /\ next = FollowHead
    /\ CallFails
    /\ UNCHANGED <<next, head, wanted, items>>

End ==
    /\ pc = "bounded" /\ wanted > stop
    /\ pc' = "ended"
    /\ UNCHANGED <<chain, node, forks, outages, mode, next, head, wanted, items>>

(* Seeded bug: the stream polls only when it is well past the head. *)
Unknown_off_by_one == pc = "bounded" /\ wanted <= stop /\ wanted > head + 1

(* The block is not known to exist. *)
Unknown == pc = "bounded" /\ wanted <= stop /\ wanted > head

Known == pc = "bounded" /\ wanted <= stop /\ ~Unknown

(* Ask for the head again, and sleep if it still does not exist. *)
Poll ==
    /\ Unknown
    /\ \E n \in Nodes :
         /\ head' = reported_head(n)
         /\ pc' = IF wanted > reported_head(n) THEN "loop" ELSE "bounded"
    /\ UNCHANGED <<chain, node, forks, outages, mode, next, wanted, items>>

PollFails ==
    /\ Unknown
    /\ CallFails
    /\ UNCHANGED <<next, head, wanted, items>>

Fetch ==
    /\ Known
    /\ \E n \in Nodes : Has(n, wanted) /\ items' = Append(items, Served(n, wanted))
    /\ next' = wanted + 1 /\ pc' = "ready"
    /\ UNCHANGED <<chain, node, forks, outages, mode, head, wanted>>

(* Seeded bug: the stream moves on although the block was not there. *)
FetchMissing_moves_on ==
    /\ Known
    /\ \E n \in Nodes : ~Has(n, wanted)
    /\ next' = wanted + 1 /\ pc' = "loop"
    /\ UNCHANGED <<chain, node, forks, outages, mode, head, wanted, items>>

(* Seeded bug: a missing block ends the stream. *)
FetchMissing_ends ==
    /\ Known
    /\ \E n \in Nodes : ~Has(n, wanted)
    /\ next' = wanted /\ pc' = "ended"
    /\ UNCHANGED <<chain, node, forks, outages, mode, head, wanted, items>>

(* The node asked does not have the block yet: sleep and ask again. *)
FetchMissing ==
    /\ Known
    /\ \E n \in Nodes : ~Has(n, wanted)
    /\ next' = wanted /\ pc' = "loop"
    /\ UNCHANGED <<chain, node, forks, outages, mode, head, wanted, items>>

(* An error is yielded, and the stream has already moved on. *)
FetchFails ==
    /\ Known
    /\ CallFails
    /\ next' = wanted + 1
    /\ items' = Append(items, [number |-> wanted, kind |-> "error"])
    /\ UNCHANGED <<head, wanted>>

-----------------------------------------------------------------------------
(* stream_blocks(start, mode).until(stop) *)
Init ==
    /\ chain = FirstHead
    /\ node \in [Nodes -> {v \in [height       : 1 .. FirstHead,
                                  irreversible : 1 .. FirstHead,
                                  forked       : {FALSE}] :
                              v.irreversible + Confirmations = v.height}]
    /\ forks = 0 /\ outages = 0
    /\ mode \in Modes /\ next \in Starts
    /\ head = 0 /\ pc = "ready" /\ wanted = 0 /\ items = <<>>

StreamStep ==
    \/ Take \/ TakeHead \/ TakeHeadFails \/ End
    \/ Poll \/ PollFails \/ Fetch \/ FetchMissing \/ FetchFails

NodeStep(n) == NodeAdvances(n) \/ NodeConfirms(n) \/ NodeSwitches(n)

Next ==
    \/ ChainGrows
    \/ \E n \in Nodes : NodeStep(n) \/ NodeForks(n)
    \/ AskNext
    \/ StreamStep

Safety == Init /\ [][Next]_vars

(* The consumer keeps asking, the iterator keeps running, the chain grows  *)
(* and every node follows it. *)
Spec ==
    /\ Safety
    /\ WF_vars(AskNext) /\ WF_vars(StreamStep)
    /\ WF_vars(ChainGrows) /\ \A n \in Nodes : WF_vars(NodeStep(n))

-----------------------------------------------------------------------------
(* Properties *)

(* Every field keeps its type. *)
TypeOK ==
    /\ chain \in FirstHead .. LastHead /\ outages \in 0 .. Outages /\ forks \in 0 .. Forks
    /\ node \in [Nodes -> NodeView]
    /\ \A n \in Nodes : node[n].irreversible <= node[n].height /\ node[n].height <= chain
    /\ mode \in {"Irreversible", "Head"}
    /\ pc \in {"ready", "loop", "bounded", "ended"}
    /\ next \in Nat /\ head \in 0 .. chain /\ wanted \in Nat
    /\ items \in Seq(Item)

(* The stream hands out consecutive blocks: none twice, none out of order, *)
(* and none left out without an error item in its place, although each     *)
(* answer may come from a node that is further behind than the last.       *)
Consecutive ==
    \A i \in 1 .. Len(items) - 1 : items[i + 1].number = items[i].number + 1

(* A stream of irreversible blocks never asks for one that no node has     *)
(* called irreversible, although the heads it hears of go up and down.     *)
WaitsForFinality ==
    mode = "Irreversible" => \A i \in 1 .. Len(items) : Final(items[i].number)

(* "A transient outage does not silently end a stream": once the calls     *)
(* succeed again it catches up with the head, or with where it was told to *)
(* stop. *)
Goal ==
    LET top == IF mode = "Irreversible" THEN LastHead - Confirmations ELSE LastHead
    IN  IF stop < top THEN stop ELSE top

CatchesUp ==
    <>(wanted > Goal \/ \E i \in 1 .. Len(items) : items[i].number >= Goal)
=============================================================================
