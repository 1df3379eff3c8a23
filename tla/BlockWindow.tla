----------------------------- MODULE BlockWindow -----------------------------
(***************************************************************************)
(* AsyncNodeClient::blocks (hivecomb/src/rpc/async_client.rs): a range of  *)
(* blocks fetched with `concurrency' requests in flight at a time, and     *)
(* handed out in the order of their numbers.  NodeClient::ops_in_block_range *)
(* is the same with one request in flight.                                 *)
(*                                                                         *)
(* Each request is a call of its own, which another module models: some    *)
(* node answers with the block, or without it when the node does not have  *)
(* it, or every node fails.  Block numbers are of a fixed width: nothing   *)
(* stops the loop's counter from running past the last one.                *)
(***************************************************************************)
EXTENDS Integers, Sequences, FiniteSets

CONSTANTS
    Ranges,             \* pairs of the first and the last block asked for
    Concurrencies,      \* as given, zero included
    MaxBlock,           \* u32::MAX
    Lowest, Highest     \* every node has up to Lowest, some up to Highest

ASSUME WindowAssumption ==
    /\ MaxBlock \in Nat /\ Ranges \subseteq (0 .. MaxBlock) \X (0 .. MaxBlock)
    /\ Concurrencies \subseteq Nat
    /\ Lowest \in Nat /\ Highest \in Nat

(* The ranges that leave the counter room to stop. *)
ASSUME WindowRoom == \A r \in Ranges : r[2] < MaxBlock

VARIABLES
    from, to, concurrency,  \* the arguments, the last of them clamped
    next,                   \* the number the next request is for
    pending,                \* the numbers in flight
    fetched,                \* what came back, in the order it did
    window                  \* where the future is, and what it returned

window_vars == <<from, to, concurrency, next, pending, fetched, window>>
arguments == <<from, to, concurrency>>

Answers == {"block", "none"}
Fetch == [number : Nat, answer : Answers]
Open == [pc |-> "running", blocks |-> <<>>]

(* What some node says of block k. *)
answers(k) == (IF k <= Highest THEN {"block"} ELSE {}) \cup (IF k > Lowest THEN {"none"} ELSE {})

max_1(n) == IF n = 0 THEN 1 ELSE n
succ_u32(n) == IF n = MaxBlock THEN 0 ELSE n + 1

(* sort_by_key, which is stable: the place of an element is how many do    *)
(* not come after it. *)
place(s, i) ==
    Cardinality({j \in DOMAIN s : \/ s[j].number < s[i].number
                                  \/ s[j].number = s[i].number /\ j <= i})
in_order(s) == [n \in DOMAIN s |-> s[CHOOSE i \in DOMAIN s : place(s, i) = n]]

-----------------------------------------------------------------------------
Full == Cardinality(pending) >= concurrency \/ next > to

(* Seeded bug: the window is filled one too far. *)
Request_one_more ==
    /\ window = Open /\ Cardinality(pending) <= concurrency /\ next <= to
    /\ pending' = pending \cup {next} /\ next' = succ_u32(next)
    /\ UNCHANGED <<arguments, fetched, window>>

(* Keep the window full. *)
Request ==
    /\ window = Open /\ ~Full
    /\ pending' = pending \cup {next} /\ next' = succ_u32(next)
    /\ UNCHANGED <<arguments, fetched, window>>

(* Seeded bug: a block that is not there yet is waited for. *)
Completes_waiting(k) ==
    /\ window = Open /\ Full /\ k \in pending
    /\ "block" \in answers(k)
    /\ pending' = pending \ {k}
    /\ fetched' = Append(fetched, [number |-> k, answer |-> "block"])
    /\ UNCHANGED <<arguments, next, window>>

(* Any request in flight may be the next to complete. *)
Completes(k) ==
    /\ window = Open /\ Full /\ k \in pending
    /\ pending' = pending \ {k}
    /\ \E a \in answers(k) : fetched' = Append(fetched, [number |-> k, answer |-> a])
    /\ UNCHANGED <<arguments, next, window>>

(* One error is the result, and the requests in flight are dropped.        *)
Errs(k) ==
    /\ window = Open /\ Full /\ k \in pending
    /\ window' = [pc |-> "error", blocks |-> <<>>] /\ pending' = {}
    /\ UNCHANGED <<arguments, next, fetched>>

(* Seeded bug: the blocks are returned as they came. *)
Returns_unsorted ==
    /\ window = Open /\ Full /\ pending = {}
    /\ window' = [pc |-> "done", blocks |-> fetched]
    /\ UNCHANGED <<arguments, next, pending, fetched>>

(* Nothing is left in flight. *)
Returns ==
    /\ window = Open /\ Full /\ pending = {}
    /\ window' = [pc |-> "done", blocks |-> in_order(fetched)]
    /\ UNCHANGED <<arguments, next, pending, fetched>>

(* The caller drops the future. *)
Dropped ==
    /\ window = Open
    /\ window' = [pc |-> "dropped", blocks |-> <<>>] /\ pending' = {}
    /\ UNCHANGED <<arguments, next, fetched>>

WindowInit ==
    /\ \E r \in Ranges : from = r[1] /\ to = r[2]
    /\ \E c \in Concurrencies : concurrency = max_1(c)
    /\ next = from /\ pending = {} /\ fetched = <<>>
    /\ window = IF to < from THEN [pc |-> "error", blocks |-> <<>>] ELSE Open

WindowStep == Request \/ (\E k \in pending : Completes(k)) \/ Returns
WindowNext == WindowStep \/ (\E k \in pending : Errs(k)) \/ Dropped

(* The future is polled, and every request is answered or fails in time.   *)
WindowFairness == WF_window_vars(WindowStep)
WindowSpec == WindowInit /\ [][WindowNext]_window_vars /\ WindowFairness

-----------------------------------------------------------------------------
(* Properties *)

Numbers == {fetched[i].number : i \in DOMAIN fetched}

WindowTypeOK ==
    /\ from \in Nat /\ to \in Nat /\ concurrency \in Nat \ {0} /\ next \in Nat
    /\ pending \subseteq Nat /\ IsFiniteSet(pending)
    /\ fetched \in Seq(Fetch)
    /\ window.pc \in {"running", "done", "error", "dropped"}

(* What is in flight and what has come back are, between them, the blocks  *)
(* asked for so far, each once; never more than `concurrency' are in       *)
(* flight, and none outside the range.                                     *)
EachBlockOnce ==
    /\ Cardinality(pending) <= concurrency /\ pending \cap Numbers = {}
    /\ pending \cup Numbers \subseteq from .. to
    /\ \A i, j \in DOMAIN fetched : fetched[i].number = fetched[j].number => i = j
    /\ window.pc = "running" => pending \cup Numbers = from .. next - 1

(* "Results come back in block order regardless of which finished first":  *)
(* all of them, and the i-th is that of the i-th number.                   *)
InBlockOrder ==
    window.pc = "done" =>
        /\ Len(window.blocks) = to - from + 1
        /\ \A i \in DOMAIN window.blocks : window.blocks[i].number = from + i - 1

(* The window always empties: the range comes back, or an error.           *)
WindowEnds == window.pc = "running" ~> window.pc # "running"
=============================================================================
