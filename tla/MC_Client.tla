------------------------------ MODULE MC_Client ------------------------------
(* Small NodeClients for TLC: two nodes, one or two callers. *)
EXTENDS NodeClient, TLC

CONSTANTS a, b

CallerSymmetry == Permutations({a, b})

(* Every node in sync with the chain ... *)
InSync == [n \in Nodes |-> 0]

(* ... or the first one behind by all of the genesis head. *)
FirstLags == [n \in Nodes |-> IF n = 0 THEN GenesisHead ELSE 0]

OnlyInSync == {InSync}
AnyLag == {InSync, FirstLags}
=============================================================================
