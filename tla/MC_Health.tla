------------------------------ MODULE MC_Health ------------------------------
(* A small HealthTracker for TLC: two nodes, two methods. *)
EXTENDS HealthTracker, TLC

CONSTANTS m1, m2

MethodSymmetry == Permutations({m1, m2})
=============================================================================
