------------------------------ MODULE MC_Stream ------------------------------
(* A small BlockStream for TLC: two nodes. *)
EXTENDS BlockStream

CONSTANTS a, b
=============================================================================
