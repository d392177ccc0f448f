---------------------------- MODULE MCGraphSync ----------------------------
(* A small patch: a sink, another node, and two values for their controls. *)
EXTENDS GraphSync, TLC

CONSTANTS s, g, v1, v2

(* No action tells one value from another. *)
ValueSymmetry == Permutations(Value)
=============================================================================
