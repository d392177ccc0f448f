--------------------------- MODULE MCHeteroDeque ---------------------------
(* A block of eleven cells.  Objects a and b take one cell, c takes two.   *)
EXTENDS HeteroDeque

CONSTANTS a, b, c

Widths == [e \in Element |-> IF e = c THEN 2 ELSE 1]
=============================================================================
