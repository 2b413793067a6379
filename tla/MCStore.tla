------------------------------- MODULE MCStore ------------------------------
(* A small instance of StateStore for TLC: two jobs, each with a key of its *)
(* own.                                                                     *)
EXTENDS StateStore

CONSTANTS p1, p2, k1, k2

OwnKeys == [p \in {p1, p2} |-> IF p = p1 THEN k1 ELSE k2]

=============================================================================
