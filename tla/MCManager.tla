------------------------------ MODULE MCManager ------------------------------
(***************************************************************************)
(* A manager with two callers, two destinations with a key each, and one   *)
(* whose static key is the identity key of another.                        *)
(***************************************************************************)
EXTENDS Manager, TLC

CONSTANTS d1, d2, d3, k1, k2

MCIdKey == [d \in Dests |-> IF d = d1 THEN k1 ELSE k2]

MCStaticKey == [d \in Dests |-> IF d = d2 THEN k2 ELSE k1]

Symmetry == Permutations(Callers) \cup Permutations(Outs)
=============================================================================
