------------------------------ MODULE MCRatchet ------------------------------
(***************************************************************************)
(* Ratchet for TLC, which need not tell the objects apart, nor the random  *)
(* keys.                                                                   *)
(***************************************************************************)
EXTENDS Ratchet, TLC

Alike == Permutations(Objects) \cup Permutations(Randoms)

=============================================================================
