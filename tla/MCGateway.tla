----------------------------- MODULE MCGateway -----------------------------
(* Instances of Gateway for TLC. *)
EXTENDS Gateway, TLC

CONSTANTS t1, t2, k1, k2

Symmetry == Permutations(Txns) \cup Permutations(Cancels)
=============================================================================
