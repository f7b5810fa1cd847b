------------------------------ MODULE MCTranLog -----------------------------
(* Instances of TranLog for TLC. *)
EXTENDS TranLog, TLC

CONSTANTS r1, r2

Symmetric == Permutations(Requests)
=============================================================================
