--------------------------- MODULE MCCardNetwork ---------------------------
(* Instances of CardNetwork for TLC. *)
EXTENDS CardNetwork, TLC

CONSTANTS t1, t2, k1, s1, s2, v1

AllDebits == [t \in Txns |-> "DEBIT"]
Ones == [t \in Txns |-> 1]
Chipless == [t \in Txns |-> 0]
=============================================================================
