------------------------------ MODULE MCAdvTxn ------------------------------
(* Instances of AdvTxn for TLC. *)
EXTENDS AdvTxn, TLC

CONSTANTS p1, c, d

Completing == [t \in Txns |-> IF t = p1 THEN "PREAUTH" ELSE "COMPLETION"]
Others == [t \in Txns |-> CASE t = p1 -> "REFUND" [] t = c -> "BALANCE" [] OTHER -> "COMPLETION"]
OfP == [t \in Txns |-> p1]
Equal == [t \in Txns |-> 1]
AllKinds == {[kind |-> Completing, amount |-> Equal], [kind |-> Completing, amount |-> [Equal EXCEPT ![d] = 2]],
             [kind |-> Others, amount |-> Equal]}
=============================================================================
