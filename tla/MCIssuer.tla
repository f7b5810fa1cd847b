------------------------------ MODULE MCIssuer ------------------------------
(* Instances of Issuer for TLC: debits d1, d2 and d3 of one amount, a debit b1
   above the card's limit, a credit c1, an inquiry q1, an invalid request x1. *)
EXTENDS Issuer, TLC

CONSTANTS d1, d2, d3, b1, c1, q1, x1, s1, s2, v1, v2

KindOf == [o \in Originals |-> CASE o = c1 -> "CREDIT" [] o = q1 -> "NONE" [] o = x1 -> "INVALID" [] OTHER -> "DEBIT"]
AmountOf == [o \in Originals |-> CASE o = b1 -> 6 [] o = c1 -> 3 [] o \in {q1, x1} -> 0 [] OTHER -> 2]
AtcOf == [o \in Originals |-> 0]
(* Chip cards: every request carries the counter 1. *)
ChipOf == [o \in Originals |-> 1]

Copies(mti, o, k) == {[mti |-> mti, orig |-> o, n |-> i] : i \in 1..k}

(* One debit and its reversal, each repeated. *)
ArrivalsRepeats == Copies("0200", d1, 2) \cup Copies("0420", d1, 2)
(* Every request against one account, and the reversal of the credit. *)
ArrivalsAccount == UNION {Copies("0200", o, 1) : o \in Originals} \cup Copies("0420", c1, 1)

NoFaults == {}
AllFaults == FaultKinds
Symmetry == Permutations({s1, s2}) \cup Permutations({v1, v2})
SymmetryAccount == Permutations({s1, s2}) \cup Permutations({d1, d2, d3})
=============================================================================
