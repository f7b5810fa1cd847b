-------------------------------- MODULE Hold --------------------------------
(***************************************************************************)
(* What the issuer promises about the money of a request, whatever copies  *)
(* of it and of its reversal arrive: it is held at most once and given     *)
(* back at most once, and a request that was turned down, or reversed      *)
(* before it was authorized, never holds any.                              *)
(***************************************************************************)
CONSTANT Requests

VARIABLE money      \* "free", "held", "void" or "returned", for each request

HoldInit == money = [r \in Requests |-> "free"]

Moves(r, from, to) == money[r] = from /\ money' = [money EXCEPT ![r] = to]

Take(r) == Moves(r, "free", "held")
Refuse(r) == Moves(r, "free", "void")
Return(r) == Moves(r, "held", "returned")

HoldNext == \E r \in Requests : Take(r) \/ Refuse(r) \/ Return(r)

HoldSpec == HoldInit /\ [][HoldNext]_money
=============================================================================
