------------------------------ MODULE Purchase ------------------------------
(***************************************************************************)
(* What the network promises about a purchase: what the acquirer tells the *)
(* merchant against what the issuer does with the money (Hold).  While the *)
(* purchase is open the issuer may take the money or give it back; it is   *)
(* told approved only while the money is held, declined or reversed only   *)
(* when none is, and the money stays where it is from then on.  Only an    *)
(* approval is opened again, by a cancellation.                            *)
(***************************************************************************)
EXTENDS Hold

VARIABLE told       \* "open", "approved", "declined" or "reversed", for each request

Tell(r, from, to) == told[r] = from /\ told' = [told EXCEPT ![r] = to] /\ UNCHANGED money

Approve(r) == money[r] = "held" /\ Tell(r, "open", "approved")
Decline(r) == money[r] \in {"free", "void"} /\ Tell(r, "open", "declined")
Reverse(r) == money[r] \in {"void", "returned"} /\ Tell(r, "open", "reversed")
Cancel(r) == Tell(r, "approved", "open")

(* A request may be turned down at any time, even after nobody waits for it. *)
MoneyMoves(r) ==
    /\ \/ told[r] = "open" /\ (Take(r) \/ Return(r))
       \/ Refuse(r)
    /\ UNCHANGED told

(* A reversal that overtook its request is told once the request is turned down or returned. *)
ReverseLate(r) ==
    /\ told[r] = "open" /\ (Refuse(r) \/ Return(r))
    /\ told' = [told EXCEPT ![r] = "reversed"]

Init == HoldInit /\ told = [r \in Requests |-> "open"]

Next == \E r \in Requests : MoneyMoves(r) \/ Approve(r) \/ Decline(r) \/ Reverse(r) \/ ReverseLate(r) \/ Cancel(r)

Spec == Init /\ [][Next]_<<money, told>>
=============================================================================
