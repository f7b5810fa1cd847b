--------------------------- MODULE MCIdempotency ---------------------------
(* Three requests with one key, two of them the same request, one different. *)
EXTENDS Idempotency

CONSTANTS r1, r2, r3, k1

MCCalls == {r1, r2, r3}
MCKeys == {k1}
MCKeyOf == [r \in MCCalls |-> k1]
MCHashOf == [r \in MCCalls |-> IF r = r3 THEN "h2" ELSE "h1"]
=============================================================================
