------------------------------- MODULE MCChaos ------------------------------
(* Instances of Chaos for TLC. *)
EXTENDS Chaos, TLC

CONSTANTS c1, c2, k1, k2, h1, h2

TwoCards == <<c1, c2>>

(* Keys are interchangeable, and so are handlers; cards are read in order. *)
Interchangeable == Permutations(Keys) \cup Permutations(Handlers)
=============================================================================
