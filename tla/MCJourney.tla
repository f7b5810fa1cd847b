------------------------------ MODULE MCJourney -----------------------------
(* Instances of Journey for TLC. *)
EXTENDS Journey
=============================================================================
