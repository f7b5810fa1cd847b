---------------------------- MODULE MCKeyRotation ---------------------------
(* Instances of KeyRotation for TLC. *)
EXTENDS KeyRotation
=============================================================================
