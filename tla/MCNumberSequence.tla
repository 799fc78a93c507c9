--------------------------- MODULE MCNumberSequence ---------------------------
(* NumberSequence for TLC. *)
EXTENDS NumberSequence
=============================================================================
