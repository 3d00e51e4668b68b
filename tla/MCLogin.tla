------------------------------- MODULE MCLogin -------------------------------
(* Values of the constants of Login for TLC. *)
EXTENDS Login, TLC

MCSymmetry == Permutations(Requests) \cup Permutations(Gates)
==============================================================================
