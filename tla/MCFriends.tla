------------------------------ MODULE MCFriends ------------------------------
(* Values of the constants of Friends for TLC. *)
EXTENDS Friends, TLC

MCFirstUsers == {1}
MCFirstRows == {}
MCNameOf == [i \in MCFirstUsers |-> IF i = 1 THEN "ann" ELSE "none"]
LoopSymmetry == Permutations(Loops)
==============================================================================
