------------------------------ MODULE MCShutdown ------------------------------
(***************************************************************************)
(* Shutdown with two worker loops.                                         *)
(***************************************************************************)
EXTENDS Shutdown

CONSTANTS c1, c2, w1, w2

MCConns == {c1, c2}
MCWorkers == <<w1, w2>>
==============================================================================
