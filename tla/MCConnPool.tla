----------------------------- MODULE MCConnPool ------------------------------
(***************************************************************************)
(* ConnPool on three worker loops and a pool that opens one connection at  *)
(* start and at most two: more threads than connections, so that they wait,*)
(* barge and are overtaken.                                                *)
(***************************************************************************)
EXTENDS ConnPool

CONSTANTS t1, t2, t3

MCThreads == {t1, t2, t3}
==============================================================================
