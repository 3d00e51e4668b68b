----------------------------- MODULE MCTcpServer -----------------------------
(***************************************************************************)
(* TcpServer with a base loop, one or two worker loops and fewer           *)
(* descriptors than connections, so that descriptors are used again and    *)
(* run out.                                                                *)
(***************************************************************************)
EXTENDS TcpServer

CONSTANTS c1, c2, c3, base, w1, w2

TwoConns == {c1, c2}
ThreeConns == {c1, c2, c3}
OneWorker == <<w1>>
TwoWorkers == <<w1, w2>>
OneFd == {1}
TwoFds == {1, 2}
==============================================================================
