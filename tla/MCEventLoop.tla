----------------------------- MODULE MCEventLoop -----------------------------
(***************************************************************************)
(* EventLoopThread with two other threads that queue functors.             *)
(***************************************************************************)
EXTENDS EventLoopThread

CONSTANTS p1, p2

MCProducers == {p1, p2}
==============================================================================
