---------------------------- MODULE MCChatService ----------------------------
(***************************************************************************)
(* ChatService with three connections on three event loops: one of the     *)
(* sender u1 and two of the user u2, who logs in twice.                    *)
(***************************************************************************)
EXTENDS ChatService, TLC

CONSTANTS c1, c2, c3, l1, l2, l3

MCConns == {c1, c2, c3}
MCLoops == {l1, l2, l3}
OwnLoops == (c1 :> l1) @@ (c2 :> l2) @@ (c3 :> l3)

u1 == 1
u2 == 2
g1 == 9

MCUsers == {u1, u2}
MCGroups == {g1}
Acquainted == (u1 :> <<u2, g1>>) @@ (u2 :> <<u1, g1>>) @@ (g1 :> <<u1, u2>>)
Strangers == (u1 :> <<>>) @@ (u2 :> <<>>) @@ (g1 :> <<u1, u2>>)
Android == {2}

\* The user u2 logs in twice from the same kind of client.
SameClient == {<<c1, u1, 2>>, <<c2, u2, 2>>, <<c3, u2, 2>>}

\* Two connections, of the sender and of one client of its friend.
Pair == {c1, c2}
PairLoops == {l1, l2}
PairOwnLoops == (c1 :> l1) @@ (c2 :> l2)
PairClients == {<<c1, u1, 2>>, <<c2, u2, 2>>, <<c2, g1, 2>>}

\* The sender is online already: the state after Connected(c1) and an
\* undisturbed login of u1 there.
SenderOnline ==
  /\ link = [c \in Conns |-> IF c = c1 THEN "up" ELSE "new"]
  /\ sessions = {c1}
  /\ arrival = [c \in Conns |-> IF c = c1 THEN 1 ELSE 0]
  /\ uid = [c \in Conns |-> IF c = c1 THEN u1 ELSE NoUser]
  /\ ctype = [c \in Conns |-> IF c = c1 THEN 2 ELSE NoType]
  /\ isLogin = [c \in Conns |-> c = c1]
  /\ wire = [c \in Conns |-> IF c = c1 THEN <<Note("login")>> ELSE <<>>]
  /\ task = [l \in Loops |-> Idle]
  /\ pending = [c \in Conns |-> <<>>]
  /\ cacheMsg = [u \in Ids |-> <<>>]
  /\ cacheNotify = [u \in Ids |-> <<>>]
  /\ sent = 0 /\ logins = 0
  /\ seen = {} /\ absent = {} /\ kicked = {} /\ overlap = {} /\ raced = {}

MCSpec == SenderOnline /\ [][Next]_vars

MCFairSpec == MCSpec /\ Fairness
==============================================================================
