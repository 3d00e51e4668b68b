------------------------------ MODULE ConnLife -------------------------------
(***************************************************************************)
(* What the network library promises the code that uses a connection: it   *)
(* is told once that the connection is up, then once that it is down, and  *)
(* the object lives from before the first to after the second.  Loops,     *)
(* pollers, functors and reference counts are not mentioned: TcpServer is  *)
(* shown to implement this specification.                                  *)
(***************************************************************************)
EXTENDS Sequences

CONSTANT Conns   \* connections

VARIABLES told,  \* told[c]: what the connection callback was told, in order
          live   \* connections whose object exists

vars == <<told, live>>

Init == /\ told = [c \in Conns |-> <<>>]
        /\ live = {}

Create(c) == /\ c \notin live /\ told[c] = <<>>
             /\ live' = live \cup {c}
             /\ UNCHANGED told

Up(c) == /\ c \in live /\ told[c] = <<>>
         /\ told' = [told EXCEPT ![c] = <<"UP">>]
         /\ UNCHANGED live

Down(c) == /\ c \in live /\ told[c] = <<"UP">>
           /\ told' = [told EXCEPT ![c] = <<"UP", "DOWN">>]
           /\ UNCHANGED live

\* Objects may go together, when the functors of a batch are destroyed.
Release(S) == /\ S # {} /\ \A c \in S : told[c] = <<"UP", "DOWN">>
              /\ live' = live \ S
              /\ UNCHANGED told

Next == \/ \E c \in Conns : Create(c) \/ Up(c) \/ Down(c)
        \/ \E S \in SUBSET live : Release(S)

Spec == Init /\ [][Next]_vars
==============================================================================
