------------------------------ MODULE ConnLease ------------------------------
(***************************************************************************)
(* What a MySQL connection pool promises its callers: a connection is in   *)
(* the hands of at most one thread at a time, a thread works on one        *)
(* connection at a time, and what is never given back is never handed out  *)
(* again.  Nothing is said of queues, of mutexes or of when connections    *)
(* are opened: ConnPool is shown to implement this specification.          *)
(***************************************************************************)
EXTENDS Naturals

CONSTANTS Threads,     \* the threads that execute commands on the database
          Connections  \* the connections the pool may ever open, NoConn not among them

NoConn == 0

VARIABLES holder,  \* holder[t]: the connection thread t works on, or NoConn
          gone     \* connections a thread walked away with

vars == <<holder, gone>>

Leased == { holder[t] : t \in Threads }

Init == /\ holder = [t \in Threads |-> NoConn]
        /\ gone = {}

\* A thread is given a connection nobody works on.
Lease(t) == \E c \in Connections \ (gone \cup Leased) :
              /\ holder[t] = NoConn
              /\ holder' = [holder EXCEPT ![t] = c]
              /\ UNCHANGED gone

\* A thread gives its connection back.
Release(t) == /\ holder[t] # NoConn
              /\ holder' = [holder EXCEPT ![t] = NoConn]
              /\ UNCHANGED gone

\* A thread forgets its connection: it is lost for everyone.
Forget(t) == /\ holder[t] # NoConn
             /\ gone' = gone \cup {holder[t]}
             /\ holder' = [holder EXCEPT ![t] = NoConn]

Next == \E t \in Threads : Lease(t) \/ Release(t) \/ Forget(t)

Spec == Init /\ [][Next]_vars
==============================================================================
