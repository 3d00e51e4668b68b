------------------------------ MODULE ConnPool -------------------------------
(***************************************************************************)
(* The MySQL connection pool of the chat server                            *)
(* (server1/mysql/MysqlManager.cpp) together with the commands of          *)
(* UserManager (server1/IMServer/UserManager.cpp) that borrow from it.     *)
(*                                                                         *)
(* getMysqlConn and putMysqlConn hold m_mutex from their first statement   *)
(* to their last, except inside m_cond.wait: each is one step, or, when it *)
(* waits, one step up to the wait and one per return from it.  Between     *)
(* them a command runs its SQL statement without any lock.                 *)
(***************************************************************************)
EXTENDS Naturals, Sequences, FiniteSets

CONSTANTS Threads,     \* worker loops of ChatService, each runs one command at a time
          InitCount,   \* INIT_CONN_COUNT
          MaxCount,    \* MAX_CONN_COUNT
          Commands,    \* the UserManager commands the clients send
          CallBudget   \* bound: commands one thread executes

VARIABLES free,     \* m_mysqlConns, the list of idle connections
          count,    \* m_initConnCount, connections opened so far
          pc,       \* where each thread is in its command
          conn,     \* the connection in the local variable of the command
          cmd,      \* the command each thread executes
          calls,    \* commands started by each thread
          lost,     \* connections whose only pointer went out of scope
          crashed   \* the process dereferenced a null MysqlConn*

vars == <<free, count, pc, conn, cmd, calls, lost, crashed>>

NoConn == 0

------------------------------------------------------------------------------
(* What each UserManager command does with the connection it borrows:      *)
(* does it test the pointer for null, and does it put the connection back  *)
(* when its SQL statement succeeded, and when it failed.                   *)

Handling(null, ok, fail) == [checksNull |-> null, putsOnOk |-> ok, putsOnFail |-> fail]

registerForUser           == Handling(TRUE,  TRUE,  FALSE)
buildFriendRelationship   == Handling(FALSE, TRUE,  FALSE)
releaseFriendRelationship == Handling(FALSE, FALSE, FALSE)
saveChatMsg2DB            == Handling(TRUE,  TRUE,  TRUE)
createGroup               == Handling(TRUE,  FALSE, FALSE)
updateUser                == Handling(TRUE,  FALSE, FALSE)
changePassword            == Handling(TRUE,  FALSE, FALSE)
moveFriend2OtherTeam      == Handling(FALSE, FALSE, FALSE)
changeFriendRemarks       == Handling(FALSE, TRUE,  TRUE)

AllCommands == { registerForUser, buildFriendRelationship, releaseFriendRelationship,
                 saveChatMsg2DB, createGroup, updateUser, changePassword,
                 moveFriend2OtherTeam, changeFriendRemarks }

ASSUME PoolAssumption == /\ InitCount \in Nat
                         /\ MaxCount \in Nat \ {0}
                         /\ InitCount <= MaxCount
                         /\ CallBudget \in Nat
                         /\ IsFiniteSet(Threads)

ASSUME CommandAssumption ==
  Commands \subseteq [checksNull : BOOLEAN, putsOnOk : BOOLEAN, putsOnFail : BOOLEAN]

NoCommand == Handling(TRUE, TRUE, TRUE)

At(where) == { t \in Threads : pc[t] = where }

Init == /\ free = [i \in 1..InitCount |-> i]
        /\ count = InitCount
        /\ pc = [t \in Threads |-> "idle"]
        /\ conn = [t \in Threads |-> NoConn]
        /\ cmd = [t \in Threads |-> NoCommand]
        /\ calls = [t \in Threads |-> 0]
        /\ lost = {}
        /\ crashed = FALSE

------------------------------------------------------------------------------
(* getMysqlConn: the four ways through its loop, under m_mutex.            *)

\* Mutation: the front is read but not popped.
TakeKeepsFront(t) == /\ free # <<>>
                     /\ conn' = [conn EXCEPT ![t] = Head(free)]
                     /\ pc' = [pc EXCEPT ![t] = "work"]
                     /\ UNCHANGED <<free, count, crashed>>

Take(t) == /\ free # <<>>
           /\ conn' = [conn EXCEPT ![t] = Head(free)]
           /\ free' = Tail(free)
           /\ pc' = [pc EXCEPT ![t] = "work"]
           /\ UNCHANGED <<count, crashed>>

\* The list is empty, so the connection pushed to it is the one popped.
Open(t) == /\ free = <<>>
           /\ count < MaxCount
           /\ count' = count + 1
           /\ conn' = [conn EXCEPT ![t] = count + 1]
           /\ pc' = [pc EXCEPT ![t] = "work"]
           /\ UNCHANGED <<free, crashed>>

\* MysqlConn::init failed: nullptr, which only some commands test for.
OpenFails(t, c) == /\ free = <<>>
                   /\ count < MaxCount
                   /\ pc' = [pc EXCEPT ![t] = "idle"]
                   /\ crashed' = ~c.checksNull
                   /\ UNCHANGED <<free, count, conn>>

Wait(t) == /\ free = <<>>
           /\ count >= MaxCount
           /\ pc' = [pc EXCEPT ![t] = "wait"]
           /\ UNCHANGED <<free, count, conn, crashed>>

getMysqlConn(t, c) == Take(t) \/ Open(t) \/ OpenFails(t, c) \/ Wait(t)

\* A command starts and enters getMysqlConn.
Call(t, c) == /\ ~crashed
              /\ pc[t] = "idle"
              /\ calls[t] < CallBudget
              /\ calls' = [calls EXCEPT ![t] = @ + 1]
              /\ cmd' = [cmd EXCEPT ![t] = c]
              /\ getMysqlConn(t, c)
              /\ UNCHANGED lost

\* A thread that left m_cond.wait has the mutex again and re-tests the list.
Resume(t) == /\ ~crashed
             /\ pc[t] = "awake"
             /\ getMysqlConn(t, cmd[t])
             /\ UNCHANGED <<cmd, calls, lost>>

\* The wait returns though nobody notified.
SpuriousWake(t) == /\ ~crashed
                   /\ pc[t] = "wait"
                   /\ pc' = [pc EXCEPT ![t] = "awake"]
                   /\ UNCHANGED <<free, count, conn, cmd, calls, lost, crashed>>

------------------------------------------------------------------------------
PutsBack(t, ok) == IF ok THEN cmd[t].putsOnOk ELSE cmd[t].putsOnFail

\* execute: the SQL statement succeeds, or fails, or touches no row.
Execute(t, ok) ==
  /\ ~crashed
  /\ pc[t] = "work"
  /\ \/ /\ PutsBack(t, ok)
        /\ pc' = [pc EXCEPT ![t] = "put"]
        /\ UNCHANGED <<conn, lost>>
     \/ /\ ~PutsBack(t, ok)
        /\ pc' = [pc EXCEPT ![t] = "idle"]
        /\ conn' = [conn EXCEPT ![t] = NoConn]
        /\ lost' = lost \cup {conn[t]}
  /\ UNCHANGED <<free, count, cmd, calls, crashed>>

Elems(s) == { s[i] : i \in 1..Len(s) }

FreeSet == Elems(free)

\* Mutation: no notification.
NotifyNobody(idle) == pc' = idle

\* m_cond.notify_one: some waiter, if there is one, leaves the wait.
NotifyOne(idle) ==
  \/ \E w \in At("wait") : pc' = [idle EXCEPT ![w] = "awake"]
  \/ At("wait") = {} /\ pc' = idle

putMysqlConn(t) ==
  /\ ~crashed
  /\ pc[t] = "put"
  /\ free' = IF conn[t] \in FreeSet THEN free ELSE Append(free, conn[t])
  /\ conn' = [conn EXCEPT ![t] = NoConn]
  /\ NotifyOne([pc EXCEPT ![t] = "idle"])
  /\ UNCHANGED <<count, cmd, calls, lost, crashed>>

------------------------------------------------------------------------------
Step(t) == \/ \E c \in Commands : Call(t, c)
           \/ Resume(t)
           \/ \E ok \in BOOLEAN : Execute(t, ok)
           \/ putMysqlConn(t)

Next == \E t \in Threads : Step(t) \/ SpuriousWake(t)

Spec == Init /\ [][Next]_vars

\* A command that has started goes on: the OS runs every worker thread.
Progress(t) == \/ Resume(t)
               \/ \E ok \in BOOLEAN : Execute(t, ok)
               \/ putMysqlConn(t)

FairSpec == Spec /\ \A t \in Threads : WF_vars(Progress(t))

------------------------------------------------------------------------------
Positions == {"idle", "wait", "awake", "work", "put"}

\* Type invariant.  The one clause with content is the limit: m_initConnCount
\* never passes MAX_CONN_COUNT, whatever the threads do.
TypeOK == /\ free \in Seq(1..MaxCount)
          /\ count \in 0..MaxCount
          /\ pc \in [Threads -> Positions]
          /\ conn \in [Threads -> 0..MaxCount]
          /\ cmd \in [Threads -> [checksNull : BOOLEAN, putsOnOk : BOOLEAN, putsOnFail : BOOLEAN]]
          /\ calls \in [Threads -> 0..CallBudget]
          /\ lost \subseteq 1..MaxCount
          /\ crashed \in BOOLEAN

Distinct(s) == \A i, j \in 1..Len(s) : s[i] = s[j] => i = j

Holding == At("work") \cup At("put")

Held == { conn[t] : t \in Holding }

\* Every connection opened is in exactly one place: once in m_mysqlConns, in
\* the hands of one command, or leaked.  A second owner would run two SQL
\* statements on one MYSQL handle from two threads.
Ownership ==
  /\ Distinct(free)
  /\ \A t, u \in Holding : conn[t] = conn[u] => t = u
  /\ \A t \in Threads \ Holding : conn[t] = NoConn
  /\ FreeSet \cap Held = {} /\ FreeSet \cap lost = {} /\ Held \cap lost = {}
  /\ FreeSet \cup Held \cup lost = 1..count

\* notify_one wakes one waiter per connection returned and the waiters barge:
\* still, while a thread sleeps in m_cond.wait, every idle connection has an
\* awakened thread on its way to it.
NoLostWakeup == At("wait") # {} => Len(free) <= Cardinality(At("awake"))

\* A thread sleeps in getMysqlConn with nobody left to wake it only when every
\* connection the pool may open was leaked by a command that did not put it back.
StuckOnlyByLeak ==
  (At("wait") # {} /\ At("awake") = {} /\ Holding = {}) => lost = 1..MaxCount

\* As long as no command has leaked its connection, a command that waits for one
\* gets it (or the process is down), however the threads barge.
EveryCallReturns ==
  \A t \in Threads : pc[t] = "wait" ~> (pc[t] # "wait" /\ pc[t] # "awake") \/ crashed \/ lost # {}

\* The pool implements the lease of ConnLease.
Lease == INSTANCE ConnLease WITH Connections <- 1..MaxCount,
                                 holder <- conn, gone <- lost

ImplementsLease == Lease!Spec
==============================================================================
