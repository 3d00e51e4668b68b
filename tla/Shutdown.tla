------------------------------- MODULE Shutdown -------------------------------
(***************************************************************************)
(* How the server ends (server1): a signal runs sig_exit of Main.cpp on    *)
(* the thread it interrupts, which destroys TcpServer, and with it the     *)
(* worker loops one after another, while connections are up and workers    *)
(* are at work.                                                            *)
(*                                                                         *)
(* The base thread may be interrupted anywhere, also while it holds a      *)
(* mutex: `caught` is where.  Within the handler it is the same thread, so *)
(* what it holds stays locked.  The loops are those of EventLoopThread in  *)
(* coarser steps, the connections those of TcpServer without their sockets.*)
(* The writer of the log is that of LogService once the last record is in  *)
(* its list; before that it is somewhere in its loop.                      *)
(***************************************************************************)
EXTENDS Naturals, Sequences, SequencesExt

CONSTANTS Conns,     \* connections clients open, each once
          Workers,   \* the loops of EventLoopThreadPool, in order
          MaxSends   \* bound: sends to connections of other loops

VARIABLES basePc,       \* where the base thread is
          caught,       \* where the signal found it, or "no"
          bound,        \* functor the base thread is about to queue, or NoFunctor
          nextLoop,     \* m_next of the pool
          turn,         \* the worker the pool's destructor has come to
          connections,  \* m_connections
          removals,     \* functors of the base loop: removeConnectionInLoop of these
          state,        \* m_state
          loop,         \* m_loopPtr of each connection
          loopPc,       \* where each worker is in EventLoop::loop
          isQuited, eventFd, pending, running,   \* members of the worker loops
          kept,         \* connections of functors of this batch that were called
          sender,       \* connection a worker found connected and will send to
          sends,
          writer,       \* where threadProc of LogService is
          \* history, read by no action:
          told,         \* what the connection callback was told
          tardy,        \* destroyed by ~TcpServer after their loop's last look but one
          early,        \* workers that were told to quit before they entered loop()
          missed        \* the writer was notified between its test and its wait

baseVars == <<basePc, caught, bound, nextLoop, turn>>
serverVars == <<connections, removals, state, loop, told>>
loopVars == <<loopPc, isQuited, eventFd, pending, running, kept, sender, sends>>
logVars == <<writer, missed>>
vars == <<baseVars, serverVars, loopVars, tardy, early, logVars>>

Pool == ToSet(Workers)
Nobody == "nobody"
Functor(fn, c) == [fn |-> fn, conn |-> c]
NoFunctor == Functor("none", Nobody)

ASSUME ShutdownAssumption ==
  /\ Workers \in Seq(Pool) /\ Workers # <<>> /\ IsInjective(Workers)
  /\ Nobody \notin Conns /\ MaxSends \in Nat

Init == /\ basePc = "init" /\ caught = "no" /\ bound = NoFunctor
        /\ nextLoop = 1 /\ turn = 1
        /\ connections = {} /\ removals = <<>>
        /\ state = [c \in Conns |-> "none"]
        /\ loop = [c \in Conns |-> Workers[1]]
        /\ loopPc = [w \in Pool |-> "entering"]
        /\ isQuited = [w \in Pool |-> FALSE] /\ eventFd = [w \in Pool |-> FALSE]
        /\ pending = [w \in Pool |-> <<>>] /\ running = [w \in Pool |-> <<>>]
        /\ kept = [w \in Pool |-> {}]
        /\ sender = [w \in Pool |-> Nobody] /\ sends = 0
        /\ told = [c \in Conns |-> <<>>] /\ tardy = {} /\ early = {}
        /\ writer = "running" /\ missed = FALSE

\* shared_ptrs to c: in m_connections, in a functor, on a stack.
Queued(w) == ToSet(pending[w]) \cup ToSet(running[w])
Alive(c) == \/ c \in connections \/ bound.conn = c \/ c \in ToSet(removals)
            \/ \E w \in Pool : \/ sender[w] = c \/ c \in kept[w]
                               \/ \E f \in Queued(w) : f.conn = c /\ f.fn # "send"

\* m_mutex of w is held by the base thread, interrupted or not; and so is m_mutext
\* of LogService.
Here(pc) == basePc = pc \/ caught = pc
LoopLocked(w) == Here("queueing") /\ loop[bound.conn] = w
LogLocked == Here("logging")

\* queueInLoop from another thread, with its wakeup.
queueInLoop(w, f) == /\ pending' = [pending EXCEPT ![w] = Append(@, f)]
                     /\ eventFd' = [eventFd EXCEPT ![w] = TRUE]

Goto(from, to) == basePc = from /\ basePc' = to

------------------------------------------------------------------------------
(* The base thread before the signal.                                      *)

\* main() enters g_loop.loop().
Enter == /\ Goto("init", "poll")
         /\ UNCHANGED <<caught, bound, nextLoop, turn, serverVars, loopVars, tardy,
                        early, logVars>>

\* newConnection: takes the next loop, writes a record, ...
newConnection(c) ==
  /\ Goto("poll", "logging")
  /\ state[c] = "none"
  /\ loop' = [loop EXCEPT ![c] = Workers[nextLoop]]
  /\ nextLoop' = IF nextLoop = Len(Workers) THEN 1 ELSE nextLoop + 1
  /\ bound' = Functor("established", c)
  /\ UNCHANGED <<caught, turn, connections, removals, state, told, loopVars, tardy,
                 early, logVars>>

\* ... keeps the connection, and queues connectEstablished.
Add == /\ Goto("adding", "queueing")
       /\ state' = [state EXCEPT ![bound.conn] = "connecting"]
       /\ connections' = connections \cup {bound.conn}
       /\ UNCHANGED <<caught, bound, nextLoop, turn, removals, loop, told, loopVars,
                      tardy, early, logVars>>

\* removeConnectionInLoop, the next functor of the base loop: writes a record, ...
removeConnectionInLoop ==
  /\ Goto("poll", "logging")
  /\ removals # <<>> /\ removals' = Tail(removals)
  /\ bound' = Functor("removed", Head(removals))
  /\ UNCHANGED <<caught, nextLoop, turn, connections, state, loop, told, loopVars,
                 tardy, early, logVars>>

\* ... forgets the connection, and queues connectDestroyed.
Forget ==
  /\ basePc = "removing"
  /\ \/ /\ bound.conn \in connections /\ basePc' = "queueing"
        /\ bound' = Functor("destroyed", bound.conn)
     \/ bound.conn \notin connections /\ basePc' = "poll" /\ bound' = NoFunctor
  /\ connections' = connections \ {bound.conn}
  /\ UNCHANGED <<caught, nextLoop, turn, removals, state, loop, told, loopVars, tardy,
                 early, logVars>>

\* The record is in the list, and m_mutext free.
Logged == /\ Goto("logging", IF bound.fn = "removed" THEN "removing" ELSE "adding")
          /\ UNCHANGED <<caught, bound, nextLoop, turn, serverVars, loopVars, tardy,
                         early, logVars>>

\* The end of queueInLoop: the functor is there, the mutex free, the loop woken.
Queue == /\ Goto("queueing", "poll")
         /\ queueInLoop(loop[bound.conn], bound)
         /\ bound' = NoFunctor
         /\ UNCHANGED <<caught, nextLoop, turn, serverVars, loopPc, isQuited, running, kept,
                        sender, sends, tardy, early, logVars>>

------------------------------------------------------------------------------
(* The signal, and sig_exit on the base thread.                            *)

Outside == {"init", "poll", "logging", "adding", "queueing", "removing"}

Signal == /\ basePc \in Outside
          /\ caught' = basePc /\ basePc' = "destroying"
          /\ UNCHANGED <<bound, nextLoop, turn, serverVars, loopVars, tardy, early,
                         logVars>>

\* On any other thread the assertion of ~TcpServer fails: a FATAL record.
SignalElsewhere == /\ basePc \in Outside /\ ~LogLocked
                   /\ basePc' = "aborted"
                   /\ UNCHANGED <<caught, bound, nextLoop, turn, serverVars, loopVars,
                                  tardy, early, logVars>>

\* ~TcpServer: connectDestroyed of every connection, on its loop.
Destroy(c) ==
  /\ basePc = "destroying" /\ c \in connections
  /\ ~LoopLocked(loop[c])
  /\ connections' = connections \ {c}
  /\ queueInLoop(loop[c], Functor("destroyed", c))
  /\ tardy' = IF loopPc[loop[c]] \in {"functors", "check"} THEN tardy \cup {c} ELSE tardy
  /\ UNCHANGED <<baseVars, removals, state, loop, told, loopPc, isQuited, running, kept,
                 sender, sends, early, logVars>>

\* Mutation: the pool is destroyed while there are connections.
QuitBefore ==
  /\ Goto("destroying", "joining")
  /\ turn <= Len(Workers)
  /\ isQuited' = [isQuited EXCEPT ![Workers[turn]] = TRUE]
  /\ eventFd' = [eventFd EXCEPT ![Workers[turn]] = TRUE]
  /\ early' = IF loopPc[Workers[turn]] = "entering" THEN early \cup {Workers[turn]} ELSE early
  /\ UNCHANGED <<caught, bound, nextLoop, turn, serverVars, loopPc, pending, running, kept,
                 sender, sends, tardy, logVars>>

\* Mutation: the loop is told to quit and not woken.
QuitSilently ==
  /\ Goto("destroying", "joining")
  /\ connections = {} /\ turn <= Len(Workers)
  /\ isQuited' = [isQuited EXCEPT ![Workers[turn]] = TRUE]
  /\ early' = IF loopPc[Workers[turn]] = "entering" THEN early \cup {Workers[turn]} ELSE early
  /\ UNCHANGED <<caught, bound, nextLoop, turn, serverVars, loopPc, eventFd, pending,
                 running, kept, sender, sends, tardy, logVars>>

\* ~EventLoopThread of one worker after the other: quit and wakeup ...
Quit ==
  /\ Goto("destroying", "joining")
  /\ connections = {} /\ turn <= Len(Workers)
  /\ isQuited' = [isQuited EXCEPT ![Workers[turn]] = TRUE]
  /\ eventFd' = [eventFd EXCEPT ![Workers[turn]] = TRUE]
  /\ early' = IF loopPc[Workers[turn]] = "entering" THEN early \cup {Workers[turn]} ELSE early
  /\ UNCHANGED <<caught, bound, nextLoop, turn, serverVars, loopPc, pending, running, kept,
                 sender, sends, tardy, logVars>>

\* ... and join.
Join == /\ Goto("joining", "destroying")
        /\ loopPc[Workers[turn]] = "exited"
        /\ turn' = turn + 1
        /\ UNCHANGED <<caught, bound, nextLoop, serverVars, loopVars, tardy, early,
                       logVars>>

\* g_loop.quit(), then LogService::stop, which takes no mutex: m_isExited is set, ...
Stop == /\ Goto("destroying", "notifying")
        /\ turn > Len(Workers)
        /\ UNCHANGED <<caught, bound, nextLoop, turn, serverVars, loopVars, tardy, early,
                       logVars>>

\* ... the writer notified, who does not notice between its test and its wait, ...
NotifyOne ==
  /\ Goto("notifying", "closing")
  /\ writer' = IF writer = "waiting" THEN "running" ELSE writer
  /\ missed' = (writer = "sleepy")
  /\ UNCHANGED <<caught, bound, nextLoop, turn, serverVars, loopVars, tardy, early>>

\* ... and joined.  fclose is called with a null pointer then, and if it returns, so
\* does the handler.  What was interrupted goes on: before loop(), which forgets the
\* quit; amid what is destroyed; or to the end of loop(), over functors bound to
\* TcpServer.
Resumed == CASE caught = "init" -> "forever"
             [] caught \in {"adding", "queueing", "removing"} \/ removals # <<>> -> "undefined"
             [] OTHER -> "ended"
JoinWriter ==
  /\ basePc = "closing" /\ writer = "ended"
  /\ basePc' \in {"ended", Resumed}
  /\ UNCHANGED <<caught, bound, nextLoop, turn, serverVars, loopVars, tardy, early,
                 logVars>>

------------------------------------------------------------------------------
(* threadProc, when all workers are joined: nobody puts a record into the  *)
(* list any more, and the writer comes to find it empty.  It has m_mutext  *)
(* then, until it waits or ends.                                           *)

isExited == basePc \in {"notifying", "closing"}

WriterStep(from, to) ==
  /\ writer = from /\ writer' = to
  /\ UNCHANGED <<baseVars, serverVars, loopVars, tardy, early, missed>>

Look == /\ turn > Len(Workers) /\ ~isExited /\ ~LogLocked
        /\ WriterStep("running", "sleepy")
Wait == WriterStep("sleepy", "waiting")
SpuriousWake == ~LogLocked /\ WriterStep("waiting", "running")
End == isExited /\ ~LogLocked /\ WriterStep("running", "ended")

------------------------------------------------------------------------------
(* The workers.                                                            *)

At(w, from, to) == /\ basePc # "aborted" /\ loopPc[w] = from
                   /\ loopPc' = [loopPc EXCEPT ![w] = to]

\* loop() resets m_isQuited, whatever it was.
EnterLoop(w) == /\ At(w, "entering", "check")
                /\ isQuited' = [isQuited EXCEPT ![w] = FALSE]
                /\ UNCHANGED <<baseVars, serverVars, eventFd, pending, running, kept,
                               sender, sends, tardy, early, logVars>>

\* A loop that ends takes the functors it has not called with it.
Check(w) == /\ \/ ~isQuited[w] /\ At(w, "check", "poll") /\ UNCHANGED pending
               \/ /\ isQuited[w] /\ At(w, "check", "exited")
                  /\ pending' = [pending EXCEPT ![w] = <<>>]
            /\ UNCHANGED <<baseVars, serverVars, isQuited, eventFd, running, kept,
                           sender, sends, tardy, early, logVars>>

Woken(w) == /\ At(w, "poll", "events")
            /\ eventFd[w]
            /\ eventFd' = [eventFd EXCEPT ![w] = FALSE]
            /\ UNCHANGED <<baseVars, serverVars, isQuited, pending, running, kept,
                           sender, sends, tardy, early, logVars>>

\* epoll_wait returns for something else.
Returns(w) == /\ At(w, "poll", "events")
              /\ UNCHANGED <<baseVars, serverVars, isQuited, eventFd, pending, running,
                             kept, sender, sends, tardy, early, logVars>>

\* handleClose, whose removeConnection queues to the base loop.  The callback
\* writes a record.
handleClose(c) ==
  /\ ~LogLocked
  /\ state' = [state EXCEPT ![c] = "disconnected"]
  /\ told' = [told EXCEPT ![c] = Append(@, "DOWN")]
  /\ removals' = Append(removals, c)

\* A message callback waits in getMysqlConn for a connection that was leaked: it
\* never returns.
Block(w, c) == /\ At(w, "events", "blocked") /\ loop[c] = w
               /\ state[c] \in {"connected", "disconnecting"}
               /\ sender[w] = Nobody
               /\ UNCHANGED <<baseVars, serverVars, isQuited, eventFd, pending, running,
                              kept, sender, sends, tardy, early, logVars>>

\* A callback on w finds the client gone, ...
Close(w, c) == /\ At(w, "events", "events") /\ loop[c] = w
               /\ state[c] \in {"connected", "disconnecting"}
               /\ sender[w] = Nobody
               /\ handleClose(c)
               /\ UNCHANGED <<baseVars, connections, loop, isQuited, eventFd, pending,
                              running, kept, sender, sends, tardy, early, logVars>>

\* ... or refuses a package: forceClose.
Refuse(w, c) == /\ At(w, "events", "events") /\ loop[c] = w
                /\ state[c] = "connected"
                /\ sender[w] = Nobody
                /\ state' = [state EXCEPT ![c] = "disconnecting"]
                /\ pending' = [pending EXCEPT ![w] = Append(@, Functor("forceClose", c))]
                /\ UNCHANGED <<baseVars, connections, removals, loop, told, isQuited,
                               eventFd, running, kept, sender, sends, tardy, early,
                               logVars>>

\* send to a connection of another loop, from a callback or from what a functor
\* told the service: the state is tested, ...
Send(w, c) == /\ loopPc[w] \in {"events", "functors"} /\ At(w, loopPc[w], loopPc[w])
              /\ loop[c] # w /\ Alive(c) /\ state[c] = "connected"
              /\ sender[w] = Nobody /\ sends < MaxSends
              /\ sender' = [sender EXCEPT ![w] = c] /\ sends' = sends + 1
              /\ UNCHANGED <<baseVars, serverVars, isQuited, eventFd, pending, running,
                             kept, tardy, early, logVars>>

\* ... and the functor queued.  On a loop that has ended that is undefined; it is
\* nothing here, and EndedLoopsUnreachable says when it can happen.
SendQueued(w) ==
  LET c == sender[w] IN
  /\ c # Nobody /\ basePc # "aborted"
  /\ ~LoopLocked(loop[c])
  /\ IF loopPc[loop[c]] = "exited" THEN UNCHANGED <<pending, eventFd>>
                                   ELSE queueInLoop(loop[c], Functor("send", c))
  /\ sender' = [sender EXCEPT ![w] = Nobody]
  /\ UNCHANGED <<baseVars, serverVars, loopPc, isQuited, running, kept, sends, tardy,
                 early, logVars>>

Take(w) == /\ At(w, "events", "functors")
           /\ sender[w] = Nobody /\ ~LoopLocked(w)
           /\ running' = [running EXCEPT ![w] = pending[w]]
           /\ pending' = [pending EXCEPT ![w] = <<>>]
           /\ UNCHANGED <<baseVars, serverVars, isQuited, eventFd, kept, sender, sends,
                          tardy, early, logVars>>

\* Mutation: connectDestroyed does not tell the user.
DestroyedQuietly(c) == IF state[c] = "connected"
                       THEN /\ state' = [state EXCEPT ![c] = "disconnected"]
                            /\ UNCHANGED <<told, removals>>
                       ELSE UNCHANGED <<state, told, removals>>

connectEstablished(c) == IF state[c] = "connecting"
                         THEN /\ state' = [state EXCEPT ![c] = "connected"]
                              /\ told' = [told EXCEPT ![c] = Append(@, "UP")]
                              /\ UNCHANGED removals
                         ELSE UNCHANGED <<state, told, removals>>

connectDestroyed(c) == IF state[c] = "connected"
                       THEN /\ ~LogLocked
                            /\ state' = [state EXCEPT ![c] = "disconnected"]
                            /\ told' = [told EXCEPT ![c] = Append(@, "DOWN")]
                            /\ UNCHANGED removals
                       ELSE UNCHANGED <<state, told, removals>>

forceCloseInLoop(c) == IF state[c] \in {"connected", "disconnecting"}
                       THEN handleClose(c) ELSE UNCHANGED <<state, told, removals>>

\* The next functor of the batch.
Run(w) ==
  LET f == Head(running[w]) IN
  /\ running[w] # <<>> /\ At(w, "functors", "functors") /\ sender[w] = Nobody
  /\ running' = [running EXCEPT ![w] = Tail(@)]
  /\ kept' = [kept EXCEPT ![w] = IF f.fn = "send" THEN @ ELSE @ \cup {f.conn}]
  /\ \/ f.fn = "established" /\ connectEstablished(f.conn)
     \/ f.fn = "destroyed" /\ connectDestroyed(f.conn)
     \/ f.fn = "forceClose" /\ forceCloseInLoop(f.conn)
     \/ f.fn = "send" /\ UNCHANGED <<state, told, removals>>
  /\ UNCHANGED <<baseVars, connections, loop, isQuited, eventFd, pending, sender, sends,
                 tardy, early, logVars>>

Done(w) == /\ At(w, "functors", "check")
           /\ running[w] = <<>> /\ sender[w] = Nobody
           /\ kept' = [kept EXCEPT ![w] = {}]
           /\ UNCHANGED <<baseVars, serverVars, isQuited, eventFd, pending, running,
                          sender, sends, tardy, early, logVars>>

------------------------------------------------------------------------------
sig_exit == (\E c \in Conns : Destroy(c)) \/ Quit \/ Join \/ Stop \/ NotifyOne \/ JoinWriter

threadProc == Look \/ Wait \/ End

Base == \/ Enter \/ (\E c \in Conns : newConnection(c)) \/ Logged \/ Add
        \/ removeConnectionInLoop \/ Forget \/ Queue \/ Signal \/ SignalElsewhere \/ sig_exit

\* What a worker does by itself; Returns, Block, Close, Refuse and Send are up to
\* clients.
Worker(w) == \/ EnterLoop(w) \/ Check(w) \/ Woken(w) \/ SendQueued(w) \/ Take(w) \/ Run(w)
             \/ Done(w)

Next == \/ Base \/ threadProc \/ SpuriousWake
        \/ \E w \in Pool : \/ Worker(w) \/ Returns(w)
                           \/ \E c \in Conns : \/ Block(w, c) \/ Close(w, c)
                                               \/ Refuse(w, c) \/ Send(w, c)

Spec == Init /\ [][Next]_vars

\* The workers run, and so do the handler and the writer.
FairSpec == /\ Spec /\ WF_vars(sig_exit) /\ WF_vars(threadProc)
            /\ \A w \in Pool : WF_vars(Worker(w))

------------------------------------------------------------------------------
Functors == {Functor(fn, c) : fn \in {"established", "destroyed", "forceClose", "send"},
                                  c \in Conns}

\* In particular functors wait on the loop of their connection, and a connection is
\* told UP once, then DOWN once.
ServerTypeOK ==
  /\ basePc \in Outside \cup {"destroying", "joining", "notifying", "closing", "ended",
                           "forever", "undefined", "aborted"}
  /\ caught \in Outside \cup {"no"}
  /\ bound \in Functors \cup {Functor("removed", c) : c \in Conns} \cup {NoFunctor}
  /\ nextLoop \in 1..Len(Workers) /\ turn \in 1..Len(Workers) + 1
  /\ connections \subseteq Conns /\ removals \in Seq(Conns)
  /\ state \in [Conns -> {"none", "connecting", "connected", "disconnecting", "disconnected"}]
  /\ told \in [Conns -> {<<>>, <<"UP">>, <<"UP", "DOWN">>}]
  /\ loop \in [Conns -> Pool]
  /\ loopPc \in [Pool -> {"entering", "check", "poll", "events", "functors", "blocked",
                       "exited"}]
  /\ isQuited \in [Pool -> BOOLEAN] /\ eventFd \in [Pool -> BOOLEAN]
  /\ pending \in [Pool -> Seq(Functors)] /\ running \in [Pool -> Seq(Functors)]
  /\ \A w \in Pool : \A f \in Queued(w) : loop[f.conn] = w
  /\ kept \in [Pool -> SUBSET Conns]
  /\ sender \in [Pool -> Conns \cup {Nobody}] /\ sends \in 0..MaxSends

\* Type invariant.
TypeOK == /\ ServerTypeOK
          /\ writer \in {"running", "sleepy", "waiting", "ended"} /\ missed \in BOOLEAN

\* Every session whose connection came up is told of its end before its loop is
\* gone, although the loop is told to quit right after.  The exception is a
\* connectDestroyed queued while the loop called functors, or was about to test
\* m_isQuited: the loop does not look at its queue again.
SilentOnlyIfTardy ==
  \A c \in Conns : loopPc[loop[c]] = "exited" /\ told[c] = <<"UP">> => c \in tardy

\* While the pool is destroyed loop by loop, the loops that are left cannot send to
\* a connection of a loop that has ended, unless they had begun to before: it is
\* down, or its object went with the loop.
EndedLoopsUnreachable ==
  \A c \in Conns : loopPc[loop[c]] = "exited" /\ state[c] = "connected" /\ Alive(c) =>
    \E w \in Pool : sender[w] = c

\* A signal that found the base thread in loop() and without a mutex ends the process,
\* unless a worker had not entered its loop yet, a worker waits for ever for a
\* connection of the pool, or the writer of the log missed its notify.
SignalEnds ==
  basePc = "destroying" /\ caught \in {"poll", "adding", "removing"} ~>
    \/ basePc \in {"ended", "undefined"}
    \/ early # {} \/ missed \/ \E w \in Pool : loopPc[w] = "blocked"
==============================================================================
