------------------------------ MODULE TcpServer ------------------------------
(***************************************************************************)
(* The life of a connection in the network library (server1/netlib):       *)
(* TcpServer accepts it on the base loop and hands it to a worker loop,    *)
(* TcpConnection, its Channel and the EPoller of that loop serve it, and   *)
(* both loops take part in its destruction.                                *)
(*                                                                         *)
(* A loop goes round: poll, one callback after another for the channels    *)
(* that are ready, then the functors other threads queued.  A callback or  *)
(* a functor runs on the loop of its connection and is one step, except    *)
(* that a send to a connection of another loop is two: the state of the    *)
(* connection is tested first, and the functor is queued later.            *)
(*                                                                         *)
(* An object lives while a shared_ptr to it exists: in m_connections, in a *)
(* functor bound to it, or in the hands of a thread that sends to it.  The *)
(* functors of send are bound to the bare object.                          *)
(***************************************************************************)
EXTENDS Naturals, Sequences, FiniteSets, SequencesExt

CONSTANTS Conns,        \* connections clients open, each once
          Base,         \* the loop of the acceptor
          Workers,      \* the loops of EventLoopThreadPool, in order
          Fds,          \* descriptors left to the process, lowest first
          Reactions,    \* what the message callback may do
          MaxRequests   \* bound: packages the clients send

VARIABLES peer,         \* the other end of each connection
          inbox,        \* inbox[c]: data waits to be read
          state,        \* m_state
          loop,         \* m_loopPtr
          fd,           \* the descriptor of the socket
          next,         \* m_next, position of the next worker
          connections,  \* m_connections of TcpServer
          events,       \* m_events of the channel
          index,        \* m_index of the channel
          channels,     \* m_channels of each EPoller: descriptor to channel
          out,          \* out[c]: m_outputBuffer is not empty
          halfClosed,   \* shutdownWrite was called
          round,        \* where each loop is in its round
          active,       \* m_activeChannels still to be handled
          current,      \* m_curActiveChannelPtr while it has callbacks to call, or Nobody
          revents,      \* m_revents: the callbacks handleEvent has still to call
          pending,      \* m_pendingFunctors
          running,      \* functors doPendingFunctors took and has still to call
          kept,         \* connections of the functors it has called already
          sender,       \* connection a loop is about to queue a send for, or Nobody
          requests,     \* packages sent by the clients
          \* history, read by no action:
          told,         \* what the connection callback was told
          late,         \* connections a send was queued for after they were closed
          orphans,      \* connections whose message callback ran after their DOWN
          cut,          \* connections that refused output, their writing side closed
          overtaken     \* those whose writing side was closed with a send on its way

connVars == <<state, loop, fd, next, connections, halfClosed>>
channelVars == <<events, index, channels>>
loopVars == <<round, active, current, revents, pending, running, kept, sender>>
peerVars == <<peer, inbox, requests>>
lost == <<cut, overtaken>>
history == <<told, late, orphans, lost>>
vars == <<connVars, channelVars, out, loopVars, peerVars, history>>

WorkerLoops == ToSet(Workers)
Loops == WorkerLoops \cup {Base}
Nobody == "nobody"
Acceptor == "acceptor"

ASSUME ServerAssumption ==
  /\ Workers \in Seq(WorkerLoops) /\ Workers # <<>> /\ Base \notin WorkerLoops
  /\ Fds \subseteq Nat /\ IsFiniteSet(Fds)
  /\ Nobody \notin Conns /\ Acceptor \notin Conns
  /\ MaxRequests \in Nat

------------------------------------------------------------------------------
(* Functors and object lifetime.                                           *)

Functor(fn, c) == [fn |-> fn, conn |-> c]

\* std::bind with the bare this keeps nothing alive.
Owns(f) == f.fn # "send"

Queued(l) == ToSet(pending[l]) \cup ToSet(running[l])

Alive(c) == \/ c \in connections
            \/ \E l \in Loops : \/ sender[l] = c \/ c \in kept[l]
                                \/ \E f \in Queued(l) : f.conn = c /\ Owns(f)

FreeFds == Fds \ { fd[c] : c \in { d \in Conns : Alive(d) } }

queueInLoop(l, f) == pending' = [pending EXCEPT ![l] = Append(@, f)]

------------------------------------------------------------------------------
(* EPoller and Channel.                                                    *)

\* m_channels has an entry for the descriptor, and it is this channel's.
Known(c) == fd[c] \in DOMAIN channels[loop[c]]
Mine(c) == Known(c) /\ channels[loop[c]][fd[c]] = c

Registered(c) == index[c] = "added"

Watch(c) == /\ index[c] = "new" /\ ~Known(c)
            /\ channels' = [channels EXCEPT ![loop[c]] =
                              [f \in DOMAIN @ \cup {fd[c]} |-> IF f = fd[c] THEN c ELSE @[f]]]
            /\ index' = [index EXCEPT ![c] = "added"]

\* "fd must not exist in m_channels": logged, and the channel is not watched.
WatchFails(c) == /\ \/ index[c] = "new" /\ Known(c)
                    \/ index[c] # "new" /\ ~Mine(c)
                 /\ UNCHANGED <<index, channels>>

Rewatch(c) == /\ index[c] = "deleted" /\ Mine(c)
              /\ index' = [index EXCEPT ![c] = "added"]
              /\ UNCHANGED channels

\* Mutation: the channel is deleted with its write event.
ModifyDrops(c, es) == /\ index[c] = "added" /\ Mine(c)
                      /\ index' = [index EXCEPT ![c] = IF "write" \in es THEN "added" ELSE "deleted"]
                      /\ UNCHANGED channels

Modify(c, es) == /\ index[c] = "added" /\ Mine(c)
                 /\ index' = [index EXCEPT ![c] = IF es = {} THEN "deleted" ELSE "added"]
                 /\ UNCHANGED channels

\* Channel::update with the events the channel waits for from now on.
updateChannel(c, es) ==
  /\ events' = [events EXCEPT ![c] = es]
  /\ Watch(c) \/ WatchFails(c) \/ Rewatch(c) \/ Modify(c, es)

isWriting(c) == "write" \in events[c]

\* Channel::remove and EPoller::removeChannel.  One of the two inequalities
\* always holds: the entry is never erased.
removeChannel(c) ==
  IF events[c] # {} \/ ~Mine(c) \/ (index[c] # "added" \/ index[c] # "deleted")
  THEN UNCHANGED channelVars
  ELSE /\ channels' = [channels EXCEPT ![loop[c]] =
                         [f \in DOMAIN @ \ {fd[c]} |-> @[f]]]
       /\ index' = [index EXCEPT ![c] = "new"]
       /\ UNCHANGED events

------------------------------------------------------------------------------
(* The parts callbacks and functors of TcpConnection are made of.          *)

\* Mutation: the connection callback is called again on every close.
CloseTwice(c, l) ==
  /\ state' = [state EXCEPT ![c] = "disconnected"]
  /\ updateChannel(c, {})
  /\ told' = [told EXCEPT ![c] = Append(@, "DOWN")]
  /\ queueInLoop(Base, Functor("removed", c))

\* Mutation: the channel is left enabled.
CloseKeepsReading(c, l) ==
  /\ IF state[c] \in {"connected", "disconnecting"}
     THEN /\ state' = [state EXCEPT ![c] = "disconnected"]
          /\ told' = [told EXCEPT ![c] = Append(@, "DOWN")]
          /\ queueInLoop(Base, Functor("removed", c))
     ELSE UNCHANGED <<state, told, pending>>
  /\ UNCHANGED channelVars

\* handleClose on loop l: the channel waits for nothing any more, the user is
\* told, and the base loop is asked to forget the connection.
handleClose(c, l) ==
  IF state[c] \in {"connected", "disconnecting"}
  THEN /\ state' = [state EXCEPT ![c] = "disconnected"]
       /\ updateChannel(c, {})
       /\ told' = [told EXCEPT ![c] = Append(@, "DOWN")]
       /\ queueInLoop(Base, Functor("removed", c))
  ELSE UNCHANGED <<state, told, pending, channelVars>>

\* What is left to write waits for the socket.
KeepForLater(c) ==
  /\ out' = [out EXCEPT ![c] = TRUE]
  /\ IF isWriting(c) THEN UNCHANGED channelVars ELSE updateChannel(c, events[c] \cup {"write"})

\* sendInLoop: written at once when nothing waits already; the socket takes all
\* of it, a part of it, or fails.  With the writing side closed it always fails
\* (EPIPE), and the output is dropped.
sendInLoop(c) ==
  /\ \/ state[c] = "disconnected" /\ UNCHANGED <<out, channelVars>>
     \/ /\ state[c] # "disconnected"
        /\ isWriting(c) \/ out[c]
        /\ KeepForLater(c)
     \/ /\ state[c] # "disconnected"
        /\ ~isWriting(c) /\ ~out[c]
        /\ \/ UNCHANGED <<out, channelVars>>
           \/ peer[c] # "reset" /\ ~halfClosed[c] /\ KeepForLater(c)
  /\ cut' = IF /\ halfClosed[c] /\ state[c] # "disconnected"
               /\ ~isWriting(c) /\ ~out[c] THEN cut \cup {c} ELSE cut

\* Another loop found c connected, and its output has not reached c yet.
OnItsWay(c) == \E l \in Loops : sender[l] = c \/ Functor("send", c) \in Queued(l)

\* Mutation: the writing side is closed although output waits.
ShutdownAtOnce(c) ==
  IF state[c] = "connected"
  THEN /\ state' = [state EXCEPT ![c] = "disconnecting"]
       /\ halfClosed' = [halfClosed EXCEPT ![c] = TRUE]
       /\ overtaken' = IF OnItsWay(c) THEN overtaken \cup {c} ELSE overtaken
  ELSE UNCHANGED <<state, halfClosed, overtaken>>

\* shutdown, called in the loop of the connection: the writing side is closed
\* unless output waits.
shutdown(c) ==
  IF state[c] = "connected"
  THEN /\ state' = [state EXCEPT ![c] = "disconnecting"]
       /\ halfClosed' = [halfClosed EXCEPT ![c] = @ \/ ~isWriting(c)]
       /\ overtaken' = IF ~isWriting(c) /\ OnItsWay(c) THEN overtaken \cup {c} ELSE overtaken
  ELSE UNCHANGED <<state, halfClosed, overtaken>>

forceClose(c) ==
  IF state[c] \in {"connected", "disconnecting"}
  THEN /\ state' = [state EXCEPT ![c] = "disconnecting"]
       /\ queueInLoop(loop[c], Functor("forceClose", c))
  ELSE UNCHANGED <<state, pending>>

Init == /\ peer = [c \in Conns |-> "absent"]
        /\ inbox = [c \in Conns |-> FALSE]
        /\ state = [c \in Conns |-> "none"]
        /\ loop = [c \in Conns |-> Base]
        /\ fd = [c \in Conns |-> 0]
        /\ next = 1
        /\ connections = {}
        /\ events = [c \in Conns |-> {}]
        /\ index = [c \in Conns |-> "new"]
        /\ channels = [l \in Loops |-> <<>>]
        /\ out = [c \in Conns |-> FALSE]
        /\ halfClosed = [c \in Conns |-> FALSE]
        /\ round = [l \in Loops |-> "poll"]
        /\ active = [l \in Loops |-> {}]
        /\ current = [l \in Loops |-> Nobody]
        /\ revents = [c \in Conns |-> {}]
        /\ pending = [l \in Loops |-> <<>>]
        /\ running = [l \in Loops |-> <<>>]
        /\ kept = [l \in Loops |-> {}]
        /\ sender = [l \in Loops |-> Nobody]
        /\ requests = 0
        /\ told = [c \in Conns |-> <<>>]
        /\ late = {} /\ orphans = {} /\ cut = {} /\ overtaken = {}

------------------------------------------------------------------------------
(* The clients.                                                            *)

Dial(c) == /\ peer[c] = "absent"
           /\ peer' = [peer EXCEPT ![c] = "open"]
           /\ UNCHANGED <<connVars, channelVars, out, loopVars, inbox, requests, history>>

Request(c) == /\ peer[c] = "open" /\ ~inbox[c] /\ requests < MaxRequests
              /\ inbox' = [inbox EXCEPT ![c] = TRUE]
              /\ requests' = requests + 1
              /\ UNCHANGED <<connVars, channelVars, out, loopVars, peer, history>>

Leave(c) == /\ peer[c] = "open"
            /\ peer' = [peer EXCEPT ![c] = "closed"]
            /\ UNCHANGED <<connVars, channelVars, out, loopVars, inbox, requests, history>>

Reset(c) == /\ peer[c] \in {"open", "closed"} /\ state[c] # "none"
            /\ peer' = [peer EXCEPT ![c] = "reset"]
            /\ UNCHANGED <<connVars, channelVars, out, loopVars, inbox, requests, history>>

------------------------------------------------------------------------------
(* The round of a loop.                                                    *)

Backlog == { c \in Conns : peer[c] \in {"open", "closed"} /\ state[c] = "none" }

\* The callbacks Channel::handleEvent is to call for c.
Callbacks(c) ==
  { ev \in {"error", "read", "write"} :
      CASE ev = "error" -> peer[c] = "reset"
        [] ev = "read" -> /\ "read" \in events[c]
                          /\ inbox[c] \/ peer[c] \in {"closed", "reset"}
        [] ev = "write" -> isWriting(c) }

Ready(l) == { c \in Conns : loop[c] = l /\ Alive(c) /\ Registered(c) /\ Callbacks(c) # {} }

\* epoll_wait returns for ready descriptors or for the eventfd of wakeup.  The
\* order of the descriptors is open: it is chosen as they are handled.
Poll(l) ==
  /\ round[l] = "poll"
  /\ \/ /\ l # Base /\ (Ready(l) # {} \/ pending[l] # <<>>)
        /\ active' = [active EXCEPT ![l] = Ready(l)]
        /\ revents' = [c \in Conns |-> IF c \in Ready(l) THEN Callbacks(c) ELSE revents[c]]
     \/ /\ l = Base /\ (Backlog # {} \/ pending[l] # <<>>)
        /\ active' = [active EXCEPT ![l] = IF Backlog = {} THEN {} ELSE {Acceptor}]
        /\ UNCHANGED revents
  /\ round' = [round EXCEPT ![l] = "events"]
  /\ UNCHANGED <<connVars, channelVars, out, current, pending, running, kept, sender,
                 peerVars, history>>

\* doPendingFunctors takes all functors at once, ...
TakeFunctors(l) ==
  /\ round[l] = "events" /\ active[l] = {} /\ sender[l] = Nobody
  /\ running' = [running EXCEPT ![l] = pending[l]]
  /\ pending' = [pending EXCEPT ![l] = <<>>]
  /\ round' = [round EXCEPT ![l] = IF pending[l] = <<>> THEN "poll" ELSE "functors"]
  /\ UNCHANGED <<connVars, channelVars, out, active, current, revents, kept, sender,
                 peerVars, history>>

\* ... and destroys them, and what they own, after the last was called.
EndBatch(l) ==
  /\ round[l] = "functors" /\ running[l] = <<>>
  /\ kept' = [kept EXCEPT ![l] = {}]
  /\ round' = [round EXCEPT ![l] = "poll"]
  /\ UNCHANGED <<connVars, channelVars, out, active, current, revents, pending, running,
                 sender, peerVars, history>>

\* handleEvent calls error, read and write in this order.
First(evs, ev) == /\ ev \in evs
                  /\ ev = "read" => "error" \notin evs
                  /\ ev = "write" => evs = {"write"}

\* The callback ev of channel c is next on loop l, and it is called.
Calls(l, c, ev) ==
  /\ round[l] = "events" /\ sender[l] = Nobody
  /\ c \in active[l] /\ current[l] \in {c, Nobody} /\ First(revents[c], ev)
  /\ revents' = [revents EXCEPT ![c] = @ \ {ev}]
  /\ IF revents[c] = {ev}
     THEN /\ active' = [active EXCEPT ![l] = @ \ {c}]
          /\ current' = [current EXCEPT ![l] = Nobody]
     ELSE /\ current' = [current EXCEPT ![l] = c]
          /\ UNCHANGED active
  /\ UNCHANGED <<round, running, kept>>

------------------------------------------------------------------------------
(* The base loop: Acceptor::handleRead and TcpServer::newConnection.       *)

Lowest(x, S) == x \in S /\ \A y \in S : x <= y

AcceptorReads == /\ round[Base] = "events" /\ Acceptor \in active[Base]
                 /\ active' = [active EXCEPT ![Base] = {}]
                 /\ UNCHANGED <<round, current, revents, running, kept>>

Accept(c) ==
  /\ AcceptorReads
  /\ c \in Backlog
  /\ \E x \in Fds : Lowest(x, FreeFds) /\ fd' = [fd EXCEPT ![c] = x]
  /\ loop' = [loop EXCEPT ![c] = Workers[next]]
  /\ next' = IF next = Len(Workers) THEN 1 ELSE next + 1
  /\ state' = [state EXCEPT ![c] = "connecting"]
  /\ connections' = connections \cup {c}
  /\ queueInLoop(Workers[next], Functor("established", c))
  /\ UNCHANGED <<halfClosed, channelVars, out, sender, peerVars, history>>

\* EMFILE: the spare descriptor accepts the connection and closes it.
AcceptFails(c) ==
  /\ AcceptorReads
  /\ c \in Backlog /\ FreeFds = {}
  /\ peer' = [peer EXCEPT ![c] = "refused"]
  /\ UNCHANGED <<connVars, channelVars, out, pending, sender, inbox, requests, history>>

------------------------------------------------------------------------------
(* The callbacks of a channel, on the loop of the connection.              *)

\* The message callback answers the client.
Reply(c) == /\ "reply" \in Reactions
            /\ IF state[c] = "connected" THEN sendInLoop(c)
                                       ELSE UNCHANGED <<out, channelVars, cut>>
            /\ UNCHANGED <<connVars, pending, sender, overtaken>>

\* It sends to a connection that is up, of its own loop.
ForwardHere(c, l) ==
  /\ "forward" \in Reactions
  /\ \E d \in Conns \ {c} :
       /\ Alive(d) /\ loop[d] = l /\ state[d] = "connected"
       /\ sendInLoop(d)
  /\ UNCHANGED <<connVars, pending, sender, overtaken>>

\* It sends to a connection of another loop, which it found connected.
ForwardAway(c, l) ==
  /\ "forward" \in Reactions
  /\ \E d \in Conns \ {c} :
       /\ Alive(d) /\ loop[d] # l /\ state[d] = "connected"
       /\ sender' = [sender EXCEPT ![l] = d]
  /\ UNCHANGED <<connVars, channelVars, out, pending, lost>>

\* The package is wrong: ChatSession::onRead closes the connection.
Refuse(c) == /\ "close" \in Reactions
             /\ forceClose(c)
             /\ UNCHANGED <<loop, fd, next, connections, halfClosed, channelVars,
                            out, sender, lost>>

\* It closes its writing side (TcpClient::disconnect does; ChatSession never).
HalfClose(c) == /\ "shutdown" \in Reactions
                /\ shutdown(c)
                /\ UNCHANGED <<loop, fd, next, connections, channelVars, out, pending, sender,
                               cut>>

MessageCallback(c, l) ==
  Reply(c) \/ ForwardHere(c, l) \/ ForwardAway(c, l) \/ Refuse(c) \/ HalfClose(c)

\* handleRead with data: it does not look at m_state.  After the DOWN of the
\* connection the session the callback is bound to is gone.
ReadData(l, c) ==
  /\ Calls(l, c, "read")
  /\ inbox[c]
  /\ inbox' = [inbox EXCEPT ![c] = FALSE]
  /\ \/ state[c] # "disconnected" /\ MessageCallback(c, l) /\ UNCHANGED orphans
     \/ /\ state[c] = "disconnected"
        /\ orphans' = orphans \cup {c}
        /\ UNCHANGED <<connVars, channelVars, out, pending, sender, lost>>
  /\ UNCHANGED <<peer, requests, told, late>>

\* handleRead at the end of the stream or on an error.
ReadEnd(l, c) ==
  /\ Calls(l, c, "read")
  /\ ~inbox[c]
  /\ handleClose(c, l)
  /\ UNCHANGED <<loop, fd, next, connections, halfClosed, out, sender, peerVars,
                 late, orphans, lost>>

handleError(l, c) ==
  /\ Calls(l, c, "error")
  /\ handleClose(c, l)
  /\ UNCHANGED <<loop, fd, next, connections, halfClosed, out, sender, peerVars,
                 late, orphans, lost>>

\* handleWrite: what waits is written.  With m_state kDisconnecting it calls
\* shutdown, which does nothing but with m_state kConnected.
handleWrite(l, c) ==
  /\ Calls(l, c, "write")
  /\ \/ /\ isWriting(c) /\ peer[c] # "reset" /\ ~halfClosed[c]
        /\ out' = [out EXCEPT ![c] = FALSE]
        /\ updateChannel(c, events[c] \ {"write"})
        /\ IF state[c] = "disconnecting" THEN shutdown(c)
           ELSE UNCHANGED <<state, halfClosed, overtaken>>
     \/ /\ ~isWriting(c) \/ peer[c] = "reset" \/ halfClosed[c]
        /\ UNCHANGED <<out, channelVars, state, halfClosed, overtaken>>
  /\ UNCHANGED <<loop, fd, next, connections, pending, sender, peerVars, told, late, orphans,
                 cut>>

\* The rest of a send to another loop: by now the connection may be closed.
PushSend(l) ==
  /\ sender[l] # Nobody
  /\ LET d == sender[l]
     IN  /\ queueInLoop(loop[d], Functor("send", d))
         /\ late' = IF state[d] = "disconnected" THEN late \cup {d} ELSE late
  /\ sender' = [sender EXCEPT ![l] = Nobody]
  /\ UNCHANGED <<connVars, channelVars, out, round, active, current, revents, running, kept,
                 peerVars, told, orphans, lost>>

------------------------------------------------------------------------------
(* The functors, on the loop they were queued to.                          *)

\* The functor fn of c is next on loop l, and it is called.
Runs(l, fn, c) ==
  /\ round[l] = "functors" /\ running[l] # <<>>
  /\ Head(running[l]) = Functor(fn, c)
  /\ running' = [running EXCEPT ![l] = Tail(@)]
  /\ kept' = [kept EXCEPT ![l] = IF fn = "send" THEN @ ELSE @ \cup {c}]
  /\ UNCHANGED <<round, active, current, revents, sender>>

connectEstablished(l, c) ==
  /\ Runs(l, "established", c)
  /\ IF state[c] = "connecting"
     THEN /\ state' = [state EXCEPT ![c] = "connected"]
          /\ updateChannel(c, {"read"})
          /\ told' = [told EXCEPT ![c] = Append(@, "UP")]
     ELSE UNCHANGED <<state, channelVars, told>>
  /\ UNCHANGED <<loop, fd, next, connections, halfClosed, out, pending, peerVars,
                 late, orphans, lost>>

\* The functor of a send.  On an object that is gone its effect is undefined;
\* it is left out here, and TargetsAlive says when that can happen.
RunSend(l, c) ==
  /\ Runs(l, "send", c)
  /\ IF Alive(c) THEN sendInLoop(c) ELSE UNCHANGED <<out, channelVars, cut>>
  /\ UNCHANGED <<connVars, pending, peerVars, told, late, orphans, overtaken>>

forceCloseInLoop(l, c) ==
  /\ Runs(l, "forceClose", c)
  /\ handleClose(c, l)
  /\ UNCHANGED <<loop, fd, next, connections, halfClosed, out, peerVars,
                 late, orphans, lost>>

\* Mutation: the base loop drops the connection without asking its loop.
RemoveOnly(c) ==
  /\ Runs(Base, "removed", c)
  /\ connections' = connections \ {c}
  /\ UNCHANGED <<state, loop, fd, next, halfClosed, channelVars, out, pending,
                 peerVars, history>>

\* Mutation: the base loop tells the loop but keeps its own pointer.
RemoveForgets(c) ==
  /\ Runs(Base, "removed", c)
  /\ queueInLoop(loop[c], Functor("destroyed", c))
  /\ UNCHANGED <<connVars, channelVars, out, peerVars, history>>

removeConnectionInLoop(c) ==
  /\ Runs(Base, "removed", c)
  /\ IF c \in connections THEN queueInLoop(loop[c], Functor("destroyed", c))
                          ELSE UNCHANGED pending
  /\ connections' = connections \ {c}
  /\ UNCHANGED <<state, loop, fd, next, halfClosed, channelVars, out,
                 peerVars, history>>

\* m_state is kDisconnected by now: only ~TcpServer calls it otherwise.
connectDestroyed(l, c) ==
  /\ Runs(l, "destroyed", c)
  /\ state[c] # "connected"
  /\ removeChannel(c)
  /\ UNCHANGED <<connVars, out, pending, peerVars, history>>

------------------------------------------------------------------------------
Client(c) == Dial(c) \/ Request(c) \/ Leave(c) \/ Reset(c)

Loop(l) == \/ Poll(l) \/ TakeFunctors(l) \/ EndBatch(l) \/ PushSend(l)
           \/ \E c \in Conns :
                \/ l = Base /\ (Accept(c) \/ AcceptFails(c) \/ removeConnectionInLoop(c))
                \/ ReadData(l, c) \/ ReadEnd(l, c) \/ handleError(l, c) \/ handleWrite(l, c)
                \/ connectEstablished(l, c) \/ RunSend(l, c)
                \/ forceCloseInLoop(l, c) \/ connectDestroyed(l, c)

Next == (\E c \in Conns : Client(c)) \/ \E l \in Loops : Loop(l)

Spec == Init /\ [][Next]_vars

\* Every loop thread runs.
FairSpec == Spec /\ \A l \in Loops : WF_vars(Loop(l))

------------------------------------------------------------------------------
Fns == {"established", "send", "forceClose", "removed", "destroyed"}
Functors == { Functor(fn, c) : fn \in Fns, c \in Conns }
Tables == UNION { [D -> Conns] : D \in SUBSET Fds }

\* In particular no callback or functor waits on a loop other than that of its
\* connection, and a connection is told UP once, then DOWN once.
ServerTypeOK ==
  /\ peer \in [Conns -> {"absent", "open", "closed", "reset", "refused"}]
  /\ inbox \in [Conns -> BOOLEAN] /\ out \in [Conns -> BOOLEAN]
  /\ state \in [Conns -> {"none", "connecting", "connected", "disconnecting", "disconnected"}]
  /\ loop \in [Conns -> Loops] /\ fd \in [Conns -> Fds \cup {0}]
  /\ next \in 1..Len(Workers)
  /\ connections \subseteq Conns
  /\ events \in [Conns -> SUBSET {"read", "write"}]
  /\ index \in [Conns -> {"new", "added", "deleted"}]
  /\ channels \in [Loops -> Tables]
  /\ halfClosed \in [Conns -> BOOLEAN]
  /\ round \in [Loops -> {"poll", "events", "functors"}]
  /\ active \in [Loops -> SUBSET (Conns \cup {Acceptor})]
  /\ current \in [Loops -> Conns \cup {Nobody}]
  /\ revents \in [Conns -> SUBSET {"error", "read", "write"}]
  /\ pending \in [Loops -> Seq(Functors)] /\ running \in [Loops -> Seq(Functors)]
  /\ active[Base] \subseteq {Acceptor}
  /\ \A f \in Queued(Base) : f.fn = "removed"
  /\ \A l \in WorkerLoops :
       /\ \A c \in active[l] : c \in Conns /\ loop[c] = l
       /\ \A f \in Queued(l) : f.fn # "removed" /\ loop[f.conn] = l
  /\ kept \in [Loops -> SUBSET Conns] /\ sender \in [Loops -> Conns \cup {Nobody}]
  /\ requests \in 0..MaxRequests
  /\ told \in [Conns -> {<<>>, <<"UP">>, <<"UP", "DOWN">>}]
  /\ late \subseteq Conns /\ orphans \subseteq Conns

\* Type invariant.
TypeOK == ServerTypeOK /\ cut \subseteq Conns /\ overtaken \subseteq Conns

Life == INSTANCE ConnLife WITH live <- { c \in Conns : Alive(c) }

\* However the loops interleave, a connection that is accepted is reported UP
\* once, then DOWN once, and its object is released after that, never before.
ImplementsLife == Life!Spec

\* Nobody is called on an object that is gone: neither a channel poll found ready
\* nor a functor that was queued, the bare ones of send included.  The exception is
\* a send whose test of the state was overtaken by the close.
TargetsAlive ==
  \A l \in Loops :
    /\ l # Base => \A c \in active[l] : Alive(c)
    /\ \A f \in Queued(l) : Alive(f.conn) \/ f.conn \in late

\* The message callback runs after the DOWN of its connection only when the
\* client resets a connection with data still unread.
OrphansOnlyByReset == \A c \in orphans : peer[c] = "reset"

\* A connection that is up is watched by its poller, unless a dead connection of
\* the same loop had the same descriptor.
UnwatchedOnlyByReuse ==
  \A c \in Conns :
    state[c] \in {"connected", "disconnecting"} /\ ~Registered(c) =>
      Known(c) /\ ~Mine(c) /\ ~Alive(channels[loop[c]][fd[c]])

\* shutdown closes the writing side only when all output the loop of the connection
\* has accepted is with the socket, and what is refused afterwards is a send of another
\* loop which had found the connection up, and which shutdown overtook on its way there
\* (TcpConnection.cpp:64-74, :140-153).
CutOnlyIfOvertaken ==
  /\ \A c \in Conns : halfClosed[c] => ~out[c] /\ ~isWriting(c)
  /\ cut \subseteq overtaken

\* A connection that is watched and whose client is gone, or which the server
\* decided to close, is released in the end, whatever else the loops do.
GoneIsReleased ==
  \A c \in Conns :
    (/\ Registered(c)
     /\ \/ peer[c] \in {"closed", "reset"}
        \/ \E f \in Queued(loop[c]) : f = Functor("forceClose", c)) ~> ~Alive(c)
==============================================================================
