---------------------------- MODULE Shutdown_proofs ----------------------------
(***************************************************************************)
(* Theorems about Shutdown, for any workers and connections: who is told   *)
(* of the end, and what can reach a loop that has ended.                   *)
(*                                                                         *)
(* The invariant follows a connection that is up and no longer in          *)
(* m_connections to the connectDestroyed that takes it down: in the batch  *)
(* the loop is calling, or in the queue of a loop that has yet to look.    *)
(***************************************************************************)
EXTENDS Shutdown, SequenceTheorems, TLAPS

------------------------------------------------------------------------------
(* The invariant.                                                          *)

Est(c) == Functor("established", c)
Gone(c) == Functor("destroyed", c)
Refused(c) == Functor("forceClose", c)
Waiting(w) == ToSet(pending[w])
Batch(w) == ToSet(running[w])
NotQueued(c) == \A w \in Pool : \A f \in Waiting(w) \cup Batch(w) : f.conn # c
Down == {"disconnected"}
Up == {"connected", "disconnecting"}

\* What was told is what the state says.
ToldIsState ==
  \A c \in Conns : /\ state[c] \in {"none", "connecting"} => told[c] = <<>>
                   /\ state[c] \in Up => told[c] = <<"UP">>
                   /\ state[c] = "disconnected" => told[c] = <<"UP", "DOWN">>

\* A new connection is nowhere.
NewAreUnknown == \A c \in Conns : state[c] = "none" => c \notin connections /\ NotQueued(c)

RemovalsDown == \A c \in ToSet(removals) : state[c] = "disconnected"

\* connectEstablished of a connection comes before its connectDestroyed.
Ordered(s, c) == \A i, j \in 1..Len(s) : s[i] = Est(c) /\ s[j] = Gone(c) => i < j
EstFirst == \A w \in Pool, c \in Conns :
  /\ Ordered(running[w], c) /\ Ordered(pending[w], c)
  /\ Est(c) \in Waiting(w) => Gone(c) \notin Batch(w)

BatchInCall == \A w \in Pool : running[w] # <<>> \/ kept[w] # {} => loopPc[w] = "functors"
KeptHere == \A w \in Pool : \A c \in kept[w] : loop[c] = w /\ state[c] # "none"
SendersUp == \A w \in Pool : sender[w] # Nobody => state[sender[w]] \in Up \cup Down

NotYetUp == \A c \in Conns :
  loopPc[loop[c]] = "entering" => state[c] \in {"none", "connecting"}

\* Every connection that was forgotten, or is to be, meets its end.
ConnectedEnds == \A c \in Conns :
  state[c] = "connected" /\ c \notin connections /\ c \notin tardy =>
    \/ Gone(c) \in Batch(loop[c])
    \/ Gone(c) \in Waiting(loop[c]) /\ loopPc[loop[c]] \in {"poll", "events", "blocked"}
ConnectingEnds == \A c \in Conns :
  state[c] = "connecting" /\ c \notin connections /\ c \notin tardy
  /\ Est(c) \in Waiting(loop[c]) \cup Batch(loop[c]) =>
    Gone(c) \in Waiting(loop[c]) \cup Batch(loop[c])
LateAreTardy == \A c \in Conns :
  loopPc[loop[c]] = "functors" /\ Gone(c) \in Waiting(loop[c])
  /\ state[c] \in {"connecting", "connected"} => c \in tardy
RefusedEnds == \A c \in Conns :
  state[c] = "disconnecting" =>
    \/ Refused(c) \in Batch(loop[c])
    \/ Refused(c) \in Waiting(loop[c]) /\ loopPc[loop[c]] \in {"events", "blocked"}

Sessions == /\ ToldIsState /\ NewAreUnknown /\ RemovalsDown /\ EstFirst /\ BatchInCall /\ KeptHere
            /\ SendersUp /\ NotYetUp
            /\ ConnectedEnds /\ ConnectingEnds /\ LateAreTardy /\ RefusedEnds

\* Loops quit, and end, after all connections were destroyed.
Ending == {"destroying", "joining", "notifying", "closing", "ended", "forever", "undefined"}
QuitAfterDestroy ==
  \A w \in Pool : /\ loopPc[w] = "exited" => isQuited[w] /\ pending[w] = <<>>
                  /\ isQuited[w] => connections = {} /\ basePc \in Ending

\* The functor in the hands of the base thread.
BoundOK ==
  /\ bound.fn \in {"established", "removed", "destroyed", "none"}
  /\ basePc \in Outside => caught = "no"
  /\ bound.fn = "established" =>
       /\ state[bound.conn] \in {"none", "connecting"} /\ NotQueued(bound.conn)
       /\ bound.conn \in connections => Here("queueing") \/ basePc = "aborted"
  /\ bound.fn \in {"removed", "destroyed"} => state[bound.conn] = "disconnected"
  /\ basePc = "logging" => bound.fn \in {"established", "removed"}
  /\ basePc = "adding" => bound.fn = "established"
  /\ basePc = "removing" => bound.fn = "removed"
  /\ basePc = "queueing" => \/ bound.fn = "established" /\ bound.conn \in connections
                            \/ bound.fn = "destroyed"
  /\ basePc = "joining" => turn <= Len(Workers)

IInv == ServerTypeOK /\ Sessions /\ QuitAfterDestroy /\ BoundOK

------------------------------------------------------------------------------
(* Sequences of functors as sets, and their order.                         *)

LEMMA AppendSet ==
  ASSUME NEW S, NEW s \in Seq(S), NEW e \in S
  PROVE  Append(s, e) \in Seq(S) /\ ToSet(Append(s, e)) = ToSet(s) \cup {e}
<1>1. /\ Append(s, e) \in Seq(S) /\ Len(Append(s, e)) = Len(s) + 1 /\ Len(s) \in Nat
      /\ \A i \in 1..Len(s) : Append(s, e)[i] = s[i]
      /\ Append(s, e)[Len(s) + 1] = e
  BY AppendProperties
<1>2. /\ ToSet(s) = {s[i] : i \in 1..Len(s)}
      /\ ToSet(Append(s, e)) = {Append(s, e)[i] : i \in 1..Len(s) + 1}
  BY <1>1 DEF ToSet
<1>3. ASSUME NEW x \in ToSet(s) PROVE x \in ToSet(Append(s, e))
  <2>1. PICK i \in 1..Len(s) : x = s[i]
    BY <1>2
  <2> QED BY <1>1, <1>2, <2>1
<1>4. e \in ToSet(Append(s, e))
  BY <1>1, <1>2
<1>5. ASSUME NEW x \in ToSet(Append(s, e)), x # e PROVE x \in ToSet(s)
  <2>1. PICK i \in 1..Len(s) + 1 : x = Append(s, e)[i]
    BY <1>2
  <2>2. i \in 1..Len(s)
    BY <1>1, <1>5, <2>1
  <2> QED BY <1>1, <1>2, <2>1, <2>2
<1> QED BY <1>1, <1>3, <1>4, <1>5

LEMMA TailSet ==
  ASSUME NEW S, NEW s \in Seq(S), s # <<>>
  PROVE  /\ Tail(s) \in Seq(S) /\ Head(s) \in S
         /\ ToSet(s) = ToSet(Tail(s)) \cup {Head(s)}
<1>1. /\ Head(s) \in S /\ Tail(s) \in Seq(S) /\ Len(Tail(s)) = Len(s) - 1
      /\ \A i \in 1..Len(Tail(s)) : Tail(s)[i] = s[i + 1]
  BY HeadTailProperties
<1>2. Len(s) \in Nat \ {0} /\ Head(s) = s[1]
  OBVIOUS
<1>3. /\ ToSet(s) = {s[i] : i \in 1..Len(s)}
      /\ ToSet(Tail(s)) = {Tail(s)[i] : i \in 1..Len(s) - 1}
  <2>1. DOMAIN s = 1..Len(s) /\ DOMAIN Tail(s) = 1..Len(Tail(s))
    BY <1>1
  <2> QED BY <1>1, <2>1 DEF ToSet
<1>4. ASSUME NEW x \in ToSet(Tail(s)) PROVE x \in ToSet(s)
  <2>1. PICK i \in 1..Len(s) - 1 : x = Tail(s)[i]
    BY <1>3
  <2>2. i + 1 \in 1..Len(s) /\ x = s[i + 1]
    BY <1>1, <1>2, <2>1
  <2> QED BY <1>3, <2>2
<1>5. Head(s) \in ToSet(s)
  BY <1>2, <1>3
<1>6. ASSUME NEW x \in ToSet(s), x # Head(s) PROVE x \in ToSet(Tail(s))
  <2>1. PICK i \in 1..Len(s) : x = s[i]
    BY <1>3
  <2>2. i - 1 \in 1..Len(s) - 1 /\ Tail(s)[i - 1] = s[(i - 1) + 1]
    BY <1>1, <1>2, <1>6, <2>1
  <2>3. x = Tail(s)[i - 1]
    BY <2>1, <2>2
  <2> QED BY <1>3, <2>2, <2>3
<1> QED BY <1>1, <1>4, <1>5, <1>6

LEMMA SetOfSeq ==
  ASSUME NEW S, NEW s \in Seq(S)
  PROVE  /\ ToSet(s) \subseteq S
         /\ s = <<>> <=> ToSet(s) = {}
<1>1. ToSet(s) = {s[i] : i \in 1..Len(s)} /\ Len(s) \in Nat
  BY DEF ToSet
<1>2. ToSet(s) \subseteq S
  BY <1>1
<1>3. ASSUME s = <<>> PROVE ToSet(s) = {}
  BY <1>1, <1>3
<1>4. ASSUME s # <<>> PROVE ToSet(s) # {}
  <2>1. 1 \in 1..Len(s)
    BY <1>1, <1>4
  <2> QED BY <1>1, <2>1
<1> QED BY <1>2, <1>3, <1>4

LEMMA NoFunctors == <<>> \in Seq(Functors) /\ ToSet(<<>>) = {} /\ \A c : Ordered(<<>>, c)
<1>1. <<>> \in Seq(Functors)
  OBVIOUS
<1>2. ToSet(<<>>) = {}
  BY <1>1, SetOfSeq
<1>3. 1..Len(<<>>) = {}
  OBVIOUS
<1> QED BY <1>1, <1>2, <1>3 DEF Ordered

\* established and destroyed of one connection are two functors.
LEMMA FunctorsDiffer ==
  ASSUME NEW c, NEW d
  PROVE  /\ Est(c).conn = c /\ Gone(c).conn = c /\ Refused(c).conn = c /\ Functor("send", c).conn = c
         /\ Est(c) # Gone(d) /\ Est(c) # Refused(d) /\ Gone(c) # Refused(d)
         /\ Functor("send", c) # Est(d) /\ Functor("send", c) # Gone(d)
         /\ Functor("send", c) # Refused(d)
BY DEF Est, Gone, Refused, Functor

LEMMA OrderedAppend ==
  ASSUME NEW s \in Seq(Functors), NEW f \in Functors, NEW c \in Conns, Ordered(s, c),
         f = Est(c) => Gone(c) \notin ToSet(s)
  PROVE  Ordered(Append(s, f), c)
<1> SUFFICES ASSUME NEW i \in 1..Len(s) + 1, NEW j \in 1..Len(s) + 1,
                    Append(s, f)[i] = Est(c), Append(s, f)[j] = Gone(c)
             PROVE  i < j
  BY AppendProperties DEF Ordered
<1>1. /\ Len(s) \in Nat /\ Append(s, f)[Len(s) + 1] = f
      /\ \A k \in 1..Len(s) : Append(s, f)[k] = s[k]
  BY AppendProperties
<1>2. CASE j = Len(s) + 1
  <2>1. i # j
    BY FunctorsDiffer
  <2> QED BY <1>1, <1>2, <2>1
<1>3. CASE j # Len(s) + 1 /\ i # Len(s) + 1
  <2>1. i \in 1..Len(s) /\ j \in 1..Len(s)
    BY <1>1, <1>3
  <2> QED BY <1>1, <2>1 DEF Ordered
<1>4. CASE j # Len(s) + 1 /\ i = Len(s) + 1
  <2>1. j \in 1..Len(s) /\ s[j] = Gone(c) /\ f = Est(c)
    BY <1>1, <1>4
  <2>2. Gone(c) \in ToSet(s)
    BY <2>1 DEF ToSet
  <2> QED BY <2>1, <2>2
<1> QED BY <1>2, <1>3, <1>4

LEMMA OrderedTail ==
  ASSUME NEW s \in Seq(Functors), s # <<>>, NEW c \in Conns, Ordered(s, c)
  PROVE  /\ Ordered(Tail(s), c)
         /\ Head(s) = Gone(c) => Est(c) \notin ToSet(Tail(s))
<1>1. /\ Tail(s) \in Seq(Functors) /\ Len(Tail(s)) = Len(s) - 1 /\ Len(s) \in Nat \ {0}
      /\ \A i \in 1..Len(Tail(s)) : Tail(s)[i] = s[i + 1]
      /\ Head(s) = s[1]
  BY HeadTailProperties
<1>2. ASSUME NEW i \in 1..Len(Tail(s)), NEW j \in 1..Len(Tail(s)),
             Tail(s)[i] = Est(c), Tail(s)[j] = Gone(c)
      PROVE  i < j
  <2>1. i + 1 \in 1..Len(s) /\ j + 1 \in 1..Len(s) /\ s[i + 1] = Est(c) /\ s[j + 1] = Gone(c)
    BY <1>1, <1>2
  <2>2. i + 1 < j + 1
    BY <2>1 DEF Ordered
  <2> QED BY <1>1, <2>2
<1>3. ASSUME Head(s) = Gone(c), Est(c) \in ToSet(Tail(s)) PROVE FALSE
  <2>1. PICK i \in 1..Len(Tail(s)) : Tail(s)[i] = Est(c)
    BY <1>1, <1>3 DEF ToSet
  <2>2. /\ i + 1 \in 1..Len(s) /\ 1 \in 1..Len(s) /\ s[i + 1] = Est(c) /\ s[1] = Gone(c)
    BY <1>1, <1>3, <2>1
  <2>3. i + 1 < 1
    BY <2>2 DEF Ordered
  <2> QED BY <1>1, <2>3
<1> QED BY <1>2, <1>3 DEF Ordered

\* A connection is told UP, then DOWN.
LEMMA Told == Append(<<>>, "UP") = <<"UP">> /\ Append(<<"UP">>, "DOWN") = <<"UP", "DOWN">>
<1> DEFINE T == {"UP", "DOWN"}
<1>1. <<>> \in Seq(T) /\ <<"UP">> \in Seq(T) /\ <<"UP", "DOWN">> \in Seq(T)
  OBVIOUS
<1>2. /\ Append(<<>>, "UP") \in Seq(T) /\ Len(Append(<<>>, "UP")) = 1
      /\ Append(<<>>, "UP")[1] = "UP"
  BY <1>1, AppendProperties
<1>3. /\ Append(<<"UP">>, "DOWN") \in Seq(T) /\ Len(Append(<<"UP">>, "DOWN")) = 2
      /\ Append(<<"UP">>, "DOWN")[1] = "UP" /\ Append(<<"UP">>, "DOWN")[2] = "DOWN"
  <2>1. Len(<<"UP">>) = 1 /\ 1 \in 1..Len(<<"UP">>) /\ <<"UP">>[1] = "UP"
    OBVIOUS
  <2> QED BY <1>1, <2>1, AppendProperties
<1>4. <<"UP">>[1] = "UP" /\ Len(<<"UP">>) = 1
  OBVIOUS
<1>5. <<"UP", "DOWN">>[1] = "UP" /\ <<"UP", "DOWN">>[2] = "DOWN" /\ Len(<<"UP", "DOWN">>) = 2
  OBVIOUS
<1> HIDE DEF T
<1>6. Append(<<>>, "UP") = <<"UP">>
  <2>1. \A i \in 1..Len(Append(<<>>, "UP")) : Append(<<>>, "UP")[i] = <<"UP">>[i]
    BY <1>2, <1>4
  <2> QED BY <1>1, <1>2, <1>4, <2>1, SeqEqual
<1>7. Append(<<"UP">>, "DOWN") = <<"UP", "DOWN">>
  <2>1. \A i \in 1..Len(Append(<<"UP">>, "DOWN")) : Append(<<"UP">>, "DOWN")[i] = <<"UP", "DOWN">>[i]
    BY <1>3, <1>5
  <2> QED BY <1>1, <1>3, <1>5, <2>1, SeqEqual
<1> QED BY <1>6, <1>7

LEMMA Loops == /\ Workers \in Seq(Pool) /\ Len(Workers) \in Nat \ {0}
               /\ \A i \in 1..Len(Workers) : Workers[i] \in Pool
BY ShutdownAssumption

LEMMA FunctorType ==
  /\ \A f \in Functors : /\ f.conn \in Conns /\ f = Functor(f.fn, f.conn)
                         /\ f.fn \in {"established", "destroyed", "forceClose", "send"}
  /\ \A c \in Conns : /\ Est(c) \in Functors /\ Gone(c) \in Functors /\ Refused(c) \in Functors
                      /\ Functor("send", c) \in Functors
<1>1. ASSUME NEW f \in Functors
      PROVE  /\ f.conn \in Conns /\ f = Functor(f.fn, f.conn)
             /\ f.fn \in {"established", "destroyed", "forceClose", "send"}
  <2>1. PICK fn \in {"established", "destroyed", "forceClose", "send"}, c \in Conns :
          f = Functor(fn, c)
    BY DEF Functors
  <2>2. f.fn = fn /\ f.conn = c
    BY <2>1 DEF Functor
  <2> QED BY <2>1, <2>2
<1>2. \A c \in Conns : /\ Est(c) \in Functors /\ Gone(c) \in Functors /\ Refused(c) \in Functors
                       /\ Functor("send", c) \in Functors
  BY DEF Functors, Est, Gone, Refused
<1> QED BY <1>1, <1>2

LEMMA BoundType ==
  ASSUME ServerTypeOK
  PROVE  /\ bound.fn \in {"established", "destroyed", "removed"} => bound.conn \in Conns
         /\ bound.fn = "established" => bound = Est(bound.conn)
         /\ bound.fn = "destroyed" => bound = Gone(bound.conn)
         /\ bound.fn \in {"established", "destroyed"} => bound \in Functors
         /\ NoFunctor.fn = "none"
BY FunctorType DEF ServerTypeOK, Functors, Functor, NoFunctor, Est, Gone

\* What ServerTypeOK says of the queues, as sets.
LEMMA QueueType ==
  ASSUME ServerTypeOK, NEW w \in Pool
  PROVE  /\ pending[w] \in Seq(Functors) /\ running[w] \in Seq(Functors)
         /\ Waiting(w) \subseteq Functors /\ Batch(w) \subseteq Functors
         /\ pending[w] = <<>> <=> Waiting(w) = {}
         /\ running[w] = <<>> <=> Batch(w) = {}
         /\ \A f \in Waiting(w) \cup Batch(w) : loop[f.conn] = w
<1>1. pending[w] \in Seq(Functors) /\ running[w] \in Seq(Functors)
  BY DEF ServerTypeOK
<1>2. \A f \in Waiting(w) \cup Batch(w) : loop[f.conn] = w
  BY DEF ServerTypeOK, Queued, Waiting, Batch
<1> QED BY <1>1, <1>2, SetOfSeq DEF Waiting, Batch

------------------------------------------------------------------------------
LEMMA InitInv == Init => IInv
<1> SUFFICES ASSUME Init PROVE IInv
  OBVIOUS
<1>1. \A w \in Pool : pending[w] = <<>> /\ running[w] = <<>> /\ Waiting(w) = {} /\ Batch(w) = {}
  BY NoFunctors DEF Init, Waiting, Batch
<1>2. ServerTypeOK
  <2>1. \A w \in Pool : Queued(w) = {}
    BY <1>1 DEF Queued, Waiting, Batch
  <2>2. <<>> \in Seq(Conns) /\ ToSet(<<>>) = {}
    BY NoFunctors
  <2> QED BY <2>1, <2>2, NoFunctors, Loops, ShutdownAssumption DEF Init, ServerTypeOK, Outside, NoFunctor
<1>3. Sessions
  <2>1. ToSet(removals) = {}
    BY NoFunctors DEF Init
  <2> QED BY <1>1, <2>1, NoFunctors
    DEF Init, Sessions, ToldIsState, NewAreUnknown, NotQueued, RemovalsDown, EstFirst, BatchInCall,
        KeptHere, SendersUp, NotYetUp, ConnectedEnds, ConnectingEnds, LateAreTardy, RefusedEnds, Up
<1>4. QuitAfterDestroy /\ BoundOK
  <2>1. bound.fn = "none"
    BY DEF Init, NoFunctor, Functor
  <2> QED BY <2>1 DEF Init, QuitAfterDestroy, BoundOK
<1> QED BY <1>2, <1>3, <1>4 DEF IInv

\* Where the base thread is says nothing about sessions.
LEMMA SessionsKept ==
  ASSUME Sessions, UNCHANGED <<serverVars, loopVars, tardy>>
  PROVE  Sessions'
BY DEF Sessions, ToldIsState, NewAreUnknown, NotQueued, RemovalsDown, EstFirst, BatchInCall,
       KeptHere, SendersUp, NotYetUp, ConnectedEnds, ConnectingEnds, LateAreTardy, RefusedEnds,
       Waiting, Batch, serverVars, loopVars

\* Steps of the base thread that change nothing but where it is.
LEMMA MovesInv ==
  ASSUME IInv, Enter \/ Logged \/ Signal \/ SignalElsewhere \/ Join \/ Stop \/ NotifyOne \/ JoinWriter
  PROVE  IInv'
<1> USE DEF IInv
<1>1. UNCHANGED <<bound, nextLoop, serverVars, loopVars, tardy>>
  BY DEF Enter, Logged, Signal, SignalElsewhere, Join, Stop, NotifyOne, JoinWriter
<1>2. Sessions'
  BY <1>1, SessionsKept
<1>3. ServerTypeOK'
  <2>1. basePc' \in Outside \cup {"destroying", "joining", "notifying", "closing", "ended", "forever",
                               "undefined", "aborted"}
    BY DEF Enter, Logged, Signal, SignalElsewhere, Join, Stop, NotifyOne, JoinWriter, Goto, Outside, Resumed
  <2>2. caught' \in Outside \cup {"no"}
    BY DEF Enter, Logged, Signal, SignalElsewhere, Join, Stop, NotifyOne, JoinWriter, ServerTypeOK
  <2>3. turn' \in 1..Len(Workers) + 1
    <3>1. CASE Join
      BY <3>1, Loops DEF Join, Goto, ServerTypeOK, BoundOK
    <3> QED BY <3>1 DEF Enter, Logged, Signal, SignalElsewhere, Stop, NotifyOne, JoinWriter, ServerTypeOK
  <2> QED BY <1>1, <2>1, <2>2, <2>3 DEF ServerTypeOK, Queued, serverVars, loopVars
<1>4. QuitAfterDestroy'
  <2>1. basePc \in Ending => basePc' \in Ending
    BY DEF Enter, Logged, Signal, SignalElsewhere, Join, Stop, NotifyOne, JoinWriter, Goto, Outside, Resumed, Ending
  <2> QED BY <1>1, <2>1 DEF QuitAfterDestroy, serverVars, loopVars
<1>5. BoundOK'
  <2>1. UNCHANGED <<bound, connections, state>> /\ (NotQueued(bound.conn) => NotQueued(bound.conn)')
    BY <1>1 DEF NotQueued, Waiting, Batch, serverVars, loopVars
  <2>2. CASE Enter \/ Logged
    BY <2>1, <2>2 DEF Enter, Logged, Goto, BoundOK, Outside, Here
  <2>3. CASE Signal
    BY <2>1, <2>3 DEF Signal, BoundOK, Outside, Here
  <2>4. CASE SignalElsewhere
    BY <2>1, <2>4 DEF SignalElsewhere, BoundOK, Outside, Here
  <2>5. CASE Join \/ Stop \/ NotifyOne \/ JoinWriter
    BY <2>1, <2>5 DEF Join, Stop, NotifyOne, JoinWriter, Goto, Resumed, BoundOK, Outside, Here
  <2> QED BY <2>2, <2>3, <2>4, <2>5
<1> QED BY <1>2, <1>3, <1>4, <1>5

------------------------------------------------------------------------------
(* The base thread before the signal: no loop is told to quit.             *)

LEMMA NobodyQuits ==
  ASSUME ServerTypeOK, QuitAfterDestroy, basePc \in Outside, NEW w \in Pool
  PROVE  isQuited[w] = FALSE /\ loopPc[w] # "exited"
BY DEF ServerTypeOK, QuitAfterDestroy, Outside, Ending

\* A new connection may be given to any loop: nothing is known of it.
LEMMA NewConnectionInv == ASSUME IInv, NEW c \in Conns, newConnection(c) PROVE IInv'
<1> USE DEF IInv
<1>1. /\ basePc = "poll" /\ basePc' = "logging" /\ state[c] = "none"
      /\ loop' = [loop EXCEPT ![c] = Workers[nextLoop]]
      /\ bound' = Est(c)
      /\ UNCHANGED <<caught, turn, connections, removals, state, told, loopVars, tardy>>
  BY DEF newConnection, Goto, Est
<1>2. loop' \in [Conns -> Pool] /\ (\A d \in Conns : d # c => loop'[d] = loop[d])
  BY <1>1, Loops DEF ServerTypeOK
<1>3. /\ c \notin connections /\ NotQueued(c) /\ \A w \in Pool : c \notin kept[w]
  BY <1>1 DEF Sessions, NewAreUnknown, KeptHere
<1>4. \A w \in Pool : /\ UNCHANGED <<loopPc, isQuited, pending, running, kept, sender>>
                      /\ Waiting(w)' = Waiting(w) /\ Batch(w)' = Batch(w)
  BY <1>1 DEF loopVars, Waiting, Batch
<1>5. \A w \in Pool : \A f \in Waiting(w) \cup Batch(w) : f.conn \in Conns /\ f.conn # c
  BY <1>3, QueueType, FunctorType DEF NotQueued
<1>6. ServerTypeOK'
  <2>1. nextLoop' \in 1..Len(Workers)
    BY Loops DEF newConnection, ServerTypeOK
  <2>2. \A w \in Pool : \A f \in Queued(w)' : loop'[f.conn] = w
    BY <1>1, <1>2, <1>5, QueueType DEF Queued, Waiting, Batch, loopVars
  <2>3. bound' \in Functors
    BY <1>1, FunctorType
  <2> QED BY <1>1, <1>2, <2>1, <2>2, <2>3 DEF ServerTypeOK, Outside, loopVars
<1>7. Sessions'
  <2>1. /\ ToldIsState' /\ RemovalsDown' /\ BatchInCall' /\ SendersUp'
    BY <1>1, <1>4 DEF Sessions, ToldIsState, RemovalsDown, BatchInCall, SendersUp
  <2>2. NewAreUnknown' /\ EstFirst'
    BY <1>1, <1>4 DEF Sessions, NewAreUnknown, NotQueued, EstFirst
  <2>3. KeptHere'
    BY <1>1, <1>2, <1>3, <1>4 DEF Sessions, KeptHere, ServerTypeOK
  <2>4. NotYetUp' /\ ConnectedEnds' /\ ConnectingEnds' /\ LateAreTardy' /\ RefusedEnds'
    <3> SUFFICES ASSUME NEW d \in Conns, d # c
                 PROVE  /\ NotYetUp!(d)' /\ ConnectedEnds!(d)' /\ ConnectingEnds!(d)'
                        /\ LateAreTardy!(d)' /\ RefusedEnds!(d)'
      BY <1>1 DEF NotYetUp, ConnectedEnds, ConnectingEnds, LateAreTardy, RefusedEnds
    <3> QED
      BY <1>1, <1>2, <1>4
      DEF Sessions, NotYetUp, ConnectedEnds, ConnectingEnds, LateAreTardy, RefusedEnds, ServerTypeOK
  <2> QED BY <2>1, <2>2, <2>3, <2>4 DEF Sessions
<1>8. QuitAfterDestroy'
  BY <1>1, <1>4, NobodyQuits DEF QuitAfterDestroy, Outside
<1>9. BoundOK'
  <2>1. bound'.fn = "established" /\ bound'.conn = c /\ NotQueued(c)'
    BY <1>1, <1>3, <1>4 DEF Est, Functor, NotQueued
  <2> QED BY <1>1, <1>3, <2>1 DEF BoundOK, Outside
<1> QED BY <1>6, <1>7, <1>8, <1>9

LEMMA AddInv == ASSUME IInv, Add PROVE IInv'
<1> USE DEF IInv
<1> DEFINE c == bound.conn
<1>1. /\ basePc = "adding" /\ basePc' = "queueing"
      /\ state' = [state EXCEPT ![c] = "connecting"]
      /\ connections' = connections \cup {c}
      /\ UNCHANGED <<caught, bound, nextLoop, turn, removals, loop, told, loopVars, tardy>>
  BY DEF Add, Goto
<1>2. /\ bound.fn = "established" /\ c \in Conns
      /\ state[c] \in {"none", "connecting"} /\ NotQueued(c)
  BY <1>1, BoundType DEF BoundOK
<1>3. /\ state'[c] = "connecting" /\ \A d \in Conns : d # c => state'[d] = state[d]
      /\ \A d \in Conns : d # c => (d \in connections' <=> d \in connections)
  BY <1>1, <1>2 DEF ServerTypeOK
<1>4. \A w \in Pool : /\ UNCHANGED <<loopPc, isQuited, pending, running, kept, sender>>
                      /\ Waiting(w)' = Waiting(w) /\ Batch(w)' = Batch(w)
  BY <1>1 DEF loopVars, Waiting, Batch
<1>5. ServerTypeOK'
  BY <1>1, <1>2 DEF ServerTypeOK, Outside, loopVars, Queued
<1>6. Sessions'
  <2>1. ToldIsState'
    BY <1>1, <1>2, <1>3 DEF Sessions, ToldIsState, Up
  <2>2. NewAreUnknown'
    BY <1>1, <1>2, <1>3, <1>4 DEF Sessions, NewAreUnknown, NotQueued
  <2>3. RemovalsDown'
    <3>1. ToSet(removals) \subseteq Conns
      BY SetOfSeq DEF ServerTypeOK
    <3> QED BY <1>1, <1>2, <1>3, <3>1 DEF Sessions, RemovalsDown
  <2>4. EstFirst' /\ BatchInCall'
    BY <1>4 DEF Sessions, EstFirst, BatchInCall
  <2>5. KeptHere'
    BY <1>1, <1>3, <1>4 DEF Sessions, KeptHere, ServerTypeOK
  <2>6. SendersUp'
    <3>1. \A w \in Pool : sender[w] # Nobody => sender[w] \in Conns /\ sender[w] # c
      BY <1>2 DEF Sessions, SendersUp, ServerTypeOK, Up, Down
    <3> QED BY <1>3, <1>4, <3>1 DEF Sessions, SendersUp
  <2>9. NotYetUp'
    BY <1>1, <1>3, <1>4 DEF Sessions, NotYetUp, ServerTypeOK
  <2>7. ConnectedEnds' /\ ConnectingEnds' /\ RefusedEnds'
    BY <1>1, <1>3, <1>4 DEF Sessions, ConnectedEnds, ConnectingEnds, RefusedEnds, ServerTypeOK
  <2>8. LateAreTardy'
    <3>1. \A w \in Pool : Gone(c) \notin Waiting(w)
      BY <1>2, FunctorsDiffer DEF NotQueued
    <3> QED BY <1>1, <1>3, <1>4, <3>1 DEF Sessions, LateAreTardy, ServerTypeOK
  <2> QED BY <2>1, <2>2, <2>3, <2>4, <2>5, <2>6, <2>7, <2>8, <2>9 DEF Sessions
<1>7. QuitAfterDestroy'
  BY <1>1, <1>4, NobodyQuits DEF QuitAfterDestroy, Outside
<1>8. BoundOK'
  BY <1>1, <1>2, <1>3, <1>4 DEF BoundOK, Outside, Here, NotQueued
<1> QED BY <1>5, <1>6, <1>7, <1>8

LEMMA RemoveInv == ASSUME IInv, removeConnectionInLoop PROVE IInv'
<1> USE DEF IInv
<1>1. /\ basePc = "poll" /\ basePc' = "logging"
      /\ removals # <<>> /\ removals' = Tail(removals)
      /\ bound' = Functor("removed", Head(removals))
      /\ UNCHANGED <<caught, nextLoop, turn, connections, state, loop, told, loopVars, tardy>>
  BY DEF removeConnectionInLoop, Goto
<1>2. /\ Tail(removals) \in Seq(Conns) /\ Head(removals) \in Conns
      /\ ToSet(removals) = ToSet(Tail(removals)) \cup {Head(removals)}
  BY <1>1, TailSet DEF ServerTypeOK
<1>3. ServerTypeOK'
  BY <1>1, <1>2 DEF ServerTypeOK, Outside, loopVars, Queued
<1>4. Sessions'
  <2>1. RemovalsDown'
    BY <1>1, <1>2 DEF Sessions, RemovalsDown
  <2> QED BY <1>1, <2>1
    DEF Sessions, ToldIsState, NewAreUnknown, NotQueued, EstFirst, BatchInCall,
        KeptHere, SendersUp, NotYetUp, ConnectedEnds, ConnectingEnds, LateAreTardy, RefusedEnds,
        Waiting, Batch, loopVars
<1>5. QuitAfterDestroy'
  BY <1>1, NobodyQuits DEF QuitAfterDestroy, Outside, loopVars
<1>6. BoundOK'
  <2>1. bound'.fn = "removed" /\ state'[bound'.conn] = "disconnected"
    BY <1>1, <1>2 DEF Functor, Sessions, RemovalsDown
  <2> QED BY <1>1, <2>1 DEF BoundOK, Outside
<1> QED BY <1>3, <1>4, <1>5, <1>6

\* What is forgotten here is down.
LEMMA ForgetInv == ASSUME IInv, Forget PROVE IInv'
<1> USE DEF IInv
<1>1. /\ basePc = "removing"
      /\ \/ basePc' = "queueing" /\ bound' = Gone(bound.conn)
         \/ basePc' = "poll" /\ bound' = NoFunctor
      /\ connections' = connections \ {bound.conn}
      /\ UNCHANGED <<caught, nextLoop, turn, removals, state, loop, told, loopVars, tardy>>
  BY DEF Forget, Gone
<1>2. bound.fn = "removed" /\ bound.conn \in Conns /\ state[bound.conn] = "disconnected"
  BY <1>1, BoundType DEF BoundOK
<1>3. ServerTypeOK'
  BY <1>1, <1>2, FunctorType DEF ServerTypeOK, Outside, loopVars, Queued
<1>4. Sessions'
  BY <1>1, <1>2
  DEF Sessions, ToldIsState, NewAreUnknown, NotQueued, RemovalsDown, EstFirst, BatchInCall,
      KeptHere, SendersUp, NotYetUp, ConnectedEnds, ConnectingEnds, LateAreTardy, RefusedEnds,
      Waiting, Batch, loopVars
<1>5. QuitAfterDestroy'
  BY <1>1, NobodyQuits DEF QuitAfterDestroy, Outside, loopVars
<1>6. BoundOK'
  <2>1. \/ bound'.fn = "destroyed" /\ bound'.conn = bound.conn
        \/ bound'.fn = "none" /\ basePc' = "poll"
    BY <1>1 DEF Gone, NoFunctor, Functor
  <2> QED BY <1>1, <1>2, <2>1 DEF BoundOK, Outside
<1> QED BY <1>3, <1>4, <1>5, <1>6

------------------------------------------------------------------------------
(* Functors queued to a worker.                                            *)

LEMMA Queues ==
  ASSUME ServerTypeOK, NEW w \in Pool, NEW f \in Functors,
         pending' = [pending EXCEPT ![w] = Append(@, f)], UNCHANGED running
  PROVE  /\ pending' \in [Pool -> Seq(Functors)] /\ Waiting(w)' = Waiting(w) \cup {f}
         /\ \A v \in Pool : v # w => Waiting(v)' = Waiting(v) /\ pending'[v] = pending[v]
         /\ \A v \in Pool : Batch(v)' = Batch(v)
         /\ loop[f.conn] = w => \A v \in Pool : \A g \in Queued(v)' : loop[g.conn] = v
<1>1. /\ pending[w] \in Seq(Functors) /\ pending'[w] = Append(pending[w], f)
      /\ \A v \in Pool : v # w => pending'[v] = pending[v]
  BY DEF ServerTypeOK
<1>2. Append(pending[w], f) \in Seq(Functors) /\ ToSet(Append(pending[w], f)) = ToSet(pending[w]) \cup {f}
  BY <1>1, AppendSet
<1>3. pending' \in [Pool -> Seq(Functors)]
  BY <1>1, <1>2 DEF ServerTypeOK
<1>4. Waiting(w)' = Waiting(w) \cup {f}
  BY <1>1, <1>2 DEF Waiting
<1>5. \A v \in Pool : v # w => Waiting(v)' = Waiting(v)
  BY <1>1 DEF Waiting
<1>6. \A v \in Pool : Batch(v)' = Batch(v) /\ Queued(v)' = Waiting(v)' \cup Batch(v)'
  BY DEF Batch, Queued, Waiting
<1>7. \A v \in Pool : \A g \in Waiting(v) \cup Batch(v) : loop[g.conn] = v
  BY QueueType
<1>8. ASSUME loop[f.conn] = w, NEW v \in Pool, NEW g \in Queued(v)' PROVE loop[g.conn] = v
  <2>1. g \in Waiting(v) \cup Batch(v) \/ (g = f /\ v = w)
    BY <1>4, <1>5, <1>6, <1>8
  <2> QED BY <1>7, <1>8, <2>1
<1> QED BY <1>1, <1>3, <1>4, <1>5, <1>6, <1>8

LEMMA EstFirstKept ==
  ASSUME ServerTypeOK, EstFirst, NEW w \in Pool, NEW f \in Functors,
         pending' = [pending EXCEPT ![w] = Append(@, f)], UNCHANGED running,
         \A c \in Conns : f = Est(c) => NotQueued(c)
  PROVE  EstFirst'
<1>1. /\ pending[w] \in Seq(Functors) /\ pending'[w] = Append(pending[w], f)
      /\ \A v \in Pool : v # w => pending'[v] = pending[v]
  BY DEF ServerTypeOK
<1>2. \A c \in Conns : f = Est(c) => Gone(c) \notin Waiting(w) /\ Gone(c) \notin Batch(w)
  BY FunctorsDiffer DEF NotQueued
<1>3. \A c \in Conns : Ordered(pending[w], c)' 
  BY <1>1, <1>2, OrderedAppend DEF EstFirst, Waiting
<1>4. \A v \in Pool, c \in Conns : Ordered(running[v], c)' /\ Ordered(pending[v], c)'
  BY <1>1, <1>3 DEF EstFirst
<1>5. ASSUME NEW v \in Pool, NEW c \in Conns, Est(c) \in Waiting(v)' PROVE Gone(c) \notin Batch(v)'
  <2>1. /\ Waiting(w)' = Waiting(w) \cup {f} /\ Batch(v)' = Batch(v)
        /\ v # w => Waiting(v)' = Waiting(v)
    BY Queues
  <2>2. Est(c) \in Waiting(v) \/ (f = Est(c) /\ v = w)
    BY <1>5, <2>1
  <2> QED BY <1>2, <2>1, <2>2 DEF EstFirst
<1> QED BY <1>4, <1>5 DEF EstFirst

\* The end of queueInLoop of the base thread.  A connectEstablished finds nothing
\* of its connection in a queue.
LEMMA QueueInv == ASSUME IInv, Queue PROVE IInv'
<1> USE DEF IInv
<1>0. PICK c \in Conns, w \in Pool : c = bound.conn /\ w = loop[c]
  <2>1. bound.conn \in Conns
    BY BoundType DEF Queue, Goto, BoundOK
  <2> QED BY <2>1 DEF ServerTypeOK
<1>1. /\ basePc = "queueing" /\ basePc' = "poll" /\ bound' = NoFunctor
      /\ pending' = [pending EXCEPT ![w] = Append(@, bound)]
      /\ eventFd' = [eventFd EXCEPT ![w] = TRUE]
      /\ UNCHANGED <<caught, nextLoop, turn, serverVars, loopPc, isQuited, running, kept,
                     sender, sends, tardy>>
  BY <1>0 DEF Queue, Goto, queueInLoop
<1>2. /\ bound \in Functors /\ bound.conn = c /\ loop[c] = w
      /\ \/ bound = Est(c) /\ c \in connections /\ state[c] \in {"none", "connecting"} /\ NotQueued(c)
         \/ bound = Gone(c) /\ state[c] = "disconnected"
  <2>1. bound \in Functors
    BY <1>1, BoundType DEF BoundOK
  <2>2. \/ bound = Est(c) /\ c \in connections /\ state[c] \in {"none", "connecting"} /\ NotQueued(c)
        \/ bound = Gone(c) /\ state[c] = "disconnected"
    BY <1>0, <1>1, BoundType DEF BoundOK
  <2> QED BY <1>0, <2>1, <2>2
<1>3. /\ pending' \in [Pool -> Seq(Functors)] /\ Waiting(w)' = Waiting(w) \cup {bound}
      /\ \A v \in Pool : v # w => Waiting(v)' = Waiting(v) /\ pending'[v] = pending[v]
      /\ \A v \in Pool : Batch(v)' = Batch(v)
      /\ \A v \in Pool : \A g \in Queued(v)' : loop[g.conn] = v
  BY <1>1, <1>2, Queues
<1>4. UNCHANGED <<state, told, connections, removals, loop>>
  BY <1>1 DEF serverVars
<1>5. ServerTypeOK'
  BY <1>1, <1>2, <1>3, <1>4 DEF ServerTypeOK, Outside
<1>6. Sessions'
  <2>1. ToldIsState' /\ RemovalsDown' /\ BatchInCall' /\ KeptHere' /\ SendersUp' /\ NotYetUp'
    BY <1>1, <1>4 DEF Sessions, ToldIsState, RemovalsDown, BatchInCall, KeptHere, SendersUp, NotYetUp
  <2>2. NewAreUnknown'
    <3>1. state[c] # "none"
      BY <1>2 DEF Sessions, NewAreUnknown
    <3>2. \A v \in Pool : \A f \in (Waiting(v) \cup Batch(v))' :
            f \in Waiting(v) \cup Batch(v) \/ f.conn = c
      BY <1>2, <1>3
    <3> QED BY <1>4, <3>1, <3>2 DEF Sessions, NewAreUnknown, NotQueued
  <2>3. EstFirst'
    <3>1. \A d \in Conns : bound = Est(d) => NotQueued(d)
      BY <1>2, FunctorsDiffer
    <3> QED BY <1>1, <1>2, <3>1, EstFirstKept DEF Sessions
  <2>4. ConnectedEnds' /\ ConnectingEnds' /\ LateAreTardy' /\ RefusedEnds'
    <3> SUFFICES ASSUME NEW d \in Conns
                 PROVE  /\ ConnectedEnds!(d)' /\ ConnectingEnds!(d)'
                        /\ LateAreTardy!(d)' /\ RefusedEnds!(d)'
      BY DEF ConnectedEnds, ConnectingEnds, LateAreTardy, RefusedEnds
    <3>1. PICK v \in Pool : v = loop[d] /\ v = loop'[d]
      BY <1>4 DEF ServerTypeOK
    <3>2. /\ Waiting(v)' = IF v = w THEN Waiting(v) \cup {bound} ELSE Waiting(v)
          /\ Batch(v)' = Batch(v)
      BY <1>3
    <3>3. /\ d \notin connections => bound # Est(d)
          /\ state[d] \in {"connecting", "connected"} => bound # Gone(d)
      BY <1>2, FunctorsDiffer
    <3>4. ConnectedEnds!(d) /\ ConnectingEnds!(d) /\ LateAreTardy!(d) /\ RefusedEnds!(d)
      BY DEF Sessions, ConnectedEnds, ConnectingEnds, LateAreTardy, RefusedEnds
    <3> QED BY <1>1, <1>4, <3>1, <3>2, <3>3, <3>4
  <2> QED BY <2>1, <2>2, <2>3, <2>4 DEF Sessions
<1>7. QuitAfterDestroy'
  BY <1>1, NobodyQuits DEF QuitAfterDestroy, Outside
<1>8. BoundOK'
  <2>1. bound'.fn = "none"
    BY <1>1 DEF NoFunctor, Functor
  <2> QED BY <1>1, <2>1 DEF BoundOK, Outside
<1> QED BY <1>5, <1>6, <1>7, <1>8

------------------------------------------------------------------------------
(* The signal handler.                                                     *)

\* Between the last look of a loop at its queue and its end, a connectDestroyed is
\* tardy; before, it is called.
LEMMA DestroyInv == ASSUME IInv, NEW c \in Conns, Destroy(c) PROVE IInv'
<1> USE DEF IInv
<1>0. PICK w \in Pool : w = loop[c]
  BY DEF ServerTypeOK
<1>1. /\ basePc = "destroying" /\ c \in connections /\ ~LoopLocked(w)
      /\ connections' = connections \ {c}
      /\ pending' = [pending EXCEPT ![w] = Append(@, Gone(c))]
      /\ eventFd' = [eventFd EXCEPT ![w] = TRUE]
      /\ tardy' = IF loopPc[w] \in {"functors", "check"} THEN tardy \cup {c} ELSE tardy
      /\ UNCHANGED <<baseVars, removals, state, loop, told, loopPc, isQuited, running, kept, sender,
                     sends>>
  BY <1>0 DEF Destroy, queueInLoop, Gone
<1>2. /\ loop[c] = w /\ Gone(c) \in Functors /\ Gone(c).conn = c
      /\ \A d : Gone(c) # Est(d) /\ Gone(c) # Refused(d) /\ (Gone(c) = Gone(d) => c = d)
  BY <1>0, FunctorType, FunctorsDiffer
<1>3. /\ pending' \in [Pool -> Seq(Functors)] /\ Waiting(w)' = Waiting(w) \cup {Gone(c)}
      /\ \A v \in Pool : v # w => Waiting(v)' = Waiting(v) /\ pending'[v] = pending[v]
      /\ \A v \in Pool : Batch(v)' = Batch(v)
      /\ \A v \in Pool : \A g \in Queued(v)' : loop[g.conn] = v
  BY <1>1, <1>2, Queues
<1>4. state[c] # "none"
  BY <1>1 DEF Sessions, NewAreUnknown
<1>5. loopPc[w] # "exited"
  BY <1>1, <1>2 DEF QuitAfterDestroy
<1>6. ServerTypeOK'
  BY <1>1, <1>2, <1>3 DEF ServerTypeOK, baseVars
<1>7. Sessions'
  <2>1. ToldIsState' /\ RemovalsDown' /\ BatchInCall' /\ KeptHere' /\ SendersUp' /\ NotYetUp'
    BY <1>1 DEF Sessions, ToldIsState, RemovalsDown, BatchInCall, KeptHere, SendersUp, NotYetUp
  <2>2. NewAreUnknown'
    <3>1. \A v \in Pool : \A f \in (Waiting(v) \cup Batch(v))' :
            f \in Waiting(v) \cup Batch(v) \/ f.conn = c
      BY <1>2, <1>3
    <3> QED BY <1>1, <1>4, <3>1 DEF Sessions, NewAreUnknown, NotQueued
  <2>3. EstFirst'
    BY <1>1, <1>2, EstFirstKept DEF Sessions
  <2>4. ConnectedEnds' /\ ConnectingEnds' /\ LateAreTardy' /\ RefusedEnds'
    <3> SUFFICES ASSUME NEW d \in Conns
                 PROVE  /\ ConnectedEnds!(d)' /\ ConnectingEnds!(d)'
                        /\ LateAreTardy!(d)' /\ RefusedEnds!(d)'
      BY DEF ConnectedEnds, ConnectingEnds, LateAreTardy, RefusedEnds
    <3>1. PICK v \in Pool : v = loop[d] /\ v = loop'[d]
      BY <1>1 DEF ServerTypeOK
    <3>2. /\ Waiting(v)' = IF v = w THEN Waiting(v) \cup {Gone(c)} ELSE Waiting(v)
          /\ Batch(v)' = Batch(v)
      BY <1>3
    <3>3. state[c] = "connected" /\ c \notin tardy' => loopPc[w] \in {"poll", "events", "blocked"}
      BY <1>1, <1>2, <1>5 DEF Sessions, NotYetUp, ServerTypeOK
    <3>4. ConnectedEnds!(d) /\ ConnectingEnds!(d) /\ LateAreTardy!(d) /\ RefusedEnds!(d)
      BY DEF Sessions, ConnectedEnds, ConnectingEnds, LateAreTardy, RefusedEnds
    <3>5. d = c => v = w
      BY <1>2, <3>1
    <3> QED BY <1>1, <1>2, <3>1, <3>2, <3>3, <3>4, <3>5
  <2> QED BY <2>1, <2>2, <2>3, <2>4 DEF Sessions
<1>8. QuitAfterDestroy'
  BY <1>1, <1>3, <1>5 DEF QuitAfterDestroy, baseVars
<1>9. BoundOK'
  <2>1. bound.fn = "established" => bound.conn # c
    BY <1>1, <1>2 DEF BoundOK, LoopLocked, Here
  <2>2. bound.fn = "established" => NotQueued(bound.conn)'
    BY <1>1, <1>2, <1>3, <2>1 DEF BoundOK, NotQueued, baseVars
  <2> QED BY <1>1, <2>2 DEF BoundOK, Outside, Here, baseVars
<1> QED BY <1>6, <1>7, <1>8, <1>9

LEMMA QuitInv == ASSUME IInv, Quit PROVE IInv'
<1> USE DEF IInv
<1>1. /\ basePc = "destroying" /\ basePc' = "joining"
      /\ connections = {} /\ turn <= Len(Workers)
      /\ isQuited' = [isQuited EXCEPT ![Workers[turn]] = TRUE]
      /\ eventFd' = [eventFd EXCEPT ![Workers[turn]] = TRUE]
      /\ UNCHANGED <<caught, bound, nextLoop, turn, serverVars, loopPc, pending, running, kept,
                     sender, sends, tardy>>
  BY DEF Quit, Goto
<1>2. ServerTypeOK'
  BY <1>1 DEF ServerTypeOK, serverVars, Queued
<1>3. Sessions'
  BY <1>1
  DEF Sessions, ToldIsState, NewAreUnknown, NotQueued, RemovalsDown, EstFirst, BatchInCall,
      KeptHere, SendersUp, NotYetUp, ConnectedEnds, ConnectingEnds, LateAreTardy, RefusedEnds,
      Waiting, Batch, serverVars
<1>4. QuitAfterDestroy'
  BY <1>1 DEF QuitAfterDestroy, Ending, ServerTypeOK, serverVars
<1>5. BoundOK'
  BY <1>1 DEF BoundOK, Outside, Here, serverVars, NotQueued, Waiting, Batch
<1> QED BY <1>2, <1>3, <1>4, <1>5

------------------------------------------------------------------------------
(* The workers.                                                            *)

\* From one part of the loop to the next.  A loop that ends leaves functors behind,
\* but has none in its batch.
LEMMA LoopInv ==
  ASSUME IInv, NEW w \in Pool, EnterLoop(w) \/ Woken(w) \/ Returns(w) \/ Done(w) \/ Check(w)
                                  \/ \E c \in Conns : Block(w, c)
  PROVE  IInv'
<1> USE DEF IInv
<1>1. /\ UNCHANGED <<baseVars, serverVars, running, sender, sends, tardy>>
      /\ pending' = pending \/ (loopPc'[w] = "exited" /\ pending' = [pending EXCEPT ![w] = <<>>])
      /\ kept' = kept \/ (loopPc[w] = "functors" /\ kept' = [kept EXCEPT ![w] = {}])
  BY DEF EnterLoop, Woken, Returns, Done, Check, Block, At, ServerTypeOK
<1>2. \/ loopPc[w] = "entering" /\ loopPc' = [loopPc EXCEPT ![w] = "check"]
      \/ loopPc[w] = "poll" /\ loopPc' = [loopPc EXCEPT ![w] = "events"]
      \/ loopPc[w] = "events" /\ loopPc' = [loopPc EXCEPT ![w] = "blocked"]
      \/ /\ loopPc[w] = "functors" /\ loopPc' = [loopPc EXCEPT ![w] = "check"]
         /\ running[w] = <<>> /\ kept' = [kept EXCEPT ![w] = {}]
      \/ loopPc[w] = "check" /\ loopPc' = [loopPc EXCEPT ![w] = "poll"]
      \/ /\ loopPc[w] = "check" /\ loopPc' = [loopPc EXCEPT ![w] = "exited"]
         /\ isQuited[w] /\ pending' = [pending EXCEPT ![w] = <<>>]
  BY DEF EnterLoop, Woken, Returns, Done, Check, Block, At
<1>3. /\ isQuited' \in [Pool -> BOOLEAN] /\ eventFd' \in [Pool -> BOOLEAN]
      /\ \A v \in Pool : /\ isQuited'[v] => isQuited[v]
                         /\ isQuited[v] /\ ~isQuited'[v] => v = w /\ loopPc'[w] = "check"
  <2>1. CASE EnterLoop(w)
    BY <2>1 DEF EnterLoop, At, ServerTypeOK
  <2>2. CASE ~EnterLoop(w)
    <3>1. isQuited' = isQuited /\ eventFd' \in [Pool -> BOOLEAN]
      BY <2>2 DEF Woken, Returns, Done, Check, Block, ServerTypeOK
    <3> QED BY <3>1 DEF ServerTypeOK
  <2> QED BY <2>1, <2>2
<1>4. /\ \A v \in Pool : v # w => loopPc'[v] = loopPc[v] /\ pending'[v] = pending[v] /\ kept'[v] = kept[v]
      /\ pending'[w] = pending[w] \/ (loopPc'[w] = "exited" /\ pending'[w] = <<>>)
      /\ kept'[w] = kept[w] \/ kept'[w] = {}
      /\ loopPc'[w] # "exited" => pending' = pending
  BY <1>1, <1>2 DEF ServerTypeOK
<1>5. \A v \in Pool : /\ Batch(v)' = Batch(v)
                      /\ \/ Waiting(v)' = Waiting(v)
                         \/ v = w /\ loopPc'[v] = "exited" /\ Waiting(v)' = {}
  <2> SUFFICES ASSUME NEW v \in Pool
               PROVE  /\ Batch(v)' = Batch(v)
                      /\ \/ Waiting(v)' = Waiting(v)
                         \/ v = w /\ loopPc'[v] = "exited" /\ Waiting(v)' = {}
    OBVIOUS
  <2>1. Batch(v)' = Batch(v)
    BY <1>1 DEF Batch
  <2>2. \/ pending'[v] = pending[v]
        \/ v = w /\ loopPc'[v] = "exited" /\ pending'[v] = <<>>
    BY <1>4
  <2>3. CASE pending'[v] = pending[v]
    BY <2>1, <2>3 DEF Waiting
  <2>4. CASE pending'[v] = <<>> /\ v = w /\ loopPc'[v] = "exited"
    <3>1. Waiting(v)' = {}
      BY <2>4, NoFunctors DEF Waiting
    <3> QED BY <2>1, <2>4, <3>1
  <2> QED BY <2>2, <2>3, <2>4
<1>6. UNCHANGED <<state, told, connections, removals, loop, basePc, caught, bound, turn, nextLoop>>
  BY <1>1 DEF baseVars, serverVars
<1>7. ServerTypeOK'
  <2>1. /\ pending' \in [Pool -> Seq(Functors)] /\ kept' \in [Pool -> SUBSET Conns]
        /\ loopPc' \in [Pool -> {"entering", "check", "poll", "events", "functors", "blocked", "exited"}]
    <3>1. pending' \in [Pool -> Seq(Functors)]
      BY <1>1, NoFunctors DEF ServerTypeOK
    <3>2. kept' \in [Pool -> SUBSET Conns]
      BY <1>1 DEF ServerTypeOK
    <3>3. PICK to \in {"check", "poll", "events", "blocked", "exited"} :
            loopPc' = [loopPc EXCEPT ![w] = to]
      BY <1>2
    <3> QED BY <3>1, <3>2, <3>3 DEF ServerTypeOK
  <2>2. \A v \in Pool : Queued(v)' \subseteq Waiting(v) \cup Batch(v)
    BY <1>5 DEF Queued, Waiting, Batch
  <2> QED BY <1>1, <1>3, <1>6, <2>1, <2>2, QueueType DEF ServerTypeOK
<1>8. Sessions'
  <2>1. ToldIsState' /\ RemovalsDown'
    BY <1>6 DEF Sessions, ToldIsState, RemovalsDown
  <2>2. NewAreUnknown'
    BY <1>5, <1>6 DEF Sessions, NewAreUnknown, NotQueued
  <2>3. EstFirst'
    <3>1. \A v \in Pool : pending'[v] = pending[v] \/ pending'[v] = <<>>
      BY <1>4
    <3> QED BY <1>1, <1>5, <3>1, NoFunctors DEF Sessions, EstFirst
  <2>4. BatchInCall'
    <3>1. running[w] = <<>> /\ kept'[w] = {}
      BY <1>2, <1>4 DEF Sessions, BatchInCall, ServerTypeOK
    <3> QED BY <1>1, <1>4, <3>1 DEF Sessions, BatchInCall
  <2>5. KeptHere' /\ SendersUp'
    BY <1>1, <1>4, <1>6 DEF Sessions, KeptHere, SendersUp
  <2>6. NotYetUp'
    <3>1. loopPc'[w] # "entering"
      BY <1>2 DEF ServerTypeOK
    <3> QED BY <1>4, <1>6, <3>1 DEF Sessions, NotYetUp, ServerTypeOK
  <2>7. ConnectedEnds' /\ ConnectingEnds' /\ LateAreTardy' /\ RefusedEnds'
    <3> SUFFICES ASSUME NEW d \in Conns
                 PROVE  /\ ConnectedEnds!(d)' /\ ConnectingEnds!(d)'
                        /\ LateAreTardy!(d)' /\ RefusedEnds!(d)'
      BY DEF ConnectedEnds, ConnectingEnds, LateAreTardy, RefusedEnds
    <3>1. PICK v \in Pool : v = loop[d] /\ v = loop'[d]
      BY <1>6 DEF ServerTypeOK
    <3>2. ConnectedEnds!(d) /\ ConnectingEnds!(d) /\ LateAreTardy!(d) /\ RefusedEnds!(d) /\ NotYetUp!(d)
      BY DEF Sessions, ConnectedEnds, ConnectingEnds, LateAreTardy, RefusedEnds, NotYetUp
    <3>3. CASE v # w
      BY <1>1, <1>4, <1>5, <1>6, <3>1, <3>2, <3>3
    <3>4. CASE v = w
      <4>1. Batch(w) = {}
        BY <1>2, QueueType DEF Sessions, BatchInCall
      <4>2. \/ loopPc[w] = "entering" /\ loopPc'[w] = "check"
            \/ loopPc[w] = "poll" /\ loopPc'[w] = "events"
            \/ loopPc[w] = "events" /\ loopPc'[w] = "blocked"
            \/ loopPc[w] = "functors" /\ loopPc'[w] = "check"
            \/ loopPc[w] = "check" /\ loopPc'[w] = "poll"
            \/ loopPc[w] = "check" /\ loopPc'[w] = "exited" /\ Waiting(w)' = {}
        BY <1>2, NoFunctors DEF ServerTypeOK, Waiting
      <4> QED BY <1>1, <1>5, <1>6, <3>1, <3>2, <3>4, <4>1, <4>2
    <3> QED BY <3>3, <3>4
  <2> QED BY <2>1, <2>2, <2>3, <2>4, <2>5, <2>6, <2>7 DEF Sessions
<1>9. QuitAfterDestroy'
  <2>1. loopPc'[w] = "exited" => isQuited[w] /\ pending'[w] = <<>>
    BY <1>2 DEF ServerTypeOK
  <2>2. \A v \in Pool : v # w /\ loopPc'[v] = "exited" => isQuited'[v] /\ pending'[v] = <<>>
    BY <1>3, <1>4 DEF QuitAfterDestroy
  <2>3. loopPc'[w] = "exited" => isQuited'[w]
    BY <1>3, <2>1
  <2>4. ASSUME NEW v \in Pool, isQuited'[v] PROVE connections' = {} /\ basePc' \in Ending
    <3>1. isQuited[v]
      <4>1. isQuited'[v] => isQuited[v]
        BY <1>3
      <4> QED BY <2>4, <4>1, Zenon
    <3> QED BY <1>6, <3>1 DEF QuitAfterDestroy
  <2> QED BY <2>1, <2>2, <2>3, <2>4 DEF QuitAfterDestroy
<1>10. BoundOK'
  BY <1>5, <1>6 DEF BoundOK, Outside, Here, NotQueued
<1> QED BY <1>7, <1>8, <1>9, <1>10

LEMMA Stays ==
  ASSUME ServerTypeOK, NEW w \in Pool, NEW pc, At(w, pc, pc)
  PROVE  loopPc[w] = pc /\ loopPc' = loopPc
BY DEF At, ServerTypeOK

LEMMA SendInv == ASSUME IInv, NEW w \in Pool, NEW c \in Conns, Send(w, c) PROVE IInv'
<1> USE DEF IInv
<1>1. /\ sender' = [sender EXCEPT ![w] = c] /\ sends' = sends + 1 /\ sends < MaxSends
      /\ state[c] = "connected"
      /\ UNCHANGED <<baseVars, serverVars, isQuited, eventFd, pending, running, kept, tardy>>
  BY DEF Send
<1>2. loopPc' = loopPc
  BY Stays DEF Send
<1>3. ServerTypeOK'
  <2>1. sends' \in 0..MaxSends
    BY <1>1, ShutdownAssumption DEF ServerTypeOK
  <2> QED BY <1>1, <1>2, <2>1 DEF ServerTypeOK, Queued, baseVars, serverVars
<1>4. Sessions'
  <2>1. SendersUp'
    BY <1>1 DEF Sessions, SendersUp, ServerTypeOK, Up, serverVars
  <2> QED BY <1>1, <1>2, <2>1
    DEF Sessions, ToldIsState, NewAreUnknown, NotQueued, RemovalsDown, EstFirst, BatchInCall,
        KeptHere, NotYetUp, ConnectedEnds, ConnectingEnds, LateAreTardy, RefusedEnds,
        Waiting, Batch, serverVars
<1>5. QuitAfterDestroy' /\ BoundOK'
  BY <1>1, <1>2
  DEF QuitAfterDestroy, BoundOK, Outside, Here, NotQueued, Waiting, Batch, baseVars, serverVars
<1> QED BY <1>3, <1>4, <1>5

\* A functor that is neither connectEstablished nor connectDestroyed changes nothing
\* for connections that are connecting or connected.
LEMMA SendQueuedInv == ASSUME IInv, NEW w \in Pool, SendQueued(w) PROVE IInv'
<1> USE DEF IInv
<1>0. PICK c \in Conns, v \in Pool : c = sender[w] /\ v = loop[c]
  <2>1. sender[w] \in Conns
    BY DEF SendQueued, ServerTypeOK
  <2> QED BY <2>1 DEF ServerTypeOK
<1> DEFINE f == Functor("send", c)
<1>1. /\ \/ UNCHANGED <<pending, eventFd>>
         \/ /\ loopPc[v] # "exited"
            /\ pending' = [pending EXCEPT ![v] = Append(@, f)]
            /\ eventFd' = [eventFd EXCEPT ![v] = TRUE]
      /\ sender' = [sender EXCEPT ![w] = Nobody] /\ c # Nobody
      /\ UNCHANGED <<baseVars, serverVars, loopPc, isQuited, running, kept, sends, tardy>>
  BY <1>0 DEF SendQueued, queueInLoop
<1>2. /\ f \in Functors /\ f.conn = c
      /\ \A d : f # Est(d) /\ f # Gone(d) /\ f # Refused(d)
  BY FunctorType, FunctorsDiffer
<1>3. state[c] \in Up \cup Down
  BY <1>0, <1>1 DEF Sessions, SendersUp
<1>4. UNCHANGED <<state, told, connections, removals, loop, basePc, caught, bound, turn, nextLoop>>
  BY <1>1 DEF baseVars, serverVars
<1>5. /\ pending' \in [Pool -> Seq(Functors)]
      /\ \A u \in Pool : u # v => pending'[u] = pending[u]
      /\ \A u \in Pool : loopPc[u] = "exited" => pending'[u] = pending[u]
      /\ \A u \in Pool : /\ Batch(u)' = Batch(u)
                         /\ Waiting(u)' = Waiting(u) \/ Waiting(u)' = Waiting(u) \cup {f}
      /\ \A u \in Pool : \A g \in Queued(u)' : loop[g.conn] = u
  <2>1. CASE UNCHANGED pending
    BY <1>1, <2>1 DEF ServerTypeOK, Waiting, Batch, Queued
  <2>2. CASE loopPc[v] # "exited" /\ pending' = [pending EXCEPT ![v] = Append(@, f)]
    <3>1. /\ pending' \in [Pool -> Seq(Functors)] /\ Waiting(v)' = Waiting(v) \cup {f}
          /\ \A u \in Pool : u # v => Waiting(u)' = Waiting(u) /\ pending'[u] = pending[u]
          /\ \A u \in Pool : Batch(u)' = Batch(u)
          /\ \A u \in Pool : \A g \in Queued(u)' : loop[g.conn] = u
      BY <1>0, <1>1, <1>2, <2>2, Queues
    <3> QED BY <2>2, <3>1
  <2> QED BY <1>1, <2>1, <2>2
<1>6. ServerTypeOK'
  <2>1. eventFd' \in [Pool -> BOOLEAN]
    BY <1>1 DEF ServerTypeOK
  <2> QED BY <1>1, <1>4, <1>5, <2>1 DEF ServerTypeOK
<1>7. \A d \in Conns : NotQueued(d) /\ d # c => NotQueued(d)'
  BY <1>2, <1>5 DEF NotQueued
<1>8. Sessions'
  <2>1. ToldIsState' /\ RemovalsDown' /\ BatchInCall' /\ KeptHere' /\ NotYetUp'
    BY <1>1, <1>4 DEF Sessions, ToldIsState, RemovalsDown, BatchInCall, KeptHere, NotYetUp
  <2>2. NewAreUnknown'
    BY <1>3, <1>4, <1>7 DEF Sessions, NewAreUnknown, Up, Down
  <2>3. EstFirst'
    <3>1. CASE UNCHANGED pending
      BY <1>1, <3>1 DEF Sessions, EstFirst, Waiting, Batch
    <3>2. CASE pending' = [pending EXCEPT ![v] = Append(@, f)]
      BY <1>1, <1>2, <3>2, EstFirstKept DEF Sessions
    <3> QED BY <1>1, <3>1, <3>2
  <2>4. SendersUp'
    BY <1>1, <1>4 DEF Sessions, SendersUp, ServerTypeOK
  <2>5. ConnectedEnds' /\ ConnectingEnds' /\ LateAreTardy' /\ RefusedEnds'
    <3> SUFFICES ASSUME NEW d \in Conns
                 PROVE  /\ ConnectedEnds!(d)' /\ ConnectingEnds!(d)'
                        /\ LateAreTardy!(d)' /\ RefusedEnds!(d)'
      BY DEF ConnectedEnds, ConnectingEnds, LateAreTardy, RefusedEnds
    <3>1. PICK u \in Pool : u = loop[d] /\ u = loop'[d]
      BY <1>4 DEF ServerTypeOK
    <3>2. ConnectedEnds!(d) /\ ConnectingEnds!(d) /\ LateAreTardy!(d) /\ RefusedEnds!(d)
      BY DEF Sessions, ConnectedEnds, ConnectingEnds, LateAreTardy, RefusedEnds
    <3>3. /\ Batch(u)' = Batch(u)
          /\ Est(d) \in Waiting(u)' <=> Est(d) \in Waiting(u)
          /\ Gone(d) \in Waiting(u)' <=> Gone(d) \in Waiting(u)
          /\ Refused(d) \in Waiting(u)' <=> Refused(d) \in Waiting(u)
      BY <1>2, <1>5
    <3> QED BY <1>1, <1>4, <3>1, <3>2, <3>3
  <2> QED BY <2>1, <2>2, <2>3, <2>4, <2>5 DEF Sessions
<1>9. QuitAfterDestroy'
  BY <1>1, <1>4, <1>5 DEF QuitAfterDestroy
<1>10. BoundOK'
  <2>1. bound.fn = "established" => NotQueued(bound.conn)'
    <3> SUFFICES ASSUME bound.fn = "established" PROVE NotQueued(bound.conn)'
      OBVIOUS
    <3>1. PICK d \in Conns : d = bound.conn /\ d = bound'.conn /\ NotQueued(d) /\ d # c
      BY <1>3, <1>4, BoundType DEF BoundOK, Up, Down
    <3> QED BY <1>7, <3>1
  <2> QED BY <1>4, <2>1 DEF BoundOK, Outside, Here
<1> QED BY <1>6, <1>8, <1>9, <1>10

\* What waited becomes the batch, in its order.
LEMMA TakeInv == ASSUME IInv, NEW w \in Pool, Take(w) PROVE IInv'
<1> USE DEF IInv
<1>1. /\ loopPc[w] = "events" /\ loopPc' = [loopPc EXCEPT ![w] = "functors"]
      /\ running' = [running EXCEPT ![w] = pending[w]]
      /\ pending' = [pending EXCEPT ![w] = <<>>]
      /\ UNCHANGED <<baseVars, serverVars, isQuited, eventFd, kept, sender, sends, tardy>>
  BY DEF Take, At
<1>2. running[w] = <<>> /\ kept[w] = {} /\ Batch(w) = {}
  BY <1>1, QueueType DEF Sessions, BatchInCall
<1>3. UNCHANGED <<state, told, connections, removals, loop, basePc, caught, bound, turn, nextLoop>>
  BY <1>1 DEF baseVars, serverVars
<1>4. /\ loopPc'[w] = "functors" /\ running'[w] = pending[w] /\ pending'[w] = <<>>
      /\ \A v \in Pool : v # w => UNCHANGED <<loopPc[v], running[v], pending[v]>>
  BY <1>1 DEF ServerTypeOK
<1>5. /\ Batch(w)' = Waiting(w) /\ Waiting(w)' = {}
      /\ \A v \in Pool : v # w => Batch(v)' = Batch(v) /\ Waiting(v)' = Waiting(v)
  BY <1>4, NoFunctors DEF Waiting, Batch
<1>6. \A v \in Pool : (Waiting(v) \cup Batch(v))' = Waiting(v) \cup Batch(v)
  BY <1>2, <1>5
<1>7. ServerTypeOK'
  <2>1. pending' \in [Pool -> Seq(Functors)] /\ running' \in [Pool -> Seq(Functors)]
    BY <1>1, NoFunctors DEF ServerTypeOK
  <2>2. loopPc' \in [Pool -> {"entering", "check", "poll", "events", "functors", "blocked", "exited"}]
    BY <1>1 DEF ServerTypeOK
  <2>3. \A v \in Pool : Queued(v)' = Queued(v)
    BY <1>6 DEF Queued, Waiting, Batch
  <2> QED BY <1>1, <1>3, <2>1, <2>2, <2>3 DEF ServerTypeOK
<1>8. \A c : NotQueued(c)' <=> NotQueued(c)
  BY <1>6 DEF NotQueued
<1>9. Sessions'
  <2>1. ToldIsState' /\ RemovalsDown' /\ KeptHere' /\ SendersUp'
    BY <1>1, <1>3 DEF Sessions, ToldIsState, RemovalsDown, KeptHere, SendersUp
  <2>2. NewAreUnknown'
    BY <1>3, <1>8 DEF Sessions, NewAreUnknown
  <2>3. EstFirst'
    <3>1. \A v \in Pool, c \in Conns : Ordered(running'[v], c) /\ Ordered(pending'[v], c)
      BY <1>4, NoFunctors DEF Sessions, EstFirst
    <3>2. \A v \in Pool, c \in Conns : Est(c) \in Waiting(v)' => Gone(c) \notin Batch(v)'
      BY <1>5 DEF Sessions, EstFirst
    <3> QED BY <3>1, <3>2 DEF EstFirst
  <2>4. BatchInCall' /\ NotYetUp'
    BY <1>1, <1>3, <1>4 DEF Sessions, BatchInCall, NotYetUp, ServerTypeOK
  <2>5. ConnectedEnds' /\ ConnectingEnds' /\ LateAreTardy' /\ RefusedEnds'
    <3> SUFFICES ASSUME NEW d \in Conns
                 PROVE  /\ ConnectedEnds!(d)' /\ ConnectingEnds!(d)'
                        /\ LateAreTardy!(d)' /\ RefusedEnds!(d)'
      BY DEF ConnectedEnds, ConnectingEnds, LateAreTardy, RefusedEnds
    <3>1. PICK v \in Pool : v = loop[d] /\ v = loop'[d]
      BY <1>3 DEF ServerTypeOK
    <3>2. ConnectedEnds!(d) /\ ConnectingEnds!(d) /\ LateAreTardy!(d) /\ RefusedEnds!(d)
      BY DEF Sessions, ConnectedEnds, ConnectingEnds, LateAreTardy, RefusedEnds
    <3>3. CASE v = w
      BY <1>1, <1>2, <1>3, <1>4, <1>5, <3>1, <3>2, <3>3
    <3>4. CASE v # w
      BY <1>1, <1>3, <1>4, <1>5, <3>1, <3>2, <3>4
    <3> QED BY <3>3, <3>4
  <2> QED BY <2>1, <2>2, <2>3, <2>4, <2>5 DEF Sessions
<1>10. QuitAfterDestroy'
  BY <1>1, <1>3, <1>4 DEF QuitAfterDestroy
<1>11. BoundOK'
  BY <1>3, <1>8 DEF BoundOK, Outside, Here
<1> QED BY <1>7, <1>9, <1>10, <1>11

\* The client has gone: handleClose, in a callback or in forceCloseInLoop.
LEMMA CloseKeeps ==
  ASSUME IInv, NEW c \in Conns, state[c] \in Up, handleClose(c)
  PROVE  /\ state' = [state EXCEPT ![c] = "disconnected"]
         /\ state'[c] = "disconnected" /\ \A d \in Conns : d # c => state'[d] = state[d]
         /\ state' \in [Conns -> {"none", "connecting", "connected", "disconnecting", "disconnected"}]
         /\ told' \in [Conns -> {<<>>, <<"UP">>, <<"UP", "DOWN">>}]
         /\ removals' \in Seq(Conns) /\ ToldIsState' /\ RemovalsDown'
<1> USE DEF IInv
<1>1. /\ state' = [state EXCEPT ![c] = "disconnected"]
      /\ told' = [told EXCEPT ![c] = Append(@, "DOWN")]
      /\ removals' = Append(removals, c)
  BY DEF handleClose
<1>2. Append(<<"UP">>, "DOWN") = <<"UP", "DOWN">>
  BY Told
<1>3. told[c] = <<"UP">>
  BY DEF Sessions, ToldIsState
<1>4. told'[c] = <<"UP", "DOWN">> /\ \A d \in Conns : d # c => told'[d] = told[d]
  BY <1>1, <1>2, <1>3 DEF ServerTypeOK
<1>5. state'[c] = "disconnected" /\ \A d \in Conns : d # c => state'[d] = state[d]
  BY <1>1 DEF ServerTypeOK
<1>6. told' \in [Conns -> {<<>>, <<"UP">>, <<"UP", "DOWN">>}]
  BY <1>1, <1>2, <1>3 DEF ServerTypeOK
<1>7. /\ removals' \in Seq(Conns) /\ ToSet(removals') = ToSet(removals) \cup {c}
      /\ ToSet(removals) \subseteq Conns
  BY <1>1, AppendSet, SetOfSeq DEF ServerTypeOK
<1>8. ToldIsState'
  BY <1>4, <1>5 DEF Sessions, ToldIsState, Up
<1>9. RemovalsDown'
  BY <1>5, <1>7 DEF Sessions, RemovalsDown
<1>10. state' \in [Conns -> {"none", "connecting", "connected", "disconnecting", "disconnected"}]
  BY <1>1 DEF ServerTypeOK
<1> QED BY <1>1, <1>5, <1>6, <1>7, <1>8, <1>9, <1>10

LEMMA CloseInv == ASSUME IInv, NEW w \in Pool, NEW c \in Conns, Close(w, c) PROVE IInv'
<1> USE DEF IInv
<1>1. /\ state[c] \in Up /\ handleClose(c) /\ loop[c] = w /\ loopPc[w] = "events"
      /\ UNCHANGED <<baseVars, connections, loop, isQuited, eventFd, pending, running,
                     kept, sender, sends, tardy>>
  BY DEF Close, At, Up
<1>2. loopPc' = loopPc
  BY Stays DEF Close
<1>3. /\ state'[c] = "disconnected" /\ \A d \in Conns : d # c => state'[d] = state[d]
      /\ state' \in [Conns -> {"none", "connecting", "connected", "disconnecting", "disconnected"}]
      /\ told' \in [Conns -> {<<>>, <<"UP">>, <<"UP", "DOWN">>}]
      /\ removals' \in Seq(Conns) /\ ToldIsState' /\ RemovalsDown'
  BY <1>1, CloseKeeps
<1>4. /\ \A v \in Pool : Batch(v)' = Batch(v) /\ Waiting(v)' = Waiting(v)
      /\ \A d : NotQueued(d)' <=> NotQueued(d)
  BY <1>1 DEF Waiting, Batch, NotQueued
<1>5. ServerTypeOK'
  BY <1>1, <1>2, <1>3 DEF ServerTypeOK, Queued, baseVars
<1>6. Sessions'
  <2>1. NewAreUnknown' /\ KeptHere'
    BY <1>1, <1>3, <1>4 DEF Sessions, NewAreUnknown, KeptHere, ServerTypeOK
  <2>2. SendersUp'
    <3>1. \A v \in Pool : sender[v] # Nobody => sender[v] \in Conns
      BY DEF ServerTypeOK
    <3> QED BY <1>1, <1>3, <3>1 DEF Sessions, SendersUp, Down
  <2>3. EstFirst' /\ BatchInCall'
    BY <1>1, <1>2, <1>4 DEF Sessions, EstFirst, BatchInCall
  <2>4. NotYetUp' /\ ConnectedEnds' /\ ConnectingEnds' /\ LateAreTardy' /\ RefusedEnds'
    <3> SUFFICES ASSUME NEW d \in Conns
                 PROVE  /\ NotYetUp!(d)' /\ ConnectedEnds!(d)' /\ ConnectingEnds!(d)'
                        /\ LateAreTardy!(d)' /\ RefusedEnds!(d)'
      BY DEF NotYetUp, ConnectedEnds, ConnectingEnds, LateAreTardy, RefusedEnds
    <3>1. PICK v \in Pool : v = loop[d] /\ v = loop'[d]
      BY <1>1 DEF ServerTypeOK
    <3>2. /\ ConnectedEnds!(d) /\ ConnectingEnds!(d) /\ LateAreTardy!(d) /\ RefusedEnds!(d)
          /\ NotYetUp!(d)
      BY DEF Sessions, ConnectedEnds, ConnectingEnds, LateAreTardy, RefusedEnds, NotYetUp
    <3> QED BY <1>1, <1>2, <1>3, <1>4, <3>1, <3>2
  <2> QED BY <1>3, <2>1, <2>2, <2>3, <2>4 DEF Sessions
<1>7. QuitAfterDestroy'
  BY <1>1, <1>2 DEF QuitAfterDestroy, baseVars
<1>8. BoundOK'
  BY <1>1, <1>3, <1>4, BoundType DEF BoundOK, Outside, Here, Up, baseVars
<1> QED BY <1>5, <1>6, <1>7, <1>8

LEMMA RefuseInv == ASSUME IInv, NEW w \in Pool, NEW c \in Conns, Refuse(w, c) PROVE IInv'
<1> USE DEF IInv
<1> DEFINE f == Refused(c)
<1>1. /\ state[c] = "connected" /\ loop[c] = w /\ loopPc[w] = "events"
      /\ state' = [state EXCEPT ![c] = "disconnecting"]
      /\ pending' = [pending EXCEPT ![w] = Append(@, f)]
      /\ UNCHANGED <<baseVars, connections, removals, loop, told, isQuited, eventFd,
                     running, kept, sender, sends, tardy>>
  BY DEF Refuse, At, Refused
<1>2. loopPc' = loopPc
  BY Stays DEF Refuse
<1>3. state'[c] = "disconnecting" /\ \A d \in Conns : d # c => state'[d] = state[d]
  BY <1>1 DEF ServerTypeOK
<1>4. /\ f \in Functors /\ f.conn = c
      /\ \A d : f # Est(d) /\ f # Gone(d)
  BY FunctorType, FunctorsDiffer
<1>5. /\ pending' \in [Pool -> Seq(Functors)] /\ Waiting(w)' = Waiting(w) \cup {f}
      /\ \A v \in Pool : v # w => Waiting(v)' = Waiting(v) /\ pending'[v] = pending[v]
      /\ \A v \in Pool : Batch(v)' = Batch(v)
      /\ \A v \in Pool : \A g \in Queued(v)' : loop[g.conn] = v
  BY <1>1, <1>4, Queues
<1>6. \A d \in Conns : NotQueued(d) /\ d # c => NotQueued(d)'
  BY <1>4, <1>5 DEF NotQueued
<1>7. ServerTypeOK'
  BY <1>1, <1>2, <1>5 DEF ServerTypeOK, baseVars
<1>8. Sessions'
  <2>1. ToldIsState' /\ KeptHere'
    BY <1>1, <1>3 DEF Sessions, ToldIsState, KeptHere, Up, ServerTypeOK
  <2>2. RemovalsDown'
    <3>1. ToSet(removals) \subseteq Conns
      BY SetOfSeq DEF ServerTypeOK
    <3> QED BY <1>1, <1>3, <3>1 DEF Sessions, RemovalsDown
  <2>3. SendersUp'
    <3>1. \A v \in Pool : sender[v] # Nobody => sender[v] \in Conns
      BY DEF ServerTypeOK
    <3> QED BY <1>1, <1>3, <3>1 DEF Sessions, SendersUp, Up
  <2>4. NewAreUnknown'
    BY <1>1, <1>3, <1>6 DEF Sessions, NewAreUnknown
  <2>5. EstFirst'
    BY <1>1, <1>4, EstFirstKept DEF Sessions
  <2>6. BatchInCall'
    BY <1>1, <1>2 DEF Sessions, BatchInCall
  <2>7. NotYetUp' /\ ConnectedEnds' /\ ConnectingEnds' /\ LateAreTardy' /\ RefusedEnds'
    <3> SUFFICES ASSUME NEW d \in Conns
                 PROVE  /\ NotYetUp!(d)' /\ ConnectedEnds!(d)' /\ ConnectingEnds!(d)'
                        /\ LateAreTardy!(d)' /\ RefusedEnds!(d)'
      BY DEF NotYetUp, ConnectedEnds, ConnectingEnds, LateAreTardy, RefusedEnds
    <3>1. PICK v \in Pool : v = loop[d] /\ v = loop'[d]
      BY <1>1 DEF ServerTypeOK
    <3>2. /\ ConnectedEnds!(d) /\ ConnectingEnds!(d) /\ LateAreTardy!(d) /\ RefusedEnds!(d)
          /\ NotYetUp!(d)
      BY DEF Sessions, ConnectedEnds, ConnectingEnds, LateAreTardy, RefusedEnds, NotYetUp
    <3>3. /\ Batch(v)' = Batch(v)
          /\ Est(d) \in Waiting(v)' <=> Est(d) \in Waiting(v)
          /\ Gone(d) \in Waiting(v)' <=> Gone(d) \in Waiting(v)
          /\ Refused(d) \in Waiting(v) => Refused(d) \in Waiting(v)'
          /\ f \in Waiting(w)'
      BY <1>4, <1>5
    <3>4. CASE d = c
      BY <1>1, <1>2, <1>3, <3>1, <3>3, <3>4
    <3>5. CASE d # c
      BY <1>1, <1>2, <1>3, <3>1, <3>2, <3>3, <3>5
    <3> QED BY <3>4, <3>5
  <2> QED BY <2>1, <2>2, <2>3, <2>4, <2>5, <2>6, <2>7 DEF Sessions
<1>9. QuitAfterDestroy'
  BY <1>1, <1>2, <1>5 DEF QuitAfterDestroy, baseVars
<1>10. BoundOK'
  <2>1. bound.fn = "established" => NotQueued(bound.conn)' /\ bound.conn # c
    <3> SUFFICES ASSUME bound.fn = "established" PROVE NotQueued(bound.conn)' /\ bound.conn # c
      OBVIOUS
    <3>1. PICK d \in Conns : d = bound.conn /\ d = bound'.conn /\ NotQueued(d) /\ d # c
      BY <1>1, BoundType DEF BoundOK, baseVars
    <3> QED BY <1>6, <3>1
  <2> QED BY <1>1, <1>3, <2>1, BoundType DEF BoundOK, Outside, Here, baseVars
<1> QED BY <1>7, <1>8, <1>9, <1>10

\* What a functor does to its connection.
Effect(f, c) ==
  /\ \A d \in Conns : d # c => state'[d] = state[d]
  /\ \/ /\ state'[c] = state[c]
        /\ f = Est(c) => state[c] # "connecting"
        /\ f = Gone(c) => state[c] # "connected"
        /\ f = Refused(c) => state[c] \notin Up
     \/ f = Est(c) /\ state[c] = "connecting" /\ state'[c] = "connected"
     \/ state[c] \in Up /\ state'[c] = "disconnected"
  /\ state' \in [Conns -> {"none", "connecting", "connected", "disconnecting", "disconnected"}]
  /\ told' \in [Conns -> {<<>>, <<"UP">>, <<"UP", "DOWN">>}]
  /\ removals' \in Seq(Conns) /\ ToldIsState' /\ RemovalsDown'

LEMMA RunEffect ==
  ASSUME IInv, NEW w \in Pool, NEW f \in Functors, NEW c \in Conns, f = Head(running[w]), c = f.conn,
         Run(w)
  PROVE  Effect(f, c)
<1> USE DEF IInv
<1>1. f = Functor(f.fn, c) /\ f.fn \in {"established", "destroyed", "forceClose", "send"}
  BY FunctorType
<1>2. /\ f = Est(c) <=> f.fn = "established"
      /\ f = Gone(c) <=> f.fn = "destroyed"
      /\ f = Refused(c) <=> f.fn = "forceClose"
  BY <1>1 DEF Est, Gone, Refused, Functor
<1>3. \/ f.fn = "established" /\ connectEstablished(c)
      \/ f.fn = "destroyed" /\ connectDestroyed(c)
      \/ f.fn = "forceClose" /\ forceCloseInLoop(c)
      \/ f.fn = "send" /\ UNCHANGED <<state, told, removals>>
  BY DEF Run
<1>4. ASSUME UNCHANGED <<state, told, removals>>
      PROVE  /\ \A d \in Conns : state'[d] = state[d]
             /\ state' \in [Conns -> {"none", "connecting", "connected", "disconnecting", "disconnected"}]
             /\ told' \in [Conns -> {<<>>, <<"UP">>, <<"UP", "DOWN">>}]
             /\ removals' \in Seq(Conns) /\ ToldIsState' /\ RemovalsDown'
  BY <1>4 DEF ServerTypeOK, Sessions, ToldIsState, RemovalsDown
<1>5. CASE f.fn = "established" /\ state[c] = "connecting"
  <2>1. /\ state' = [state EXCEPT ![c] = "connected"]
        /\ told' = [told EXCEPT ![c] = Append(@, "UP")] /\ UNCHANGED removals
    BY <1>3, <1>5 DEF connectEstablished
  <2>2. told[c] = <<>>
    BY <1>5 DEF Sessions, ToldIsState
  <2>3. told'[c] = <<"UP">> /\ \A d \in Conns : d # c => told'[d] = told[d]
    BY <2>1, <2>2, Told DEF ServerTypeOK
  <2>4. state'[c] = "connected" /\ \A d \in Conns : d # c => state'[d] = state[d]
    BY <2>1 DEF ServerTypeOK
  <2>5. told' \in [Conns -> {<<>>, <<"UP">>, <<"UP", "DOWN">>}]
    BY <2>1, <2>2, Told DEF ServerTypeOK
  <2>6. state' \in [Conns -> {"none", "connecting", "connected", "disconnecting", "disconnected"}]
    BY <2>1 DEF ServerTypeOK
  <2>7. ToldIsState'
    BY <2>3, <2>4 DEF Sessions, ToldIsState, Up
  <2>8. RemovalsDown'
    <3>1. ToSet(removals) \subseteq Conns
      BY SetOfSeq DEF ServerTypeOK
    <3> QED BY <1>5, <2>1, <2>4, <3>1 DEF Sessions, RemovalsDown
  <2>9. removals' \in Seq(Conns)
    BY <2>1 DEF ServerTypeOK
  <2> QED BY <1>2, <1>5, <2>4, <2>5, <2>6, <2>7, <2>8, <2>9 DEF Effect
<1>6. CASE f.fn = "destroyed" /\ state[c] = "connected"
  <2>1. /\ state' = [state EXCEPT ![c] = "disconnected"]
        /\ told' = [told EXCEPT ![c] = Append(@, "DOWN")] /\ UNCHANGED removals
    BY <1>3, <1>6 DEF connectDestroyed
  <2>2. told[c] = <<"UP">>
    BY <1>6 DEF Sessions, ToldIsState, Up
  <2>3. told'[c] = <<"UP", "DOWN">> /\ \A d \in Conns : d # c => told'[d] = told[d]
    BY <2>1, <2>2, Told DEF ServerTypeOK
  <2>4. state'[c] = "disconnected" /\ \A d \in Conns : d # c => state'[d] = state[d]
    BY <2>1 DEF ServerTypeOK
  <2>5. told' \in [Conns -> {<<>>, <<"UP">>, <<"UP", "DOWN">>}]
    BY <2>1, <2>2, Told DEF ServerTypeOK
  <2>6. state' \in [Conns -> {"none", "connecting", "connected", "disconnecting", "disconnected"}]
    BY <2>1 DEF ServerTypeOK
  <2>7. ToldIsState'
    BY <2>3, <2>4 DEF Sessions, ToldIsState, Up
  <2>8. RemovalsDown'
    <3>1. ToSet(removals) \subseteq Conns
      BY SetOfSeq DEF ServerTypeOK
    <3> QED BY <1>6, <2>1, <2>4, <3>1 DEF Sessions, RemovalsDown
  <2>9. removals' \in Seq(Conns)
    BY <2>1 DEF ServerTypeOK
  <2> QED BY <1>6, <2>4, <2>5, <2>6, <2>7, <2>8, <2>9 DEF Effect, Up
<1>7. CASE f.fn = "forceClose" /\ state[c] \in Up
  <2>1. handleClose(c)
    BY <1>3, <1>7 DEF forceCloseInLoop, Up
  <2> QED BY <1>7, <2>1, CloseKeeps DEF Effect
<1>8. CASE /\ ~(f.fn = "established" /\ state[c] = "connecting")
           /\ ~(f.fn = "destroyed" /\ state[c] = "connected")
           /\ ~(f.fn = "forceClose" /\ state[c] \in Up)
  <2>1. UNCHANGED <<state, told, removals>>
    BY <1>3, <1>8 DEF connectEstablished, connectDestroyed, forceCloseInLoop, Up
  <2> QED BY <1>2, <1>4, <1>8, <2>1 DEF Effect
<1> QED BY <1>5, <1>6, <1>7, <1>8

\* The next functor of the batch.  A connection that comes up with its end already
\* queued finds it in the same batch, or is tardy.
LEMMA RunInv == ASSUME IInv, NEW w \in Pool, Run(w) PROVE IInv'
<1> USE DEF IInv
<1>0. /\ running[w] # <<>> /\ running[w] \in Seq(Functors)
      /\ running' = [running EXCEPT ![w] = Tail(running[w])]
      /\ UNCHANGED <<baseVars, connections, loop, isQuited, eventFd, pending, sender, sends, tardy>>
      /\ loopPc[w] = "functors" /\ loopPc' = loopPc
  BY QueueType, Stays DEF Run
<1>1. /\ Tail(running[w]) \in Seq(Functors) /\ Head(running[w]) \in Functors
      /\ ToSet(running[w]) = ToSet(Tail(running[w])) \cup {Head(running[w])}
  BY <1>0, TailSet
<1>2. PICK f \in Functors, c \in Conns : f = Head(running[w]) /\ c = f.conn
  BY <1>1, FunctorType
<1>3. Effect(f, c)
  BY <1>2, RunEffect
<1>4. /\ kept' \in [Pool -> SUBSET Conns]
      /\ \A v \in Pool : v # w => kept'[v] = kept[v]
      /\ \A d \in kept'[w] : d \in kept[w] \/ d = c
  <2>1. kept' = [kept EXCEPT ![w] = IF f.fn = "send" THEN @ ELSE @ \cup {c}]
    BY <1>2 DEF Run
  <2> QED BY <2>1 DEF ServerTypeOK
<1>5. /\ running' \in [Pool -> Seq(Functors)] /\ running'[w] = Tail(running[w])
      /\ \A v \in Pool : v # w => running'[v] = running[v]
  BY <1>0, <1>1 DEF ServerTypeOK
<1>6. /\ Batch(w) = Batch(w)' \cup {f}
      /\ \A v \in Pool : v # w => Batch(v)' = Batch(v)
      /\ \A v \in Pool : Waiting(v)' = Waiting(v)
  BY <1>0, <1>1, <1>2, <1>5 DEF Batch, Waiting
<1>7. loop[c] = w /\ state[c] # "none"
  <2>1. f \in Batch(w)
    BY <1>6
  <2> QED BY <1>2, <2>1, QueueType DEF Sessions, NewAreUnknown, NotQueued
<1>8. \A d : NotQueued(d) => NotQueued(d)' /\ d # c
  BY <1>2, <1>6 DEF NotQueued
<1>9. /\ \A d \in Conns : state'[d] = "none" => state[d] = "none"
      /\ \A d \in Conns : state[d] = "disconnected" => state'[d] = "disconnected"
      /\ \A d \in Conns : state[d] \in Up \cup Down => state'[d] \in Up \cup Down
      /\ \A d \in Conns : d # c => state'[d] = state[d]
      /\ state'[c] # "none"
  BY <1>3, <1>7 DEF Effect, Up, Down
<1>10. ServerTypeOK'
  <2>1. \A v \in Pool : \A g \in Queued(v)' : g \in Waiting(v) \cup Batch(v)
    BY <1>6 DEF Queued, Waiting, Batch
  <2>2. \A v \in Pool : \A g \in Queued(v)' : loop'[g.conn] = v
    BY <1>0, <2>1, QueueType
  <2> QED BY <1>0, <1>3, <1>4, <1>5, <2>2 DEF ServerTypeOK, Effect, baseVars
<1>11. Sessions'
  <2>1. ToldIsState' /\ RemovalsDown'
    BY <1>3 DEF Effect
  <2>2. NewAreUnknown'
    BY <1>0, <1>8, <1>9 DEF Sessions, NewAreUnknown
  <2>3. EstFirst'
    <3>1. \A v \in Pool, d \in Conns : Ordered(running'[v], d)
      BY <1>0, <1>5, OrderedTail DEF Sessions, EstFirst
    <3>2. \A v \in Pool, d \in Conns : Est(d) \in Waiting(v)' => Gone(d) \notin Batch(v)'
      BY <1>6 DEF Sessions, EstFirst
    <3> QED BY <1>0, <3>1, <3>2 DEF Sessions, EstFirst
  <2>4. BatchInCall'
    BY <1>0, <1>4, <1>5 DEF Sessions, BatchInCall
  <2>5. KeptHere'
    <3>1. \A d \in kept[w] : d \in Conns
      BY DEF ServerTypeOK
    <3>2. \A v \in Pool : \A d \in kept'[v] : d \in Conns /\ loop[d] = v /\ state[d] # "none"
      BY <1>4, <1>7 DEF Sessions, KeptHere
    <3> QED BY <1>0, <1>9, <3>2 DEF KeptHere
  <2>6. SendersUp'
    <3>1. \A v \in Pool : sender[v] # Nobody => sender[v] \in Conns
      BY DEF ServerTypeOK
    <3> QED BY <1>0, <1>9, <3>1 DEF Sessions, SendersUp
  <2>7. NotYetUp' /\ ConnectedEnds' /\ ConnectingEnds' /\ LateAreTardy' /\ RefusedEnds'
    <3> SUFFICES ASSUME NEW d \in Conns
                 PROVE  /\ NotYetUp!(d)' /\ ConnectedEnds!(d)' /\ ConnectingEnds!(d)'
                        /\ LateAreTardy!(d)' /\ RefusedEnds!(d)'
      BY DEF NotYetUp, ConnectedEnds, ConnectingEnds, LateAreTardy, RefusedEnds
    <3>1. PICK v \in Pool : v = loop[d] /\ v = loop'[d]
      BY <1>0 DEF ServerTypeOK
    <3>2. /\ ConnectedEnds!(d) /\ ConnectingEnds!(d) /\ LateAreTardy!(d) /\ RefusedEnds!(d)
          /\ NotYetUp!(d)
      BY DEF Sessions, ConnectedEnds, ConnectingEnds, LateAreTardy, RefusedEnds, NotYetUp
    <3>3. CASE d # c
      <4>1. f # Est(d) /\ f # Gone(d) /\ f # Refused(d)
        BY <1>2, <3>3, FunctorsDiffer
      <4>2. /\ Est(d) \in Batch(v)' <=> Est(d) \in Batch(v)
            /\ Gone(d) \in Batch(v)' <=> Gone(d) \in Batch(v)
            /\ Refused(d) \in Batch(v)' <=> Refused(d) \in Batch(v)
            /\ Waiting(v)' = Waiting(v) /\ state'[d] = state[d]
        BY <1>6, <1>9, <3>3, <4>1
      <4> QED BY <1>0, <3>1, <3>2, <4>2
    <3>4. CASE d = c
      <4>1. v = w
        BY <1>7, <3>1, <3>4
      <4>2. CASE state'[c] = "disconnected"
        BY <1>0, <3>1, <3>4, <4>1, <4>2
      <4>3. CASE f = Est(c) /\ state[c] = "connecting" /\ state'[c] = "connected"
        <5>1. Est(c) # Gone(c) /\ Est(c) \in Batch(w)
          BY <1>6, <4>3, FunctorsDiffer
        <5>2. Gone(c) \in Batch(w) => Gone(c) \in Batch(w)'
          BY <1>6, <4>3, <5>1
        <5> QED BY <1>0, <1>6, <3>1, <3>2, <3>4, <4>1, <4>3, <5>1, <5>2
      <4>4. CASE /\ state'[c] = state[c]
                 /\ f = Est(c) => state[c] # "connecting"
                 /\ f = Gone(c) => state[c] # "connected"
                 /\ f = Refused(c) => state[c] \notin Up
        <5>1. f = Gone(c) => Est(c) \notin Batch(w)' /\ Est(c) \notin Waiting(w)
          <6> SUFFICES ASSUME f = Gone(c) PROVE Est(c) \notin Batch(w)' /\ Est(c) \notin Waiting(w)
            OBVIOUS
          <6>1. Est(c) \notin ToSet(Tail(running[w]))
            BY <1>0, <1>2, OrderedTail DEF Sessions, EstFirst
          <6>2. Gone(c) \in Batch(w)
            BY <1>6
          <6> QED BY <1>5, <6>1, <6>2 DEF Sessions, EstFirst, Batch
        <5>2. /\ f # Gone(c) => (Gone(c) \in Batch(w)' <=> Gone(c) \in Batch(w))
              /\ f # Refused(c) => (Refused(c) \in Batch(w)' <=> Refused(c) \in Batch(w))
              /\ Est(c) \in Batch(w)' => Est(c) \in Batch(w)
              /\ Waiting(w)' = Waiting(w)
          BY <1>6
        <5>3. NotYetUp!(d)' /\ LateAreTardy!(d)'
          BY <1>0, <3>1, <3>2, <3>4, <4>1, <4>4, <5>2
        <5>4. ConnectedEnds!(d)'
          BY <1>0, <3>1, <3>2, <3>4, <4>1, <4>4, <5>2
        <5>5. ConnectingEnds!(d)'
          BY <1>0, <3>1, <3>2, <3>4, <4>1, <4>4, <5>1, <5>2
        <5>6. RefusedEnds!(d)'
          BY <1>0, <3>1, <3>2, <3>4, <4>1, <4>4, <5>2 DEF Up
        <5> QED BY <5>3, <5>4, <5>5, <5>6
      <4> QED BY <1>3, <4>2, <4>3, <4>4 DEF Effect
    <3> QED BY <3>3, <3>4
  <2> QED BY <2>1, <2>2, <2>3, <2>4, <2>5, <2>6, <2>7 DEF Sessions
<1>12. QuitAfterDestroy'
  BY <1>0 DEF QuitAfterDestroy, baseVars
<1>13. BoundOK'
  <2>1. bound.fn = "established" =>
          NotQueued(bound.conn)' /\ state'[bound.conn] \in {"none", "connecting"}
    <3> SUFFICES ASSUME bound.fn = "established"
                 PROVE  NotQueued(bound.conn)' /\ state'[bound.conn] \in {"none", "connecting"}
      OBVIOUS
    <3>1. PICK d \in Conns : /\ d = bound.conn /\ d = bound'.conn /\ NotQueued(d)
                             /\ state[d] \in {"none", "connecting"}
      BY <1>0, BoundType DEF BoundOK, baseVars
    <3> QED BY <1>8, <1>9, <3>1
  <2>2. bound.fn \in {"removed", "destroyed"} => state'[bound.conn] = "disconnected"
    BY <1>9, BoundType DEF BoundOK
  <2> QED BY <1>0, <2>1, <2>2 DEF BoundOK, Outside, Here, baseVars
<1> QED BY <1>10, <1>11, <1>12, <1>13

------------------------------------------------------------------------------
\* The invariant says nothing of the writer of the log.
LEMMA StutterInv ==
  IInv /\ UNCHANGED <<baseVars, serverVars, loopVars, tardy, early>> => IInv'
<1> SUFFICES ASSUME IInv, UNCHANGED <<baseVars, serverVars, loopVars, tardy, early>> PROVE IInv'
  OBVIOUS
<1>1. Sessions'
  BY SessionsKept DEF IInv
<1> QED BY <1>1
  DEF IInv, baseVars, serverVars, loopVars, ServerTypeOK, Queued, QuitAfterDestroy, BoundOK, NotQueued,
      Waiting, Batch, Here, Outside

LEMMA WriterInv == ASSUME IInv, threadProc \/ SpuriousWake PROVE IInv'
<1>1. UNCHANGED <<baseVars, serverVars, loopVars, tardy, early>>
  BY DEF threadProc, SpuriousWake, Look, Wait, End, WriterStep
<1> QED BY <1>1, StutterInv

\* The inductive invariant holds in every behaviour of the shutdown.
THEOREM ShutdownInvariance == Spec => []IInv
<1>1. IInv /\ [Next]_vars => IInv'
  <2> SUFFICES ASSUME IInv, [Next]_vars PROVE IInv'
    OBVIOUS
  <2>1. CASE Base
    BY <2>1, MovesInv, NewConnectionInv, AddInv, RemoveInv, ForgetInv, QueueInv, DestroyInv, QuitInv
    DEF Base, sig_exit
  <2>2. CASE \E w \in Pool : Worker(w) \/ Returns(w) \/ \E c \in Conns : Block(w, c)
    BY <2>2, LoopInv, SendQueuedInv, TakeInv, RunInv DEF Worker
  <2>3. CASE \E w \in Pool : \E c \in Conns : Close(w, c) \/ Refuse(w, c) \/ Send(w, c)
    BY <2>3, CloseInv, RefuseInv, SendInv
  <2>4. CASE UNCHANGED vars
    BY <2>4, StutterInv DEF vars
  <2>5. CASE threadProc \/ SpuriousWake
    BY <2>5, WriterInv
  <2> QED BY <2>1, <2>2, <2>3, <2>4, <2>5 DEF Next
<1> QED BY <1>1, InitInv, PTL DEF Spec

\* Functors wait on the loop of their connection, and every connection is told UP at
\* most once, then DOWN at most once, however the server is stopped.
THEOREM ShutdownTypeOK == Spec => []TypeOK
<1> DEFINE Log == writer \in {"running", "sleepy", "waiting", "ended"} /\ missed \in BOOLEAN
<1>1. Init => Log
  BY DEF Init
<1>2. Log /\ [Next]_vars => Log'
  <2> SUFFICES ASSUME Log, [Next]_vars PROVE Log'
    OBVIOUS
  <2>1. CASE NotifyOne
    BY <2>1 DEF NotifyOne
  <2>2. CASE threadProc \/ SpuriousWake
    BY <2>2 DEF threadProc, SpuriousWake, Look, Wait, End, WriterStep
  <2>3. CASE UNCHANGED logVars
    BY <2>3 DEF logVars
  <2>4. ASSUME Base PROVE UNCHANGED logVars \/ NotifyOne
    BY <2>4 DEF Base, sig_exit, Enter, newConnection, Logged, Add, removeConnectionInLoop, Forget, Queue,
                Signal, SignalElsewhere, Destroy, Quit, Join, Stop, JoinWriter
  <2>5. ASSUME NEW w \in Pool, Worker(w) \/ Returns(w) PROVE UNCHANGED logVars
    BY <2>5 DEF Worker, EnterLoop, Check, Woken, SendQueued, Take, Run, Done, Returns
  <2>6. ASSUME NEW w \in Pool, NEW c \in Conns, Block(w, c) \/ Close(w, c) \/ Refuse(w, c) \/ Send(w, c)
        PROVE  UNCHANGED logVars
    BY <2>6 DEF Block, Close, Refuse, Send
  <2>7. CASE UNCHANGED vars
    BY <2>3, <2>7 DEF vars
  <2> QED BY <2>1, <2>2, <2>3, <2>4, <2>5, <2>6, <2>7 DEF Next
<1>3. Spec => []Log
  BY <1>1, <1>2, PTL DEF Spec
<1>4. IInv /\ Log => TypeOK
  BY DEF IInv, TypeOK
<1> QED BY <1>3, <1>4, ShutdownInvariance, PTL

\* A session that was told UP and not DOWN when its loop ended is one whose
\* connectDestroyed ~TcpServer queued after the last look of that loop but one.
THEOREM ShutdownSilentOnlyIfTardy == Spec => []SilentOnlyIfTardy
<1>1. IInv => SilentOnlyIfTardy
  <2> SUFFICES ASSUME IInv, NEW c \in Conns, loopPc[loop[c]] = "exited", told[c] = <<"UP">>
               PROVE  c \in tardy
    BY DEF SilentOnlyIfTardy
  <2> USE DEF IInv
  <2>1. PICK w \in Pool : w = loop[c]
    BY DEF ServerTypeOK
  <2>2. state[c] \in Up
    <3>1. <<>> # <<"UP">> /\ <<"UP", "DOWN">> # <<"UP">>
      OBVIOUS
    <3> QED BY <3>1 DEF Sessions, ToldIsState, ServerTypeOK, Up
  <2>3. connections = {}
    BY <2>1 DEF QuitAfterDestroy
  <2>4. Batch(w) = {}
    BY <2>1, QueueType DEF Sessions, BatchInCall
  <2>5. state[c] # "disconnecting"
    BY <2>1, <2>4 DEF Sessions, RefusedEnds
  <2> QED BY <2>1, <2>2, <2>3, <2>4, <2>5 DEF Sessions, ConnectedEnds, Up
<1> QED BY <1>1, ShutdownInvariance, PTL

\* A connection whose loop has ended and that is still up is known to nobody but
\* threads that had begun to send to it.
THEOREM ShutdownEndedLoopsUnreachable == Spec => []EndedLoopsUnreachable
<1>1. IInv => EndedLoopsUnreachable
  <2> SUFFICES ASSUME IInv, NEW c \in Conns, loopPc[loop[c]] = "exited", state[c] = "connected", Alive(c)
               PROVE  \E w \in Pool : sender[w] = c
    BY DEF EndedLoopsUnreachable
  <2> USE DEF IInv
  <2>1. PICK w \in Pool : w = loop[c]
    BY DEF ServerTypeOK
  <2>2. c \notin connections
    BY <2>1 DEF QuitAfterDestroy
  <2>3. bound.conn # c
    <3>1. bound.fn \in {"established", "removed", "destroyed", "none"}
      BY DEF BoundOK
    <3>2. bound.fn = "none" => bound.conn \notin Conns
      <4> SUFFICES ASSUME bound.fn = "none" PROVE bound.conn \notin Conns
        OBVIOUS
      <4>1. bound \notin Functors
        BY FunctorType
      <4>2. bound \notin {Functor("removed", d) : d \in Conns}
        BY DEF Functor
      <4>3. bound = NoFunctor
        BY <4>1, <4>2 DEF ServerTypeOK
      <4>4. bound.conn = Nobody
        BY <4>3 DEF NoFunctor, Functor
      <4> QED BY <4>4, ShutdownAssumption DEF ShutdownAssumption
    <3> QED BY <3>1, <3>2 DEF BoundOK
  <2>4. c \notin ToSet(removals)
    BY DEF Sessions, RemovalsDown
  <2>5. \A v \in Pool : c \notin kept[v]
    BY <2>1 DEF Sessions, KeptHere, BatchInCall
  <2>6. \A v \in Pool : \A f \in Queued(v) : f.conn # c
    <3>1. Waiting(w) = {} /\ Batch(w) = {}
      BY <2>1, QueueType DEF Sessions, BatchInCall, QuitAfterDestroy
    <3> QED BY <2>1, <3>1, QueueType DEF Queued, Waiting, Batch
  <2> QED BY <2>2, <2>3, <2>4, <2>5, <2>6 DEF Alive
<1> QED BY <1>1, ShutdownInvariance, PTL
================================================================================
