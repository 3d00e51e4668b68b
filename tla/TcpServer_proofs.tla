--------------------------- MODULE TcpServer_proofs ----------------------------
(***************************************************************************)
(* Theorems about TcpServer, for any clients, workers and descriptors: the *)
(* life of a connection.                                                   *)
(***************************************************************************)
EXTENDS TcpServer, SequenceTheorems, TLAPS

------------------------------------------------------------------------------
(* The invariant.                                                          *)

Send(c) == Functor("send", c)
Gone(c) == Functor("destroyed", c)
Waiting(l) == ToSet(pending[l])
Batch(l) == ToSet(running[l])
Young == {"none", "connecting"}
Up == {"connected", "disconnecting"}

\* What was told is what the state says.
ToldIsState ==
  \A c \in Conns : /\ state[c] \in Young => told[c] = <<>>
                   /\ state[c] \in Up => told[c] = <<"UP">>
                   /\ state[c] = "disconnected" => told[c] = <<"UP", "DOWN">>

\* A connection that was not accepted is nowhere.
NotQueued(c) == \A l \in Loops : \A f \in Waiting(l) \cup Batch(l) : f.conn # c
Unborn == \A c \in Conns :
  state[c] = "none" => /\ c \notin connections /\ NotQueued(c)
                       /\ \A l \in Loops : c \notin kept[l] /\ sender[l] # c

\* One that was is kept by the server until it is down.
Held == \A c \in Conns :
  /\ state[c] # "none" => loop[c] \in WorkerLoops /\ fd[c] \in Fds
  /\ state[c] \in Up \cup {"connecting"} => c \in connections

\* What waits in a queue knows how far its connection is.
QueuesKnow == \A l \in Loops : \A f \in Waiting(l) \cup Batch(l) :
  /\ f.fn \in {"removed", "destroyed"} => state[f.conn] = "disconnected"
  /\ f.fn \in {"send", "forceClose"} => state[f.conn] \notin Young

\* Callbacks, functors and sends have their part of the round.
Rounds == \A l \in Loops :
  /\ active[l] # {} \/ sender[l] # Nobody => round[l] = "events"
  /\ running[l] # <<>> \/ kept[l] # {} => round[l] = "functors"
  /\ sender[l] # Nobody => state[sender[l]] \notin Young

\* A connection that is to be called is kept, or its destruction waits for the end
\* of the callbacks.
ActiveHeld == \A l \in WorkerLoops : \A c \in active[l] :
  /\ state[c] \notin Young
  /\ c \in connections \/ Gone(c) \in Waiting(l)

\* A bare send is called before the destruction of its connection.
Followed(s, c) == \A i \in 1..Len(s) :
  s[i] = Send(c) => \E j \in 1..Len(s) : i < j /\ s[j] = Gone(c)
SendsFirst == \A l \in WorkerLoops, c \in Conns :
  c \notin connections /\ c \notin late =>
    /\ Followed(pending[l], c)
    /\ Gone(c) \in Waiting(l) \/ Followed(running[l], c)

Lifetime == /\ ToldIsState /\ Unborn /\ Held /\ QueuesKnow /\ Rounds /\ ActiveHeld /\ SendsFirst

\* The channel of a connection follows its state.
Follows(c) ==
  /\ state[c] \in Young => events[c] = {} /\ index[c] = "new" /\ ~out[c]
  /\ state[c] \in Up => "read" \in events[c] /\ index[c] # "deleted"
  /\ state[c] = "disconnected" => events[c] = {} /\ index[c] # "added"
  /\ state[c] = "connected" /\ out[c] => isWriting(c)
  /\ halfClosed[c] => ~out[c] /\ ~isWriting(c)

\* The poller knows the channels that were added, by their descriptors, for good.
Entries ==
  /\ \A l \in Loops : \A x \in DOMAIN channels[l] :
       LET d == channels[l][x]
       IN  fd[d] = x /\ loop[d] = l /\ state[d] \notin Young /\ index[d] # "new"
  /\ \A c \in Conns : index[c] # "new" => Mine(c)

ChannelInv == (\A c \in Conns : Follows(c)) /\ Entries

\* Descriptors are those of live objects.
FdsDiffer == \A c, d \in Conns : Alive(c) /\ Alive(d) /\ fd[c] = fd[d] => c = d
Unwatched == \A c \in Conns :
  state[c] \in Up /\ index[c] = "new" =>
    Known(c) /\ \A d \in Conns : channels[loop[c]][fd[c]] = d => ~Alive(d)

FdInv == FdsDiffer /\ Unwatched

\* Only a reset calls the message callback of a connection that is down.
ReadsOfReset == \A l \in WorkerLoops : \A c \in active[l] :
  /\ "error" \in revents[c] => peer[c] = "reset"
  /\ "read" \in revents[c] /\ state[c] = "disconnected" => peer[c] = "reset"
ResetInv == ReadsOfReset /\ OrphansOnlyByReset

IInv == ServerTypeOK /\ Lifetime /\ ChannelInv /\ FdInv /\ ResetInv

------------------------------------------------------------------------------
(* Sequences of functors as sets, and their order.                         *)

LEMMA AppendSet ==
  ASSUME NEW S, NEW s \in Seq(S), NEW e \in S
  PROVE  Append(s, e) \in Seq(S) /\ ToSet(Append(s, e)) = ToSet(s) \cup {e}
<1>1. /\ Append(s, e) \in Seq(S) /\ Len(Append(s, e)) = Len(s) + 1 /\ Len(s) \in Nat
      /\ \A i \in 1..Len(s) : Append(s, e)[i] = s[i]
      /\ Append(s, e)[Len(s) + 1] = e
  BY AppendProperties
<1>2. /\ ToSet(s) = {s[i] : i \in 1..Len(s)}
      /\ ToSet(Append(s, e)) = {Append(s, e)[i] : i \in 1..Len(s) + 1}
  BY <1>1 DEF ToSet
<1>3. ASSUME NEW x \in ToSet(s) PROVE x \in ToSet(Append(s, e))
  <2>1. PICK i \in 1..Len(s) : x = s[i]
    BY <1>2
  <2> QED BY <1>1, <1>2, <2>1
<1>4. e \in ToSet(Append(s, e))
  BY <1>1, <1>2
<1>5. ASSUME NEW x \in ToSet(Append(s, e)), x # e PROVE x \in ToSet(s)
  <2>1. PICK i \in 1..Len(s) + 1 : x = Append(s, e)[i]
    BY <1>2
  <2>2. i \in 1..Len(s)
    BY <1>1, <1>5, <2>1
  <2> QED BY <1>1, <1>2, <2>1, <2>2
<1> QED BY <1>1, <1>3, <1>4, <1>5

LEMMA TailSet ==
  ASSUME NEW S, NEW s \in Seq(S), s # <<>>
  PROVE  /\ Tail(s) \in Seq(S) /\ Head(s) \in S
         /\ ToSet(s) = ToSet(Tail(s)) \cup {Head(s)}
<1>1. /\ Head(s) \in S /\ Tail(s) \in Seq(S) /\ Len(Tail(s)) = Len(s) - 1
      /\ \A i \in 1..Len(Tail(s)) : Tail(s)[i] = s[i + 1]
  BY HeadTailProperties
<1>2. Len(s) \in Nat \ {0} /\ Head(s) = s[1]
  OBVIOUS
<1>3. /\ ToSet(s) = {s[i] : i \in 1..Len(s)}
      /\ ToSet(Tail(s)) = {Tail(s)[i] : i \in 1..Len(s) - 1}
  <2>1. DOMAIN s = 1..Len(s) /\ DOMAIN Tail(s) = 1..Len(Tail(s))
    BY <1>1
  <2> QED BY <1>1, <2>1 DEF ToSet
<1>4. ASSUME NEW x \in ToSet(Tail(s)) PROVE x \in ToSet(s)
  <2>1. PICK i \in 1..Len(s) - 1 : x = Tail(s)[i]
    BY <1>3
  <2>2. i + 1 \in 1..Len(s) /\ x = s[i + 1]
    BY <1>1, <1>2, <2>1
  <2> QED BY <1>3, <2>2
<1>5. Head(s) \in ToSet(s)
  BY <1>2, <1>3
<1>6. ASSUME NEW x \in ToSet(s), x # Head(s) PROVE x \in ToSet(Tail(s))
  <2>1. PICK i \in 1..Len(s) : x = s[i]
    BY <1>3
  <2>2. i - 1 \in 1..Len(s) - 1 /\ Tail(s)[i - 1] = s[(i - 1) + 1]
    BY <1>1, <1>2, <1>6, <2>1
  <2>3. x = Tail(s)[i - 1]
    BY <2>1, <2>2
  <2> QED BY <1>3, <2>2, <2>3
<1> QED BY <1>1, <1>4, <1>5, <1>6

LEMMA SetOfSeq ==
  ASSUME NEW S, NEW s \in Seq(S)
  PROVE  /\ ToSet(s) \subseteq S
         /\ s = <<>> <=> ToSet(s) = {}
<1>1. ToSet(s) = {s[i] : i \in 1..Len(s)} /\ Len(s) \in Nat
  BY DEF ToSet
<1>2. ToSet(s) \subseteq S
  BY <1>1
<1>3. ASSUME s = <<>> PROVE ToSet(s) = {}
  BY <1>1, <1>3
<1>4. ASSUME s # <<>> PROVE ToSet(s) # {}
  <2>1. 1 \in 1..Len(s)
    BY <1>1, <1>4
  <2> QED BY <1>1, <2>1
<1> QED BY <1>2, <1>3, <1>4

LEMMA NoFunctors == <<>> \in Seq(Functors) /\ ToSet(<<>>) = {}
<1>1. <<>> \in Seq(Functors)
  OBVIOUS
<1> QED BY <1>1, SetOfSeq

\* A functor is its name and its connection.
LEMMA FunctorType ==
  /\ \A f \in Functors : f.conn \in Conns /\ f.fn \in Fns /\ f = Functor(f.fn, f.conn)
  /\ \A fn \in Fns, c \in Conns : Functor(fn, c) \in Functors
<1>1. ASSUME NEW f \in Functors
      PROVE  f.conn \in Conns /\ f.fn \in Fns /\ f = Functor(f.fn, f.conn)
  <2>1. PICK fn \in Fns, c \in Conns : f = Functor(fn, c)
    BY DEF Functors
  <2>2. f.fn = fn /\ f.conn = c
    BY <2>1 DEF Functor
  <2> QED BY <2>1, <2>2
<1>2. \A fn \in Fns, c \in Conns : Functor(fn, c) \in Functors
  BY DEF Functors
<1> QED BY <1>1, <1>2

LEMMA FunctorParts ==
  \A fn, c : Functor(fn, c).fn = fn /\ Functor(fn, c).conn = c
BY DEF Functor

\* Sends stay followed when a functor is queued that is none, when the destruction
\* of their connection is queued, and when the first functor is taken.
LEMMA FollowedAppend ==
  ASSUME NEW s \in Seq(Functors), NEW f \in Functors, NEW c \in Conns
  PROVE  /\ Followed(s, c) /\ f # Send(c) => Followed(Append(s, f), c)
         /\ f = Gone(c) => Followed(Append(s, f), c)
<1>1. /\ Len(s) \in Nat /\ Append(s, f)[Len(s) + 1] = f /\ Len(Append(s, f)) = Len(s) + 1
      /\ \A k \in 1..Len(s) : Append(s, f)[k] = s[k]
  BY AppendProperties
<1>2. ASSUME Followed(s, c), f # Send(c) PROVE Followed(Append(s, f), c)
  <2> SUFFICES ASSUME NEW i \in 1..Len(s) + 1, Append(s, f)[i] = Send(c)
               PROVE  \E j \in 1..Len(s) + 1 : i < j /\ Append(s, f)[j] = Gone(c)
    BY <1>1 DEF Followed
  <2>1. i \in 1..Len(s) /\ s[i] = Send(c)
    BY <1>1, <1>2
  <2>2. PICK j \in 1..Len(s) : i < j /\ s[j] = Gone(c)
    BY <1>2, <2>1 DEF Followed
  <2> QED BY <1>1, <2>2
<1>3. ASSUME f = Gone(c) PROVE Followed(Append(s, f), c)
  <2> SUFFICES ASSUME NEW i \in 1..Len(s) + 1, Append(s, f)[i] = Send(c)
               PROVE  \E j \in 1..Len(s) + 1 : i < j /\ Append(s, f)[j] = Gone(c)
    BY <1>1 DEF Followed
  <2>1. i # Len(s) + 1
    BY <1>1, <1>3, FunctorParts DEF Send, Gone
  <2>2. Len(s) + 1 \in 1..Len(s) + 1 /\ i < Len(s) + 1
    BY <1>1, <2>1
  <2> QED BY <1>1, <1>3, <2>2
<1> QED BY <1>2, <1>3

LEMMA FollowedTail ==
  ASSUME NEW s \in Seq(Functors), s # <<>>, NEW c \in Conns, Followed(s, c)
  PROVE  Followed(Tail(s), c)
<1>1. /\ Tail(s) \in Seq(Functors) /\ Len(Tail(s)) = Len(s) - 1 /\ Len(s) \in Nat \ {0}
      /\ \A i \in 1..Len(Tail(s)) : Tail(s)[i] = s[i + 1]
  BY HeadTailProperties
<1> SUFFICES ASSUME NEW i \in 1..Len(Tail(s)), Tail(s)[i] = Send(c)
             PROVE  \E j \in 1..Len(Tail(s)) : i < j /\ Tail(s)[j] = Gone(c)
  BY DEF Followed
<1>2. i + 1 \in 1..Len(s) /\ s[i + 1] = Send(c)
  BY <1>1
<1>3. PICK j \in 1..Len(s) : i + 1 < j /\ s[j] = Gone(c)
  BY <1>2 DEF Followed
<1>4. j - 1 \in 1..Len(Tail(s)) /\ i < j - 1 /\ Tail(s)[j - 1] = s[(j - 1) + 1]
  BY <1>1, <1>3
<1> QED BY <1>1, <1>3, <1>4

LEMMA FollowedNothing ==
  ASSUME NEW s \in Seq(Functors), NEW c, \A f \in ToSet(s) : f.conn # c
  PROVE  Followed(s, c)
<1>1. \A i \in 1..Len(s) : s[i] \in ToSet(s)
  BY DEF ToSet
<1> QED BY <1>1, FunctorParts DEF Followed, Send

\* A send of the batch is before the destruction that follows it, or there is none.
LEMMA FollowedSend ==
  ASSUME NEW s \in Seq(Functors), NEW c, Followed(s, c), Send(c) \in ToSet(s)
  PROVE  Gone(c) \in ToSet(s)
<1>1. PICK i \in 1..Len(s) : s[i] = Send(c)
  BY DEF ToSet
<1>2. PICK j \in 1..Len(s) : s[j] = Gone(c)
  BY <1>1 DEF Followed
<1> QED BY <1>2 DEF ToSet

------------------------------------------------------------------------------
(* What the parts of an action do.                                         *)

LEMMA LoopFacts == /\ WorkerLoops \subseteq Loops /\ Base \in Loops /\ Base \notin WorkerLoops
                   /\ Loops = WorkerLoops \cup {Base}
                   /\ Len(Workers) \in Nat \ {0}
                   /\ \A i \in 1..Len(Workers) : Workers[i] \in WorkerLoops
<1>1. Workers \in Seq(WorkerLoops) /\ Workers # <<>> /\ Base \notin WorkerLoops
  BY ServerAssumption DEF ServerAssumption
<1>2. Len(Workers) \in Nat \ {0} /\ \A i \in 1..Len(Workers) : Workers[i] \in WorkerLoops
  BY <1>1
<1> QED BY <1>1, <1>2 DEF Loops

LEMMA Names == Nobody \notin Conns /\ Acceptor \notin Conns
BY ServerAssumption DEF ServerAssumption

\* What ServerTypeOK says of the queues, as sets.
LEMMA QueueType ==
  ASSUME ServerTypeOK, NEW l \in Loops
  PROVE  /\ pending[l] \in Seq(Functors) /\ running[l] \in Seq(Functors)
         /\ Waiting(l) \subseteq Functors /\ Batch(l) \subseteq Functors
         /\ pending[l] = <<>> <=> Waiting(l) = {}
         /\ running[l] = <<>> <=> Batch(l) = {}
         /\ l = Base => \A f \in Waiting(l) \cup Batch(l) : f.fn = "removed"
         /\ l # Base => \A f \in Waiting(l) \cup Batch(l) : f.fn # "removed" /\ loop[f.conn] = l
<1>1. pending[l] \in Seq(Functors) /\ running[l] \in Seq(Functors)
  BY DEF ServerTypeOK
<1> QED BY <1>1, SetOfSeq, LoopFacts DEF ServerTypeOK, Queued, Waiting, Batch

LEMMA PushFacts ==
  ASSUME ServerTypeOK, NEW l \in Loops, NEW f \in Functors, queueInLoop(l, f)
  PROVE  /\ pending' \in [Loops -> Seq(Functors)]
         /\ pending'[l] = Append(pending[l], f) /\ Waiting(l)' = Waiting(l) \cup {f}
         /\ \A k \in Loops : k # l => pending'[k] = pending[k] /\ Waiting(k)' = Waiting(k)
<1>1. pending[l] \in Seq(Functors) /\ pending \in [Loops -> Seq(Functors)]
  BY DEF ServerTypeOK
<1>2. /\ Append(pending[l], f) \in Seq(Functors)
      /\ ToSet(Append(pending[l], f)) = ToSet(pending[l]) \cup {f}
  BY <1>1, AppendSet
<1>3. pending' = [pending EXCEPT ![l] = Append(pending[l], f)]
  BY DEF queueInLoop
<1> QED BY <1>1, <1>2, <1>3 DEF Waiting

LEMMA RunFacts ==
  ASSUME ServerTypeOK, NEW l \in Loops, NEW fn, NEW c \in Conns, Runs(l, fn, c)
  PROVE  /\ round[l] = "functors"
         /\ Functor(fn, c) \in Functors /\ Functor(fn, c) \in Batch(l)
         /\ running' \in [Loops -> Seq(Functors)] /\ running[l] # <<>>
         /\ running'[l] = Tail(running[l]) /\ Batch(l) = Batch(l)' \cup {Functor(fn, c)}
         /\ Head(running[l]) = Functor(fn, c)
         /\ kept' \in [Loops -> SUBSET Conns]
         /\ kept'[l] = IF fn = "send" THEN kept[l] ELSE kept[l] \cup {c}
         /\ \A k \in Loops : k # l => /\ running'[k] = running[k] /\ Batch(k)' = Batch(k)
                                      /\ kept'[k] = kept[k]
         /\ UNCHANGED <<round, active, current, revents, sender>>
<1>1. /\ running[l] \in Seq(Functors) /\ running \in [Loops -> Seq(Functors)]
      /\ kept \in [Loops -> SUBSET Conns]
  BY DEF ServerTypeOK
<1>2. /\ round[l] = "functors" /\ running[l] # <<>> /\ Head(running[l]) = Functor(fn, c)
      /\ running' = [running EXCEPT ![l] = Tail(running[l])]
      /\ kept' = [kept EXCEPT ![l] = IF fn = "send" THEN kept[l] ELSE kept[l] \cup {c}]
      /\ UNCHANGED <<round, active, current, revents, sender>>
  BY DEF Runs
<1>3. /\ Tail(running[l]) \in Seq(Functors) /\ Head(running[l]) \in Functors
      /\ ToSet(running[l]) = ToSet(Tail(running[l])) \cup {Head(running[l])}
  BY <1>1, <1>2, TailSet
<1>4. /\ running' \in [Loops -> Seq(Functors)] /\ running'[l] = Tail(running[l])
      /\ \A k \in Loops : k # l => running'[k] = running[k]
  BY <1>1, <1>2, <1>3
<1>5. /\ kept' \in [Loops -> SUBSET Conns]
      /\ kept'[l] = IF fn = "send" THEN kept[l] ELSE kept[l] \cup {c}
      /\ \A k \in Loops : k # l => kept'[k] = kept[k]
  BY <1>1, <1>2
<1> QED BY <1>2, <1>3, <1>4, <1>5 DEF Batch

LEMMA CallFacts ==
  ASSUME ServerTypeOK, NEW l \in Loops, NEW c \in Conns, NEW ev, Calls(l, c, ev)
  PROVE  /\ l \in WorkerLoops /\ c \in active[l] /\ loop[c] = l /\ ev \in revents[c]
         /\ round[l] = "events" /\ sender[l] = Nobody
         /\ active' \in [Loops -> SUBSET (Conns \cup {Acceptor})]
         /\ \A k \in Loops : active'[k] \subseteq active[k]
         /\ current' \in [Loops -> Conns \cup {Nobody}]
         /\ revents' \in [Conns -> SUBSET {"error", "read", "write"}]
         /\ \A d \in Conns : revents'[d] \subseteq revents[d]
         /\ ev \notin revents'[c]
         /\ UNCHANGED <<round, running, kept>>
<1>1. /\ round[l] = "events" /\ sender[l] = Nobody /\ c \in active[l] /\ ev \in revents[c]
      /\ revents' = [revents EXCEPT ![c] = revents[c] \ {ev}]
      /\ \/ /\ active' = [active EXCEPT ![l] = active[l] \ {c}]
            /\ current' = [current EXCEPT ![l] = Nobody]
         \/ current' = [current EXCEPT ![l] = c] /\ active' = active
      /\ UNCHANGED <<round, running, kept>>
  BY DEF Calls, First
<1>2. l \in WorkerLoops
  BY <1>1, LoopFacts, Names DEF ServerTypeOK
<1>3. /\ active \in [Loops -> SUBSET (Conns \cup {Acceptor})]
      /\ current \in [Loops -> Conns \cup {Nobody}]
      /\ revents \in [Conns -> SUBSET {"error", "read", "write"}]
      /\ loop[c] = l
  BY <1>1, <1>2 DEF ServerTypeOK
<1>4. /\ active' \in [Loops -> SUBSET (Conns \cup {Acceptor})]
      /\ \A k \in Loops : active'[k] \subseteq active[k]
  BY <1>1, <1>3
<1>5. current' \in [Loops -> Conns \cup {Nobody}]
  BY <1>1, <1>3
<1>6. /\ revents' \in [Conns -> SUBSET {"error", "read", "write"}]
      /\ \A d \in Conns : revents'[d] \subseteq revents[d]
      /\ ev \notin revents'[c]
  BY <1>1, <1>3
<1> QED BY <1>1, <1>2, <1>3, <1>4, <1>5, <1>6

\* A shared_ptr in a queue, on the stack or in the batch of loop l.
Holds(l, c) == \/ sender[l] = c \/ c \in kept[l]
               \/ \E f \in Waiting(l) \cup Batch(l) : f.conn = c /\ f.fn # "send"

LEMMA AliveIs == \A c : Alive(c) <=> c \in connections \/ \E l \in Loops : Holds(l, c)
BY DEF Alive, Holds, Queued, Owns, Waiting, Batch

LEMMA AliveIsNext == \A c : Alive(c)' <=> c \in connections' \/ \E l \in Loops : Holds(l, c)'
BY DEF Alive, Holds, Queued, Owns, Waiting, Batch

------------------------------------------------------------------------------
(* The channels.                                                           *)

\* No entry of a poller is taken away or changed.
ChannelsGrow == \A l \in Loops : \A x \in DOMAIN channels[l] :
  x \in DOMAIN channels'[l] /\ channels'[l][x] = channels[l][x]

LEMMA TableFacts ==
  ASSUME NEW t \in Tables
  PROVE  /\ DOMAIN t \subseteq Fds /\ \A x \in DOMAIN t : t[x] \in Conns
         /\ \A x \in Fds, c \in Conns :
              [y \in DOMAIN t \cup {x} |-> IF y = x THEN c ELSE t[y]] \in Tables
<1>1. PICK D \in SUBSET Fds : t \in [D -> Conns]
  BY DEF Tables
<1>2. ASSUME NEW x \in Fds, NEW c \in Conns
      PROVE  [y \in DOMAIN t \cup {x} |-> IF y = x THEN c ELSE t[y]] \in Tables
  <2>1. D \cup {x} \in SUBSET Fds
    OBVIOUS
  <2>2. [y \in D \cup {x} |-> IF y = x THEN c ELSE t[y]] \in [D \cup {x} -> Conns]
    BY <1>1
  <2>3. DOMAIN t = D
    BY <1>1
  <2> QED BY <2>1, <2>2, <2>3 DEF Tables
<1> QED BY <1>1, <1>2

LEMMA UpdateFacts ==
  ASSUME ServerTypeOK, NEW c \in Conns, NEW es \in SUBSET {"read", "write"}, updateChannel(c, es),
         fd[c] \in Fds, Entries
  PROVE  /\ channels' \in [Loops -> Tables] /\ ChannelsGrow
         /\ \A l \in Loops : \A x \in DOMAIN channels'[l] :
              \/ x \in DOMAIN channels[l] /\ channels'[l][x] = channels[l][x]
              \/ /\ l = loop[c] /\ x = fd[c] /\ channels'[l][x] = c
                 /\ index'[c] = "added"
         /\ events' \in [Conns -> SUBSET {"read", "write"}] /\ events'[c] = es
         /\ index' \in [Conns -> {"new", "added", "deleted"}]
         /\ \A d \in Conns : d # c => events'[d] = events[d] /\ index'[d] = index[d]
         /\ \/ /\ index[c] = "new" /\ ~Known(c) /\ index'[c] = "added"
               /\ fd[c] \in DOMAIN channels'[loop[c]] /\ channels'[loop[c]][fd[c]] = c
            \/ index[c] = "new" /\ Known(c) /\ index'[c] = "new"
            \/ index[c] = "deleted" /\ index'[c] = "added"
            \/ index[c] = "added" /\ index'[c] = IF es = {} THEN "deleted" ELSE "added"
<1>1. /\ events \in [Conns -> SUBSET {"read", "write"}]
      /\ index \in [Conns -> {"new", "added", "deleted"}]
      /\ channels \in [Loops -> Tables] /\ loop[c] \in Loops
  BY DEF ServerTypeOK
<1>2. /\ events' \in [Conns -> SUBSET {"read", "write"}] /\ events'[c] = es
      /\ \A d \in Conns : d # c => events'[d] = events[d]
  BY <1>1 DEF updateChannel
<1>3. index[c] # "new" => Mine(c)
  BY DEF Entries
<1>4. CASE Watch(c)
  <2> DEFINE t == channels[loop[c]]
             u == [y \in DOMAIN t \cup {fd[c]} |-> IF y = fd[c] THEN c ELSE t[y]]
  <2>1. /\ index[c] = "new" /\ fd[c] \notin DOMAIN t
        /\ channels' = [channels EXCEPT ![loop[c]] = u]
        /\ index' = [index EXCEPT ![c] = "added"]
    BY <1>4 DEF Watch, Known
  <2>2. t \in Tables /\ u \in Tables /\ DOMAIN u = DOMAIN t \cup {fd[c]}
    <3>1. t \in Tables
      BY <1>1
    <3>2. \A x \in Fds, d \in Conns :
            [y \in DOMAIN t \cup {x} |-> IF y = x THEN d ELSE t[y]] \in Tables
      BY <3>1, TableFacts
    <3>3. u \in Tables
      BY <3>2
    <3> QED BY <3>1, <3>3
  <2>3. u[fd[c]] = c /\ \A x \in DOMAIN t : u[x] = t[x]
    BY <2>1
  <2> HIDE DEF t, u
  <2>4. /\ channels' \in [Loops -> Tables] /\ channels'[loop[c]] = u
        /\ \A l \in Loops : l # loop[c] => channels'[l] = channels[l]
    BY <1>1, <2>1, <2>2
  <2>5. index' \in [Conns -> {"new", "added", "deleted"}] /\ index'[c] = "added"
        /\ \A d \in Conns : d # c => index'[d] = index[d]
    BY <1>1, <2>1
  <2>6. ChannelsGrow
    BY <2>2, <2>3, <2>4 DEF ChannelsGrow, t
  <2>7. ASSUME NEW l \in Loops, NEW x \in DOMAIN channels'[l]
        PROVE  \/ x \in DOMAIN channels[l] /\ channels'[l][x] = channels[l][x]
               \/ l = loop[c] /\ x = fd[c] /\ channels'[l][x] = c
    BY <2>2, <2>3, <2>4 DEF t
  <2> QED BY <1>2, <2>1, <2>2, <2>3, <2>4, <2>5, <2>6, <2>7 DEF Known, t
<1>5. CASE channels' = channels /\ index' \in [Conns -> {"new", "added", "deleted"}]
           /\ (\A d \in Conns : d # c => index'[d] = index[d])
           /\ \/ index[c] = "new" /\ Known(c) /\ index'[c] = "new"
              \/ index[c] = "deleted" /\ index'[c] = "added"
              \/ index[c] = "added" /\ index'[c] = IF es = {} THEN "deleted" ELSE "added"
  BY <1>1, <1>2, <1>5 DEF ChannelsGrow
<1>6. CASE WatchFails(c)
  BY <1>1, <1>3, <1>5, <1>6 DEF WatchFails
<1>7. CASE Rewatch(c)
  <2>1. /\ index[c] = "deleted" /\ channels' = channels
        /\ index' = [index EXCEPT ![c] = "added"]
    BY <1>7 DEF Rewatch
  <2> QED BY <1>1, <1>5, <2>1
<1>8. CASE Modify(c, es)
  <2>1. /\ index[c] = "added" /\ channels' = channels
        /\ index' = [index EXCEPT ![c] = IF es = {} THEN "deleted" ELSE "added"]
    BY <1>8 DEF Modify
  <2> QED BY <1>1, <1>5, <2>1
<1> QED BY <1>4, <1>6, <1>7, <1>8 DEF updateChannel

\* The invariant of the channels when the channel of c, or none, changes with its
\* connection.
LEMMA ChannelKept ==
  ASSUME ServerTypeOK, ChannelInv, NEW c \in Conns, UNCHANGED <<fd, loop, channelVars>>,
         \A d \in Conns : d # c => /\ state'[d] = state[d] /\ out'[d] = out[d]
                                   /\ halfClosed'[d] = halfClosed[d],
         state'[c] \in Young => state[c] \in Young, Follows(c)'
  PROVE  ChannelInv'
<1>1. \A d \in Conns : Follows(d)'
  <2> SUFFICES ASSUME NEW d \in Conns, d # c PROVE Follows(d)'
    OBVIOUS
  <2>1. /\ Follows(d) /\ state'[d] = state[d] /\ out'[d] = out[d] /\ halfClosed'[d] = halfClosed[d]
        /\ UNCHANGED <<events, index>>
    BY DEF ChannelInv, channelVars
  <2> QED BY <2>1 DEF Follows, isWriting
<1>2. Entries'
  <2>1. \A l \in Loops : \A x \in DOMAIN channels[l] : channels[l][x] \in Conns
    BY TableFacts DEF ServerTypeOK
  <2>2. \A d \in Conns : state'[d] \in Young => state[d] \in Young
    OBVIOUS
  <2>3. UNCHANGED <<fd, loop, channels, index>>
    BY DEF channelVars
  <2> QED BY <2>1, <2>2, <2>3 DEF ChannelInv, Entries, Mine, Known
<1> QED BY <1>1, <1>2 DEF ChannelInv

LEMMA ChannelUpdated ==
  ASSUME ServerTypeOK, ChannelInv, NEW c \in Conns, NEW es \in SUBSET {"read", "write"},
         updateChannel(c, es), fd[c] \in Fds, UNCHANGED <<fd, loop>>,
         \A d \in Conns : d # c => /\ state'[d] = state[d] /\ out'[d] = out[d]
                                   /\ halfClosed'[d] = halfClosed[d],
         state'[c] \notin Young, Follows(c)'
  PROVE  ChannelInv'
<1>1. /\ ChannelsGrow /\ \A d \in Conns : d # c => events'[d] = events[d] /\ index'[d] = index[d]
      /\ index[c] # "new" => index'[c] # "new"
  BY UpdateFacts DEF ChannelInv
<1>2. \A l \in Loops : \A x \in DOMAIN channels'[l] :
        \/ x \in DOMAIN channels[l] /\ channels'[l][x] = channels[l][x]
        \/ /\ l = loop[c] /\ x = fd[c] /\ channels'[l][x] = c /\ index'[c] = "added"
  BY UpdateFacts DEF ChannelInv
<1>3. /\ index[c] = "new" /\ index'[c] # "new" =>
           fd[c] \in DOMAIN channels'[loop[c]] /\ channels'[loop[c]][fd[c]] = c
  BY UpdateFacts DEF ChannelInv
<1>4. \A d \in Conns : Follows(d)'
  <2> SUFFICES ASSUME NEW d \in Conns, d # c PROVE Follows(d)'
    OBVIOUS
  <2>1. Follows(d)
    BY DEF ChannelInv
  <2> QED BY <1>1, <2>1 DEF Follows, isWriting
<1>5. \A l \in Loops : \A x \in DOMAIN channels[l] : channels[l][x] \in Conns
  BY TableFacts DEF ServerTypeOK
<1>6. ASSUME NEW l \in Loops, NEW x \in DOMAIN channels'[l], NEW d, d = channels'[l][x]
      PROVE  fd'[d] = x /\ loop'[d] = l /\ state'[d] \notin Young /\ index'[d] # "new"
  <2>1. CASE d = c /\ index'[c] = "added" /\ l = loop[c] /\ x = fd[c]
    BY <2>1
  <2>2. CASE x \in DOMAIN channels[l] /\ d = channels[l][x]
    <3>1. /\ d \in Conns /\ fd[d] = x /\ loop[d] = l /\ state[d] \notin Young
          /\ index[d] # "new"
      BY <1>5, <2>2 DEF ChannelInv, Entries
    <3> QED BY <1>1, <3>1
  <2> QED BY <1>2, <1>6, <2>1, <2>2
<1>7. ASSUME NEW d \in Conns, index'[d] # "new"
      PROVE  fd[d] \in DOMAIN channels'[loop[d]] /\ channels'[loop[d]][fd[d]] = d
  <2>1. CASE index[d] # "new"
    <3>1. loop[d] \in Loops /\ fd[d] \in DOMAIN channels[loop[d]] /\ channels[loop[d]][fd[d]] = d
      BY <2>1 DEF ServerTypeOK, ChannelInv, Entries, Mine, Known
    <3> QED BY <1>1, <3>1 DEF ChannelsGrow
  <2>2. CASE index[d] = "new"
    <3>1. d = c
      BY <1>1, <1>7, <2>2
    <3> QED BY <1>3, <1>7, <2>2, <3>1
  <2> QED BY <2>1, <2>2
<1>8. Entries'
  BY <1>6, <1>7 DEF Entries, Mine, Known
<1> QED BY <1>4, <1>8 DEF ChannelInv

\* handleClose: the channel is left for good.
LEMMA ChannelClosed ==
  ASSUME ServerTypeOK, ChannelInv, FdInv, NEW c \in Conns, updateChannel(c, {}), fd[c] \in Fds,
         state[c] \in Up, state' = [state EXCEPT ![c] = "disconnected"],
         UNCHANGED <<fd, loop, out, halfClosed>>
  PROVE  ChannelInv'
<1>1. Follows(c) /\ (index[c] = "new" => Known(c))
  BY DEF ChannelInv, FdInv, Unwatched
<1>2. events'[c] = {} /\ index'[c] # "added"
  <2>1. {} \in SUBSET {"read", "write"}
    OBVIOUS
  <2>2. index[c] \in {"new", "added"}
    BY <1>1 DEF Follows, ServerTypeOK
  <2> QED BY <1>1, <2>1, <2>2, UpdateFacts DEF ChannelInv
<1>3. state'[c] = "disconnected" /\ \A d \in Conns : d # c => state'[d] = state[d]
  BY DEF ServerTypeOK
<1>4. Follows(c)'
  BY <1>1, <1>2, <1>3 DEF Follows, isWriting, Young, Up
<1> QED BY <1>3, <1>4, ChannelUpdated DEF Young

\* Descriptors and the poller when no object comes to life.
LEMMA FdKept ==
  ASSUME ServerTypeOK, FdInv, UNCHANGED <<fd, loop>>, ChannelsGrow,
         \A d \in Conns : Alive(d)' => Alive(d),
         \A c \in Conns : state'[c] \in Up /\ index'[c] = "new" =>
           Known(c) /\ \A d \in Conns : channels[loop[c]][fd[c]] = d => ~Alive(d)
  PROVE  FdInv'
<1>1. FdsDiffer'
  BY DEF FdInv, FdsDiffer
<1>2. Unwatched'
  <2> SUFFICES ASSUME NEW c \in Conns, state'[c] \in Up, index'[c] = "new"
               PROVE  /\ Known(c)'
                      /\ \A d \in Conns : channels'[loop'[c]][fd'[c]] = d => ~Alive(d)'
    BY DEF Unwatched
  <2>1. /\ Known(c) /\ loop[c] \in Loops
        /\ \A d \in Conns : channels[loop[c]][fd[c]] = d => ~Alive(d)
    BY DEF ServerTypeOK
  <2>2. fd[c] \in DOMAIN channels'[loop[c]] /\ channels'[loop[c]][fd[c]] = channels[loop[c]][fd[c]]
    BY <2>1 DEF ChannelsGrow, Known
  <2> QED BY <2>1, <2>2 DEF Known
<1> QED BY <1>1, <1>2 DEF FdInv

LEMMA ResetKept ==
  ASSUME ServerTypeOK, ResetInv,
         \A c \in Conns : peer[c] = "reset" => peer'[c] = "reset",
         \A l \in WorkerLoops : active'[l] \subseteq active[l],
         \A c \in Conns : revents'[c] \subseteq revents[c],
         \A l \in WorkerLoops : \A c \in active'[l] :
           state'[c] = "disconnected" /\ "read" \in revents'[c] =>
             state[c] = "disconnected" \/ peer[c] = "reset",
         \A c \in orphans' : c \in orphans \/ (c \in Conns /\ peer[c] = "reset")
  PROVE  ResetInv'
<1>1. ReadsOfReset'
  BY DEF ResetInv, ReadsOfReset, ServerTypeOK
<1>2. OrphansOnlyByReset'
  BY DEF ResetInv, OrphansOnlyByReset, ServerTypeOK
<1> QED BY <1>1, <1>2 DEF ResetInv

------------------------------------------------------------------------------
(* Objects and queues.                                                     *)

LEMMA QueueTypeNext ==
  ASSUME ServerTypeOK', NEW l \in Loops
  PROVE  /\ pending'[l] \in Seq(Functors) /\ running'[l] \in Seq(Functors)
         /\ Waiting(l)' \subseteq Functors /\ Batch(l)' \subseteq Functors
         /\ l # Base => \A f \in Waiting(l)' \cup Batch(l)' : loop'[f.conn] = l
<1>1. pending'[l] \in Seq(Functors) /\ running'[l] \in Seq(Functors)
  BY DEF ServerTypeOK
<1> QED BY <1>1, SetOfSeq, LoopFacts DEF ServerTypeOK, Queued, Waiting, Batch

\* What a functor says of its connection.
Knows(f) == /\ f.fn \in {"removed", "destroyed"} => state[f.conn] = "disconnected"
            /\ f.fn \in {"send", "forceClose"} => state[f.conn] \notin Young

\* A step of a loop that calls something, a functor of its batch perhaps, and queues
\* at most one functor, or is about to send.
Moves ==
  /\ UNCHANGED <<loop, fd, late, round>>
  /\ \A d \in Conns : \/ state'[d] = state[d]
                      \/ state[d] = "connecting" /\ state'[d] = "connected"
                      \/ state[d] \in Up /\ state'[d] \in {"disconnecting", "disconnected"}
  /\ connections' \subseteq connections
  /\ \A d \in connections \ connections' :
       state'[d] = "disconnected" /\ pending'[loop[d]] = Append(pending[loop[d]], Gone(d))
  /\ \A l \in Loops :
       /\ \/ pending'[l] = pending[l]
          \/ \E f \in Functors : /\ pending'[l] = Append(pending[l], f) /\ f.fn # "send"
                                 /\ state'[f.conn] # "none" /\ Knows(f)'
       /\ \/ running'[l] = running[l] /\ kept'[l] = kept[l]
          \/ /\ running[l] # <<>> /\ running'[l] = Tail(running[l])
             /\ \A d \in kept'[l] : d \in kept[l] \/ \E f \in Batch(l) : f.conn = d
       /\ \/ sender'[l] = sender[l]
          \/ round[l] = "events" /\ sender'[l] \in Conns /\ state'[sender'[l]] \notin Young
       /\ active'[l] \subseteq active[l]

\* What such a step does to the queues, as sets.
LEMMA MovesQueues ==
  ASSUME ServerTypeOK, Moves, NEW l \in Loops
  PROVE  /\ Batch(l)' \subseteq Batch(l) /\ Waiting(l) \subseteq Waiting(l)'
         /\ \A f \in Waiting(l)' :
              f \in Waiting(l) \/ (f.fn # "send" /\ state'[f.conn] # "none" /\ Knows(f)')
         /\ running'[l] # <<>> => running[l] # <<>>
         /\ kept'[l] # kept[l] => running[l] # <<>>
         /\ \A d \in kept'[l] : d \in kept[l] \/ \E f \in Batch(l) : f.conn = d
<1>1. pending[l] \in Seq(Functors) /\ running[l] \in Seq(Functors)
  BY QueueType
<1>2. pending'[l] = pending[l] => Waiting(l)' = Waiting(l)
  BY DEF Waiting
<1>3. ASSUME NEW f \in Functors, pending'[l] = Append(pending[l], f)
      PROVE  Waiting(l)' = Waiting(l) \cup {f}
  BY <1>1, <1>3, AppendSet DEF Waiting
<1>4. /\ Waiting(l) \subseteq Waiting(l)'
      /\ \A f \in Waiting(l)' :
           f \in Waiting(l) \/ (f.fn # "send" /\ state'[f.conn] # "none" /\ Knows(f)')
  <2>1. \/ pending'[l] = pending[l]
        \/ \E f \in Functors : /\ pending'[l] = Append(pending[l], f) /\ f.fn # "send"
                               /\ state'[f.conn] # "none" /\ Knows(f)'
    BY DEF Moves
  <2>2. CASE pending'[l] = pending[l]
    BY <1>2, <2>2
  <2>3. ASSUME NEW f \in Functors, pending'[l] = Append(pending[l], f), f.fn # "send",
               state'[f.conn] # "none", Knows(f)'
        PROVE  /\ Waiting(l) \subseteq Waiting(l)'
               /\ \A g \in Waiting(l)' :
                    g \in Waiting(l) \/ (g.fn # "send" /\ state'[g.conn] # "none" /\ Knows(g)')
    <3>1. Waiting(l)' = Waiting(l) \cup {f}
      BY <1>3, <2>3
    <3> QED BY <2>3, <3>1
  <2> QED BY <2>1, <2>2, <2>3
<1>5. running[l] # <<>> => ToSet(Tail(running[l])) \subseteq ToSet(running[l])
  BY <1>1, TailSet
<1>6. Batch(l)' \subseteq Batch(l)
  BY <1>5 DEF Moves, Batch
<1> QED BY <1>4, <1>6 DEF Moves

LEMMA MovesStates ==
  ASSUME Moves, NEW c \in Conns
  PROVE  /\ state'[c] = "none" => state[c] = "none"
         /\ state[c] = "disconnected" => state'[c] = "disconnected"
         /\ state[c] \notin Young => state'[c] \notin Young
         /\ state'[c] \in Up \cup {"connecting"} => state[c] \in Up \cup {"connecting"}
BY DEF Moves, Young, Up

LEMMA MovesSends ==
  ASSUME ServerTypeOK, ServerTypeOK', SendsFirst, Moves
  PROVE  SendsFirst'
<1> SUFFICES ASSUME NEW l \in WorkerLoops, NEW c \in Conns, c \notin connections', c \notin late
             PROVE  /\ Followed(pending'[l], c)
                    /\ Gone(c) \in Waiting(l)' \/ Followed(running'[l], c)
  BY DEF SendsFirst, Moves, Waiting
<1>1. /\ l \in Loops /\ pending[l] \in Seq(Functors) /\ running[l] \in Seq(Functors)
      /\ Waiting(l) \subseteq Waiting(l)'
  BY LoopFacts, QueueType, MovesQueues
<1>2. CASE c \notin connections
  <2>1. /\ Followed(pending[l], c)
        /\ Gone(c) \in Waiting(l) \/ Followed(running[l], c)
    BY <1>2 DEF SendsFirst
  <2>2. Followed(pending'[l], c)
    <3>1. ASSUME NEW f \in Functors, pending'[l] = Append(pending[l], f), f.fn # "send"
          PROVE  Followed(pending'[l], c)
      <4>1. f # Send(c)
        BY <3>1, FunctorParts DEF Send
      <4> QED BY <1>1, <2>1, <3>1, <4>1, FollowedAppend
    <3> QED BY <1>1, <2>1, <3>1 DEF Moves
  <2>3. Followed(running[l], c) => Followed(running'[l], c)
    BY <1>1, FollowedTail DEF Moves
  <2> QED BY <1>1, <2>1, <2>2, <2>3
<1>3. CASE c \in connections
  <2>1. pending'[loop[c]] = Append(pending[loop[c]], Gone(c))
    BY <1>3 DEF Moves
  <2>2. CASE l = loop[c]
    <3>1. Gone(c) \in Functors
      BY FunctorType DEF Gone, Fns
    <3>2. Followed(Append(pending[l], Gone(c)), c)
      BY <1>1, <3>1, FollowedAppend
    <3>3. Gone(c) \in Waiting(l)'
      <4>1. pending'[l] = Append(pending[l], Gone(c))
        BY <2>1, <2>2
      <4> QED BY <1>1, <3>1, <4>1, AppendSet DEF Waiting
    <3> QED BY <2>1, <2>2, <3>2, <3>3
  <2>3. CASE l # loop[c]
    <3>1. /\ pending'[l] \in Seq(Functors) /\ running'[l] \in Seq(Functors)
          /\ \A f \in Waiting(l)' \cup Batch(l)' : loop'[f.conn] = l
      BY <1>1, LoopFacts, QueueTypeNext
    <3>2. /\ \A f \in ToSet(pending'[l]) : f.conn # c
          /\ \A f \in ToSet(running'[l]) : f.conn # c
      BY <2>3, <3>1 DEF Moves, Waiting, Batch
    <3> QED BY <3>1, <3>2, FollowedNothing
  <2> QED BY <2>2, <2>3
<1> QED BY <1>2, <1>3

LEMMA MovesLifetime ==
  ASSUME ServerTypeOK, ServerTypeOK', Lifetime, Moves, ToldIsState'
  PROVE  Lifetime'
<1>1. /\ Unborn /\ Held /\ QueuesKnow /\ Rounds /\ ActiveHeld /\ SendsFirst
      /\ UNCHANGED <<loop, fd, late, round>>
  BY DEF Lifetime, Moves
<1>2. Unborn'
  <2> SUFFICES ASSUME NEW c \in Conns, state'[c] = "none"
               PROVE  /\ c \notin connections' /\ NotQueued(c)'
                      /\ \A l \in Loops : c \notin kept'[l] /\ sender'[l] # c
    BY DEF Unborn
  <2>1. /\ c \notin connections /\ NotQueued(c)
        /\ \A l \in Loops : c \notin kept[l] /\ sender[l] # c
    BY <1>1, MovesStates DEF Unborn
  <2>2. NotQueued(c)'
    BY <2>1, MovesQueues DEF NotQueued
  <2>3. \A l \in Loops : c \notin kept'[l]
    BY <2>1, MovesQueues DEF NotQueued
  <2>4. \A l \in Loops : sender'[l] # c
    BY <2>1 DEF Moves, Young
  <2> QED BY <1>1, <2>1, <2>2, <2>3, <2>4 DEF Moves
<1>3. Held'
  BY <1>1, MovesStates DEF Held, Moves, Up
<1>4. QueuesKnow'
  <2> SUFFICES ASSUME NEW l \in Loops, NEW f \in Waiting(l)' \cup Batch(l)'
               PROVE  Knows(f)'
    BY DEF QueuesKnow, Knows
  <2>1. f \in Waiting(l) \cup Batch(l) \/ Knows(f)'
    BY MovesQueues
  <2>2. ASSUME f \in Waiting(l) \cup Batch(l) PROVE Knows(f)'
    <3>1. f.conn \in Conns
      BY <2>2, QueueType, FunctorType
    <3> QED BY <1>1, <2>2, <3>1, MovesStates DEF QueuesKnow, Knows
  <2> QED BY <2>1, <2>2
<1>5. Rounds'
  <2> SUFFICES ASSUME NEW l \in Loops
               PROVE  /\ active'[l] # {} \/ sender'[l] # Nobody => round'[l] = "events"
                      /\ running'[l] # <<>> \/ kept'[l] # {} => round'[l] = "functors"
                      /\ sender'[l] # Nobody => state'[sender'[l]] \notin Young
    BY DEF Rounds
  <2>1. active'[l] # {} => active[l] # {}
    BY DEF Moves
  <2>2. running'[l] # <<>> \/ kept'[l] # {} => running[l] # <<>> \/ kept[l] # {}
    BY MovesQueues
  <2>3. sender'[l] # Nobody => state'[sender'[l]] \notin Young /\ round[l] = "events"
    <3>1. CASE sender'[l] = sender[l]
      BY <1>1, <3>1, MovesStates DEF Rounds, ServerTypeOK
    <3>2. CASE sender'[l] # sender[l]
      BY <3>2 DEF Moves
    <3> QED BY <3>1, <3>2
  <2> QED BY <1>1, <2>1, <2>2, <2>3 DEF Rounds
<1>6. ActiveHeld'
  <2> SUFFICES ASSUME NEW l \in WorkerLoops, NEW c \in active'[l]
               PROVE  state'[c] \notin Young /\ (c \in connections' \/ Gone(c) \in Waiting(l)')
    BY DEF ActiveHeld
  <2>1. /\ l \in Loops /\ c \in active[l] /\ c \in Conns /\ loop[c] = l
        /\ Waiting(l) \subseteq Waiting(l)'
    <3>1. l \in Loops /\ c \in active[l]
      BY LoopFacts DEF Moves
    <3>2. c \in Conns /\ loop[c] = l
      BY <3>1 DEF ServerTypeOK
    <3> QED BY <3>1, <3>2, MovesQueues
  <2>2. state'[c] \notin Young
    BY <1>1, <2>1, MovesStates DEF ActiveHeld
  <2>3. CASE c \in connections /\ c \notin connections'
    <3>1. pending'[l] = Append(pending[l], Gone(c))
      BY <2>1, <2>3 DEF Moves
    <3>2. Gone(c) \in Functors
      BY <2>1, FunctorType DEF Gone, Fns
    <3>3. Gone(c) \in Waiting(l)'
      BY <2>1, <3>1, <3>2, AppendSet, QueueType DEF Waiting
    <3> QED BY <2>2, <3>3
  <2> QED BY <1>1, <2>1, <2>2, <2>3 DEF ActiveHeld
<1>7. SendsFirst'
  BY <1>1, MovesSends
<1> QED BY <1>2, <1>3, <1>4, <1>5, <1>6, <1>7 DEF Lifetime

\* Objects live on while shared_ptrs only move from one place to another.
LEMMA AliveKept ==
  ASSUME connections' \subseteq connections,
         \A d \in connections \ connections' : \E k \in Loops : Holds(k, d)',
         \A k \in Loops :
           /\ Waiting(k) \subseteq Waiting(k)' /\ Batch(k)' \subseteq Batch(k)
           /\ \A f \in Waiting(k)' : f \in Waiting(k) \/ Alive(f.conn)
           /\ \A f \in Batch(k) : f.fn = "send" \/ f \in Batch(k)' \/ f.conn \in kept'[k]
           /\ kept[k] \subseteq kept'[k]
           /\ \A d \in kept'[k] : d \in kept[k] \/ \E f \in Batch(k) : f.fn # "send" /\ f.conn = d
           /\ \/ sender'[k] = sender[k]
              \/ sender[k] \notin Conns /\ Alive(sender'[k])
  PROVE  \A d \in Conns : Alive(d)' <=> Alive(d)
<1> SUFFICES ASSUME NEW d \in Conns PROVE Alive(d)' <=> Alive(d)
  OBVIOUS
<1>1. ASSUME NEW k \in Loops, Holds(k, d) PROVE Holds(k, d)'
  BY <1>1 DEF Holds
<1>2. ASSUME NEW k \in Loops, Holds(k, d)' PROVE Alive(d)
  <2>1. CASE Holds(k, d)
    BY <2>1, AliveIs
  <2>2. CASE d \in kept'[k]
    <3>1. Holds(k, d)
      BY <2>2 DEF Holds
    <3> QED BY <3>1, AliveIs
  <2>3. ASSUME NEW f \in Waiting(k)', f.conn = d PROVE Holds(k, d) \/ Alive(d) \/ f.fn = "send"
    BY <2>3 DEF Holds
  <2>4. ASSUME NEW f \in Batch(k)', f.conn = d, f.fn # "send" PROVE Holds(k, d)
    BY <2>4 DEF Holds
  <2>5. CASE sender'[k] = d
    <3>1. sender[k] = d \/ Alive(d)
      BY <2>5
    <3> QED BY <3>1, AliveIs DEF Holds
  <2> QED BY <1>2, <2>1, <2>2, <2>3, <2>4, <2>5 DEF Holds
<1>3. Alive(d) => Alive(d)'
  BY <1>1, AliveIs, AliveIsNext
<1>4. Alive(d)' => Alive(d)
  BY <1>2, AliveIs, AliveIsNext
<1> QED BY <1>3, <1>4

------------------------------------------------------------------------------
(* The parts of ServerTypeOK.                                                    *)

TypeBody ==
  /\ state \in [Conns -> {"none", "connecting", "connected", "disconnecting", "disconnected"}]
  /\ out \in [Conns -> BOOLEAN] /\ halfClosed \in [Conns -> BOOLEAN]
  /\ events \in [Conns -> SUBSET {"read", "write"}]
  /\ index \in [Conns -> {"new", "added", "deleted"}]
  /\ channels \in [Loops -> Tables]
  /\ told \in [Conns -> {<<>>, <<"UP">>, <<"UP", "DOWN">>}]

TypePeers ==
  /\ peer \in [Conns -> {"absent", "open", "closed", "reset", "refused"}]
  /\ inbox \in [Conns -> BOOLEAN] /\ requests \in 0..MaxRequests /\ orphans \subseteq Conns

TypeConns ==
  /\ loop \in [Conns -> Loops] /\ fd \in [Conns -> Fds \cup {0}]
  /\ next \in 1..Len(Workers) /\ connections \subseteq Conns /\ late \subseteq Conns

\* A functor is queued where it belongs.
Fits(f, l) == IF l = Base THEN f.fn = "removed" ELSE f.fn # "removed" /\ loop[f.conn] = l

TypeLoops ==
  /\ round \in [Loops -> {"poll", "events", "functors"}]
  /\ active \in [Loops -> SUBSET (Conns \cup {Acceptor})]
  /\ current \in [Loops -> Conns \cup {Nobody}]
  /\ revents \in [Conns -> SUBSET {"error", "read", "write"}]
  /\ pending \in [Loops -> Seq(Functors)] /\ running \in [Loops -> Seq(Functors)]
  /\ kept \in [Loops -> SUBSET Conns] /\ sender \in [Loops -> Conns \cup {Nobody}]
  /\ active[Base] \subseteq {Acceptor}
  /\ \A l \in WorkerLoops : \A c \in active[l] : c \in Conns /\ loop[c] = l
  /\ \A l \in Loops : \A f \in Waiting(l) \cup Batch(l) : Fits(f, l)

LEMMA TypeParts == ServerTypeOK <=> TypeBody /\ TypePeers /\ TypeConns /\ TypeLoops
<1>1. ASSUME ServerTypeOK PROVE TypeBody /\ TypePeers /\ TypeConns /\ TypeLoops
  <2>1. TypeBody /\ TypePeers /\ TypeConns
    BY <1>1 DEF ServerTypeOK, TypeBody, TypePeers, TypeConns
  <2>2. \A l \in Loops : \A f \in Waiting(l) \cup Batch(l) : Fits(f, l)
    BY <1>1, LoopFacts DEF ServerTypeOK, Fits, Queued, Waiting, Batch
  <2> QED BY <1>1, <2>1, <2>2 DEF ServerTypeOK, TypeLoops
<1>2. ASSUME TypeBody, TypePeers, TypeConns, TypeLoops PROVE ServerTypeOK
  <2>1. /\ \A f \in Queued(Base) : f.fn = "removed"
        /\ \A l \in WorkerLoops : \A f \in Queued(l) : f.fn # "removed" /\ loop[f.conn] = l
    BY <1>2, LoopFacts DEF TypeLoops, Fits, Queued, Waiting, Batch
  <2> QED BY <1>2, <2>1 DEF ServerTypeOK, TypeBody, TypePeers, TypeConns, TypeLoops
<1> QED BY <1>1, <1>2

LEMMA TypePartsNext == TypeBody' /\ TypePeers' /\ TypeConns' /\ TypeLoops' => ServerTypeOK'
BY TypeParts, PTL

------------------------------------------------------------------------------
(* What the parts of callbacks and functors do to connections and channels.*)

\* The descriptor of c is taken by a channel that is gone.
Unseen(c) == Known(c) /\ \A d \in Conns : channels[loop[c]][fd[c]] = d => ~Alive(d)

Body ==
  /\ UNCHANGED <<loop, fd>> /\ TypeBody'
  /\ ChannelInv' /\ ToldIsState' /\ ChannelsGrow
  /\ \A d \in Conns : \/ state'[d] = state[d]
                      \/ state[d] = "connecting" /\ state'[d] = "connected"
                      \/ state[d] \in Up /\ state'[d] \in {"disconnecting", "disconnected"}
  /\ \A d \in Conns : state'[d] \in Up /\ index'[d] = "new" => Unseen(d)

\* The functor that is queued, if any.
Queues == \A k \in Loops :
  \/ pending'[k] = pending[k]
  \/ \E f \in Functors : /\ pending'[k] = Append(pending[k], f)
                         /\ f.fn # "send" /\ Fits(f, k) /\ f.conn \in connections
                         /\ state'[f.conn] # "none" /\ Knows(f)'

LEMMA UnseenKept ==
  ASSUME FdInv, NEW d \in Conns, state[d] \in Up, index[d] = "new"
  PROVE  Unseen(d)
BY DEF FdInv, Unwatched, Unseen

LEMMA NothingBody ==
  ASSUME IInv, UNCHANGED <<state, loop, fd, halfClosed, channelVars, out, told>>
  PROVE  Body
<1>1. ServerTypeOK /\ ChannelInv /\ ToldIsState /\ FdInv /\ TypeBody
  BY TypeParts DEF IInv, Lifetime
<1>2. UNCHANGED <<events, index, channels>>
  BY DEF channelVars
<1>3. TypeBody' /\ ToldIsState'
  BY <1>1, <1>2 DEF TypeBody, ToldIsState
<1>4. ChannelInv'
  BY <1>1, <1>2 DEF ChannelInv, Follows, Entries, Mine, Known, isWriting
<1>5. ChannelsGrow
  BY <1>2 DEF ChannelsGrow
<1> QED BY <1>1, <1>2, <1>3, <1>4, <1>5, UnseenKept DEF Body

LEMMA NothingQueued == pending' = pending => Queues
BY DEF Queues

\* A step that changes one connection and, by updateChannel, its channel.
LEMMA UpdateBody ==
  ASSUME IInv, NEW c \in Conns, NEW es \in SUBSET {"read", "write"}, updateChannel(c, es),
         UNCHANGED <<fd, loop>>,
         state' \in [Conns -> {"none", "connecting", "connected", "disconnecting", "disconnected"}],
         out' \in [Conns -> BOOLEAN], halfClosed' \in [Conns -> BOOLEAN],
         told' \in [Conns -> {<<>>, <<"UP">>, <<"UP", "DOWN">>}],
         \A d \in Conns : d # c => /\ state'[d] = state[d] /\ out'[d] = out[d]
                                   /\ halfClosed'[d] = halfClosed[d],
         \/ state'[c] = state[c] /\ state[c] \in Up
         \/ state[c] = "connecting" /\ state'[c] = "connected"
         \/ state[c] \in Up /\ state'[c] \in {"disconnecting", "disconnected"},
         Follows(c)', ToldIsState', state'[c] \in Up /\ index'[c] = "new" => Unseen(c)
  PROVE  Body
<1>1. ServerTypeOK /\ ChannelInv /\ FdInv /\ Held /\ Entries
  BY DEF IInv, Lifetime, ChannelInv
<1>2. fd[c] \in Fds /\ state'[c] \notin Young
  BY <1>1 DEF Held, Up, Young
<1>3. ChannelInv'
  BY <1>1, <1>2, ChannelUpdated
<1>4. /\ channels' \in [Loops -> Tables] /\ ChannelsGrow
      /\ events' \in [Conns -> SUBSET {"read", "write"}]
      /\ index' \in [Conns -> {"new", "added", "deleted"}]
      /\ \A d \in Conns : d # c => index'[d] = index[d]
  BY <1>1, <1>2, UpdateFacts
<1>5. TypeBody'
  BY <1>4 DEF TypeBody
<1>6. \A d \in Conns : state'[d] \in Up /\ index'[d] = "new" => Unseen(d)
  BY <1>1, <1>4, UnseenKept
<1> QED BY <1>3, <1>4, <1>5, <1>6 DEF Body

\* A step that changes one connection and leaves the channels alone.
LEMMA StateBody ==
  ASSUME IInv, NEW c \in Conns, UNCHANGED <<fd, loop, channelVars, told>>,
         state' \in [Conns -> {"none", "connecting", "connected", "disconnecting", "disconnected"}],
         out' \in [Conns -> BOOLEAN], halfClosed' \in [Conns -> BOOLEAN],
         \A d \in Conns : d # c => /\ state'[d] = state[d] /\ out'[d] = out[d]
                                   /\ halfClosed'[d] = halfClosed[d],
         state[c] \in Up /\ state'[c] \in {state[c], "disconnecting"}, Follows(c)'
  PROVE  Body
<1>1. ServerTypeOK /\ ChannelInv /\ FdInv /\ ToldIsState /\ TypeBody
  BY TypeParts DEF IInv, Lifetime
<1>2. ChannelInv'
  <2>1. state'[c] \notin Young
    BY DEF Up, Young
  <2> QED BY <1>1, <2>1, ChannelKept
<1>3. TypeBody' /\ ChannelsGrow
  BY <1>1 DEF TypeBody, ChannelsGrow, channelVars
<1>4. ToldIsState'
  <2> SUFFICES ASSUME NEW d \in Conns
               PROVE  /\ state'[d] \in Young => told[d] = <<>>
                      /\ state'[d] \in Up => told[d] = <<"UP">>
                      /\ state'[d] = "disconnected" => told[d] = <<"UP", "DOWN">>
    BY DEF ToldIsState
  <2>1. CASE d # c
    BY <1>1, <2>1 DEF ToldIsState
  <2>2. CASE d = c
    <3>1. told[c] = <<"UP">>
      BY <1>1 DEF ToldIsState
    <3> QED BY <2>2, <3>1 DEF Up, Young
  <2> QED BY <2>1, <2>2
<1>5. \A d \in Conns : state'[d] \in Up /\ index'[d] = "new" => Unseen(d)
  BY <1>1, UnseenKept DEF channelVars
<1> QED BY <1>2, <1>3, <1>4, <1>5 DEF Body, Up

LEMMA SendBody ==
  ASSUME IInv, NEW c \in Conns, state[c] \notin Young, sendInLoop(c),
         UNCHANGED <<state, loop, fd, halfClosed, told>>
  PROVE  Body
<1>1. ServerTypeOK /\ ChannelInv /\ ToldIsState /\ FdInv /\ Follows(c)
  BY DEF IInv, Lifetime, ChannelInv
<1>2. CASE UNCHANGED <<out, channelVars>>
  BY <1>2, NothingBody
<1>3. ASSUME state[c] # "disconnected", ~halfClosed[c], KeepForLater(c) PROVE Body
  <2>1. /\ state[c] \in Up /\ out' = [out EXCEPT ![c] = TRUE]
        /\ out' \in [Conns -> BOOLEAN] /\ halfClosed' \in [Conns -> BOOLEAN]
        /\ state' \in [Conns -> {"none", "connecting", "connected", "disconnecting", "disconnected"}]
        /\ told' \in [Conns -> {<<>>, <<"UP">>, <<"UP", "DOWN">>}]
        /\ \A d \in Conns : d # c => out'[d] = out[d]
    BY <1>1, <1>3 DEF ServerTypeOK, KeepForLater, Young, Up
  <2>2. CASE isWriting(c)
    <3>1. UNCHANGED channelVars
      BY <1>3, <2>2 DEF KeepForLater
    <3>2. Follows(c)'
      BY <1>1, <1>3, <2>1, <2>2, <3>1 DEF Follows, isWriting, channelVars, Young, Up
    <3> QED BY <2>1, <3>1, <3>2, StateBody
  <2>3. CASE ~isWriting(c)
    <3>1. updateChannel(c, events[c] \cup {"write"}) /\ events[c] \in SUBSET {"read", "write"}
      BY <1>1, <1>3, <2>3 DEF KeepForLater, ServerTypeOK
    <3> DEFINE es == events[c] \cup {"write"}
    <3>2. es \in SUBSET {"read", "write"} /\ es # {} /\ "write" \in es /\ "read" \in es
      BY <1>1, <2>1, <3>1 DEF Follows
    <3> HIDE DEF es
    <3>3. updateChannel(c, es)
      BY <3>1 DEF es
    <3>4. fd[c] \in Fds /\ Entries
      BY <1>1, <2>1 DEF IInv, Lifetime, Held, ChannelInv, Up, Young
    <3>5. events'[c] = es /\ index'[c] # "deleted" /\ (index'[c] = "new" => index[c] = "new")
      BY <1>1, <3>2, <3>3, <3>4, UpdateFacts
    <3>6. Follows(c)'
      BY <1>1, <1>3, <2>1, <3>2, <3>5 DEF Follows, isWriting, Young, Up
    <3>7. ToldIsState'
      BY <1>1 DEF ToldIsState
    <3>8. state'[c] \in Up /\ index'[c] = "new" => Unseen(c)
      BY <1>1, <3>5, UnseenKept
    <3> QED BY <2>1, <3>2, <3>3, <3>6, <3>7, <3>8, UpdateBody
  <2> QED BY <2>2, <2>3
<1>4. isWriting(c) \/ out[c] => ~halfClosed[c]
  BY <1>1 DEF Follows
<1> QED BY <1>2, <1>3, <1>4 DEF sendInLoop

LEMMA Told == Append(<<>>, "UP") = <<"UP">> /\ Append(<<"UP">>, "DOWN") = <<"UP", "DOWN">>
<1> DEFINE T == {"UP", "DOWN"}
<1>1. <<>> \in Seq(T) /\ <<"UP">> \in Seq(T) /\ <<"UP", "DOWN">> \in Seq(T)
  OBVIOUS
<1>2. /\ Append(<<>>, "UP") \in Seq(T) /\ Len(Append(<<>>, "UP")) = 1
      /\ Append(<<>>, "UP")[1] = "UP"
  BY <1>1, AppendProperties
<1>3. /\ Append(<<"UP">>, "DOWN") \in Seq(T) /\ Len(Append(<<"UP">>, "DOWN")) = 2
      /\ Append(<<"UP">>, "DOWN")[1] = "UP" /\ Append(<<"UP">>, "DOWN")[2] = "DOWN"
  <2>1. Len(<<"UP">>) = 1 /\ 1 \in 1..Len(<<"UP">>) /\ <<"UP">>[1] = "UP"
    OBVIOUS
  <2> QED BY <1>1, <2>1, AppendProperties
<1>4. <<"UP">>[1] = "UP" /\ Len(<<"UP">>) = 1
  OBVIOUS
<1>5. <<"UP", "DOWN">>[1] = "UP" /\ <<"UP", "DOWN">>[2] = "DOWN" /\ Len(<<"UP", "DOWN">>) = 2
  OBVIOUS
<1> HIDE DEF T
<1>6. Append(<<>>, "UP") = <<"UP">>
  <2>1. \A i \in 1..Len(Append(<<>>, "UP")) : Append(<<>>, "UP")[i] = <<"UP">>[i]
    BY <1>2, <1>4
  <2> QED BY <1>1, <1>2, <1>4, <2>1, SeqEqual
<1>7. Append(<<"UP">>, "DOWN") = <<"UP", "DOWN">>
  <2>1. \A i \in 1..Len(Append(<<"UP">>, "DOWN")) : Append(<<"UP">>, "DOWN")[i] = <<"UP", "DOWN">>[i]
    BY <1>3, <1>5
  <2> QED BY <1>1, <1>3, <1>5, <2>1, SeqEqual
<1> QED BY <1>6, <1>7

LEMMA WriteBody ==
  ASSUME IInv, NEW c \in Conns, isWriting(c), ~halfClosed[c],
         out' = [out EXCEPT ![c] = FALSE], updateChannel(c, events[c] \ {"write"}),
         UNCHANGED <<state, loop, fd, halfClosed, told>>
  PROVE  Body
<1>1. ServerTypeOK /\ ChannelInv /\ ToldIsState /\ FdInv /\ Follows(c)
  BY DEF IInv, Lifetime, ChannelInv
<1> DEFINE es == events[c] \ {"write"}
<1>2. state[c] \in Up
  BY <1>1 DEF Follows, isWriting, ServerTypeOK, Young, Up
<1>3. es \in SUBSET {"read", "write"} /\ "write" \notin es /\ "read" \in es /\ es # {}
  BY <1>1, <1>2 DEF Follows, ServerTypeOK
<1>4. updateChannel(c, es)
  OBVIOUS
<1> HIDE DEF es
<1>5. fd[c] \in Fds /\ Entries
  BY <1>1, <1>2 DEF IInv, Lifetime, Held, ChannelInv, Up, Young
<1>6. events'[c] = es /\ index'[c] # "deleted" /\ (index'[c] = "new" => index[c] = "new")
  BY <1>1, <1>3, <1>4, <1>5, UpdateFacts
<1>7. /\ out' \in [Conns -> BOOLEAN] /\ halfClosed' \in [Conns -> BOOLEAN] /\ ~out'[c]
      /\ state' \in [Conns -> {"none", "connecting", "connected", "disconnecting", "disconnected"}]
      /\ told' \in [Conns -> {<<>>, <<"UP">>, <<"UP", "DOWN">>}]
      /\ \A d \in Conns : d # c => out'[d] = out[d]
  BY <1>1 DEF ServerTypeOK
<1>8. Follows(c)'
  BY <1>1, <1>2, <1>3, <1>6, <1>7 DEF Follows, isWriting, Young, Up
<1>9. ToldIsState'
  BY <1>1 DEF ToldIsState
<1>10. state'[c] \in Up /\ index'[c] = "new" => Unseen(c)
  BY <1>1, <1>6, UnseenKept
<1> QED BY <1>2, <1>3, <1>4, <1>7, <1>8, <1>9, <1>10, UpdateBody

LEMMA ShutdownBody ==
  ASSUME IInv, NEW c \in Conns, shutdown(c), UNCHANGED <<loop, fd, channelVars, out, told>>
  PROVE  Body
<1>1. ServerTypeOK /\ Follows(c)
  BY DEF IInv, ChannelInv
<1>2. CASE state[c] = "connected"
  <2>1. /\ state' = [state EXCEPT ![c] = "disconnecting"]
        /\ halfClosed' = [halfClosed EXCEPT ![c] = halfClosed[c] \/ ~isWriting(c)]
    BY <1>2 DEF shutdown
  <2>2. /\ state' \in [Conns -> {"none", "connecting", "connected", "disconnecting", "disconnected"}]
        /\ state'[c] = "disconnecting"
        /\ \A d \in Conns : d # c => state'[d] = state[d]
    BY <1>1, <2>1 DEF ServerTypeOK
  <2>3. /\ halfClosed' \in [Conns -> BOOLEAN] /\ halfClosed'[c] = (halfClosed[c] \/ ~isWriting(c))
        /\ \A d \in Conns : d # c => halfClosed'[d] = halfClosed[d]
    BY <1>1, <2>1 DEF ServerTypeOK
  <2>4. Follows(c)'
    BY <1>1, <1>2, <2>2, <2>3 DEF Follows, isWriting, channelVars, Young, Up
  <2>5. out' \in [Conns -> BOOLEAN] /\ state[c] \in Up
    BY <1>1, <1>2 DEF ServerTypeOK, Up
  <2> QED BY <2>2, <2>3, <2>4, <2>5, StateBody
<1>3. CASE state[c] # "connected"
  BY <1>3, NothingBody DEF shutdown
<1> QED BY <1>2, <1>3

\* forceClose changes the state and queues a functor, or does nothing.
LEMMA ForceBody ==
  ASSUME IInv, NEW c \in Conns, forceClose(c),
         UNCHANGED <<loop, fd, halfClosed, channelVars, out, told>>
  PROVE  Body /\ Queues
<1>1. ServerTypeOK /\ Follows(c) /\ Held
  BY DEF IInv, ChannelInv, Lifetime
<1>2. CASE state[c] \in Up
  <2>1. /\ state' = [state EXCEPT ![c] = "disconnecting"]
        /\ queueInLoop(loop[c], Functor("forceClose", c))
    BY <1>2 DEF forceClose, Up
  <2>2. /\ state' \in [Conns -> {"none", "connecting", "connected", "disconnecting", "disconnected"}]
        /\ state'[c] = "disconnecting"
        /\ \A d \in Conns : d # c => state'[d] = state[d]
    BY <1>1, <2>1 DEF ServerTypeOK
  <2>3. Follows(c)'
    BY <1>1, <1>2, <2>2 DEF Follows, isWriting, channelVars, Young, Up
  <2>4. out' \in [Conns -> BOOLEAN] /\ halfClosed' \in [Conns -> BOOLEAN]
    BY <1>1 DEF ServerTypeOK
  <2>5. Body
    BY <1>2, <2>2, <2>3, <2>4, StateBody
  <2> DEFINE f == Functor("forceClose", c)
  <2>6. f \in Functors /\ f.fn = "forceClose" /\ f.conn = c
    BY FunctorType, FunctorParts DEF Fns
  <2>7. queueInLoop(loop[c], f)
    BY <2>1
  <2> HIDE DEF f
  <2>8. loop[c] \in WorkerLoops /\ c \in connections
    BY <1>1, <1>2 DEF Held, Up
  <2>9. /\ pending'[loop[c]] = Append(pending[loop[c]], f)
        /\ \A k \in Loops : k # loop[c] => pending'[k] = pending[k]
    BY <1>1, <2>6, <2>7, <2>8, LoopFacts, PushFacts
  <2>10. Fits(f, loop[c]) /\ Knows(f)'
    BY <2>2, <2>6, <2>8, LoopFacts DEF Fits, Knows, Young
  <2>11. Queues
    BY <2>2, <2>6, <2>8, <2>9, <2>10 DEF Queues
  <2> QED BY <2>5, <2>11
<1>3. CASE state[c] \notin Up
  BY <1>3, NothingBody, NothingQueued DEF forceClose, Up
<1> QED BY <1>2, <1>3

\* handleClose tells the user once, or does nothing.
LEMMA CloseBody ==
  ASSUME IInv, NEW c \in Conns, NEW l, handleClose(c, l), UNCHANGED <<loop, fd, halfClosed, out>>
  PROVE  /\ Body /\ Queues
         /\ \/ told' = told /\ state' = state
            \/ /\ c \in connections /\ told[c] = <<"UP">>
               /\ told' = [told EXCEPT ![c] = <<"UP", "DOWN">>]
               /\ \A d \in Conns : d # c => state'[d] = state[d]
<1>1. ServerTypeOK /\ ChannelInv /\ FdInv /\ Held /\ ToldIsState /\ Follows(c) /\ Entries
  BY DEF IInv, ChannelInv, Lifetime
<1>2. CASE state[c] \in Up
  <2>1. /\ state' = [state EXCEPT ![c] = "disconnected"] /\ updateChannel(c, {})
        /\ told' = [told EXCEPT ![c] = Append(told[c], "DOWN")]
        /\ queueInLoop(Base, Functor("removed", c))
    BY <1>2 DEF handleClose, Up
  <2>2. /\ state' \in [Conns -> {"none", "connecting", "connected", "disconnecting", "disconnected"}]
        /\ state'[c] = "disconnected"
        /\ \A d \in Conns : d # c => state'[d] = state[d]
    BY <1>1, <2>1 DEF ServerTypeOK
  <2>3. told[c] = <<"UP">> /\ told' = [told EXCEPT ![c] = <<"UP", "DOWN">>]
    BY <1>1, <1>2, <2>1, Told DEF ToldIsState
  <2>4. /\ told' \in [Conns -> {<<>>, <<"UP">>, <<"UP", "DOWN">>}] /\ told'[c] = <<"UP", "DOWN">>
        /\ \A d \in Conns : d # c => told'[d] = told[d]
    BY <1>1, <2>3 DEF ServerTypeOK
  <2>5. ToldIsState'
    BY <1>1, <2>2, <2>4 DEF ToldIsState, Young, Up
  <2>6. fd[c] \in Fds /\ c \in connections
    BY <1>1, <1>2 DEF Held, Up
  <2>7. Follows(c)'
    BY <1>1, <1>2, <2>1, <2>6, ChannelClosed DEF ChannelInv
  <2>8. /\ out' \in [Conns -> BOOLEAN] /\ halfClosed' \in [Conns -> BOOLEAN]
        /\ {} \in SUBSET {"read", "write"} /\ state'[c] \notin Up
    BY <1>1, <2>2 DEF ServerTypeOK, Up
  <2>9. Body
    BY <1>2, <2>1, <2>2, <2>4, <2>5, <2>7, <2>8, UpdateBody
  <2> DEFINE f == Functor("removed", c)
  <2>10. f \in Functors /\ f.fn = "removed" /\ f.conn = c
    BY FunctorType, FunctorParts DEF Fns
  <2>11. queueInLoop(Base, f)
    BY <2>1
  <2> HIDE DEF f
  <2>12. /\ pending'[Base] = Append(pending[Base], f)
         /\ \A k \in Loops : k # Base => pending'[k] = pending[k]
    BY <1>1, <2>10, <2>11, LoopFacts, PushFacts
  <2>13. Fits(f, Base) /\ Knows(f)'
    BY <2>2, <2>10 DEF Fits, Knows, Young
  <2>14. Queues
    BY <2>2, <2>6, <2>10, <2>12, <2>13 DEF Queues
  <2> QED BY <2>2, <2>3, <2>6, <2>9, <2>14
<1>3. CASE state[c] \notin Up
  BY <1>3, NothingBody, NothingQueued DEF handleClose, Up
<1> QED BY <1>2, <1>3

\* connectEstablished: the channel is watched, unless its descriptor is still that of
\* a connection that is gone.
LEMMA EstablishBody ==
  ASSUME IInv, NEW c \in Conns, state[c] = "connecting",
         state' = [state EXCEPT ![c] = "connected"], updateChannel(c, {"read"}),
         told' = [told EXCEPT ![c] = Append(told[c], "UP")],
         UNCHANGED <<loop, fd, halfClosed, out>>
  PROVE  /\ Body /\ c \in connections /\ told[c] = <<>>
         /\ told' = [told EXCEPT ![c] = <<"UP">>]
<1>1. ServerTypeOK /\ ChannelInv /\ FdInv /\ Held /\ ToldIsState /\ Follows(c) /\ Entries
  BY DEF IInv, ChannelInv, Lifetime
<1>2. /\ state' \in [Conns -> {"none", "connecting", "connected", "disconnecting", "disconnected"}]
      /\ state'[c] = "connected"
      /\ \A d \in Conns : d # c => state'[d] = state[d]
  BY <1>1 DEF ServerTypeOK
<1>3. told[c] = <<>> /\ told' = [told EXCEPT ![c] = <<"UP">>]
  BY <1>1, Told DEF ToldIsState, Young
<1>4. /\ told' \in [Conns -> {<<>>, <<"UP">>, <<"UP", "DOWN">>}] /\ told'[c] = <<"UP">>
      /\ \A d \in Conns : d # c => told'[d] = told[d]
  BY <1>1, <1>3 DEF ServerTypeOK
<1>5. ToldIsState'
  BY <1>1, <1>2, <1>4 DEF ToldIsState, Young, Up
<1>6. fd[c] \in Fds /\ c \in connections
  BY <1>1 DEF Held
<1>7. {"read"} \in SUBSET {"read", "write"}
  OBVIOUS
<1>8. index'[c] # "deleted" /\ (index'[c] = "new" => Known(c))
  BY <1>1, <1>6, <1>7, UpdateFacts DEF Follows, Young
<1>9. events'[c] = {"read"} /\ ~out[c]
  BY <1>1, <1>6, <1>7, UpdateFacts DEF Follows, Young
<1>10. Follows(c)'
  BY <1>1, <1>2, <1>8, <1>9 DEF Follows, isWriting, Young, Up
<1>11. Known(c) => Unseen(c)
  <2> SUFFICES ASSUME Known(c), NEW d \in Conns, channels[loop[c]][fd[c]] = d, Alive(d)
               PROVE  FALSE
    BY DEF Unseen
  <2>1. fd[d] = fd[c] /\ state[d] \notin Young
    BY <1>1 DEF Entries, Known, ServerTypeOK
  <2>2. Alive(c)
    BY <1>6, AliveIs
  <2>3. c = d
    BY <1>1, <2>1, <2>2 DEF FdInv, FdsDiffer
  <2> QED BY <2>1, <2>3 DEF Young
<1>12. out' \in [Conns -> BOOLEAN] /\ halfClosed' \in [Conns -> BOOLEAN]
  BY <1>1 DEF ServerTypeOK
<1>13. Body
  BY <1>2, <1>4, <1>5, <1>7, <1>8, <1>10, <1>11, <1>12, UpdateBody
<1> QED BY <1>3, <1>6, <1>13

------------------------------------------------------------------------------
(* A step that calls a callback or a functor keeps the invariant.          *)

\* What the loops do: at most one functor is called and kept with its batch, at most
\* one connection is going to be sent to, and what the server drops is destroyed later.
Serves ==
  /\ UNCHANGED <<next, late, round>>
  /\ connections' \subseteq connections
  /\ \A d \in connections \ connections' :
       state'[d] = "disconnected" /\ pending'[loop[d]] = Append(pending[loop[d]], Gone(d))
  /\ active' \in [Loops -> SUBSET (Conns \cup {Acceptor})]
  /\ current' \in [Loops -> Conns \cup {Nobody}]
  /\ revents' \in [Conns -> SUBSET {"error", "read", "write"}]
  /\ pending' \in [Loops -> Seq(Functors)] /\ running' \in [Loops -> Seq(Functors)]
  /\ kept' \in [Loops -> SUBSET Conns] /\ sender' \in [Loops -> Conns \cup {Nobody}]
  /\ \A d \in Conns : revents'[d] \subseteq revents[d]
  /\ \A k \in Loops :
       /\ active'[k] \subseteq active[k]
       /\ \/ running'[k] = running[k] /\ kept'[k] = kept[k]
          \/ /\ running[k] # <<>> /\ running'[k] = Tail(running[k])
             /\ kept'[k] = IF Head(running[k]).fn = "send" THEN kept[k]
                           ELSE kept[k] \cup {Head(running[k]).conn}
       /\ \/ sender'[k] = sender[k]
          \/ /\ round[k] = "events" /\ sender[k] \notin Conns
             /\ sender'[k] \in Conns /\ Alive(sender'[k]) /\ state'[sender'[k]] \notin Young

\* What is read: nothing of a connection that is down, unless it is reset.
Reads ==
  /\ TypePeers'
  /\ \A d \in Conns : peer[d] = "reset" => peer'[d] = "reset"
  /\ \A d \in orphans' : d \in orphans \/ peer[d] = "reset"
  /\ \A k \in WorkerLoops : \A d \in active'[k] :
       state'[d] = "disconnected" /\ "read" \in revents'[d] =>
         state[d] = "disconnected" \/ peer[d] = "reset"

LEMMA ServesMoves ==
  ASSUME ServerTypeOK, Body, Queues, Serves
  PROVE  Moves
<1>1. ASSUME NEW l \in Loops, running[l] # <<>>, running'[l] = Tail(running[l]),
             kept'[l] = IF Head(running[l]).fn = "send" THEN kept[l]
                        ELSE kept[l] \cup {Head(running[l]).conn}
      PROVE  \A d \in kept'[l] : d \in kept[l] \/ \E f \in Batch(l) : f.conn = d
  <2>1. Head(running[l]) \in Batch(l)
    BY <1>1, QueueType, TailSet DEF Batch
  <2> QED BY <1>1, <2>1
<1>2. \A l \in Loops :
        \/ running'[l] = running[l] /\ kept'[l] = kept[l]
        \/ /\ running[l] # <<>> /\ running'[l] = Tail(running[l])
           /\ \A d \in kept'[l] : d \in kept[l] \/ \E f \in Batch(l) : f.conn = d
  BY <1>1 DEF Serves
<1>3. \A l \in Loops :
        /\ \/ pending'[l] = pending[l]
           \/ \E f \in Functors : /\ pending'[l] = Append(pending[l], f) /\ f.fn # "send"
                                  /\ state'[f.conn] # "none" /\ Knows(f)'
        /\ \/ sender'[l] = sender[l]
           \/ round[l] = "events" /\ sender'[l] \in Conns /\ state'[sender'[l]] \notin Young
        /\ active'[l] \subseteq active[l]
  <2> TAKE l \in Loops
  <2>1. \/ pending'[l] = pending[l]
        \/ \E f \in Functors : /\ pending'[l] = Append(pending[l], f) /\ f.fn # "send"
                               /\ state'[f.conn] # "none" /\ Knows(f)'
    BY DEF Queues
  <2>2. /\ \/ sender'[l] = sender[l]
           \/ round[l] = "events" /\ sender'[l] \in Conns /\ state'[sender'[l]] \notin Young
        /\ active'[l] \subseteq active[l]
    BY DEF Serves
  <2> QED BY <2>1, <2>2
<1>4. /\ UNCHANGED <<loop, fd, late, round>>
      /\ \A d \in Conns : \/ state'[d] = state[d]
                          \/ state[d] = "connecting" /\ state'[d] = "connected"
                          \/ state[d] \in Up /\ state'[d] \in {"disconnecting", "disconnected"}
  BY DEF Body, Serves
<1>5. /\ connections' \subseteq connections
      /\ \A d \in connections \ connections' :
           state'[d] = "disconnected" /\ pending'[loop[d]] = Append(pending[loop[d]], Gone(d))
  BY DEF Serves
<1> QED BY <1>2, <1>3, <1>4, <1>5 DEF Moves

LEMMA QueuesFacts ==
  ASSUME ServerTypeOK, Queues, NEW k \in Loops
  PROVE  \A f \in Waiting(k)' :
           f \in Waiting(k) \/ (f \in Functors /\ Fits(f, k) /\ f.conn \in connections)
<1>1. pending[k] \in Seq(Functors)
  BY QueueType
<1>2. ASSUME pending'[k] = pending[k] PROVE Waiting(k)' = Waiting(k)
  BY <1>2 DEF Waiting
<1>3. ASSUME NEW f \in Functors, pending'[k] = Append(pending[k], f)
      PROVE  Waiting(k)' = Waiting(k) \cup {f}
  BY <1>1, <1>3, AppendSet DEF Waiting
<1>4. \/ pending'[k] = pending[k]
      \/ \E f \in Functors : /\ pending'[k] = Append(pending[k], f)
                             /\ Fits(f, k) /\ f.conn \in connections
  BY DEF Queues
<1> QED BY <1>2, <1>3, <1>4

LEMMA ServesAlive ==
  ASSUME ServerTypeOK, Body, Queues, Serves
  PROVE  \A d \in Conns : Alive(d)' <=> Alive(d)
<1>1. Moves
  BY ServesMoves
<1>2. ASSUME NEW d \in connections \ connections' PROVE \E k \in Loops : Holds(k, d)'
  <2>1. /\ loop[d] \in Loops /\ d \in Conns
        /\ pending'[loop[d]] = Append(pending[loop[d]], Gone(d))
    BY <1>2 DEF Serves, ServerTypeOK
  <2>2. PICK k \in Loops : k = loop[d]
    BY <2>1
  <2>3. Gone(d) \in Functors /\ Gone(d).fn = "destroyed" /\ Gone(d).conn = d
    BY <2>1, FunctorType, FunctorParts DEF Gone, Fns
  <2>4. pending[k] \in Seq(Functors) /\ pending'[k] = Append(pending[k], Gone(d))
    BY <2>1, <2>2, QueueType
  <2>5. Gone(d) \in Waiting(k)'
    BY <2>3, <2>4, AppendSet DEF Waiting
  <2> QED BY <2>3, <2>4, <2>5 DEF Holds
<1>3. ASSUME NEW k \in Loops
      PROVE  /\ Waiting(k) \subseteq Waiting(k)' /\ Batch(k)' \subseteq Batch(k)
             /\ \A f \in Waiting(k)' : f \in Waiting(k) \/ Alive(f.conn)
             /\ \A f \in Batch(k) : f.fn = "send" \/ f \in Batch(k)' \/ f.conn \in kept'[k]
             /\ kept[k] \subseteq kept'[k]
             /\ \A d \in kept'[k] : d \in kept[k] \/ \E f \in Batch(k) : f.fn # "send" /\ f.conn = d
             /\ \/ sender'[k] = sender[k]
                \/ sender[k] \notin Conns /\ Alive(sender'[k])
  <2>1. Waiting(k) \subseteq Waiting(k)' /\ Batch(k)' \subseteq Batch(k)
    BY <1>1, MovesQueues
  <2>2. \A f \in Waiting(k)' : f \in Waiting(k) \/ Alive(f.conn)
    BY QueuesFacts, AliveIs
  <2>3. CASE running'[k] = running[k] /\ kept'[k] = kept[k]
    BY <2>1, <2>2, <2>3 DEF Serves, Batch
  <2>4. CASE running[k] # <<>> /\ running'[k] = Tail(running[k])
    <3> DEFINE h == Head(running[k])
    <3>1. Batch(k) = Batch(k)' \cup {h}
      BY <2>4, QueueType, TailSet DEF Batch
    <3>2. \/ running'[k] = running[k] /\ kept'[k] = kept[k]
          \/ kept'[k] = IF h.fn = "send" THEN kept[k] ELSE kept[k] \cup {h.conn}
      BY DEF Serves
    <3> HIDE DEF h
    <3>3. CASE kept'[k] = IF h.fn = "send" THEN kept[k] ELSE kept[k] \cup {h.conn}
      BY <2>1, <2>2, <3>1, <3>3 DEF Serves
    <3> QED BY <2>3, <3>2, <3>3
  <2> QED BY <2>3, <2>4 DEF Serves
<1>4. connections' \subseteq connections
  BY DEF Serves
<1> QED BY <1>2, <1>3, <1>4, AliveKept

LEMMA ServesTyped ==
  ASSUME ServerTypeOK, Body, Queues, Serves
  PROVE  TypeLoops'
<1>1. TypeLoops
  BY TypeParts
<1>2. ASSUME NEW l \in Loops, NEW f \in Waiting(l)' \cup Batch(l)' PROVE Fits(f, l)'
  <2>1. f \in Waiting(l) \cup Batch(l) => Fits(f, l)
    BY <1>1 DEF TypeLoops
  <2>2. Fits(f, l)
    BY <1>2, <2>1, QueuesFacts, ServesMoves, MovesQueues
  <2> QED BY <2>2 DEF Fits, Body
<1>3. active'[Base] \subseteq {Acceptor}
  BY <1>1, LoopFacts DEF Serves, TypeLoops
<1>4. ASSUME NEW l \in WorkerLoops, NEW c \in active'[l] PROVE c \in Conns /\ loop'[c] = l
  BY <1>1, <1>4, LoopFacts DEF Serves, Body, TypeLoops
<1>5. UNCHANGED round
  BY DEF Serves
<1>6. round' \in [Loops -> {"poll", "events", "functors"}]
  BY <1>1, <1>5 DEF TypeLoops
<1>7. /\ active' \in [Loops -> SUBSET (Conns \cup {Acceptor})]
      /\ current' \in [Loops -> Conns \cup {Nobody}]
      /\ revents' \in [Conns -> SUBSET {"error", "read", "write"}]
      /\ pending' \in [Loops -> Seq(Functors)] /\ running' \in [Loops -> Seq(Functors)]
      /\ kept' \in [Loops -> SUBSET Conns] /\ sender' \in [Loops -> Conns \cup {Nobody}]
  BY DEF Serves
<1> QED BY <1>2, <1>3, <1>4, <1>6, <1>7 DEF TypeLoops

LEMMA ServesKeeps ==
  ASSUME IInv, Body, Queues, Serves, Reads
  PROVE  IInv' /\ \A d \in Conns : Alive(d)' <=> Alive(d)
<1>1. ServerTypeOK /\ Lifetime /\ FdInv /\ ResetInv /\ TypeConns
  BY TypeParts DEF IInv
<1>2. \A d \in Conns : Alive(d)' <=> Alive(d)
  BY <1>1, ServesAlive
<1>3. ServerTypeOK'
  <2>1. TypeConns'
    BY <1>1 DEF TypeConns, Body, Serves
  <2> QED BY <1>1, <2>1, ServesTyped, TypePartsNext DEF Body, Reads
<1>4. Lifetime'
  BY <1>1, <1>3, ServesMoves, MovesLifetime DEF Body
<1>5. FdInv'
  <2>1. UNCHANGED <<fd, loop>> /\ ChannelsGrow
    BY DEF Body
  <2>2. \A c \in Conns : state'[c] \in Up /\ index'[c] = "new" =>
          Known(c) /\ \A d \in Conns : channels[loop[c]][fd[c]] = d => ~Alive(d)
    BY DEF Body, Unseen
  <2> QED BY <1>1, <1>2, <2>1, <2>2, FdKept
<1>6. ResetInv'
  <2>1. \A l \in WorkerLoops : active'[l] \subseteq active[l]
    BY LoopFacts DEF Serves
  <2>2. orphans' \subseteq Conns
    BY DEF Reads, TypePeers
  <2> QED BY <1>1, <2>1, <2>2, ResetKept DEF Reads, Serves
<1>7. ChannelInv'
  BY DEF Body
<1> QED BY <1>2, <1>3, <1>4, <1>5, <1>6, <1>7 DEF IInv

\* The callbacks of a channel: the batch and the queues of loops are left alone but
\* for what is queued.
LEMMA CallServes ==
  ASSUME IInv, NEW l \in Loops, NEW c \in Conns, NEW ev, Calls(l, c, ev),
         UNCHANGED <<next, late, connections>>, pending' \in [Loops -> Seq(Functors)],
         \/ UNCHANGED sender
         \/ \E d \in Conns : /\ Alive(d) /\ state'[d] \notin Young
                             /\ sender' = [sender EXCEPT ![l] = d]
  PROVE  Serves
<1>1. ServerTypeOK
  BY DEF IInv
<1>2. /\ round[l] = "events" /\ sender[l] = Nobody
      /\ active' \in [Loops -> SUBSET (Conns \cup {Acceptor})]
      /\ \A k \in Loops : active'[k] \subseteq active[k]
      /\ current' \in [Loops -> Conns \cup {Nobody}]
      /\ revents' \in [Conns -> SUBSET {"error", "read", "write"}]
      /\ \A d \in Conns : revents'[d] \subseteq revents[d]
      /\ UNCHANGED <<round, running, kept>>
  BY <1>1, CallFacts
<1>3. /\ sender' \in [Loops -> Conns \cup {Nobody}]
      /\ \A k \in Loops :
           \/ sender'[k] = sender[k]
           \/ /\ round[k] = "events" /\ sender[k] \notin Conns
              /\ sender'[k] \in Conns /\ Alive(sender'[k]) /\ state'[sender'[k]] \notin Young
  <2>1. CASE UNCHANGED sender
    BY <1>1, <2>1 DEF ServerTypeOK
  <2>2. ASSUME NEW d \in Conns, Alive(d), state'[d] \notin Young, sender' = [sender EXCEPT ![l] = d]
        PROVE  /\ sender' \in [Loops -> Conns \cup {Nobody}]
               /\ \A k \in Loops :
                    \/ sender'[k] = sender[k]
                    \/ /\ round[k] = "events" /\ sender[k] \notin Conns
                       /\ sender'[k] \in Conns /\ Alive(sender'[k])
                       /\ state'[sender'[k]] \notin Young
    <3>1. /\ sender' \in [Loops -> Conns \cup {Nobody}] /\ sender'[l] = d
          /\ \A k \in Loops : k # l => sender'[k] = sender[k]
      BY <1>1, <2>2 DEF ServerTypeOK
    <3> QED BY <1>2, <2>2, <3>1, Names
  <2> QED BY <2>1, <2>2
<1>4. running' \in [Loops -> Seq(Functors)] /\ kept' \in [Loops -> SUBSET Conns]
  BY <1>1, <1>2 DEF ServerTypeOK
<1> QED BY <1>2, <1>3, <1>4 DEF Serves

LEMMA RunServes ==
  ASSUME IInv, NEW l \in Loops, NEW fn, NEW c \in Conns, Runs(l, fn, c), UNCHANGED <<next, late>>,
         pending' \in [Loops -> Seq(Functors)],
         connections' \subseteq connections,
         \A d \in connections \ connections' :
           state'[d] = "disconnected" /\ pending'[loop[d]] = Append(pending[loop[d]], Gone(d))
  PROVE  Serves
<1>1. ServerTypeOK
  BY DEF IInv
<1>2. /\ running' \in [Loops -> Seq(Functors)] /\ running[l] # <<>>
      /\ running'[l] = Tail(running[l]) /\ Head(running[l]) = Functor(fn, c)
      /\ kept' \in [Loops -> SUBSET Conns]
      /\ kept'[l] = IF fn = "send" THEN kept[l] ELSE kept[l] \cup {c}
      /\ \A k \in Loops : k # l => running'[k] = running[k] /\ kept'[k] = kept[k]
      /\ UNCHANGED <<round, active, current, revents, sender>>
  <2>1. /\ running' \in [Loops -> Seq(Functors)]
        /\ running'[l] = Tail(running[l])
    BY <1>1, RunFacts
  <2>2. /\ kept' \in [Loops -> SUBSET Conns]
        /\ kept'[l] = IF fn = "send" THEN kept[l] ELSE kept[l] \cup {c}
    BY <1>1, RunFacts
  <2>3. \A k \in Loops : k # l => running'[k] = running[k] /\ kept'[k] = kept[k]
    BY <1>1, RunFacts
  <2>4. /\ running[l] # <<>> /\ Head(running[l]) = Functor(fn, c)
        /\ UNCHANGED <<round, active, current, revents, sender>>
    BY DEF Runs
  <2> QED BY <2>1, <2>2, <2>3, <2>4
<1>3. \A k \in Loops :
        \/ running'[k] = running[k] /\ kept'[k] = kept[k]
        \/ /\ running[k] # <<>> /\ running'[k] = Tail(running[k])
           /\ kept'[k] = IF Head(running[k]).fn = "send" THEN kept[k]
                         ELSE kept[k] \cup {Head(running[k]).conn}
  BY <1>2, FunctorParts
<1>4. /\ active' \in [Loops -> SUBSET (Conns \cup {Acceptor})]
      /\ current' \in [Loops -> Conns \cup {Nobody}]
      /\ revents' \in [Conns -> SUBSET {"error", "read", "write"}]
      /\ sender' \in [Loops -> Conns \cup {Nobody}]
  BY <1>1, <1>2 DEF ServerTypeOK
<1> QED BY <1>2, <1>3, <1>4 DEF Serves

LEMMA CallReads ==
  ASSUME IInv, NEW l \in Loops, NEW c \in Conns, NEW ev, Calls(l, c, ev),
         UNCHANGED <<peer, requests>>, inbox' \in [Conns -> BOOLEAN],
         orphans' = orphans \/ (orphans' = orphans \cup {c} /\ peer[c] = "reset"),
         \A d \in Conns : state'[d] = "disconnected" =>
           state[d] = "disconnected" \/ (d = c /\ (ev = "read" \/ peer[c] = "reset"))
  PROVE  Reads
<1>1. ServerTypeOK /\ TypePeers
  BY TypeParts DEF IInv
<1>2. /\ \A k \in Loops : active'[k] \subseteq active[k]
      /\ \A d \in Conns : revents'[d] \subseteq revents[d]
      /\ ev \notin revents'[c]
  BY <1>1, CallFacts
<1>3. TypePeers'
  BY <1>1 DEF TypePeers
<1>4. ASSUME NEW k \in WorkerLoops, NEW d \in active'[k], state'[d] = "disconnected",
             "read" \in revents'[d]
      PROVE  state[d] = "disconnected" \/ peer[d] = "reset"
  <2>1. d \in Conns
    BY <1>1, <1>2, <1>4, LoopFacts DEF ServerTypeOK
  <2> QED BY <1>2, <1>4, <2>1
<1>5. \A d \in orphans' : d \in orphans \/ peer[d] = "reset"
  OBVIOUS
<1> QED BY <1>3, <1>4, <1>5 DEF Reads

LEMMA RunReads ==
  ASSUME IInv, NEW l \in Loops, NEW fn, NEW c \in Conns, Runs(l, fn, c),
         UNCHANGED <<peerVars, orphans>>,
         \A d \in Conns : state'[d] = "disconnected" =>
           state[d] = "disconnected" \/ (d = c /\ fn # "removed")
  PROVE  Reads
<1>1. ServerTypeOK /\ TypePeers /\ Rounds
  BY TypeParts DEF IInv, Lifetime
<1>2. /\ round[l] = "functors" /\ Functor(fn, c) \in Batch(l)
  BY <1>1, RunFacts
<1>3. active' = active
  BY DEF Runs
<1>4. active[l] = {}
  BY <1>1, <1>2 DEF Rounds
<1>5. fn # "removed" => loop[c] = l
  BY <1>1, <1>2, QueueType, FunctorParts
<1>6. ASSUME NEW k \in WorkerLoops, NEW d \in active'[k], state'[d] = "disconnected"
      PROVE  state[d] = "disconnected"
  <2>1. d \in Conns /\ loop[d] = k
    BY <1>1, <1>3 DEF ServerTypeOK
  <2> QED BY <1>3, <1>4, <1>5, <1>6, <2>1
<1>7. TypePeers'
  BY <1>1 DEF TypePeers, peerVars
<1> QED BY <1>6, <1>7 DEF Reads, peerVars

\* What a step does to the life of connections, as ConnLife says.
SameObjects == \A d \in Conns : Alive(d)' <=> Alive(d)
Tells(c, before, after) ==
  Alive(c) /\ told[c] = before /\ told' = [told EXCEPT ![c] = after]
Releases == /\ told' = told
            /\ \A d \in Conns : Alive(d)' => Alive(d)
            /\ \A d \in Conns : Alive(d) /\ ~Alive(d)' => told[d] = <<"UP", "DOWN">>
Creates == /\ told' = told
           /\ \E c \in Conns : /\ ~Alive(c) /\ told[c] = <<>> /\ Alive(c)'
                               /\ \A d \in Conns : d # c => (Alive(d)' <=> Alive(d))
Lives == \/ Releases \/ Creates
         \/ /\ SameObjects
            /\ \E c \in Conns : \/ Tells(c, <<>>, <<"UP">>)
                                \/ Tells(c, <<"UP">>, <<"UP", "DOWN">>)

LEMMA QuietLives == told' = told /\ SameObjects => Lives
BY DEF Lives, Releases, SameObjects

LEMMA ServesLives ==
  ASSUME IInv, Body, Queues, Serves, Reads,
         \/ told' = told
         \/ \E c \in Conns : \/ Tells(c, <<>>, <<"UP">>)
                             \/ Tells(c, <<"UP">>, <<"UP", "DOWN">>)
  PROVE  IInv' /\ Lives
<1>1. IInv' /\ SameObjects
  BY ServesKeeps DEF SameObjects
<1> QED BY <1>1, QuietLives DEF Lives

LEMMA SameTyped ==
  ASSUME ServerTypeOK
  PROVE  /\ pending' = pending => pending' \in [Loops -> Seq(Functors)]
         /\ inbox' = inbox => inbox' \in [Conns -> BOOLEAN]
BY DEF ServerTypeOK

------------------------------------------------------------------------------
(* The actions.                                                            *)

LEMMA ClientStep ==
  ASSUME IInv, NEW c \in Conns, Client(c)
  PROVE  IInv' /\ Lives
<1>1. ServerTypeOK /\ TypePeers
  BY TypeParts DEF IInv
<1>2. UNCHANGED <<connVars, channelVars, out, loopVars, history>>
  BY DEF Client, Dial, Request, Leave, Reset
<1>3. TypePeers' /\ \A d \in Conns : peer[d] = "reset" => peer'[d] = "reset"
  <2>1. CASE Dial(c)
    BY <1>1, <2>1 DEF Dial, TypePeers, history
  <2>2. CASE Request(c)
    BY <1>1, <2>2, ServerAssumption DEF Request, TypePeers, history, ServerAssumption
  <2>3. CASE Leave(c)
    BY <1>1, <2>3 DEF Leave, TypePeers, history
  <2>4. CASE Reset(c)
    BY <1>1, <2>4 DEF Reset, TypePeers, history
  <2> QED BY <2>1, <2>2, <2>3, <2>4 DEF Client
<1>4. Body /\ Queues
  BY <1>2, NothingBody, NothingQueued DEF connVars, loopVars, history
<1>5. Serves
  BY <1>1, <1>2 DEF Serves, ServerTypeOK, connVars, loopVars, history
<1>6. Reads
  BY <1>2, <1>3 DEF Reads, connVars, loopVars, history
<1> QED BY <1>2, <1>4, <1>5, <1>6, ServesLives DEF history

LEMMA AcceptFailsStep ==
  ASSUME IInv, NEW c \in Conns, AcceptFails(c)
  PROVE  IInv' /\ Lives
<1>1. ServerTypeOK /\ TypePeers
  BY TypeParts DEF IInv
<1>2. /\ peer[c] # "reset" /\ peer' = [peer EXCEPT ![c] = "refused"]
      /\ active' = [active EXCEPT ![Base] = {}]
      /\ UNCHANGED <<round, current, revents, running, kept, pending, sender>>
      /\ UNCHANGED <<connVars, channelVars, out, inbox, requests, history>>
  BY DEF AcceptFails, AcceptorReads, Backlog
<1>3. /\ active' \in [Loops -> SUBSET (Conns \cup {Acceptor})]
      /\ \A k \in Loops : active'[k] \subseteq active[k]
  BY <1>1, <1>2, LoopFacts DEF ServerTypeOK
<1>4. TypePeers' /\ \A d \in Conns : peer[d] = "reset" => peer'[d] = "reset"
  BY <1>1, <1>2 DEF TypePeers, history
<1>5. Body /\ Queues
  BY <1>2, NothingBody, NothingQueued DEF connVars, history
<1>6. Serves
  BY <1>1, <1>2, <1>3 DEF Serves, ServerTypeOK, connVars, history
<1>7. Reads
  BY <1>2, <1>4 DEF Reads, connVars, history
<1> QED BY <1>2, <1>5, <1>6, <1>7, ServesLives DEF history

\* What the message callback does, whatever it is.
LEMMA MessageBody ==
  ASSUME IInv, NEW l \in Loops, NEW c \in Conns, state[c] # "disconnected", MessageCallback(c, l),
         UNCHANGED told
  PROVE  /\ Body /\ Queues /\ UNCHANGED <<next, connections>>
         /\ pending' \in [Loops -> Seq(Functors)]
         /\ \/ UNCHANGED sender
            \/ \E d \in Conns : /\ Alive(d) /\ state'[d] \notin Young
                                /\ sender' = [sender EXCEPT ![l] = d]
         /\ \A d \in Conns : state'[d] = "disconnected" => state[d] = "disconnected"
<1>1. ServerTypeOK /\ \A d \in Conns : state[d] = "connected" => state[d] \notin Young
  BY DEF IInv, Young
<1>2. CASE Reply(c)
  <2>1. UNCHANGED <<connVars, pending, sender>>
    BY <1>2 DEF Reply
  <2>2. CASE state[c] = "connected"
    <3>1. sendInLoop(c)
      BY <1>2, <2>2 DEF Reply
    <3>2. Body
      BY <1>1, <2>1, <2>2, <3>1, SendBody DEF connVars
    <3> QED BY <1>1, <2>1, <3>2, NothingQueued, SameTyped DEF connVars
  <2>3. CASE state[c] # "connected"
    <3>1. UNCHANGED <<out, channelVars>>
      BY <1>2, <2>3 DEF Reply
    <3>2. Body
      BY <2>1, <3>1, NothingBody DEF connVars
    <3> QED BY <1>1, <2>1, <3>2, NothingQueued, SameTyped DEF connVars
  <2> QED BY <2>2, <2>3
<1>3. CASE ForwardHere(c, l)
  <2>1. PICK d \in Conns \ {c} : state[d] = "connected" /\ sendInLoop(d)
    BY <1>3 DEF ForwardHere
  <2>2. UNCHANGED <<connVars, pending, sender>>
    BY <1>3 DEF ForwardHere
  <2>3. Body
    BY <1>1, <2>1, <2>2, SendBody DEF connVars
  <2> QED BY <1>1, <2>2, <2>3, NothingQueued, SameTyped DEF connVars
<1>4. CASE ForwardAway(c, l)
  <2>1. PICK d \in Conns \ {c} :
          Alive(d) /\ state[d] = "connected" /\ sender' = [sender EXCEPT ![l] = d]
    BY <1>4 DEF ForwardAway
  <2>2. UNCHANGED <<connVars, channelVars, out, pending>>
    BY <1>4 DEF ForwardAway
  <2>3. Body
    BY <2>2, NothingBody DEF connVars
  <2>4. state' = state
    BY <2>2 DEF connVars
  <2>5. Alive(d) /\ state'[d] \notin Young
    BY <1>1, <2>1, <2>4
  <2> QED BY <1>1, <2>1, <2>2, <2>3, <2>4, <2>5, NothingQueued, SameTyped DEF connVars
<1>5. CASE Refuse(c)
  <2>1. forceClose(c) /\ UNCHANGED <<loop, fd, next, connections, halfClosed, channelVars, out, sender>>
    BY <1>5 DEF Refuse
  <2>2. Body /\ Queues
    BY <2>1, ForceBody
  <2>3. \A d \in Conns : state'[d] = "disconnected" => state[d] = "disconnected"
    BY <1>1, <2>1 DEF forceClose, ServerTypeOK
  <2>4. pending' \in [Loops -> Seq(Functors)]
    <3>1. loop[c] \in Loops /\ Functor("forceClose", c) \in Functors
      BY <1>1, FunctorType DEF ServerTypeOK, Fns
    <3> QED BY <1>1, <2>1, <3>1, PushFacts, SameTyped DEF forceClose
  <2> QED BY <2>1, <2>2, <2>3, <2>4
<1>6. CASE HalfClose(c)
  <2>1. shutdown(c) /\ UNCHANGED <<loop, fd, next, connections, channelVars, out, pending, sender>>
    BY <1>6 DEF HalfClose
  <2>2. Body
    BY <2>1, ShutdownBody
  <2>3. \A d \in Conns : state'[d] = "disconnected" => state[d] = "disconnected"
    BY <1>1, <2>1 DEF shutdown, ServerTypeOK
  <2> QED BY <1>1, <2>1, <2>2, <2>3, NothingQueued, SameTyped
<1> QED BY <1>2, <1>3, <1>4, <1>5, <1>6 DEF MessageCallback

LEMMA ReadDataStep ==
  ASSUME IInv, NEW l \in Loops, NEW c \in Conns, ReadData(l, c)
  PROVE  IInv' /\ Lives
<1>1. ServerTypeOK /\ ReadsOfReset
  BY DEF IInv, ResetInv
<1>2. /\ Calls(l, c, "read") /\ inbox' = [inbox EXCEPT ![c] = FALSE]
      /\ UNCHANGED <<peer, requests, told, late>>
  BY DEF ReadData
<1>3. inbox' \in [Conns -> BOOLEAN]
  BY <1>1, <1>2 DEF ServerTypeOK
<1>4. l \in WorkerLoops /\ c \in active[l] /\ "read" \in revents[c]
  BY <1>1, <1>2, CallFacts
<1>5. CASE state[c] # "disconnected" /\ MessageCallback(c, l) /\ UNCHANGED orphans
  <2>1. /\ Body /\ Queues /\ UNCHANGED <<next, connections>>
        /\ pending' \in [Loops -> Seq(Functors)]
        /\ \/ UNCHANGED sender
           \/ \E d \in Conns : /\ Alive(d) /\ state'[d] \notin Young
                               /\ sender' = [sender EXCEPT ![l] = d]
        /\ \A d \in Conns : state'[d] = "disconnected" => state[d] = "disconnected"
    BY <1>2, <1>5, MessageBody
  <2>2. Serves
    BY <1>2, <2>1, CallServes
  <2>3. Reads
    BY <1>2, <1>3, <1>5, <2>1, CallReads
  <2> QED BY <1>2, <2>1, <2>2, <2>3, ServesLives
<1>6. CASE /\ state[c] = "disconnected" /\ orphans' = orphans \cup {c}
           /\ UNCHANGED <<connVars, channelVars, out, pending, sender>>
  <2>1. Body /\ Queues
    BY <1>2, <1>6, NothingBody, NothingQueued DEF connVars
  <2>2. Serves
    BY <1>1, <1>2, <1>6, CallServes, SameTyped DEF connVars
  <2>3. peer[c] = "reset"
    BY <1>1, <1>4, <1>6 DEF ReadsOfReset
  <2>4. Reads
    BY <1>2, <1>3, <1>6, <2>3, CallReads DEF connVars
  <2> QED BY <1>2, <2>1, <2>2, <2>4, ServesLives
<1> QED BY <1>5, <1>6 DEF ReadData

LEMMA CloseQueue ==
  ASSUME ServerTypeOK, NEW c \in Conns, NEW l, handleClose(c, l)
  PROVE  /\ pending' \in [Loops -> Seq(Functors)]
         /\ \A d \in Conns : state'[d] = "disconnected" => state[d] = "disconnected" \/ d = c
<1>1. Functor("removed", c) \in Functors
  BY FunctorType DEF Fns
<1>2. pending' \in [Loops -> Seq(Functors)]
  BY <1>1, LoopFacts, PushFacts, SameTyped DEF handleClose
<1>3. \A d \in Conns : state'[d] = "disconnected" => state[d] = "disconnected" \/ d = c
  BY DEF handleClose, ServerTypeOK
<1> QED BY <1>2, <1>3

\* What ReadEnd and handleError have in common.
LEMMA ClosingCall ==
  ASSUME IInv, NEW l \in Loops, NEW c \in Conns, NEW ev, Calls(l, c, ev), handleClose(c, l),
         ev = "read" \/ peer[c] = "reset",
         UNCHANGED <<loop, fd, next, connections, halfClosed, out, sender, peerVars, late, orphans>>
  PROVE  IInv' /\ Lives
<1>1. ServerTypeOK
  BY DEF IInv
<1>2. /\ Body /\ Queues
      /\ told' = told \/ (c \in connections /\ Tells(c, <<"UP">>, <<"UP", "DOWN">>))
  BY CloseBody, AliveIs DEF Tells
<1>3. Serves
  BY <1>1, CloseQueue, CallServes
<1>4. Reads
  BY <1>1, CloseQueue, CallReads, SameTyped DEF peerVars
<1> QED BY <1>2, <1>3, <1>4, ServesLives

LEMMA ReadEndStep ==
  ASSUME IInv, NEW l \in Loops, NEW c \in Conns, ReadEnd(l, c)
  PROVE  IInv' /\ Lives
BY ClosingCall DEF ReadEnd

LEMMA handleErrorStep ==
  ASSUME IInv, NEW l \in Loops, NEW c \in Conns, handleError(l, c)
  PROVE  IInv' /\ Lives
<1>1. /\ Calls(l, c, "error") /\ handleClose(c, l)
      /\ UNCHANGED <<loop, fd, next, connections, halfClosed, out, sender, peerVars, late, orphans>>
  BY DEF handleError
<1>2. ServerTypeOK /\ ReadsOfReset
  BY DEF IInv, ResetInv
<1>3. l \in WorkerLoops /\ c \in active[l] /\ "error" \in revents[c]
  BY <1>1, <1>2, CallFacts
<1>4. peer[c] = "reset"
  BY <1>2, <1>3 DEF ReadsOfReset
<1> QED BY <1>1, <1>4, ClosingCall

LEMMA handleWriteStep ==
  ASSUME IInv, NEW l \in Loops, NEW c \in Conns, handleWrite(l, c)
  PROVE  IInv' /\ Lives
<1>1. ServerTypeOK
  BY DEF IInv
<1>2. /\ Calls(l, c, "write")
      /\ UNCHANGED <<loop, fd, next, connections, pending, sender, peerVars, told, late, orphans>>
  BY DEF handleWrite
<1>3. UNCHANGED <<state, halfClosed>>
  BY DEF handleWrite, shutdown
<1>4. Body
  <2>1. CASE UNCHANGED <<out, channelVars>>
    BY <1>2, <1>3, <2>1, NothingBody
  <2>2. CASE /\ isWriting(c) /\ ~halfClosed[c] /\ out' = [out EXCEPT ![c] = FALSE]
             /\ updateChannel(c, events[c] \ {"write"})
    BY <1>2, <1>3, <2>2, WriteBody
  <2> QED BY <2>1, <2>2 DEF handleWrite
<1>5. Queues
  BY <1>2, NothingQueued
<1>6. Serves
  BY <1>1, <1>2, CallServes, SameTyped
<1>7. Reads
  BY <1>1, <1>2, <1>3, CallReads, SameTyped DEF peerVars
<1> QED BY <1>2, <1>4, <1>5, <1>6, <1>7, ServesLives

LEMMA connectEstablishedStep ==
  ASSUME IInv, NEW l \in Loops, NEW c \in Conns, connectEstablished(l, c)
  PROVE  IInv' /\ Lives
<1>1. ServerTypeOK
  BY DEF IInv
<1>2. /\ Runs(l, "established", c)
      /\ UNCHANGED <<loop, fd, next, connections, halfClosed, out, pending, peerVars, late, orphans>>
  BY DEF connectEstablished
<1>3. /\ Body /\ (told' = told \/ (c \in connections /\ Tells(c, <<>>, <<"UP">>)))
      /\ \A d \in Conns : state'[d] = "disconnected" => state[d] = "disconnected"
  <2>1. CASE state[c] = "connecting"
    <3>1. /\ state' = [state EXCEPT ![c] = "connected"] /\ updateChannel(c, {"read"})
          /\ told' = [told EXCEPT ![c] = Append(told[c], "UP")]
      BY <2>1 DEF connectEstablished
    <3>2. /\ Body /\ c \in connections /\ told[c] = <<>>
          /\ told' = [told EXCEPT ![c] = <<"UP">>]
      BY <1>2, <2>1, <3>1, EstablishBody
    <3>3. \A d \in Conns : state'[d] = "disconnected" => state[d] = "disconnected"
      BY <1>1, <3>1 DEF ServerTypeOK
    <3> QED BY <3>2, <3>3, AliveIs DEF Tells
  <2>2. CASE UNCHANGED <<state, channelVars, told>>
    BY <1>2, <2>2, NothingBody
  <2> QED BY <2>1, <2>2 DEF connectEstablished
<1>4. Queues
  BY <1>2, NothingQueued
<1>5. Serves
  BY <1>1, <1>2, RunServes, SameTyped
<1>6. Reads
  BY <1>2, <1>3, RunReads
<1> QED BY <1>3, <1>4, <1>5, <1>6, ServesLives

LEMMA RunSendStep ==
  ASSUME IInv, NEW l \in Loops, NEW c \in Conns, RunSend(l, c)
  PROVE  IInv' /\ Lives
<1>1. ServerTypeOK /\ QueuesKnow
  BY DEF IInv, Lifetime
<1>2. /\ Runs(l, "send", c) /\ UNCHANGED <<connVars, pending, peerVars, told, late, orphans>>
  BY DEF RunSend
<1>3. state[c] \notin Young
  <2>1. Functor("send", c) \in Batch(l)
    BY <1>1, <1>2, RunFacts
  <2> QED BY <1>1, <2>1, FunctorParts DEF QueuesKnow
<1>4. Body
  <2>1. CASE sendInLoop(c)
    BY <1>2, <1>3, <2>1, SendBody DEF connVars
  <2>2. CASE UNCHANGED <<out, channelVars>>
    BY <1>2, <2>2, NothingBody DEF connVars
  <2> QED BY <2>1, <2>2 DEF RunSend
<1>5. Queues
  BY <1>2, NothingQueued
<1>6. Serves
  BY <1>1, <1>2, RunServes, SameTyped DEF connVars
<1>7. Reads
  BY <1>2, RunReads DEF connVars
<1> QED BY <1>2, <1>4, <1>5, <1>6, <1>7, ServesLives

LEMMA forceCloseInLoopStep ==
  ASSUME IInv, NEW l \in Loops, NEW c \in Conns, forceCloseInLoop(l, c)
  PROVE  IInv' /\ Lives
<1>1. ServerTypeOK
  BY DEF IInv
<1>2. /\ Runs(l, "forceClose", c) /\ handleClose(c, l)
      /\ UNCHANGED <<loop, fd, next, connections, halfClosed, out, peerVars, late, orphans>>
  BY DEF forceCloseInLoop
<1>3. /\ Body /\ Queues
      /\ told' = told \/ (c \in connections /\ Tells(c, <<"UP">>, <<"UP", "DOWN">>))
  BY <1>2, CloseBody, AliveIs DEF Tells
<1>4. Serves
  BY <1>1, <1>2, CloseQueue, RunServes
<1>5. Reads
  BY <1>1, <1>2, CloseQueue, RunReads
<1> QED BY <1>3, <1>4, <1>5, ServesLives

LEMMA removeConnectionInLoopStep ==
  ASSUME IInv, NEW c \in Conns, removeConnectionInLoop(c)
  PROVE  IInv' /\ Lives
<1>1. ServerTypeOK /\ QueuesKnow /\ Held /\ Base \in Loops
  BY LoopFacts DEF IInv, Lifetime
<1>2. /\ Runs(Base, "removed", c) /\ connections' = connections \ {c}
      /\ UNCHANGED <<state, loop, fd, next, halfClosed, channelVars, out, peerVars, history>>
  BY DEF removeConnectionInLoop
<1>3. Functor("removed", c) \in Batch(Base)
  BY <1>1, <1>2, RunFacts
<1>4. state[c] = "disconnected"
  BY <1>1, <1>3, FunctorParts DEF QueuesKnow
<1>5. Body
  BY <1>2, NothingBody DEF history
<1>6. CASE c \in connections
  <2>1. queueInLoop(loop[c], Gone(c))
    BY <1>6 DEF removeConnectionInLoop, Gone
  <2>2. Gone(c) \in Functors /\ Gone(c).fn = "destroyed" /\ Gone(c).conn = c
    BY FunctorType, FunctorParts DEF Gone, Fns
  <2>3. loop[c] \in WorkerLoops /\ loop[c] \in Loops /\ loop[c] # Base
    BY <1>1, <1>4, LoopFacts DEF Held
  <2>4. /\ pending' \in [Loops -> Seq(Functors)]
        /\ pending'[loop[c]] = Append(pending[loop[c]], Gone(c))
        /\ \A k \in Loops : k # loop[c] => pending'[k] = pending[k]
    BY <1>1, <2>1, <2>2, <2>3, PushFacts
  <2>5. \A f : f = Gone(c) => Fits(f, loop[c]) /\ Knows(f)' /\ state'[f.conn] # "none"
    BY <1>2, <1>4, <2>2, <2>3 DEF Fits, Knows
  <2>6. Queues
    BY <1>6, <2>2, <2>4, <2>5 DEF Queues
  <2>7. Serves
    BY <1>1, <1>2, <1>4, <2>4, RunServes DEF history
  <2>8. Reads
    BY <1>1, <1>2, RunReads DEF history
  <2> QED BY <1>2, <1>5, <2>6, <2>7, <2>8, ServesLives DEF history
<1>7. CASE c \notin connections
  <2>1. pending' = pending /\ connections' = connections
    BY <1>2, <1>7 DEF removeConnectionInLoop
  <2>2. Serves
    BY <1>1, <1>2, <2>1, RunServes, SameTyped DEF history
  <2>3. Reads
    BY <1>1, <1>2, RunReads DEF history
  <2> QED BY <1>2, <1>5, <2>1, <2>2, <2>3, NothingQueued, ServesLives DEF history
<1> QED BY <1>6, <1>7

LEMMA connectDestroyedStep ==
  ASSUME IInv, NEW l \in Loops, NEW c \in Conns, connectDestroyed(l, c)
  PROVE  IInv' /\ Lives
<1>1. ServerTypeOK
  BY DEF IInv
<1>2. /\ Runs(l, "destroyed", c) /\ UNCHANGED <<connVars, out, pending, peerVars, history>>
      /\ UNCHANGED channelVars
  BY DEF connectDestroyed, removeChannel
<1>3. Body /\ Queues
  BY <1>2, NothingBody, NothingQueued DEF connVars, history
<1>4. Serves
  BY <1>1, <1>2, RunServes, SameTyped DEF connVars, history
<1>5. Reads
  BY <1>2, RunReads DEF connVars, history
<1> QED BY <1>2, <1>3, <1>4, <1>5, ServesLives DEF history

------------------------------------------------------------------------------
(* The actions that are no call: the round of a loop, the rest of a send,  *)
(* and the acceptance of a connection.                                     *)

LEMMA PollStep ==
  ASSUME IInv, NEW l \in Loops, Poll(l)
  PROVE  IInv' /\ Lives
<1>1. /\ ServerTypeOK /\ Lifetime /\ ChannelInv /\ FdInv /\ ResetInv
      /\ TypeBody /\ TypePeers /\ TypeConns /\ TypeLoops
  BY TypeParts DEF IInv
<1>2. /\ round[l] = "poll" /\ round' = [round EXCEPT ![l] = "events"]
      /\ UNCHANGED <<connVars, channelVars, out, current, pending, running, kept, sender,
                     peerVars, history>>
  BY DEF Poll
<1>3. /\ UNCHANGED <<state, loop, fd, next, connections, halfClosed, events, index, channels>>
      /\ UNCHANGED <<peer, inbox, requests, told, late, orphans>>
  BY <1>2 DEF connVars, channelVars, peerVars, history
<1>4. /\ \A c \in Ready(l) : c \in Conns /\ loop[c] = l /\ state[c] \in Up
      /\ Ready(l) \subseteq Conns
  <2> SUFFICES ASSUME NEW c \in Ready(l) PROVE c \in Conns /\ loop[c] = l /\ state[c] \in Up
    BY DEF Ready
  <2>1. c \in Conns /\ loop[c] = l /\ index[c] = "added"
    BY DEF Ready, Registered
  <2>2. Follows(c) /\ state[c] \in Young \cup Up \cup {"disconnected"}
    BY <1>1, <2>1 DEF ChannelInv, ServerTypeOK, Young, Up
  <2> QED BY <2>1, <2>2 DEF Follows
<1>5. \/ /\ l \in WorkerLoops /\ active' = [active EXCEPT ![l] = Ready(l)]
         /\ revents' = [c \in Conns |-> IF c \in Ready(l) THEN Callbacks(c) ELSE revents[c]]
      \/ /\ l = Base /\ active' = [active EXCEPT ![l] = IF Backlog = {} THEN {} ELSE {Acceptor}]
         /\ revents' = revents
  BY LoopFacts DEF Poll
<1>6. \A k \in Loops : k # l => active'[k] = active[k] /\ round'[k] = round[k]
  BY <1>1, <1>2, <1>5 DEF ServerTypeOK
<1>7. /\ l \in WorkerLoops => active'[l] = Ready(l)
      /\ l = Base => active'[l] \subseteq {Acceptor}
      /\ round'[l] = "events"
  BY <1>1, <1>2, <1>5, LoopFacts DEF ServerTypeOK
<1>8. ServerTypeOK'
  <2>1. active' \in [Loops -> SUBSET (Conns \cup {Acceptor})]
    <3>1. ASSUME NEW S \in SUBSET (Conns \cup {Acceptor}), active' = [active EXCEPT ![l] = S]
          PROVE  active' \in [Loops -> SUBSET (Conns \cup {Acceptor})]
      BY <1>1, <3>1 DEF ServerTypeOK
    <3> QED BY <1>4, <1>5, <3>1
  <2>2. revents' \in [Conns -> SUBSET {"error", "read", "write"}]
    <3>1. CASE revents' = revents
      BY <1>1, <3>1 DEF ServerTypeOK
    <3>2. CASE revents' = [c \in Conns |-> IF c \in Ready(l) THEN Callbacks(c) ELSE revents[c]]
      <4>1. ASSUME NEW c \in Conns
            PROVE  /\ Callbacks(c) \in SUBSET {"error", "read", "write"}
                   /\ revents[c] \in SUBSET {"error", "read", "write"}
        BY <1>1 DEF Callbacks, ServerTypeOK
      <4> QED BY <3>2, <4>1
    <3> QED BY <1>5, <3>1, <3>2
  <2>3. round' \in [Loops -> {"poll", "events", "functors"}]
    BY <1>1, <1>2 DEF ServerTypeOK
  <2>4. active'[Base] \subseteq {Acceptor}
    BY <1>1, <1>6, <1>7, LoopFacts DEF ServerTypeOK
  <2>5. \A k \in WorkerLoops : \A c \in active'[k] : c \in Conns /\ loop'[c] = k
    <3> SUFFICES ASSUME NEW k \in WorkerLoops, NEW c \in active'[k]
                 PROVE  c \in Conns /\ loop[c] = k
      BY <1>3
    <3>1. CASE k = l
      BY <1>4, <1>7, <3>1
    <3>2. CASE k # l
      BY <1>1, <1>6, <3>2, LoopFacts DEF ServerTypeOK
    <3> QED BY <3>1, <3>2
  <2>6. /\ current' \in [Loops -> Conns \cup {Nobody}]
        /\ pending' \in [Loops -> Seq(Functors)] /\ running' \in [Loops -> Seq(Functors)]
        /\ kept' \in [Loops -> SUBSET Conns] /\ sender' \in [Loops -> Conns \cup {Nobody}]
    BY <1>1, <1>2 DEF ServerTypeOK
  <2>7. \A k \in Loops : \A f \in Waiting(k)' \cup Batch(k)' : Fits(f, k)'
    BY <1>1, <1>2, <1>3 DEF TypeLoops, Fits, Waiting, Batch
  <2>8. TypeLoops'
    BY <2>1, <2>2, <2>3, <2>4, <2>5, <2>6, <2>7 DEF TypeLoops
  <2>9. TypeBody' /\ TypePeers' /\ TypeConns'
    BY <1>1, <1>2, <1>3 DEF TypeBody, TypePeers, TypeConns
  <2> QED BY <2>8, <2>9, TypePartsNext
<1>9. Lifetime'
  <2>1. ToldIsState' /\ Held'
    BY <1>1, <1>3 DEF Lifetime, ToldIsState, Held
  <2>2. Unborn' /\ QueuesKnow' /\ SendsFirst'
    BY <1>1, <1>2, <1>3 DEF Lifetime, Unborn, NotQueued, QueuesKnow, SendsFirst, Waiting, Batch
  <2>3. Rounds'
    <3>1. \A k \in Loops : running[k] # <<>> \/ kept[k] # {} => k # l
      BY <1>1, <1>2 DEF Lifetime, Rounds
    <3> QED BY <1>1, <1>2, <1>3, <1>6, <1>7, <3>1 DEF Lifetime, Rounds
  <2>4. ActiveHeld'
    <3> SUFFICES ASSUME NEW k \in WorkerLoops, NEW c \in active'[k]
                 PROVE  state[c] \notin Young /\ (c \in connections \/ Gone(c) \in Waiting(k))
      BY <1>2, <1>3 DEF ActiveHeld, Waiting
    <3>1. CASE k = l
      <4>1. c \in Conns /\ state[c] \in Up
        BY <1>4, <1>7, <3>1
      <4> QED BY <1>1, <4>1 DEF Lifetime, Held, Up, Young
    <3>2. CASE k # l
      BY <1>1, <1>6, <3>2, LoopFacts DEF Lifetime, ActiveHeld
    <3> QED BY <3>1, <3>2
  <2> QED BY <2>1, <2>2, <2>3, <2>4 DEF Lifetime
<1>10. SameObjects
  BY <1>2, <1>3 DEF SameObjects, Alive, Queued
<1>11. ChannelInv' /\ FdInv'
  <2>1. ChannelInv'
    BY <1>1, <1>2, <1>3 DEF ChannelInv, Follows, Entries, Mine, Known, isWriting
  <2>2. FdInv'
    BY <1>1, <1>2, <1>3, <1>10, UnseenKept, FdKept DEF SameObjects, Unseen, ChannelsGrow
  <2> QED BY <2>1, <2>2
<1>12. ResetInv'
  <2>1. ASSUME NEW k \in WorkerLoops, NEW c \in active'[k]
        PROVE  /\ "error" \in revents'[c] => peer[c] = "reset"
               /\ "read" \in revents'[c] /\ state[c] = "disconnected" => peer[c] = "reset"
    <3>1. CASE k = l
      <4>1. c \in Conns /\ c \in Ready(l) /\ state[c] \in Up
        BY <1>4, <1>7, <3>1
      <4>2. revents'[c] = Callbacks(c)
        BY <1>5, <3>1, <4>1, LoopFacts
      <4> QED BY <4>1, <4>2 DEF Callbacks, Up
    <3>2. CASE k # l
      <4>1. c \in active[k] /\ c \in Conns /\ loop[c] = k
        BY <1>1, <1>6, <3>2, LoopFacts DEF ServerTypeOK
      <4>2. revents'[c] = revents[c]
        BY <1>4, <1>5, <3>2, <4>1
      <4> QED BY <1>1, <4>1, <4>2 DEF ResetInv, ReadsOfReset
    <3> QED BY <3>1, <3>2
  <2>2. ReadsOfReset'
    BY <1>3, <2>1 DEF ReadsOfReset
  <2> QED BY <1>1, <1>3, <2>2 DEF ResetInv, OrphansOnlyByReset
<1> QED BY <1>3, <1>8, <1>9, <1>10, <1>11, <1>12, QuietLives DEF IInv

\* A step that only moves functors and pointers.
LEMMA StillStep ==
  ASSUME IInv, UNCHANGED <<connVars, channelVars, out, peerVars, told, orphans, active, revents>>,
         late' \subseteq Conns, TypeLoops', Lifetime', \A d \in Conns : Alive(d)' => Alive(d)
  PROVE  IInv'
<1>1. ServerTypeOK /\ ChannelInv /\ FdInv /\ ResetInv /\ TypeBody /\ TypePeers /\ TypeConns
  BY TypeParts DEF IInv
<1>2. /\ UNCHANGED <<state, loop, fd, next, connections, halfClosed, events, index, channels>>
      /\ UNCHANGED <<peer, inbox, requests, out, told, orphans, active, revents>>
  BY DEF connVars, channelVars, peerVars
<1>3. TypeBody' /\ TypePeers' /\ TypeConns'
  BY <1>1, <1>2 DEF TypeBody, TypePeers, TypeConns
<1>4. ChannelInv'
  BY <1>1, <1>2 DEF ChannelInv, Follows, Entries, Mine, Known, isWriting
<1>5. FdInv'
  BY <1>1, <1>2, UnseenKept, FdKept DEF Unseen, ChannelsGrow
<1>6. ResetInv'
  BY <1>1, <1>2 DEF ResetInv, ReadsOfReset, OrphansOnlyByReset
<1> QED BY <1>3, <1>4, <1>5, <1>6, TypePartsNext DEF IInv

LEMMA TakeFunctorsStep ==
  ASSUME IInv, NEW l \in Loops, TakeFunctors(l)
  PROVE  IInv' /\ Lives
<1>1. ServerTypeOK /\ Lifetime /\ TypeLoops
  BY TypeParts DEF IInv
<1>2. /\ round[l] = "events" /\ active[l] = {} /\ sender[l] = Nobody
      /\ running' = [running EXCEPT ![l] = pending[l]]
      /\ pending' = [pending EXCEPT ![l] = <<>>]
      /\ round' = [round EXCEPT ![l] = IF pending[l] = <<>> THEN "poll" ELSE "functors"]
      /\ UNCHANGED <<connVars, channelVars, out, active, current, revents, kept, sender,
                     peerVars, history>>
  BY DEF TakeFunctors
<1>3. UNCHANGED <<state, loop, fd, connections, told, late>>
  BY <1>2 DEF connVars, history
<1>4. /\ running' \in [Loops -> Seq(Functors)] /\ pending' \in [Loops -> Seq(Functors)]
      /\ round' \in [Loops -> {"poll", "events", "functors"}]
      /\ running'[l] = pending[l] /\ pending'[l] = <<>>
      /\ round'[l] = IF pending[l] = <<>> THEN "poll" ELSE "functors"
      /\ \A k \in Loops : k # l => /\ running'[k] = running[k] /\ pending'[k] = pending[k]
                                   /\ round'[k] = round[k]
  BY <1>1, <1>2 DEF ServerTypeOK
<1>5. running[l] = <<>> /\ kept[l] = {} /\ Batch(l) = {}
  BY <1>1, <1>2, NoFunctors DEF Lifetime, Rounds, Batch
<1>6. \A k \in Loops : /\ Waiting(k)' \cup Batch(k)' = Waiting(k) \cup Batch(k)
                       /\ k # l => Waiting(k)' = Waiting(k) /\ Batch(k)' = Batch(k)
  BY <1>4, <1>5, NoFunctors DEF Waiting, Batch
<1>7. SameObjects
  <2>1. \A k \in Loops, d \in Conns : Holds(k, d)' <=> Holds(k, d)
    BY <1>2, <1>6 DEF Holds
  <2> QED BY <1>3, <2>1, AliveIs, AliveIsNext DEF SameObjects
<1>8. TypeLoops'
  <2>1. \A k \in Loops : \A f \in Waiting(k)' \cup Batch(k)' : Fits(f, k)'
    BY <1>1, <1>3, <1>6 DEF TypeLoops, Fits
  <2> QED BY <1>1, <1>2, <1>3, <1>4, <2>1 DEF TypeLoops
<1>9. Lifetime'
  <2>1. ToldIsState' /\ Held'
    BY <1>1, <1>3 DEF Lifetime, ToldIsState, Held
  <2>2. Unborn' /\ QueuesKnow'
    BY <1>1, <1>2, <1>3, <1>6 DEF Lifetime, Unborn, NotQueued, QueuesKnow
  <2>3. Rounds'
    <3> SUFFICES ASSUME NEW k \in Loops
                 PROVE  /\ active[k] # {} \/ sender[k] # Nobody => round'[k] = "events"
                        /\ running'[k] # <<>> \/ kept[k] # {} => round'[k] = "functors"
                        /\ sender[k] # Nobody => state[sender[k]] \notin Young
      BY <1>2, <1>3 DEF Rounds
    <3>1. CASE k = l
      BY <1>1, <1>2, <1>4, <1>5, <3>1 DEF Lifetime, Rounds
    <3>2. CASE k # l
      BY <1>1, <1>4, <3>2 DEF Lifetime, Rounds
    <3> QED BY <3>1, <3>2
  <2>4. ActiveHeld'
    <3>1. \A k \in WorkerLoops : active[k] # {} => Waiting(k)' = Waiting(k)
      BY <1>2, <1>6, LoopFacts
    <3> QED BY <1>1, <1>2, <1>3, <3>1 DEF Lifetime, ActiveHeld
  <2>5. SendsFirst'
    <3> SUFFICES ASSUME NEW k \in WorkerLoops, NEW c \in Conns, c \notin connections, c \notin late
                 PROVE  /\ Followed(pending'[k], c)
                        /\ Gone(c) \in Waiting(k)' \/ Followed(running'[k], c)
      BY <1>3 DEF SendsFirst, Waiting
    <3>1. /\ Followed(pending[k], c) /\ k \in Loops
          /\ Gone(c) \in Waiting(k) \/ Followed(running[k], c)
      BY <1>1, LoopFacts DEF Lifetime, SendsFirst
    <3>2. CASE k = l
      <4>1. Followed(<<>>, c)
        BY NoFunctors, FollowedNothing
      <4> QED BY <1>4, <3>1, <3>2, <4>1
    <3>3. CASE k # l
      BY <1>4, <1>6, <3>1, <3>3
    <3> QED BY <3>2, <3>3
  <2> QED BY <2>1, <2>2, <2>3, <2>4, <2>5 DEF Lifetime
<1>10. IInv'
  <2>1. late' \subseteq Conns
    BY <1>1, <1>3 DEF ServerTypeOK
  <2> QED BY <1>2, <1>7, <1>8, <1>9, <2>1, StillStep DEF SameObjects, history
<1> QED BY <1>3, <1>7, <1>10, QuietLives

\* What a step drops was reported down: a connection that is not is kept by the server.
LEMMA DroppedIsDown ==
  ASSUME IInv, NEW c \in Conns, c \notin connections, state[c] # "none"
  PROVE  told[c] = <<"UP", "DOWN">>
<1>1. ServerTypeOK /\ Held /\ ToldIsState
  BY DEF IInv, Lifetime
<1>2. state[c] = "disconnected"
  BY <1>1 DEF ServerTypeOK, Held, Up
<1> QED BY <1>1, <1>2 DEF ToldIsState

LEMMA EndBatchStep ==
  ASSUME IInv, NEW l \in Loops, EndBatch(l)
  PROVE  IInv' /\ Lives
<1>1. ServerTypeOK /\ Lifetime /\ TypeLoops
  BY TypeParts DEF IInv
<1>2. /\ round[l] = "functors" /\ running[l] = <<>>
      /\ kept' = [kept EXCEPT ![l] = {}] /\ round' = [round EXCEPT ![l] = "poll"]
      /\ UNCHANGED <<connVars, channelVars, out, active, current, revents, pending, running,
                     sender, peerVars, history>>
  BY DEF EndBatch
<1>3. UNCHANGED <<state, loop, fd, connections, told, late>>
  BY <1>2 DEF connVars, history
<1>4. /\ kept' \in [Loops -> SUBSET Conns] /\ round' \in [Loops -> {"poll", "events", "functors"}]
      /\ kept'[l] = {} /\ round'[l] = "poll"
      /\ \A k \in Loops : k # l => kept'[k] = kept[k] /\ round'[k] = round[k]
      /\ \A k \in Loops : kept'[k] \subseteq kept[k]
  BY <1>1, <1>2 DEF ServerTypeOK
<1>5. \A k \in Loops : Waiting(k)' = Waiting(k) /\ Batch(k)' = Batch(k)
  BY <1>2 DEF Waiting, Batch
<1>6. ASSUME NEW d \in Conns
      PROVE  /\ Alive(d)' => Alive(d)
             /\ Alive(d) /\ ~Alive(d)' => told[d] = <<"UP", "DOWN">>
  <2>1. \A k \in Loops : Holds(k, d)' => Holds(k, d)
    BY <1>2, <1>4, <1>5 DEF Holds
  <2>2. Alive(d)' => Alive(d)
    BY <1>3, <2>1, AliveIs, AliveIsNext
  <2>3. ASSUME Alive(d), ~Alive(d)' PROVE told[d] = <<"UP", "DOWN">>
    <3>1. d \notin connections /\ \E k \in Loops : Holds(k, d) /\ ~Holds(k, d)'
      BY <1>3, <2>3, AliveIs, AliveIsNext
    <3>2. \E k \in Loops : d \in kept[k]
      BY <1>2, <1>5, <3>1 DEF Holds
    <3>3. state[d] # "none"
      BY <1>1, <3>2 DEF Lifetime, Unborn
    <3> QED BY <3>1, <3>3, DroppedIsDown
  <2> QED BY <2>2, <2>3
<1>7. TypeLoops'
  BY <1>1, <1>2, <1>3, <1>4, <1>5 DEF TypeLoops, Fits
<1>8. Lifetime'
  <2>1. ToldIsState' /\ Held'
    BY <1>1, <1>3 DEF Lifetime, ToldIsState, Held
  <2>4. QueuesKnow'
    BY <1>1, <1>3, <1>5 DEF Lifetime, QueuesKnow
  <2>5. ActiveHeld'
    BY <1>1, <1>2, <1>3, <1>5, LoopFacts DEF Lifetime, ActiveHeld
  <2>6. SendsFirst'
    BY <1>1, <1>2, <1>3, <1>5, LoopFacts DEF Lifetime, SendsFirst
  <2>2. Unborn'
    BY <1>1, <1>2, <1>3, <1>4, <1>5 DEF Lifetime, Unborn, NotQueued
  <2>3. Rounds'
    BY <1>1, <1>2, <1>3, <1>4 DEF Lifetime, Rounds
  <2> QED BY <2>1, <2>2, <2>3, <2>4, <2>5, <2>6 DEF Lifetime
<1>9. IInv'
  <2>1. late' \subseteq Conns
    BY <1>1, <1>3 DEF ServerTypeOK
  <2> QED BY <1>2, <1>6, <1>7, <1>8, <2>1, StillStep DEF history
<1>10. Lives
  BY <1>3, <1>6 DEF Lives, Releases
<1> QED BY <1>9, <1>10

LEMMA PushSendStep ==
  ASSUME IInv, NEW l \in Loops, PushSend(l)
  PROVE  IInv' /\ Lives
<1>1. ServerTypeOK /\ Lifetime /\ TypeLoops
  BY TypeParts DEF IInv
<1>2. PICK c \in Conns : c = sender[l]
  BY <1>1 DEF PushSend, ServerTypeOK
<1>3. PICK m \in Loops : m = loop[c]
  BY <1>1 DEF ServerTypeOK
<1>4. /\ round[l] = "events" /\ state[c] \notin Young /\ state[c] # "none" /\ m \in WorkerLoops
  BY <1>1, <1>2, <1>3, Names DEF Lifetime, Rounds, Held, Young
<1>5. Send(c) \in Functors /\ Send(c).fn = "send" /\ Send(c).conn = c
  BY FunctorType, FunctorParts DEF Send, Fns
<1>6. /\ queueInLoop(m, Send(c))
      /\ late' = IF state[c] = "disconnected" THEN late \cup {c} ELSE late
      /\ sender' = [sender EXCEPT ![l] = Nobody]
      /\ UNCHANGED <<connVars, channelVars, out, round, active, current, revents, running, kept,
                     peerVars, told, orphans>>
  BY <1>2, <1>3 DEF PushSend, Send
<1>7. UNCHANGED <<state, loop, fd, connections>>
  BY <1>6 DEF connVars
<1>8. /\ pending' \in [Loops -> Seq(Functors)]
      /\ pending'[m] = Append(pending[m], Send(c)) /\ Waiting(m)' = Waiting(m) \cup {Send(c)}
      /\ \A k \in Loops : k # m => pending'[k] = pending[k] /\ Waiting(k)' = Waiting(k)
      /\ \A k \in Loops : Batch(k)' = Batch(k)
  BY <1>1, <1>5, <1>6, PushFacts DEF Batch
<1>9. /\ sender' \in [Loops -> Conns \cup {Nobody}] /\ sender'[l] = Nobody
      /\ \A k \in Loops : k # l => sender'[k] = sender[k]
  BY <1>1, <1>6 DEF ServerTypeOK
<1>10. ASSUME NEW d \in Conns
       PROVE  /\ Alive(d)' => Alive(d)
              /\ Alive(d) /\ ~Alive(d)' => told[d] = <<"UP", "DOWN">>
  <2>1. \A k \in Loops : Holds(k, d)' => Holds(k, d)
    BY <1>5, <1>6, <1>8, <1>9, Names DEF Holds
  <2>2. Alive(d)' => Alive(d)
    BY <1>7, <2>1, AliveIs, AliveIsNext
  <2>3. ASSUME Alive(d), ~Alive(d)' PROVE told[d] = <<"UP", "DOWN">>
    <3>1. d \notin connections /\ \E k \in Loops : Holds(k, d) /\ ~Holds(k, d)'
      BY <1>7, <2>3, AliveIs, AliveIsNext
    <3>2. d = c
      BY <1>2, <1>6, <1>8, <1>9, <3>1 DEF Holds
    <3> QED BY <1>4, <3>1, <3>2, DroppedIsDown
  <2> QED BY <2>2, <2>3
<1>11. TypeLoops'
  <2>1. Fits(Send(c), m)
    BY <1>3, <1>4, <1>5, LoopFacts DEF Fits
  <2>2. \A k \in Loops : \A f \in Waiting(k)' \cup Batch(k)' : Fits(f, k)
    BY <1>1, <1>8, <2>1 DEF TypeLoops
  <2>3. \A k \in Loops : \A f \in Waiting(k)' \cup Batch(k)' : Fits(f, k)'
    BY <1>7, <2>2 DEF Fits
  <2> QED BY <1>1, <1>6, <1>7, <1>8, <1>9, <2>3 DEF TypeLoops
<1>12. Lifetime'
  <2>1. ToldIsState' /\ Held'
    BY <1>1, <1>6, <1>7 DEF Lifetime, ToldIsState, Held
  <2>2. Unborn'
    <3> SUFFICES ASSUME NEW d \in Conns, state[d] = "none"
                 PROVE  /\ d \notin connections /\ NotQueued(d)'
                        /\ \A k \in Loops : d \notin kept[k] /\ sender'[k] # d
      BY <1>6, <1>7 DEF Unborn
    <3>1. /\ d \notin connections /\ NotQueued(d)
          /\ \A k \in Loops : d \notin kept[k] /\ sender[k] # d
      BY <1>1 DEF Lifetime, Unborn
    <3>2. NotQueued(d)'
      BY <1>4, <1>5, <1>8, <3>1 DEF NotQueued
    <3> QED BY <1>9, <3>1, <3>2, Names
  <2>3. QueuesKnow'
    <3>1. ASSUME NEW k \in Loops, NEW f \in Waiting(k)' \cup Batch(k)'
          PROVE  f \in Waiting(k) \cup Batch(k) \/ f = Send(c)
      BY <1>8
    <3> QED BY <1>1, <1>4, <1>5, <1>7, <3>1 DEF Lifetime, QueuesKnow
  <2>4. Rounds'
    BY <1>1, <1>6, <1>7, <1>9 DEF Lifetime, Rounds
  <2>5. ActiveHeld'
    <3>1. \A k \in WorkerLoops : Waiting(k) \subseteq Waiting(k)'
      BY <1>8, LoopFacts
    <3>2. UNCHANGED <<active, state, connections>>
      BY <1>6, <1>7
    <3> QED BY <1>1, <3>1, <3>2 DEF Lifetime, ActiveHeld
  <2>6. SendsFirst'
    <3> SUFFICES ASSUME NEW k \in WorkerLoops, NEW d \in Conns, d \notin connections, d \notin late'
                 PROVE  /\ Followed(pending'[k], d)
                        /\ Gone(d) \in Waiting(k)' \/ Followed(running[k], d)
      BY <1>6, <1>7 DEF SendsFirst, Waiting
    <3>1. d # c /\ d \notin late
      <4>1. c \notin connections => state[c] = "disconnected"
        BY <1>1, <1>4 DEF Lifetime, Held, ServerTypeOK, Up, Young
      <4> QED BY <1>6, <4>1
    <3>2. /\ Followed(pending[k], d) /\ k \in Loops /\ pending[k] \in Seq(Functors)
          /\ Gone(d) \in Waiting(k) \/ Followed(running[k], d)
      BY <1>1, <3>1, LoopFacts, QueueType DEF Lifetime, SendsFirst
    <3>3. Waiting(k) \subseteq Waiting(k)'
      BY <1>8, <3>2
    <3>4. Send(c) # Send(d)
      BY <3>1, FunctorParts DEF Send
    <3>5. Followed(pending'[k], d)
      <4>1. Followed(Append(pending[k], Send(c)), d)
        BY <1>5, <3>2, <3>4, FollowedAppend
      <4> QED BY <1>8, <3>2, <4>1
    <3> QED BY <3>2, <3>3, <3>5
  <2> QED BY <2>1, <2>2, <2>3, <2>4, <2>5, <2>6 DEF Lifetime
<1>13. IInv'
  <2>1. late' \subseteq Conns
    BY <1>1, <1>6 DEF ServerTypeOK
  <2> QED BY <1>6, <1>10, <1>11, <1>12, <2>1, StillStep
<1>14. Lives
  BY <1>6, <1>10 DEF Lives, Releases
<1> QED BY <1>13, <1>14

\* Nothing of a connection that is to be accepted exists, and its descriptor is free.
LEMMA AcceptFacts ==
  ASSUME IInv, NEW c \in Conns, Accept(c)
  PROVE  /\ state[c] = "none" /\ c \notin connections /\ ~Alive(c) /\ told[c] = <<>>
         /\ \A l \in Loops : /\ c \notin kept[l] /\ sender[l] # c
                             /\ \A f \in Waiting(l) \cup Batch(l) : f.conn # c
         /\ \A l \in WorkerLoops : c \notin active[l]
         /\ \E x \in Fds, w \in WorkerLoops :
              /\ \A d \in Conns : Alive(d) => fd[d] # x
              /\ fd' = [fd EXCEPT ![c] = x] /\ loop' = [loop EXCEPT ![c] = w]
              /\ queueInLoop(w, Functor("established", c))
<1>1. ServerTypeOK /\ Lifetime
  BY DEF IInv
<1>2. state[c] = "none"
  BY DEF Accept, Backlog
<1>3. /\ c \notin connections /\ NotQueued(c) /\ told[c] = <<>>
      /\ \A l \in Loops : c \notin kept[l] /\ sender[l] # c
  BY <1>1, <1>2 DEF Lifetime, Unborn, ToldIsState, Young
<1>4. ~Alive(c)
  BY <1>3, AliveIs DEF Holds, NotQueued
<1>5. \A l \in WorkerLoops : c \notin active[l]
  BY <1>1, <1>2 DEF Lifetime, ActiveHeld, Young
<1>6. PICK x \in Fds : Lowest(x, FreeFds) /\ fd' = [fd EXCEPT ![c] = x]
  BY DEF Accept
<1>7. \A d \in Conns : Alive(d) => fd[d] # x
  BY <1>6 DEF Lowest, FreeFds
<1>8. PICK w \in WorkerLoops : w = Workers[next]
  BY <1>1, LoopFacts DEF ServerTypeOK
<1>9. loop' = [loop EXCEPT ![c] = w] /\ queueInLoop(w, Functor("established", c))
  BY <1>8 DEF Accept
<1> QED BY <1>2, <1>3, <1>4, <1>5, <1>6, <1>7, <1>9 DEF NotQueued

LEMMA AcceptStep ==
  ASSUME IInv, NEW c \in Conns, Accept(c)
  PROVE  IInv' /\ Lives
<1>1. /\ ServerTypeOK /\ Lifetime /\ ChannelInv /\ FdInv /\ ResetInv
      /\ TypeBody /\ TypePeers /\ TypeConns /\ TypeLoops
  BY TypeParts DEF IInv
<1>2. /\ state[c] = "none" /\ c \notin connections /\ ~Alive(c) /\ told[c] = <<>>
      /\ \A l \in Loops : /\ c \notin kept[l] /\ sender[l] # c
                          /\ \A f \in Waiting(l) \cup Batch(l) : f.conn # c
      /\ \A l \in WorkerLoops : c \notin active[l]
  BY AcceptFacts
<1>3. PICK x \in Fds, w \in WorkerLoops :
        /\ \A d \in Conns : Alive(d) => fd[d] # x
        /\ fd' = [fd EXCEPT ![c] = x] /\ loop' = [loop EXCEPT ![c] = w]
        /\ queueInLoop(w, Functor("established", c))
  BY AcceptFacts
<1>4. PICK f \in Functors : f = Functor("established", c)
  BY FunctorType DEF Fns
<1>5. f.fn = "established" /\ f.conn = c /\ w \in Loops /\ w # Base
  BY <1>3, <1>4, FunctorParts, LoopFacts
<1>6. /\ state' = [state EXCEPT ![c] = "connecting"] /\ connections' = connections \cup {c}
      /\ next' = IF next = Len(Workers) THEN 1 ELSE next + 1
      /\ active' = [active EXCEPT ![Base] = {}]
      /\ UNCHANGED <<round, current, revents, running, kept>>
      /\ UNCHANGED <<halfClosed, out, sender, events, index, channels>>
      /\ UNCHANGED <<peer, inbox, requests, told, late, orphans>>
  BY DEF Accept, AcceptorReads, channelVars, peerVars, history
<1>7. /\ pending' \in [Loops -> Seq(Functors)]
      /\ pending'[w] = Append(pending[w], f) /\ Waiting(w)' = Waiting(w) \cup {f}
      /\ \A k \in Loops : k # w => pending'[k] = pending[k] /\ Waiting(k)' = Waiting(k)
      /\ \A k \in Loops : Batch(k)' = Batch(k)
  BY <1>1, <1>3, <1>4, <1>5, <1>6, PushFacts DEF Batch
<1>8. /\ state' \in [Conns -> {"none", "connecting", "connected", "disconnecting", "disconnected"}]
      /\ state'[c] = "connecting" /\ \A d \in Conns : d # c => state'[d] = state[d]
  BY <1>1, <1>6 DEF ServerTypeOK
<1>9. /\ fd' \in [Conns -> Fds \cup {0}] /\ fd'[c] = x
      /\ \A d \in Conns : d # c => fd'[d] = fd[d]
  BY <1>1, <1>3 DEF ServerTypeOK
<1>10. /\ loop' \in [Conns -> Loops] /\ loop'[c] = w
       /\ \A d \in Conns : d # c => loop'[d] = loop[d]
  BY <1>1, <1>3, <1>5 DEF ServerTypeOK
<1>11. /\ active' \in [Loops -> SUBSET (Conns \cup {Acceptor})] /\ active'[Base] = {}
       /\ \A k \in Loops : k # Base => active'[k] = active[k]
  BY <1>1, <1>6, LoopFacts DEF ServerTypeOK
<1>12. \A k \in Loops : \A g \in Waiting(k)' \cup Batch(k)' :
         g \in Waiting(k) \cup Batch(k) \/ (g = f /\ k = w)
  BY <1>7
<1>13. \A d \in Conns : d # c => (Alive(d)' <=> Alive(d))
  <2>1. \A k \in Loops, d \in Conns : d # c => (Holds(k, d)' <=> Holds(k, d))
    BY <1>5, <1>6, <1>7 DEF Holds
  <2> QED BY <1>6, <2>1, AliveIs, AliveIsNext
<1>14. Alive(c)'
  BY <1>6, AliveIsNext
<1>15. ServerTypeOK'
  <2>1. TypeBody' /\ TypePeers'
    BY <1>1, <1>6, <1>8 DEF TypeBody, TypePeers
  <2>2. TypeConns'
    <3>1. next' \in 1..Len(Workers)
      BY <1>1, <1>6, LoopFacts DEF TypeConns
    <3> QED BY <1>1, <1>6, <1>9, <1>10, <3>1 DEF TypeConns
  <2>3. \A k \in Loops : \A g \in Waiting(k)' \cup Batch(k)' : Fits(g, k)'
    <3> SUFFICES ASSUME NEW k \in Loops, NEW g \in Waiting(k)' \cup Batch(k)'
                 PROVE  IF k = Base THEN g.fn = "removed" ELSE g.fn # "removed" /\ loop'[g.conn] = k
      BY DEF Fits
    <3>1. CASE g = f /\ k = w
      BY <1>5, <1>10, <3>1
    <3>2. CASE g \in Waiting(k) \cup Batch(k)
      <4>1. g.conn \in Conns /\ g.conn # c /\ Fits(g, k)
        BY <1>1, <1>2, <3>2, QueueType, FunctorType DEF TypeLoops
      <4> QED BY <1>10, <4>1 DEF Fits
    <3> QED BY <1>12, <3>1, <3>2
  <2>4. \A k \in WorkerLoops : \A d \in active'[k] : d \in Conns /\ loop'[d] = k
    <3>1. \A k \in WorkerLoops : active'[k] = active[k]
      BY <1>11, LoopFacts
    <3>2. ASSUME NEW k \in WorkerLoops, NEW d \in active[k]
          PROVE  d \in Conns /\ d # c /\ loop[d] = k
      BY <1>1, <1>2 DEF TypeLoops
    <3> QED BY <1>10, <3>1, <3>2
  <2>5. TypeLoops'
    BY <1>1, <1>6, <1>7, <1>11, <2>3, <2>4 DEF TypeLoops
  <2> QED BY <2>1, <2>2, <2>5, TypePartsNext
<1>16. Lifetime'
  <2>1. ToldIsState' /\ Held'
    BY <1>1, <1>2, <1>3, <1>6, <1>8, <1>9, <1>10
       DEF Lifetime, ToldIsState, Held, Young, Up
  <2>2. Unborn'
    <3> SUFFICES ASSUME NEW d \in Conns, d # c, state[d] = "none"
                 PROVE  /\ d \notin connections' /\ NotQueued(d)'
                        /\ \A k \in Loops : d \notin kept[k] /\ sender[k] # d
      BY <1>6, <1>8 DEF Unborn
    <3>1. /\ d \notin connections /\ NotQueued(d)
          /\ \A k \in Loops : d \notin kept[k] /\ sender[k] # d
      BY <1>1 DEF Lifetime, Unborn
    <3>2. NotQueued(d)'
      BY <1>5, <1>12, <3>1 DEF NotQueued
    <3> QED BY <1>6, <3>1, <3>2
  <2>3. QueuesKnow'
    <3> SUFFICES ASSUME NEW k \in Loops, NEW g \in Waiting(k)' \cup Batch(k)'
                 PROVE  /\ g.fn \in {"removed", "destroyed"} => state'[g.conn] = "disconnected"
                        /\ g.fn \in {"send", "forceClose"} => state'[g.conn] \notin Young
      BY DEF QueuesKnow
    <3>1. CASE g = f
      BY <1>5, <3>1
    <3>2. CASE g \in Waiting(k) \cup Batch(k)
      <4>1. g.conn \in Conns /\ g.conn # c
        BY <1>1, <1>2, <3>2, QueueType, FunctorType
      <4> QED BY <1>1, <1>8, <3>2, <4>1 DEF Lifetime, QueuesKnow
    <3> QED BY <1>12, <3>1, <3>2
  <2>4. Rounds'
    <3>1. \A k \in Loops : sender[k] # Nobody => state'[sender[k]] = state[sender[k]]
      BY <1>1, <1>2, <1>8 DEF ServerTypeOK
    <3> QED BY <1>1, <1>6, <1>11, <3>1 DEF Lifetime, Rounds
  <2>5. ActiveHeld'
    <3>1. \A k \in WorkerLoops : active'[k] = active[k] /\ Waiting(k) \subseteq Waiting(k)'
      BY <1>7, <1>11, LoopFacts
    <3>2. \A k \in WorkerLoops : \A d \in active[k] : d \in Conns /\ d # c
      BY <1>1, <1>2 DEF ServerTypeOK
    <3> QED BY <1>1, <1>6, <1>8, <3>1, <3>2 DEF Lifetime, ActiveHeld
  <2>6. SendsFirst'
    <3> SUFFICES ASSUME NEW k \in WorkerLoops, NEW d \in Conns, d \notin connections, d # c,
                        d \notin late
                 PROVE  /\ Followed(pending'[k], d)
                        /\ Gone(d) \in Waiting(k)' \/ Followed(running[k], d)
      BY <1>6 DEF SendsFirst, Waiting
    <3>1. /\ Followed(pending[k], d) /\ k \in Loops /\ pending[k] \in Seq(Functors)
          /\ Gone(d) \in Waiting(k) \/ Followed(running[k], d)
      BY <1>1, LoopFacts, QueueType DEF Lifetime, SendsFirst
    <3>2. f # Send(d)
      BY <1>5, FunctorParts DEF Send
    <3>3. Followed(Append(pending[k], f), d)
      BY <3>1, <3>2, FollowedAppend
    <3>4. Followed(pending'[k], d) /\ Waiting(k) \subseteq Waiting(k)'
      BY <1>7, <3>1, <3>3
    <3> QED BY <3>1, <3>4
  <2> QED BY <2>1, <2>2, <2>3, <2>4, <2>5, <2>6 DEF Lifetime
<1>17. \A l \in Loops : \A y \in DOMAIN channels[l] :
         LET d == channels[l][y] IN d \in Conns /\ d # c
  <2>1. \A l \in Loops : \A y \in DOMAIN channels[l] : channels[l][y] \in Conns
    BY <1>1, TableFacts DEF ServerTypeOK
  <2> QED BY <1>1, <1>2, <2>1 DEF ChannelInv, Entries, Young
<1>18. ChannelInv'
  <2>1. \A d \in Conns : Follows(d)'
    BY <1>1, <1>2, <1>6, <1>8 DEF ChannelInv, Follows, isWriting, Young, Up
  <2>2. \A d \in Conns : index[d] # "new" => d # c
    BY <1>1, <1>2 DEF ChannelInv, Follows, Young
  <2>3. Entries'
    BY <1>1, <1>6, <1>8, <1>9, <1>10, <1>17, <2>2 DEF ChannelInv, Entries, Mine, Known
  <2> QED BY <2>1, <2>3 DEF ChannelInv
<1>19. FdInv'
  <2>1. FdsDiffer'
    BY <1>1, <1>3, <1>9, <1>13 DEF FdInv, FdsDiffer
  <2>2. Unwatched'
    <3> SUFFICES ASSUME NEW d \in Conns, state'[d] \in Up, index[d] = "new"
                 PROVE  /\ fd'[d] \in DOMAIN channels[loop'[d]]
                        /\ \A e \in Conns : channels[loop'[d]][fd'[d]] = e => ~Alive(e)'
      BY <1>6 DEF Unwatched, Known
    <3>1. d # c /\ state[d] \in Up /\ fd'[d] = fd[d] /\ loop'[d] = loop[d] /\ loop[d] \in Loops
      BY <1>1, <1>8, <1>9, <1>10 DEF Up, ServerTypeOK
    <3>2. /\ fd[d] \in DOMAIN channels[loop[d]]
          /\ \A e \in Conns : channels[loop[d]][fd[d]] = e => ~Alive(e)
      BY <1>1, <3>1 DEF FdInv, Unwatched, Known
    <3> QED BY <1>13, <1>17, <3>1, <3>2
  <2> QED BY <2>1, <2>2 DEF FdInv
<1>20. ResetInv'
  <2>1. \A l \in WorkerLoops : active'[l] = active[l] /\ \A d \in active[l] : d \in Conns
    BY <1>1, <1>11, LoopFacts DEF ServerTypeOK
  <2> QED BY <1>1, <1>6, <1>8, <2>1, ResetKept DEF ServerTypeOK
<1>21. Lives
  BY <1>2, <1>6, <1>13, <1>14 DEF Lives, Creates
<1> QED BY <1>15, <1>16, <1>18, <1>19, <1>20, <1>21 DEF IInv

------------------------------------------------------------------------------
(* The invariant.                                                          *)

LEMMA InitInv == Init => IInv
<1> SUFFICES ASSUME Init PROVE IInv
  OBVIOUS
<1>1. \A l \in Loops : Waiting(l) = {} /\ Batch(l) = {}
  BY NoFunctors DEF Init, Waiting, Batch
<1>2. \A c \in Conns : ~Alive(c)
  <2>1. \A l \in Loops, c \in Conns : ~Holds(l, c)
    BY <1>1, Names DEF Init, Holds
  <2> QED BY <2>1, AliveIs DEF Init
<1>3. <<>> \in Tables
  <2>1. <<>> \in [{} -> Conns]
    OBVIOUS
  <2> QED BY <2>1 DEF Tables
<1>4. ServerTypeOK
  <2>1. TypeBody /\ TypePeers
    BY <1>3, ServerAssumption DEF Init, TypeBody, TypePeers, ServerAssumption
  <2>2. TypeConns
    BY LoopFacts DEF Init, TypeConns
  <2>3. /\ pending \in [Loops -> Seq(Functors)] /\ running \in [Loops -> Seq(Functors)]
    BY NoFunctors DEF Init
  <2>4. TypeLoops
    BY <1>1, <2>3, LoopFacts DEF Init, TypeLoops
  <2> QED BY <2>1, <2>2, <2>4, TypeParts
<1>5. Lifetime
  <2>1. ToldIsState /\ Held /\ Rounds /\ ActiveHeld
    BY LoopFacts DEF Init, ToldIsState, Held, Rounds, ActiveHeld, Young, Up
  <2>2. Unborn /\ QueuesKnow
    BY <1>1, Names DEF Init, Unborn, NotQueued, QueuesKnow
  <2>3. SendsFirst
    <3>1. \A c \in Conns : Followed(<<>>, c)
      BY NoFunctors, FollowedNothing
    <3> QED BY <3>1, LoopFacts DEF Init, SendsFirst
  <2> QED BY <2>1, <2>2, <2>3 DEF Lifetime
<1>6. ChannelInv
  BY DEF Init, ChannelInv, Follows, Entries, isWriting, Young, Up
<1>7. FdInv
  BY <1>2 DEF Init, FdInv, FdsDiffer, Unwatched, Up
<1>8. ResetInv
  BY LoopFacts DEF Init, ResetInv, ReadsOfReset, OrphansOnlyByReset
<1> QED BY <1>4, <1>5, <1>6, <1>7, <1>8 DEF IInv

LEMMA NextStep == IInv /\ Next => IInv' /\ Lives
<1> SUFFICES ASSUME IInv, Next PROVE IInv' /\ Lives
  OBVIOUS
<1>1. ASSUME NEW c \in Conns, Client(c) PROVE IInv' /\ Lives
  BY <1>1, ClientStep
<1>2. ASSUME NEW l \in Loops, Loop(l) PROVE IInv' /\ Lives
  <2>1. CASE Poll(l)
    BY <2>1, PollStep
  <2>2. CASE TakeFunctors(l)
    BY <2>2, TakeFunctorsStep
  <2>3. CASE EndBatch(l)
    BY <2>3, EndBatchStep
  <2>4. CASE PushSend(l)
    BY <2>4, PushSendStep
  <2>5. ASSUME NEW c \in Conns, Accept(c) \/ AcceptFails(c) \/ removeConnectionInLoop(c)
        PROVE  IInv' /\ Lives
    BY <2>5, AcceptStep, AcceptFailsStep, removeConnectionInLoopStep
  <2>6. ASSUME NEW c \in Conns,
               ReadData(l, c) \/ ReadEnd(l, c) \/ handleError(l, c) \/ handleWrite(l, c)
        PROVE  IInv' /\ Lives
    BY <2>6, ReadDataStep, ReadEndStep, handleErrorStep, handleWriteStep
  <2>7. ASSUME NEW c \in Conns,
               \/ connectEstablished(l, c) \/ RunSend(l, c)
               \/ forceCloseInLoop(l, c) \/ connectDestroyed(l, c)
        PROVE  IInv' /\ Lives
    BY <2>7, connectEstablishedStep, RunSendStep, forceCloseInLoopStep, connectDestroyedStep
  <2> QED BY <1>2, <2>1, <2>2, <2>3, <2>4, <2>5, <2>6, <2>7 DEF Loop
<1> QED BY <1>1, <1>2 DEF Next

\* A step that changes nothing keeps the invariant, and no object comes or goes.
LEMMA StutterStep == IInv /\ UNCHANGED vars => IInv' /\ Lives
<1> SUFFICES ASSUME IInv, UNCHANGED vars PROVE IInv' /\ Lives
  OBVIOUS
<1>1. /\ UNCHANGED <<connVars, channelVars, out, loopVars, peerVars, history>>
  BY DEF vars
<1>2. ServerTypeOK /\ TypePeers /\ Body /\ Queues
  BY <1>1, TypeParts, NothingBody, NothingQueued DEF IInv, connVars, loopVars, history
<1>3. Serves
  BY <1>1, <1>2 DEF Serves, ServerTypeOK, connVars, loopVars, history
<1>4. Reads
  BY <1>1, <1>2 DEF Reads, TypePeers, connVars, loopVars, peerVars, history
<1> QED BY <1>1, <1>2, <1>3, <1>4, ServesLives DEF history

\* The inductive invariant: types, the life of objects, the channels, the
\* descriptors and what a reset does, for any numbers of connections and loops.
THEOREM TcpInvariance == Spec => []IInv
<1>1. Init => IInv
  BY InitInv
<1>2. IInv /\ [Next]_vars => IInv'
  BY NextStep, StutterStep
<1> QED BY <1>1, <1>2, PTL DEF Spec

------------------------------------------------------------------------------
(* What a closed writing side refuses.                                     *)

Closing == {"disconnecting", "disconnected"}

\* A send on its way to a closed writing side was on its way when it was closed.
CutInv ==
  /\ \A c \in Conns : halfClosed[c] => state[c] \in Closing
  /\ \A c \in Conns : halfClosed[c] /\ OnItsWay(c) => c \in overtaken
  /\ cut \subseteq overtaken /\ overtaken \subseteq Conns

\* What a step that closes no writing side must not do.
StaysClosing == \A c \in Conns : state[c] \in Closing => state'[c] \in Closing
NoSendToClosing == \A c \in Conns : OnItsWay(c)' => OnItsWay(c) \/ state[c] = "connected"
NoNewSends ==
  /\ sender' = sender
  /\ \A l \in Loops, c \in Conns :
       Send(c) \in Waiting(l)' \cup Batch(l)' => Send(c) \in Waiting(l) \cup Batch(l)

LEMMA OnItsWayIs ==
  \A c : OnItsWay(c) <=> \E l \in Loops : sender[l] = c \/ Send(c) \in Waiting(l) \cup Batch(l)
BY DEF OnItsWay, Queued, Waiting, Batch, Send

LEMMA OnItsWayIsNext ==
  \A c : OnItsWay(c)' <=> \E l \in Loops : sender'[l] = c \/ Send(c) \in Waiting(l)' \cup Batch(l)'
BY DEF OnItsWay, Queued, Waiting, Batch, Send

LEMMA NoNewSendsFacts == NoNewSends => NoSendToClosing
BY OnItsWayIs, OnItsWayIsNext DEF NoNewSends, NoSendToClosing

LEMMA CutKept ==
  ASSUME CutInv, StaysClosing, NoSendToClosing, halfClosed' = halfClosed, overtaken' = overtaken,
         cut' \subseteq overtaken
  PROVE  CutInv'
<1>1. \A c \in Conns : halfClosed'[c] => state'[c] \in Closing
  BY DEF CutInv, StaysClosing
<1>2. ASSUME NEW c \in Conns, halfClosed'[c], OnItsWay(c)' PROVE c \in overtaken'
  <2>1. state[c] # "connected"
    BY <1>2 DEF CutInv, Closing
  <2> QED BY <1>2, <2>1 DEF CutInv, NoSendToClosing
<1>3. cut' \subseteq overtaken' /\ overtaken' \subseteq Conns
  BY DEF CutInv
<1> QED BY <1>1, <1>2, <1>3 DEF CutInv

\* The queues of all loops as they were.
LEMMA SameSends == UNCHANGED <<pending, running, sender>> => NoNewSends
BY DEF NoNewSends, Waiting, Batch

LEMMA PushedSends ==
  ASSUME ServerTypeOK, NEW l \in Loops, NEW fn \in Fns, fn # "send", NEW c \in Conns,
         queueInLoop(l, Functor(fn, c)), UNCHANGED <<running, sender>>
  PROVE  NoNewSends
<1>1. Functor(fn, c) \in Functors /\ \A d : Functor(fn, c) # Send(d)
  BY FunctorType DEF Send, Functor
<1>2. \A k \in Loops : Waiting(k)' \subseteq Waiting(k) \cup {Functor(fn, c)}
  BY <1>1, PushFacts
<1>3. \A k \in Loops : Batch(k)' = Batch(k)
  BY DEF Batch
<1> QED BY <1>1, <1>2, <1>3 DEF NoNewSends

\* A functor that is called leaves its batch, and may have another one queued.
LEMMA RanSends ==
  ASSUME ServerTypeOK, NEW l \in Loops, NEW fn, NEW c \in Conns, Runs(l, fn, c),
         \/ pending' = pending
         \/ \E k \in Loops, gn \in Fns \ {"send"} : queueInLoop(k, Functor(gn, c))
  PROVE  NoNewSends
<1>1. sender' = sender /\ \A k \in Loops : Batch(k)' \subseteq Batch(k)
  BY RunFacts
<1>2. \A k \in Loops, d \in Conns : Send(d) \in Waiting(k)' => Send(d) \in Waiting(k)
  <2>1. CASE pending' = pending
    BY <2>1 DEF Waiting
  <2>2. ASSUME NEW k \in Loops, NEW gn \in Fns \ {"send"}, queueInLoop(k, Functor(gn, c))
        PROVE  \A m \in Loops, d \in Conns : Send(d) \in Waiting(m)' => Send(d) \in Waiting(m)
    <3>1. Functor(gn, c) \in Functors /\ \A d : Functor(gn, c) # Send(d)
      BY FunctorType DEF Send, Functor
    <3>2. \A m \in Loops : Waiting(m)' \subseteq Waiting(m) \cup {Functor(gn, c)}
      BY <2>2, <3>1, PushFacts
    <3> QED BY <3>1, <3>2
  <2> QED BY <2>1, <2>2
<1> QED BY <1>1, <1>2 DEF NoNewSends

LEMMA CloseCut ==
  ASSUME ServerTypeOK, NEW c \in Conns, NEW l, handleClose(c, l)
  PROVE  /\ StaysClosing
         /\ pending' = pending \/ queueInLoop(Base, Functor("removed", c))
BY DEF ServerTypeOK, handleClose, StaysClosing, Closing

\* Nothing is refused by a connection that is up.
LEMMA SendCut ==
  ASSUME CutInv, NEW c \in Conns, sendInLoop(c)
  PROVE  /\ cut' \subseteq cut \cup {c}
         /\ ~halfClosed[c] => cut' = cut
BY DEF sendInLoop

LEMMA MessageCut ==
  ASSUME ServerTypeOK, CutInv, NEW l \in Loops, NEW c \in Conns, MessageCallback(c, l),
         running' = running
  PROVE  CutInv'
<1>1. cut \subseteq overtaken /\ \A d \in Conns : state[d] = "connected" => ~halfClosed[d]
  BY DEF CutInv, Closing
<1>2. CASE Reply(c) \/ ForwardHere(c, l)
  <2>1. UNCHANGED <<state, halfClosed, pending, sender, overtaken>>
    BY <1>2 DEF Reply, ForwardHere, connVars
  <2>2. cut' = cut
    BY <1>1, <1>2, SendCut DEF Reply, ForwardHere
  <2>3. StaysClosing /\ NoSendToClosing
    BY <2>1, SameSends, NoNewSendsFacts DEF StaysClosing
  <2> QED BY <1>1, <2>1, <2>2, <2>3, CutKept
<1>3. CASE ForwardAway(c, l)
  <2>1. PICK d \in Conns : state[d] = "connected" /\ sender' = [sender EXCEPT ![l] = d]
    BY <1>3 DEF ForwardAway
  <2>2. UNCHANGED <<state, halfClosed, pending, cut, overtaken>>
    BY <1>3 DEF ForwardAway, connVars, lost
  <2>3. \A k \in Loops : Waiting(k)' = Waiting(k) /\ Batch(k)' = Batch(k)
    BY <2>2 DEF Waiting, Batch
  <2>4. \A k \in Loops : sender'[k] = sender[k] \/ sender'[k] = d
    BY <2>1 DEF ServerTypeOK
  <2>5. NoSendToClosing
    BY <2>1, <2>3, <2>4, OnItsWayIs, OnItsWayIsNext DEF NoSendToClosing
  <2>6. StaysClosing
    BY <2>2 DEF StaysClosing
  <2> QED BY <1>1, <2>2, <2>5, <2>6, CutKept
<1>4. CASE Refuse(c)
  <2>1. forceClose(c) /\ UNCHANGED <<halfClosed, sender, cut, overtaken>>
    BY <1>4 DEF Refuse, lost
  <2>2. StaysClosing
    BY <2>1 DEF forceClose, StaysClosing, Closing, ServerTypeOK
  <2>3. NoNewSends
    <3>1. loop[c] \in Loops /\ "forceClose" \in Fns /\ "forceClose" # "send"
      BY DEF ServerTypeOK, Fns
    <3> QED BY <2>1, <3>1, SameSends, PushedSends DEF forceClose
  <2> QED BY <1>1, <2>1, <2>2, <2>3, NoNewSendsFacts, CutKept
<1>5. CASE HalfClose(c)
  <2>1. shutdown(c) /\ UNCHANGED <<pending, sender, cut, events>>
    BY <1>5 DEF HalfClose, channelVars
  <2>2. StaysClosing /\ NoSendToClosing
    <3>1. StaysClosing
      BY <2>1 DEF shutdown, StaysClosing, Closing, ServerTypeOK
    <3> QED BY <2>1, <3>1, SameSends, NoNewSendsFacts
  <2>3. CASE state[c] # "connected"
    BY <1>1, <2>1, <2>2, <2>3, CutKept DEF shutdown
  <2>4. CASE state[c] = "connected"
    <3>1. /\ state' = [state EXCEPT ![c] = "disconnecting"]
          /\ halfClosed' = [halfClosed EXCEPT ![c] = halfClosed[c] \/ ~isWriting(c)]
          /\ overtaken' = IF ~isWriting(c) /\ OnItsWay(c) THEN overtaken \cup {c} ELSE overtaken
      BY <2>1, <2>4 DEF shutdown
    <3>2. ~halfClosed[c] /\ state'[c] \in Closing /\ halfClosed'[c] = ~isWriting(c)
      BY <1>1, <2>4, <3>1 DEF ServerTypeOK, Closing
    <3>3. \A d \in Conns : d # c => halfClosed'[d] = halfClosed[d]
      BY <3>1 DEF ServerTypeOK
    <3>4. overtaken \subseteq overtaken' /\ overtaken' \subseteq Conns /\ cut' \subseteq overtaken'
      BY <1>1, <2>1, <3>1 DEF CutInv
    <3>5. \A d \in Conns : halfClosed'[d] => state'[d] \in Closing
      BY <2>2, <3>2, <3>3 DEF CutInv, StaysClosing
    <3>6. ASSUME NEW d \in Conns, halfClosed'[d], OnItsWay(d)' PROVE d \in overtaken'
      <4>1. OnItsWay(d)
        BY <2>1, <3>6, SameSends, OnItsWayIs, OnItsWayIsNext DEF NoNewSends
      <4>2. CASE d = c
        BY <3>1, <3>2, <3>6, <4>1, <4>2
      <4>3. CASE d # c
        BY <3>3, <3>4, <3>6, <4>1, <4>3 DEF CutInv
      <4> QED BY <4>2, <4>3
    <3> QED BY <3>4, <3>5, <3>6 DEF CutInv
  <2> QED BY <2>3, <2>4
<1> QED BY <1>2, <1>3, <1>4, <1>5 DEF MessageCallback

\* The callbacks of a channel.
LEMMA CallCut ==
  ASSUME ServerTypeOK, CutInv, NEW l \in Loops, NEW c \in Conns,
         ReadData(l, c) \/ ReadEnd(l, c) \/ handleError(l, c) \/ handleWrite(l, c)
  PROVE  CutInv'
<1>1. running' = running /\ cut \subseteq overtaken
  BY DEF ReadData, ReadEnd, handleError, handleWrite, Calls, CutInv
<1>2. CASE ReadData(l, c)
  <2>1. CASE MessageCallback(c, l)
    BY <1>1, <2>1, MessageCut
  <2>2. CASE UNCHANGED <<connVars, channelVars, out, pending, sender, lost>>
    <3>1. UNCHANGED <<state, halfClosed, cut, overtaken>>
      BY <2>2 DEF connVars, lost
    <3>2. StaysClosing /\ NoSendToClosing
      BY <1>1, <2>2, <3>1, SameSends, NoNewSendsFacts DEF StaysClosing
    <3> QED BY <1>1, <3>1, <3>2, CutKept
  <2> QED BY <1>2, <2>1, <2>2 DEF ReadData
<1>3. CASE ReadEnd(l, c) \/ handleError(l, c)
  <2>1. handleClose(c, l) /\ UNCHANGED <<halfClosed, sender, cut, overtaken>>
    BY <1>3 DEF ReadEnd, handleError, lost
  <2>2. NoNewSends
    <3>1. Base \in Loops /\ "removed" \in Fns /\ "removed" # "send"
      BY LoopFacts DEF Fns
    <3> QED BY <1>1, <2>1, <3>1, CloseCut, SameSends, PushedSends
  <2> QED BY <1>1, <2>1, <2>2, CloseCut, NoNewSendsFacts, CutKept
<1>4. CASE handleWrite(l, c)
  <2>1. UNCHANGED <<state, halfClosed, pending, sender, cut, overtaken>>
    BY <1>4 DEF handleWrite, shutdown
  <2>2. StaysClosing /\ NoSendToClosing
    BY <1>1, <2>1, SameSends, NoNewSendsFacts DEF StaysClosing
  <2> QED BY <1>1, <2>1, <2>2, CutKept
<1> QED BY <1>2, <1>3, <1>4

\* The functors: one that sends was on its way.
LEMMA RunCut ==
  ASSUME ServerTypeOK, CutInv, NEW l \in Loops, NEW c \in Conns,
         \/ connectEstablished(l, c) \/ RunSend(l, c)
         \/ forceCloseInLoop(l, c) \/ connectDestroyed(l, c)
         \/ l = Base /\ removeConnectionInLoop(c)
  PROVE  CutInv'
<1>1. cut \subseteq overtaken
  BY DEF CutInv
<1>2. CASE connectEstablished(l, c)
  <2>1. Runs(l, "established", c) /\ UNCHANGED <<pending, halfClosed, cut, overtaken>>
    BY <1>2 DEF connectEstablished, lost
  <2>2. StaysClosing
    BY <1>2 DEF connectEstablished, StaysClosing, Closing, ServerTypeOK
  <2> QED BY <1>1, <2>1, <2>2, RanSends, NoNewSendsFacts, CutKept
<1>3. CASE RunSend(l, c)
  <2>1. Runs(l, "send", c) /\ UNCHANGED <<pending, state, halfClosed, overtaken>>
    BY <1>3 DEF RunSend, connVars
  <2>2. OnItsWay(c)
    BY <2>1, RunFacts, OnItsWayIs DEF Send
  <2>3. cut' \subseteq overtaken
    <3>1. CASE sendInLoop(c)
      BY <1>1, <2>2, <3>1, SendCut DEF CutInv
    <3> QED BY <1>1, <1>3, <3>1 DEF RunSend
  <2>4. StaysClosing /\ NoSendToClosing
    BY <2>1, RanSends, NoNewSendsFacts DEF StaysClosing
  <2> QED BY <2>1, <2>3, <2>4, CutKept
<1>4. CASE forceCloseInLoop(l, c)
  <2>1. Runs(l, "forceClose", c) /\ handleClose(c, l) /\ UNCHANGED <<halfClosed, cut, overtaken>>
    BY <1>4 DEF forceCloseInLoop, lost
  <2>2. Base \in Loops /\ "removed" \in Fns \ {"send"}
    BY LoopFacts DEF Fns
  <2>3. NoNewSends
    BY <2>1, <2>2, CloseCut, RanSends
  <2> QED BY <1>1, <2>1, <2>3, CloseCut, NoNewSendsFacts, CutKept
<1>5. CASE connectDestroyed(l, c)
  <2>1. Runs(l, "destroyed", c) /\ UNCHANGED <<pending, state, halfClosed, cut, overtaken>>
    BY <1>5 DEF connectDestroyed, connVars, history, lost
  <2>2. StaysClosing
    BY <2>1 DEF StaysClosing
  <2> QED BY <1>1, <2>1, <2>2, RanSends, NoNewSendsFacts, CutKept
<1>6. CASE l = Base /\ removeConnectionInLoop(c)
  <2>1. /\ Runs(l, "removed", c) /\ UNCHANGED <<state, halfClosed, cut, overtaken>>
        /\ pending' = pending \/ queueInLoop(loop[c], Functor("destroyed", c))
    BY <1>6 DEF removeConnectionInLoop, history, lost
  <2>2. loop[c] \in Loops /\ "destroyed" \in Fns \ {"send"}
    BY DEF ServerTypeOK, Fns
  <2>3. NoNewSends
    BY <2>1, <2>2, RanSends
  <2>4. StaysClosing
    BY <2>1 DEF StaysClosing
  <2> QED BY <1>1, <2>1, <2>3, <2>4, NoNewSendsFacts, CutKept
<1> QED BY <1>2, <1>3, <1>4, <1>5, <1>6

\* The round of a loop, the acceptor, the clients.
LEMMA RoundCut ==
  ASSUME ServerTypeOK, CutInv, NEW l \in Loops,
         \/ Poll(l) \/ TakeFunctors(l) \/ EndBatch(l) \/ PushSend(l)
         \/ \E c \in Conns : Accept(c) \/ AcceptFails(c) \/ Client(c)
  PROVE  CutInv'
<1>1. cut \subseteq overtaken
  BY DEF CutInv
<1>2. UNCHANGED <<halfClosed, cut, overtaken>>
  BY DEF Poll, TakeFunctors, EndBatch, PushSend, Accept, AcceptFails, Client, Dial, Request, Leave, Reset,
         connVars, history, lost
<1>3. StaysClosing
  <2>1. ASSUME NEW c \in Conns, Accept(c) PROVE StaysClosing
    BY <2>1 DEF Accept, Backlog, StaysClosing, Closing, ServerTypeOK
  <2>2. CASE state' = state
    BY <2>2 DEF StaysClosing
  <2> QED BY <2>1, <2>2
    DEF Poll, TakeFunctors, EndBatch, PushSend, AcceptFails, Client, Dial, Request, Leave, Reset, connVars
<1>4. NoSendToClosing
  <2>1. CASE UNCHANGED <<pending, running, sender>>
    BY <2>1, SameSends, NoNewSendsFacts
  <2>2. CASE TakeFunctors(l)
    <3>1. /\ sender' = sender /\ running' = [running EXCEPT ![l] = pending[l]]
          /\ pending' = [pending EXCEPT ![l] = <<>>]
      BY <2>2 DEF TakeFunctors
    <3>2. /\ Waiting(l)' = {} /\ Batch(l)' = Waiting(l)
          /\ \A k \in Loops : k # l => Waiting(k)' = Waiting(k) /\ Batch(k)' = Batch(k)
      <4>1. /\ pending'[l] = <<>> /\ running'[l] = pending[l]
            /\ \A k \in Loops : k # l => pending'[k] = pending[k] /\ running'[k] = running[k]
        BY <3>1 DEF ServerTypeOK
      <4> QED BY <4>1, NoFunctors DEF Waiting, Batch
    <3>3. NoNewSends
      BY <3>1, <3>2 DEF NoNewSends
    <3> QED BY <3>3, NoNewSendsFacts
  <2>3. CASE PushSend(l)
    <3>1. PICK d : /\ d = sender[l] /\ d # Nobody /\ queueInLoop(loop[d], Functor("send", d))
                   /\ sender' = [sender EXCEPT ![l] = Nobody] /\ running' = running
      BY <2>3 DEF PushSend
    <3>2. d \in Conns /\ OnItsWay(d)
      BY <3>1 DEF ServerTypeOK, OnItsWay
    <3>3. Functor("send", d) \in Functors /\ loop[d] \in Loops
      BY <3>2, FunctorType DEF ServerTypeOK, Fns
    <3>4. \A k \in Loops : Waiting(k)' \subseteq Waiting(k) \cup {Send(d)} /\ Batch(k)' = Batch(k)
      BY <3>1, <3>3, PushFacts DEF Send, Batch
    <3>5. \A k \in Loops : sender'[k] = sender[k] \/ sender'[k] = Nobody
      BY <3>1 DEF ServerTypeOK
    <3>6. \A c : Send(c) = Send(d) => c = d
      BY DEF Send, Functor
    <3> QED BY <3>2, <3>4, <3>5, <3>6, Names, OnItsWayIs, OnItsWayIsNext DEF NoSendToClosing
  <2>4. ASSUME NEW c \in Conns, Accept(c) PROVE NoSendToClosing
    <3>1. /\ running' = running /\ sender' = sender
          /\ queueInLoop(Workers[next], Functor("established", c))
      BY <2>4 DEF Accept, AcceptorReads
    <3>2. Workers[next] \in Loops /\ "established" \in Fns /\ "established" # "send"
      BY LoopFacts DEF ServerTypeOK, Fns
    <3> QED BY <3>1, <3>2, PushedSends, NoNewSendsFacts
  <2> QED BY <2>1, <2>2, <2>3, <2>4
    DEF Poll, EndBatch, AcceptFails, AcceptorReads, Client, Dial, Request, Leave, Reset, loopVars
<1> QED BY <1>1, <1>2, <1>3, <1>4, CutKept

LEMMA NextCut == ServerTypeOK /\ CutInv /\ [Next]_vars => CutInv'
<1> SUFFICES ASSUME ServerTypeOK, CutInv, [Next]_vars PROVE CutInv'
  OBVIOUS
<1>1. ASSUME NEW c \in Conns, Client(c) PROVE CutInv'
  BY <1>1, LoopFacts, RoundCut
<1>2. ASSUME NEW l \in Loops, Loop(l) PROVE CutInv'
  BY <1>2, RoundCut, CallCut, RunCut DEF Loop
<1>3. CASE UNCHANGED vars
  <2>1. UNCHANGED <<state, halfClosed, pending, running, sender, cut, overtaken>>
    BY <1>3 DEF vars, connVars, loopVars, history, lost
  <2>2. StaysClosing /\ NoSendToClosing
    BY <2>1, SameSends, NoNewSendsFacts DEF StaysClosing
  <2> QED BY <2>1, <2>2, CutKept DEF CutInv
<1> QED BY <1>1, <1>2, <1>3 DEF Next

LEMMA Cuts == Spec => []CutInv
<1>1. Init => CutInv
  BY DEF Init, CutInv
<1>2. IInv => ServerTypeOK
  BY DEF IInv
<1> QED BY <1>1, <1>2, NextCut, TcpInvariance, PTL DEF Spec

------------------------------------------------------------------------------
\* Functors and callbacks wait on the loop of their connection only, and a connection
\* is told UP once, then DOWN once.
THEOREM TcpTypeOK == Spec => []TypeOK
<1>1. IInv /\ CutInv => TypeOK
  BY DEF IInv, CutInv, TypeOK
<1> QED BY <1>1, TcpInvariance, Cuts, PTL

\* shutdown closes the writing side only over output that was written, and what is
\* refused after that is a send it overtook between two loops.
THEOREM TcpCutOnlyIfOvertaken == Spec => []CutOnlyIfOvertaken
<1>1. IInv /\ CutInv => CutOnlyIfOvertaken
  BY DEF IInv, ChannelInv, Follows, CutInv, CutOnlyIfOvertaken
<1> QED BY <1>1, TcpInvariance, Cuts, PTL

LEMMA AliveTargets == IInv => TargetsAlive
<1> SUFFICES ASSUME IInv, NEW l \in Loops
             PROVE  /\ l # Base => \A c \in active[l] : Alive(c)
                    /\ \A f \in Queued(l) : Alive(f.conn) \/ f.conn \in late
  BY DEF TargetsAlive
<1>1. ServerTypeOK /\ ActiveHeld /\ SendsFirst
  BY DEF IInv, Lifetime
<1>2. \A c \in Conns : Gone(c) \in Waiting(l) \cup Batch(l) => Alive(c)
  <2>1. \A c \in Conns : Gone(c).fn # "send" /\ Gone(c).conn = c
    BY FunctorParts DEF Gone
  <2>2. \A c \in Conns : Gone(c) \in Waiting(l) \cup Batch(l) => Holds(l, c)
    BY <2>1 DEF Holds
  <2> QED BY <2>2, AliveIs
<1>3. ASSUME l # Base, NEW c \in active[l] PROVE Alive(c)
  <2>1. l \in WorkerLoops /\ c \in Conns
    BY <1>1, <1>3, LoopFacts DEF ServerTypeOK
  <2>2. c \in connections \/ Gone(c) \in Waiting(l)
    BY <1>1, <1>3, <2>1 DEF ActiveHeld
  <2> QED BY <1>2, <2>1, <2>2, AliveIs
<1>4. ASSUME NEW f \in Queued(l) PROVE Alive(f.conn) \/ f.conn \in late
  <2>1. f \in Waiting(l) \cup Batch(l) /\ f \in Functors /\ f.conn \in Conns
    BY <1>1, <1>4, QueueType, FunctorType DEF Queued, Waiting, Batch
  <2>2. CASE f.fn # "send"
    <3>1. Holds(l, f.conn)
      BY <2>1, <2>2 DEF Holds
    <3> QED BY <3>1, AliveIs
  <2>3. CASE f.fn = "send" /\ f.conn \notin connections /\ f.conn \notin late
    <3>1. PICK c \in Conns : c = f.conn
      BY <2>1
    <3>2. f = Send(c) /\ l \in WorkerLoops
      BY <1>1, <2>1, <2>3, <3>1, QueueType, FunctorType, LoopFacts DEF Send
    <3>3. /\ Followed(pending[l], c)
          /\ Gone(c) \in Waiting(l) \/ Followed(running[l], c)
      BY <1>1, <2>3, <3>1, <3>2 DEF SendsFirst
    <3>4. Gone(c) \in Waiting(l) \cup Batch(l)
      BY <1>1, <2>1, <3>2, <3>3, QueueType, FollowedSend DEF Waiting, Batch
    <3> QED BY <1>2, <3>1, <3>4
  <2> QED BY <2>1, <2>2, <2>3, AliveIs
<1> QED BY <1>3, <1>4

\* No callback and no functor is called on an object that is gone, but for a send
\* whose test of the state was overtaken by the close.
THEOREM TcpTargetsAlive == Spec => []TargetsAlive
BY AliveTargets, TcpInvariance, PTL

\* Only a reset runs the message callback of a connection that was reported down.
THEOREM TcpOrphansOnlyByReset == Spec => []OrphansOnlyByReset
<1>1. IInv => OrphansOnlyByReset
  BY DEF IInv, ResetInv
<1> QED BY <1>1, TcpInvariance, PTL

\* A connection that is up is watched, unless a dead one of its loop left its
\* descriptor in the poller.
THEOREM TcpUnwatchedOnlyByReuse == Spec => []UnwatchedOnlyByReuse
<1>1. ASSUME IInv, NEW c \in Conns, state[c] \in Up, ~Registered(c)
      PROVE  Known(c) /\ ~Mine(c) /\ ~Alive(channels[loop[c]][fd[c]])
  <2>1. ServerTypeOK /\ Follows(c) /\ Unwatched /\ Entries
    BY <1>1 DEF IInv, ChannelInv, FdInv
  <2>2. index[c] = "new"
    BY <1>1, <2>1 DEF Follows, Registered, ServerTypeOK
  <2>3. Known(c) /\ \A d \in Conns : channels[loop[c]][fd[c]] = d => ~Alive(d)
    BY <1>1, <2>1, <2>2 DEF Unwatched
  <2>4. loop[c] \in Loops /\ fd[c] \in DOMAIN channels[loop[c]]
    BY <2>1, <2>3 DEF ServerTypeOK, Known
  <2>5. channels[loop[c]][fd[c]] \in Conns
    BY <2>1, <2>4, TableFacts DEF ServerTypeOK
  <2>6. ~Mine(c)
    BY <2>1, <2>2, <2>4 DEF Entries, Mine
  <2> QED BY <2>3, <2>5, <2>6
<1>2. IInv => UnwatchedOnlyByReuse
  BY <1>1 DEF UnwatchedOnlyByReuse, Up
<1> QED BY <1>2, TcpInvariance, PTL

------------------------------------------------------------------------------
(* The refinement.                                                         *)

LEMMA LivesIsLife == Lives => [Life!Next]_Life!vars
<1> DEFINE live == { c \in Conns : Alive(c) }
<1>1. live' = { c \in Conns : Alive(c)' }
  OBVIOUS
<1>2. ASSUME Releases PROVE [Life!Next]_Life!vars
  <2> DEFINE S == { c \in live : ~Alive(c)' }
  <2>1. S \in SUBSET live /\ live' = live \ S
    BY <1>1, <1>2 DEF Releases
  <2>2. \A c \in S : told[c] = <<"UP", "DOWN">>
    BY <1>2 DEF Releases
  <2>3. told' = told
    BY <1>2 DEF Releases
  <2>4. CASE S = {}
    BY <2>1, <2>3, <2>4 DEF Life!vars
  <2>5. CASE S # {}
    BY <2>1, <2>2, <2>3, <2>5 DEF Life!Next, Life!Release
  <2> QED BY <2>4, <2>5
<1>3. ASSUME Creates PROVE [Life!Next]_Life!vars
  <2>1. PICK c \in Conns : /\ ~Alive(c) /\ told[c] = <<>> /\ Alive(c)'
                           /\ \A d \in Conns : d # c => (Alive(d)' <=> Alive(d))
    BY <1>3 DEF Creates
  <2>2. live' = live \cup {c} /\ c \notin live /\ told' = told
    BY <1>1, <1>3, <2>1 DEF Creates
  <2> QED BY <2>1, <2>2 DEF Life!Next, Life!Create
<1>4. ASSUME SameObjects, NEW c \in Conns, Tells(c, <<>>, <<"UP">>) PROVE [Life!Next]_Life!vars
  <2>1. live' = live /\ c \in live
    BY <1>1, <1>4 DEF SameObjects, Tells
  <2> QED BY <1>4, <2>1 DEF Tells, Life!Next, Life!Up
<1>5. ASSUME SameObjects, NEW c \in Conns, Tells(c, <<"UP">>, <<"UP", "DOWN">>)
      PROVE  [Life!Next]_Life!vars
  <2>1. live' = live /\ c \in live
    BY <1>1, <1>5 DEF SameObjects, Tells
  <2> QED BY <1>5, <2>1 DEF Tells, Life!Next, Life!Down
<1> QED BY <1>2, <1>3, <1>4, <1>5 DEF Lives

LEMMA InitIsLife == Init => Life!Init
<1> SUFFICES ASSUME Init PROVE Life!Init
  OBVIOUS
<1>1. \A l \in Loops : Waiting(l) = {} /\ Batch(l) = {}
  BY NoFunctors DEF Init, Waiting, Batch
<1>2. \A l \in Loops, c \in Conns : ~Holds(l, c)
  BY <1>1, Names DEF Init, Holds
<1>3. { c \in Conns : Alive(c) } = {}
  BY <1>2, AliveIs DEF Init
<1> QED BY <1>3 DEF Init, Life!Init

\* TcpServer implements ConnLife: a connection is reported up once, then down once,
\* and its object is created before the first and released after the second.
THEOREM TcpImplementsLife == Spec => ImplementsLife
<1>1. IInv /\ [Next]_vars => [Life!Next]_Life!vars
  BY NextStep, StutterStep, LivesIsLife
<1> QED BY <1>1, InitIsLife, TcpInvariance, PTL DEF Spec, ImplementsLife, Life!Spec
================================================================================
