-------------------------- MODULE ChatService_proofs --------------------------
(***************************************************************************)
(* Theorems about ChatService, for any connections, event loops, users and *)
(* numbers of commands and logins.                                         *)
(*                                                                         *)
(* The properties are conjuncts of the inductive invariant IInv, or follow *)
(* from it.  Base (types, the list of sessions, the step each task is in)  *)
(* carries the facts about single steps: what a step does to the task of   *)
(* its loop, to the wire of a client and to the stores.  The invariants    *)
(* above it are proved from those facts, one after another.                *)
(***************************************************************************)
EXTENDS ChatService, FiniteSetTheorems, SequenceTheorems, WellFoundedInduction, TLAPS

------------------------------------------------------------------------------
(* Numbers, sequences and the first session of some. *)

\* Some numbers have a least one.
LEMMA LeastNatural ==
  ASSUME NEW T, T \subseteq Nat, T # {}
  PROVE  \E x \in T : \A y \in T : x <= y
<1>1. PICK R : R = {ss \in Nat \X Nat : ss[1] < ss[2]}
  OBVIOUS
<1>2. OpToRel(<, Nat) = R
  BY <1>1 DEF OpToRel
<1>3. IsWellFoundedOn(R, Nat)
  BY <1>2, NatLessThanWellFounded
<1>4. PICK x \in T : \A y \in T : ~ (<<y, x>> \in R)
  BY <1>3, WFMin
<1>5. ASSUME NEW y \in T PROVE x <= y
  <2>1. x \in Nat /\ y \in Nat
    OBVIOUS
  <2>2. <<y, x>> \in R <=> y < x
    BY <1>1, <2>1
  <2> QED BY <1>4, <2>1, <2>2
<1> QED BY <1>5

\* Of some sessions there is a first one.
LEMMA FirstIn ==
  ASSUME arrival \in [Conns -> Nat], NEW S \in SUBSET Conns, S # {}
  PROVE  First(S) \in S
<1> DEFINE T == {arrival[c] : c \in S}
<1>1. T \subseteq Nat /\ T # {}
  OBVIOUS
<1>2. PICK x \in T : \A y \in T : x <= y
  BY <1>1, LeastNatural
<1>3. \E c \in S : \A d \in S : arrival[c] <= arrival[d]
  BY <1>2
<1> QED BY <1>3 DEF First

\* What a sequence holds after one more element.
LEMMA AppendSet ==
  ASSUME NEW S, NEW s \in Seq(S), NEW e \in S
  PROVE  /\ Append(s, e) \in Seq(S)
         /\ ToSet(Append(s, e)) = ToSet(s) \cup {e}
<1>1. Append(s, e) \in Seq(S) /\ Len(Append(s, e)) = Len(s) + 1
  OBVIOUS
<1>2. /\ \A i \in 1..Len(s) : Append(s, e)[i] = s[i]
      /\ Append(s, e)[Len(s) + 1] = e
  OBVIOUS
<1>3. ToSet(Append(s, e)) \subseteq ToSet(s) \cup {e}
  BY <1>1, <1>2 DEF ToSet
<1>4. ToSet(s) \subseteq ToSet(Append(s, e))
  BY <1>1, <1>2 DEF ToSet
<1>5. e \in ToSet(Append(s, e))
  <2>1. Len(s) + 1 \in 1..Len(Append(s, e))
    BY <1>1
  <2> QED BY <1>2, <2>1 DEF ToSet
<1> QED BY <1>1, <1>3, <1>4, <1>5

\* What a concatenation holds.
LEMMA ConcatSet ==
  ASSUME NEW S, NEW s \in Seq(S), NEW t \in Seq(S)
  PROVE  /\ s \o t \in Seq(S) /\ Len(s \o t) = Len(s) + Len(t)
         /\ \A i \in 1..Len(s) : (s \o t)[i] = s[i]
         /\ \A i \in 1..Len(t) : (s \o t)[Len(s) + i] = t[i]
         /\ \A i \in 1..Len(s \o t) : i \notin 1..Len(s) => i - Len(s) \in 1..Len(t)
                                                          /\ (s \o t)[i] = t[i - Len(s)]
         /\ ToSet(s \o t) = ToSet(s) \cup ToSet(t)
<1>1. /\ s \o t \in Seq(S) /\ Len(s \o t) = Len(s) + Len(t)
      /\ \A i \in 1..Len(s) : (s \o t)[i] = s[i]
      /\ \A i \in 1..Len(t) : (s \o t)[Len(s) + i] = t[i]
  OBVIOUS
<1>2. \A i \in 1..Len(s \o t) : i \notin 1..Len(s) => i - Len(s) \in 1..Len(t)
                                                   /\ (s \o t)[i] = t[i - Len(s)]
  OBVIOUS
<1>3. ToSet(s \o t) \subseteq ToSet(s) \cup ToSet(t)
  BY <1>1, <1>2 DEF ToSet
<1>4. ToSet(s) \subseteq ToSet(s \o t)
  BY <1>1 DEF ToSet
<1>5. ToSet(t) \subseteq ToSet(s \o t)
  <2>1. ASSUME NEW i \in 1..Len(t) PROVE t[i] \in ToSet(s \o t)
    <3>1. Len(s) + i \in 1..Len(s \o t)
      BY <1>1
    <3> QED BY <1>1, <3>1 DEF ToSet
  <2> QED BY <2>1 DEF ToSet
<1> QED BY <1>1, <1>2, <1>3, <1>4, <1>5

\* An empty sequence holds nothing.
LEMMA EmptyHolds == ToSet(<<>>) = {} /\ \A S : <<>> \in Seq(S)
BY DEF ToSet

\* What a sequence holds is of its type.
LEMMA SetOfSeq == ASSUME NEW S, NEW s \in Seq(S) PROVE ToSet(s) \subseteq S
BY DEF ToSet

------------------------------------------------------------------------------
(* Types. *)

\* What is sent or stored has its type.
LEMMA ItemTypes ==
  /\ NoItem \in Items
  /\ \A k \in Kinds : Note(k) \in Items /\ Note(k).id = 0 /\ Note(k).turn = 0 /\ Note(k).kind = k
  /\ \A k \in Kinds, c \in Conns :
       LET m == [Note(k) EXCEPT !.from = c]
       IN  m \in Items /\ m.id = 0 /\ m.turn = 0 /\ m.kind = k
<1>1. NoItem \in Items
  BY ChatAssumption DEF Items, NoItem, Kinds
<1>2. ASSUME NEW k \in Kinds
      PROVE  Note(k) \in Items /\ Note(k).id = 0 /\ Note(k).turn = 0 /\ Note(k).kind = k
  BY <1>1 DEF Items, NoItem, Note
<1>3. ASSUME NEW k \in Kinds, NEW c \in Conns
      PROVE  LET m == [Note(k) EXCEPT !.from = c]
             IN  m \in Items /\ m.id = 0 /\ m.turn = 0 /\ m.kind = k
  BY <1>2 DEF Items
<1> QED BY <1>1, <1>2, <1>3

\* An idle loop has a task.
LEMMA IdleType == Idle \in Tasks
BY ItemTypes, EmptyHolds DEF Idle, Tasks, Pcs

\* A handler that ends or goes on.
LEMMA RestType ==
  ASSUME NEW t \in Tasks
  PROVE  /\ Rest(t) \in Tasks
         /\ Rest(t) \in {t, Idle}
         /\ t.members # <<>> \/ t.pushTo # {} => Rest(t) = t
BY IdleType DEF Rest

\* The friends of a user, and the members of a group.
LEMMA FriendsType == \A u : FriendsOf(u) \in Seq(Ids)
BY ChatAssumption, EmptyHolds DEF FriendsOf

\* What a send does to the client c.
Untouched(c) == wire'[c] = wire[c] /\ pending'[c] = pending[c]
Written(c, item) == wire'[c] = Append(wire[c], item) /\ pending'[c] = pending[c]
Handed(c, item) == wire'[c] = wire[c] /\ pending'[c] = Append(pending[c], item)

\* What a send to some sessions does to one connection.
LEMMA SendFacts ==
  ASSUME TypeOK, NEW l, NEW to, NEW item \in Items, SendAll(l, to, item)
  PROVE  /\ wire' \in [Conns -> Seq(Items)] /\ pending' \in [Conns -> Seq(Items)]
         /\ \A c \in Conns :
              \/ Untouched(c) /\ (c \notin to \/ link[c] # "up")
              \/ Written(c, item) /\ c \in to /\ link[c] = "up" /\ LoopOf[c] = l
              \/ Handed(c, item) /\ c \in to /\ link[c] = "up" /\ LoopOf[c] # l
<1>1. /\ wire \in [Conns -> Seq(Items)] /\ pending \in [Conns -> Seq(Items)]
      /\ \A c \in Conns : Append(wire[c], item) \in Seq(Items) /\ Append(pending[c], item) \in Seq(Items)
  BY AppendSet DEF TypeOK
<1>2. /\ \A c \in Conns : wire'[c] = IF c \in to /\ link[c] = "up" /\ LoopOf[c] = l
                                     THEN Append(wire[c], item) ELSE wire[c]
      /\ \A c \in Conns : pending'[c] = IF c \in to /\ link[c] = "up" /\ LoopOf[c] # l
                                        THEN Append(pending[c], item) ELSE pending[c]
      /\ wire' = [c \in Conns |-> wire'[c]] /\ pending' = [c \in Conns |-> pending'[c]]
  BY DEF SendAll, Enqueue
<1>3. wire' \in [Conns -> Seq(Items)] /\ pending' \in [Conns -> Seq(Items)]
  <2>1. \A c \in Conns : wire'[c] \in Seq(Items) /\ pending'[c] \in Seq(Items)
    BY <1>1, <1>2
  <2> HIDE <1>2
  <2>2. wire' = [c \in Conns |-> wire'[c]] /\ pending' = [c \in Conns |-> pending'[c]]
    BY <1>2
  <2> QED BY <2>1, <2>2
<1> QED BY <1>2, <1>3 DEF Untouched, Written, Handed

\* The sessions a handler reads, and those told of an end, are connections.
LEMMA SessionTypes ==
  ASSUME TypeOK
  PROVE  /\ \A u : FirstSessions(u) \subseteq Conns
         /\ \A l \in Loops : Unread(l) # {} => First(Unread(l)) \in Unread(l)
         /\ \A l \in Loops : Unread(l) \subseteq sessions /\ Unread(l) \subseteq Conns
<1>1. ASSUME NEW S \in SUBSET Conns, S # {} PROVE First(S) \in S
  BY <1>1, FirstIn DEF TypeOK
<1>2. \A u : FirstSessions(u) \subseteq Conns
  <2>1. ASSUME NEW u, NEW f, {c \in sessions : uid[c] = f} # {}
        PROVE  First({c \in sessions : uid[c] = f}) \in Conns
    <3>1. {c \in sessions : uid[c] = f} \in SUBSET Conns
      BY DEF TypeOK
    <3> QED BY <1>1, <2>1, <3>1
  <2> QED BY <2>1 DEF FirstSessions
<1>3. ASSUME NEW l \in Loops PROVE Unread(l) \in SUBSET Conns /\ Unread(l) \subseteq sessions
  BY DEF Unread, TypeOK
<1> QED BY <1>1, <1>2, <1>3

\* The new task of a loop, and of the others.
LEMMA TaskSet ==
  ASSUME TypeOK, NEW l \in Loops, NEW t, task' = [task EXCEPT ![l] = t]
  PROVE  /\ task'[l] = t
         /\ \A k \in Loops : k # l => task'[k] = task[k]
         /\ t \in Tasks => task' \in [Loops -> Tasks]
BY DEF TypeOK

\* The parts of the type invariant.
TypeSessions == /\ link \in [Conns -> {"new", "up", "closing", "down"}]
                /\ sessions \subseteq Conns
                /\ arrival \in [Conns -> Nat]
                /\ uid \in [Conns -> Ids \cup {NoUser}]
                /\ ctype \in [Conns -> Types \cup {NoType}]
                /\ isLogin \in [Conns -> BOOLEAN]
TypeTasks == task \in [Loops -> Tasks] /\ OwnHandlers
TypeWires == pending \in [Conns -> Seq(Items)] /\ wire \in [Conns -> Seq(Items)]
TypeStores == cacheMsg \in [Ids -> Seq(Items)] /\ cacheNotify \in [Ids -> Seq(Items)]
TypeCounts == sent \in 0..MaxCommands /\ logins \in 0..MaxLogins

\* The type invariant, in parts that no two kinds of step disturb.
LEMMA TypeParts ==
  /\ TypeOK <=> TypeSessions /\ TypeTasks /\ TypeWires /\ TypeStores /\ TypeCounts
  /\ TypeSessions' /\ TypeTasks' /\ TypeWires' /\ TypeStores' /\ TypeCounts' => TypeOK'
BY DEF TypeOK, TypeSessions, TypeTasks, TypeWires, TypeStores, TypeCounts

\* The first state is typed.
LEMMA TypeInit == Init => TypeOK
<1> SUFFICES ASSUME Init PROVE TypeOK
  OBVIOUS
<1>1. TypeSessions
  BY DEF Init, TypeSessions
<1>2. TypeTasks
  BY IdleType DEF Init, TypeTasks, OwnHandlers, Busy
<1>3. TypeWires /\ TypeStores
  BY EmptyHolds DEF Init, TypeWires, TypeStores
<1>4. TypeCounts
  BY ChatAssumption DEF Init, TypeCounts
<1> QED BY <1>1, <1>2, <1>3, <1>4, TypeParts

\* A handler of c that starts on its loop.
LEMMA TaskStarts ==
  ASSUME TypeOK, NEW c \in Conns, NEW t \in Tasks, t.conn = c \/ t = Idle, link[c] = "up",
         UNCHANGED link, task' = [task EXCEPT ![LoopOf[c]] = t]
  PROVE  TypeTasks'
<1>1. LoopOf[c] \in Loops
  BY ChatAssumption
<1>2. task' \in [Loops -> Tasks]
  BY <1>1, TaskSet
<1>3. ASSUME NEW k \in Loops, task'[k] # Idle
      PROVE  task'[k].conn \in Conns /\ LoopOf[task'[k].conn] = k /\ link'[task'[k].conn] = "up"
  <2>1. CASE k = LoopOf[c]
    BY <1>1, <1>3, <2>1, TaskSet
  <2>2. CASE k # LoopOf[c]
    <3>1. task'[k] = task[k]
      BY <1>1, <2>2, TaskSet
    <3> QED BY <1>3, <3>1 DEF TypeOK, OwnHandlers, Busy
  <2> QED BY <2>1, <2>2
<1> QED BY <1>2, <1>3 DEF TypeTasks, OwnHandlers, Busy

\* A handler that goes on, or ends.
LEMMA TaskGoes ==
  ASSUME TypeOK, NEW l \in Loops, Busy(l), NEW t \in Tasks, t.conn = task[l].conn \/ t = Idle,
         UNCHANGED link, task' = [task EXCEPT ![l] = t]
  PROVE  TypeTasks'
<1>1. task[l].conn \in Conns /\ LoopOf[task[l].conn] = l /\ link[task[l].conn] = "up"
  BY DEF TypeOK, OwnHandlers
<1> QED BY <1>1, TaskStarts

\* A handler in a step is one of a connection of the loop.
LEMMA BusyIn ==
  ASSUME TypeOK, NEW l \in Loops, task[l].pc # "idle"
  PROVE  /\ Busy(l) /\ task[l] \in Tasks
         /\ task[l].conn \in Conns /\ LoopOf[task[l].conn] = l /\ link[task[l].conn] = "up"
BY DEF TypeOK, OwnHandlers, Busy, Idle

------------------------------------------------------------------------------
(* What each action does to the task of its loop. *)

\* Only the task of l changes.
Only(l) == l \in Loops /\ \A k \in Loops : k # l => task'[k] = task[k]

\* What the fan-out of a handler needs is not there.
NoFan(t) == t.item = NoItem /\ t.members = <<>> /\ t.found = {} /\ t.pushTo = {}

\* A login that is accepted.
LEMMA LoginAcceptedTask ==
  ASSUME TypeOK, NEW c \in Conns, NEW u \in Ids, NEW t \in Types, LoginAccepted(c, u, t)
  PROVE  LET l == LoopOf[c]
         IN  /\ Only(l) /\ task[l] = Idle /\ link[c] = "up"
             /\ task'[l].pc = "search" /\ task'[l].conn = c
             /\ task'[l].user = u /\ task'[l].type = t
             /\ task'[l].read = {} /\ NoFan(task'[l])
             /\ TypeTasks'
<1> DEFINE l == LoopOf[c]
           new == [Idle EXCEPT !.pc = "search", !.conn = c, !.user = u, !.type = t]
<1>1. l \in Loops /\ task[l] = Idle /\ link[c] = "up"
  BY ChatAssumption DEF LoginAccepted, Busy
<1>2. task' = [task EXCEPT ![l] = new] /\ UNCHANGED link
  BY DEF LoginAccepted, sharedVars
<1> HIDE DEF l
<1>3. new \in Tasks
  BY IdleType DEF Tasks, Pcs
<1>4. /\ new.pc = "search" /\ new.conn = c /\ new.user = u /\ new.type = t
      /\ new.read = {} /\ NoFan(new)
  BY DEF Idle, NoFan
<1> HIDE DEF new
<1>5. task'[l] = new /\ Only(l)
  BY <1>1, <1>2, TaskSet DEF Only
<1>6. TypeTasks'
  BY <1>1, <1>2, <1>3, <1>4, TaskStarts DEF l
<1> QED BY <1>1, <1>4, <1>5, <1>6 DEF l

\* A login that is refused: a session logged in before goes on to the delivery.
LEMMA LoginRefusedTask ==
  ASSUME TypeOK, NEW c \in Conns, LoginRefused(c)
  PROVE  LET l == LoopOf[c]
         IN  /\ Only(l) /\ task[l] = Idle /\ link[c] = "up"
             /\ \/ task'[l] = Idle
                \/ /\ task'[l].pc = "drain" /\ task'[l].conn = c /\ isLogin[c]
                   /\ task'[l].read = {} /\ NoFan(task'[l])
             /\ TypeTasks'
<1> DEFINE l == LoopOf[c]
           drain == [Idle EXCEPT !.pc = "drain", !.conn = c]
           new == IF isLogin[c] THEN drain ELSE Idle
<1>1. l \in Loops /\ task[l] = Idle /\ link[c] = "up"
  BY ChatAssumption DEF LoginRefused, Busy
<1>2. task' = [task EXCEPT ![l] = new] /\ UNCHANGED link
  BY DEF LoginRefused, sharedVars
<1>3. /\ drain \in Tasks /\ drain.pc = "drain" /\ drain.conn = c
      /\ drain.read = {} /\ NoFan(drain)
  BY IdleType DEF Tasks, Pcs, Idle, NoFan
<1> HIDE DEF drain
<1>4. new \in Tasks /\ (new.conn = c \/ new = Idle)
  BY <1>3, IdleType
<1>5. task'[l] = new /\ Only(l)
  BY <1>1, <1>2, TaskSet DEF Only
<1>6. TypeTasks'
  BY <1>1, <1>2, <1>4, TaskStarts
<1> QED BY <1>1, <1>3, <1>5, <1>6

\* A command: the task is that of its client, with a number nobody has had.
LEMMA CommandTask ==
  ASSUME TypeOK, NEW c \in Conns, NEW op \in Ops, NEW a \in Ids, Command(c, op, a)
  PROVE  LET l == LoopOf[c]
         IN  /\ Only(l) /\ task[l] = Idle /\ link[c] = "up" /\ isLogin[c]
             /\ sent' = sent + 1 /\ sent' \in 1..MaxCommands
             /\ \/ task'[l] = Idle
                \/ /\ task'[l].pc = "fan" /\ task'[l].conn = c /\ task'[l].pushTo = {}
                   /\ task'[l].read = {} /\ task'[l].found = {}
                   /\ task'[l].item.kind = op /\ task'[l].item.id = sent'
                   /\ task'[l].item.from = c /\ task'[l].item.turn = 0
             /\ TypeTasks'
<1> DEFINE l == LoopOf[c]
           item == [kind |-> op, id |-> sent + 1, from |-> c, turn |-> 0]
           fan == [Idle EXCEPT !.pc = "fan", !.conn = c, !.members = Audience(op, a),
                               !.item = item]
           new == Rest(fan)
<1>1. /\ l \in Loops /\ task[l] = Idle /\ link[c] = "up" /\ isLogin[c]
      /\ sent' = sent + 1 /\ sent' \in 1..MaxCommands
  BY ChatAssumption DEF Command, Busy, TypeOK
<1>2. task' = [task EXCEPT ![l] = new] /\ UNCHANGED link
  BY DEF Command, sharedVars
<1>3. item \in Items
  BY <1>1, ChatAssumption DEF Items, Kinds
<1>4. Audience(op, a) \in Seq(Ids)
  <2>1. <<a>> \in Seq(Ids)
    OBVIOUS
  <2> QED BY <2>1, FriendsType DEF Audience
<1>5. /\ fan \in Tasks /\ fan.pc = "fan" /\ fan.conn = c /\ fan.pushTo = {} /\ fan.item = item
      /\ fan.read = {} /\ fan.found = {}
  BY <1>3, <1>4, IdleType DEF Tasks, Pcs, Idle
<1> HIDE DEF fan
<1>6. new \in Tasks /\ (new = fan \/ new = Idle)
  BY <1>5, RestType
<1>7. task'[l] = new /\ Only(l)
  BY <1>1, <1>2, TaskSet DEF Only
<1>8. TypeTasks'
  BY <1>1, <1>2, <1>5, <1>6, TaskStarts
<1> QED BY <1>1, <1>5, <1>6, <1>7, <1>8

\* A handler takes its next step.
LEMMA PcTask ==
  ASSUME TypeOK, NEW l \in Loops, task[l].pc # "idle", NEW x \in Pcs,
         task' = [task EXCEPT ![l].pc = x], UNCHANGED link
  PROVE  /\ Only(l) /\ task'[l] = [task[l] EXCEPT !.pc = x] /\ TypeTasks'
<1> DEFINE new == [task[l] EXCEPT !.pc = x]
<1>1. task[l] \in Tasks /\ Busy(l)
  BY BusyIn
<1>2. new \in Tasks /\ new.conn = task[l].conn
  BY <1>1 DEF Tasks
<1>3. task' = [task EXCEPT ![l] = new]
  OBVIOUS
<1> HIDE DEF new
<1>4. task'[l] = new /\ Only(l)
  BY <1>3, TaskSet DEF Only
<1>5. TypeTasks'
  BY <1>1, <1>2, <1>3, TaskGoes
<1> QED BY <1>4, <1>5 DEF new

\* What stays when only the step changes.
LEMMA SameButPc ==
  ASSUME NEW t \in Tasks, NEW x \in Pcs, NEW r, r = [t EXCEPT !.pc = x]
  PROVE  /\ r \in Tasks
         /\ r.pc = x /\ r.conn = t.conn /\ r.user = t.user /\ r.type = t.type /\ r.clash = t.clash
         /\ r.item = t.item /\ r.members = t.members /\ r.pushTo = t.pushTo /\ r.target = t.target
         /\ r.read = t.read /\ r.found = t.found
BY DEF Tasks

\* The steps of a login that only go on to the next one.
LEMMA StepTask ==
  ASSUME TypeOK, NEW l \in Loops, Kick(l) \/ AdoptId(l) \/ AdoptRest(l) \/ DrainMsgs(l)
  PROVE  LET t == task[l]
             r == task'[l]
         IN  /\ Only(l) /\ TypeTasks' /\ t.conn \in Conns /\ LoopOf[t.conn] = l
             /\ r.conn = t.conn /\ r.user = t.user /\ r.type = t.type /\ r.clash = t.clash
             /\ r.item = t.item /\ r.members = t.members /\ r.pushTo = t.pushTo
             /\ r.target = t.target /\ r.read = t.read /\ r.found = t.found
             /\ Kick(l) => t.pc = "kick" /\ r.pc = "adopt"
             /\ AdoptId(l) => t.pc = "adopt" /\ r.pc = "settle"
             /\ AdoptRest(l) => t.pc = "settle" /\ r.pc = "drain"
             /\ DrainMsgs(l) => t.pc = "drain" /\ r.pc = "drainNotify"
<1>1. PICK x \in Pcs : /\ task' = [task EXCEPT ![l].pc = x] /\ UNCHANGED link
                       /\ task[l].pc # "idle"
                       /\ Kick(l) => task[l].pc = "kick" /\ x = "adopt"
                       /\ AdoptId(l) => task[l].pc = "adopt" /\ x = "settle"
                       /\ AdoptRest(l) => task[l].pc = "settle" /\ x = "drain"
                       /\ DrainMsgs(l) => task[l].pc = "drain" /\ x = "drainNotify"
  <2>1. CASE Kick(l)
    BY <2>1 DEF Kick, AdoptId, AdoptRest, DrainMsgs, Pcs
  <2>2. CASE AdoptId(l)
    BY <2>2 DEF Kick, AdoptId, AdoptRest, DrainMsgs, Pcs
  <2>3. CASE AdoptRest(l)
    BY <2>3 DEF Kick, AdoptId, AdoptRest, DrainMsgs, Pcs
  <2>4. CASE DrainMsgs(l)
    BY <2>4 DEF Kick, AdoptId, AdoptRest, DrainMsgs, Pcs, sharedVars
  <2> QED BY <2>1, <2>2, <2>3, <2>4
<1>2. Only(l) /\ task'[l] = [task[l] EXCEPT !.pc = x] /\ TypeTasks'
  BY <1>1, PcTask
<1>3. task[l] \in Tasks /\ task[l].conn \in Conns /\ LoopOf[task[l].conn] = l
  BY <1>1, BusyIn
<1> DEFINE r == task'[l]
           t == task[l]
<1>4. r.pc = x /\ r.conn = t.conn /\ r.user = t.user /\ r.type = t.type /\ r.clash = t.clash
         /\ r.item = t.item /\ r.members = t.members /\ r.pushTo = t.pushTo /\ r.target = t.target
         /\ r.read = t.read /\ r.found = t.found
  BY <1>2, <1>3, SameButPc
<1> QED BY <1>1, <1>2, <1>3, <1>4

\* The delivery ends, and the friends are told.
LEMMA DrainNotifyTask ==
  ASSUME TypeOK, NEW l \in Loops, DrainNotify(l)
  PROVE  LET t == task[l]
             r == task'[l]
         IN  /\ Only(l) /\ TypeTasks' /\ t.conn \in Conns /\ LoopOf[t.conn] = l
             /\ t.pc = "drainNotify"
             /\ \/ r = Idle
                \/ /\ r.pc = "fan" /\ r.conn = t.conn /\ r.pushTo = {}
                   /\ r.read = {} /\ r.found = {}
                   /\ r.item.kind = "online" /\ r.item.id = 0 /\ r.item.turn = 0
                   /\ r.item.from = t.conn
<1> DEFINE c == task[l].conn
           item == [Note("online") EXCEPT !.from = c]
           fan == Announce(c)
<1>1. task[l].pc = "drainNotify" /\ task' = [task EXCEPT ![l] = Rest(fan)] /\ UNCHANGED link
  BY DEF DrainNotify, sharedVars
<1>2. c \in Conns /\ LoopOf[c] = l /\ Busy(l)
  BY <1>1, BusyIn
<1>3. /\ item \in Items /\ item.id = 0 /\ item.turn = 0 /\ item.kind = "online"
      /\ item.from = c
  <2>1. "online" \in Kinds
    BY DEF Kinds
  <2>2. item \in Items /\ item.id = 0 /\ item.turn = 0 /\ item.kind = "online"
    BY <1>2, <2>1, ItemTypes
  <2>3. Note("online") \in Items
    BY <2>1, ItemTypes
  <2>4. item.from = c
    BY <2>3 DEF Items
  <2> QED BY <2>2, <2>4
<1>4. FriendsOf(uid[c]) \in Seq(Ids)
  BY FriendsType
<1>5. /\ fan \in Tasks /\ fan.pc = "fan" /\ fan.conn = c /\ fan.pushTo = {} /\ fan.item = item
      /\ fan.read = {} /\ fan.found = {}
  BY <1>2, <1>3, <1>4, IdleType DEF Announce, Tasks, Pcs, Idle
<1> HIDE DEF fan, item
<1>6. Rest(fan) \in Tasks /\ Rest(fan) \in {fan, Idle}
  BY <1>5, RestType
<1>7. TypeTasks'
  BY <1>1, <1>2, <1>5, <1>6, TaskGoes
<1>8. task'[l] = Rest(fan) /\ Only(l)
  BY <1>1, TaskSet DEF Only
<1> QED BY <1>1, <1>2, <1>3, <1>5, <1>6, <1>7, <1>8

\* The user of the handler is passed over.
LEMMA SkipSelfTask ==
  ASSUME TypeOK, NEW l \in Loops, SkipSelf(l)
  PROVE  LET t == task[l]
             r == task'[l]
         IN  /\ Only(l) /\ TypeTasks' /\ t.conn \in Conns /\ LoopOf[t.conn] = l
             /\ t.pc = "fan" /\ t.pushTo = {} /\ t.read = {}
             /\ \/ r = Idle
                \/ /\ r.pc = "fan" /\ r.conn = t.conn /\ r.pushTo = {} /\ r.item = t.item
                   /\ r.read = {} /\ r.found = t.found
                   /\ Len(r.members) < Len(t.members)
<1> DEFINE t == task[l]
           new == [t EXCEPT !.members = Tail(@)]
<1>1. /\ t.pc = "fan" /\ t.pushTo = {} /\ t.read = {} /\ t.members # <<>>
      /\ task' = [task EXCEPT ![l] = Rest(new)] /\ UNCHANGED link
  BY DEF SkipSelf, sharedVars
<1>2. t \in Tasks /\ t.conn \in Conns /\ LoopOf[t.conn] = l /\ Busy(l)
  BY <1>1, BusyIn
<1>3. t.members \in Seq(Ids)
  BY <1>2 DEF Tasks
<1>4. Tail(t.members) \in Seq(Ids) /\ Len(Tail(t.members)) < Len(t.members)
  BY <1>1, <1>3
<1>5. /\ new \in Tasks /\ new.pc = "fan" /\ new.conn = t.conn /\ new.pushTo = {}
      /\ new.item = t.item /\ Len(new.members) < Len(t.members)
      /\ new.read = {} /\ new.found = t.found
  BY <1>1, <1>2, <1>4 DEF Tasks
<1> HIDE DEF new
<1>6. Rest(new) \in Tasks /\ Rest(new) \in {new, Idle}
  BY <1>5, RestType
<1>7. TypeTasks'
  BY <1>1, <1>2, <1>5, <1>6, TaskGoes
<1>8. task'[l] = Rest(new) /\ Only(l)
  BY <1>1, TaskSet DEF Only
<1> QED BY <1>1, <1>2, <1>5, <1>6, <1>7, <1>8

\* The search for a clash reads one more session.
LEMMA SearchTask ==
  ASSUME TypeOK, NEW l \in Loops, getSessionByUserIdAndClientType(l)
  PROVE  LET t == task[l]
             r == task'[l]
             c == First(Unread(l))
         IN  /\ Only(l) /\ TypeTasks' /\ t.conn \in Conns /\ LoopOf[t.conn] = l
             /\ t.pc = "search" /\ c \in sessions /\ c \in Conns /\ c \in Unread(l)
             /\ r.conn = t.conn /\ r.user = t.user /\ r.type = t.type
             /\ r.item = t.item /\ r.members = t.members /\ r.pushTo = t.pushTo
             /\ r.found = t.found
             /\ \/ /\ uid[c] = t.user /\ ctype[c] = t.type
                   /\ r.pc = "kick" /\ r.clash = c /\ r.read = {}
                \/ /\ uid[c] # t.user \/ ctype[c] # t.type
                   /\ r.pc = "adopt" /\ Unread(l) = {c} /\ r.read = {}
                \/ /\ uid[c] # t.user \/ ctype[c] # t.type
                   /\ r.pc = "search" /\ r.read = t.read \cup {c}
<1> DEFINE t == task[l]
           c == First(Unread(l))
           same == uid[c] = t.user /\ ctype[c] = t.type
           kick == [t EXCEPT !.pc = "kick", !.clash = c, !.read = {}]
           adopt == [t EXCEPT !.pc = "adopt", !.read = {}]
           on == [t EXCEPT !.read = @ \cup {c}]
           new == IF same THEN kick ELSE IF Unread(l) = {c} THEN adopt ELSE on
<1>1. /\ t.pc = "search" /\ UNCHANGED link /\ Unread(l) # {}
      /\ task' = [task EXCEPT ![l] = new]
  BY DEF getSessionByUserIdAndClientType, sharedVars
<1>2. t \in Tasks /\ t.conn \in Conns /\ LoopOf[t.conn] = l /\ Busy(l)
  BY <1>1, BusyIn
<1>3. c \in Unread(l) /\ c \in sessions /\ c \in Conns
  BY <1>1, SessionTypes
<1> HIDE DEF c, same
<1>4. /\ kick \in Tasks /\ kick.pc = "kick" /\ kick.clash = c /\ kick.read = {}
      /\ kick.conn = t.conn /\ kick.user = t.user /\ kick.type = t.type
      /\ kick.item = t.item /\ kick.members = t.members /\ kick.pushTo = t.pushTo
      /\ kick.found = t.found
  BY <1>2, <1>3 DEF Tasks, Pcs
<1>5. /\ adopt \in Tasks /\ adopt.pc = "adopt" /\ adopt.read = {}
      /\ adopt.conn = t.conn /\ adopt.user = t.user /\ adopt.type = t.type
      /\ adopt.item = t.item /\ adopt.members = t.members /\ adopt.pushTo = t.pushTo
      /\ adopt.found = t.found
  BY <1>2 DEF Tasks, Pcs
<1>6. /\ on \in Tasks /\ on.pc = "search" /\ on.read = t.read \cup {c}
      /\ on.conn = t.conn /\ on.user = t.user /\ on.type = t.type
      /\ on.item = t.item /\ on.members = t.members /\ on.pushTo = t.pushTo
      /\ on.found = t.found
  BY <1>1, <1>2, <1>3 DEF Tasks
<1> HIDE DEF kick, adopt, on
<1>7. new \in Tasks /\ new.conn = t.conn
  BY <1>4, <1>5, <1>6
<1>8. task'[l] = new /\ Only(l)
  BY <1>1, TaskSet DEF Only
<1>9. TypeTasks'
  BY <1>1, <1>2, <1>7, TaskGoes
<1> QED BY <1>1, <1>2, <1>3, <1>4, <1>5, <1>6, <1>8, <1>9 DEF c, same

\* The search for the sessions of a user reads one more.
LEMMA LookTask ==
  ASSUME TypeOK, NEW l \in Loops, getSessionsByUserId(l)
  PROVE  LET t == task[l]
             r == task'[l]
             c == First(Unread(l))
         IN  /\ Only(l) /\ TypeTasks' /\ t.conn \in Conns /\ LoopOf[t.conn] = l
             /\ t.pc = "fan" /\ t.pushTo = {} /\ Len(t.members) > 0 /\ Head(t.members) \in Ids
             /\ c \in sessions /\ c \in Conns /\ c \in Unread(l)
             /\ r.pc = "fan" /\ r.conn = t.conn /\ r.pushTo = {} /\ r.item = t.item
             /\ r.members = t.members /\ r.read = t.read \cup {c}
             /\ Belongs(c, Head(t.members)) => r.found = t.found \cup {c}
             /\ ~Belongs(c, Head(t.members)) => r.found = t.found
<1> DEFINE t == task[l]
           c == First(Unread(l))
           found == IF Belongs(c, Head(t.members)) THEN t.found \cup {c} ELSE t.found
           new == [t EXCEPT !.read = @ \cup {c}, !.found = found]
<1>1. /\ t.pc = "fan" /\ t.pushTo = {} /\ t.members # <<>> /\ UNCHANGED link /\ Unread(l) # {}
  BY DEF getSessionsByUserId, sharedVars
<1>2. t \in Tasks /\ t.conn \in Conns /\ LoopOf[t.conn] = l /\ Busy(l)
  BY <1>1, BusyIn
<1>3. c \in Unread(l) /\ c \in sessions /\ c \in Conns
  BY <1>1, SessionTypes
<1>4. t.members \in Seq(Ids) /\ Len(t.members) > 0 /\ Head(t.members) \in Ids
  BY <1>1, <1>2 DEF Tasks
<1>5. task' = [task EXCEPT ![l] = new]
  <2>1. task' = [task EXCEPT ![l].read = @ \cup {c},
                             ![l].found = IF Belongs(c, Head(t.members)) THEN @ \cup {c} ELSE @]
    BY DEF getSessionsByUserId
  <2>2. task = [k \in Loops |-> task[k]] /\ t = task[l]
    BY DEF TypeOK
  <2> HIDE DEF c, t
  <2> QED BY <1>2, <2>1, <2>2 DEF Tasks
<1> HIDE DEF c
<1>6. found \in SUBSET Conns
  BY <1>2, <1>3 DEF Tasks
<1> HIDE DEF found
<1>7. /\ new \in Tasks /\ new.pc = "fan" /\ new.conn = t.conn /\ new.pushTo = {}
      /\ new.item = t.item /\ new.members = t.members /\ new.read = t.read \cup {c}
      /\ new.found = found
  BY <1>1, <1>2, <1>3, <1>6 DEF Tasks
<1> HIDE DEF new
<1>8. task'[l] = new /\ Only(l)
  BY <1>5, TaskSet DEF Only
<1>9. TypeTasks'
  BY <1>1, <1>2, <1>5, <1>7, TaskGoes
<1> QED BY <1>1, <1>2, <1>3, <1>4, <1>7, <1>8, <1>9 DEF c, found

\* A user was looked up: its sessions are pushed to, or its copy is stored.
LEMMA SnapshotTask ==
  ASSUME TypeOK, NEW l \in Loops, Snapshot(l)
  PROVE  LET t == task[l]
             r == task'[l]
             m == Head(t.members)
             stores == t.item.kind \in Messages
         IN  /\ Only(l) /\ TypeTasks' /\ t.conn \in Conns /\ LoopOf[t.conn] = l
             /\ t.pc = "fan" /\ Len(t.members) > 0 /\ m \in Ids
             /\ \/ r = Idle /\ t.found = {} /\ ~stores
                \/ /\ r.pc = "store" /\ r.conn = t.conn /\ r.pushTo = t.pushTo /\ t.found = {}
                   /\ r.read = {} /\ r.found = {} /\ stores
                   /\ r.target = m /\ Len(r.members) < Len(t.members)
                   /\ r.item = [t.item EXCEPT !.turn = Len(t.members)]
                \/ /\ r.pc = "fan" /\ r.conn = t.conn /\ r.pushTo = t.found /\ r.item = t.item
                   /\ r.read = {} /\ r.found = {}
                   /\ t.found # {} \/ ~stores
                   /\ Len(r.members) < Len(t.members)
<1> DEFINE t == task[l]
           m == Head(t.members)
           stores == t.item.kind \in Messages
           item == [t.item EXCEPT !.turn = Len(t.members)]
           rest == [t EXCEPT !.members = Tail(@), !.read = {}, !.found = {}]
           store == [rest EXCEPT !.pc = "store", !.target = m, !.item = item]
           fan == [rest EXCEPT !.pushTo = t.found]
           new == IF t.found = {} /\ stores THEN store ELSE Rest(fan)
<1>1. /\ t.pc = "fan" /\ t.members # <<>> /\ UNCHANGED link
  BY DEF Snapshot, sharedVars
<1>2. t \in Tasks /\ t.conn \in Conns /\ LoopOf[t.conn] = l /\ Busy(l)
  BY <1>1, BusyIn
<1>3. t.members \in Seq(Ids) /\ t.item \in Items /\ t.found \in SUBSET Conns
  BY <1>2 DEF Tasks
<1>4. /\ Tail(t.members) \in Seq(Ids) /\ Len(Tail(t.members)) < Len(t.members) /\ m \in Ids
      /\ Len(t.members) \in Nat /\ Len(t.members) > 0
  BY <1>1, <1>3
<1>5. item \in Items
  BY <1>3, <1>4 DEF Items
<1>6. /\ rest \in Tasks /\ rest.pc = "fan" /\ rest.conn = t.conn /\ rest.pushTo = t.pushTo
      /\ rest.item = t.item /\ Len(rest.members) < Len(t.members)
      /\ rest.read = {} /\ rest.found = {}
  BY <1>1, <1>2, <1>4 DEF Tasks
<1>7. task' = [task EXCEPT ![l] = new]
  <2>1. task' = [task EXCEPT ![l] = IF t.found = {} /\ stores
                    THEN [rest EXCEPT !.pc = "store", !.target = m, !.item.turn = Len(t.members)]
                    ELSE Rest(fan)]
    BY DEF Snapshot
  <2> HIDE DEF rest, fan
  <2>2. [rest EXCEPT !.pc = "store", !.target = m, !.item.turn = Len(t.members)] = store
    BY <1>6 DEF Tasks
  <2> QED BY <2>1, <2>2
<1> HIDE DEF stores, m, rest
<1>8. /\ store \in Tasks /\ store.pc = "store" /\ store.conn = t.conn
      /\ store.pushTo = t.pushTo /\ store.read = {} /\ store.found = {}
      /\ store.target = m /\ Len(store.members) < Len(t.members) /\ store.item = item
  BY <1>4, <1>5, <1>6 DEF Tasks, Pcs
<1>9. /\ fan \in Tasks /\ fan.pc = "fan" /\ fan.conn = t.conn /\ fan.pushTo = t.found
      /\ fan.read = {} /\ fan.found = {}
      /\ fan.item = t.item /\ Len(fan.members) < Len(t.members)
  BY <1>3, <1>6 DEF Tasks
<1> HIDE DEF store, fan
<1>10. Rest(fan) \in Tasks /\ Rest(fan) \in {fan, Idle} /\ (t.found # {} => Rest(fan) = fan)
  BY <1>9, RestType
<1>11. TypeTasks'
  BY <1>1, <1>2, <1>7, <1>8, <1>9, <1>10, TaskGoes
<1>12. task'[l] = new /\ Only(l)
  BY <1>7, TaskSet DEF Only
<1> QED BY <1>1, <1>2, <1>4, <1>8, <1>9, <1>10, <1>11, <1>12 DEF stores, m

\* A session is pushed to, the first of those found.
LEMMA PushTask ==
  ASSUME TypeOK, NEW l \in Loops, Push(l)
  PROVE  LET t == task[l]
             r == task'[l]
             c == First(t.pushTo)
         IN  /\ Only(l) /\ TypeTasks' /\ t.conn \in Conns /\ LoopOf[t.conn] = l
             /\ t.pc = "fan" /\ c \in t.pushTo /\ c \in Conns
             /\ \/ r = Idle /\ t.pushTo = {c}
                \/ /\ r.pc = "fan" /\ r.conn = t.conn /\ r.pushTo = t.pushTo \ {c}
                   /\ r.item = t.item /\ r.members = t.members
                   /\ r.read = t.read /\ r.found = t.found
<1> DEFINE t == task[l]
           c == First(t.pushTo)
           new == [t EXCEPT !.pushTo = @ \ {c}]
<1>1. /\ t.pc = "fan" /\ t.pushTo # {} /\ UNCHANGED link
      /\ task' = [task EXCEPT ![l] = Rest(new)]
  BY DEF Push, sharedVars
<1>2. t \in Tasks /\ t.conn \in Conns /\ LoopOf[t.conn] = l /\ Busy(l)
  BY <1>1, BusyIn
<1>3. t.pushTo \in SUBSET Conns
  BY <1>2 DEF Tasks
<1>4. c \in t.pushTo /\ c \in Conns
  BY <1>1, <1>3, FirstIn DEF TypeOK
<1>5. /\ new \in Tasks /\ new.pc = "fan" /\ new.conn = t.conn /\ new.pushTo = t.pushTo \ {c}
      /\ new.item = t.item /\ new.members = t.members
      /\ new.read = t.read /\ new.found = t.found
  BY <1>1, <1>2, <1>3 DEF Tasks
<1> HIDE DEF new
<1>6. Rest(new) \in Tasks /\ Rest(new) \in {new, Idle} /\ (new.pushTo # {} => Rest(new) = new)
  BY <1>5, RestType
<1>7. TypeTasks'
  BY <1>1, <1>2, <1>5, <1>6, TaskGoes
<1>8. task'[l] = Rest(new) /\ Only(l)
  BY <1>1, TaskSet DEF Only
<1>9. Rest(new) = new \/ t.pushTo = {c}
  BY <1>4, <1>5, <1>6
<1> QED BY <1>1, <1>2, <1>4, <1>5, <1>6, <1>7, <1>8, <1>9

\* A copy is stored, and the fan-out goes on.
LEMMA StoreTask ==
  ASSUME TypeOK, NEW l \in Loops, Store(l)
  PROVE  LET t == task[l]
             r == task'[l]
         IN  /\ Only(l) /\ TypeTasks' /\ t.conn \in Conns /\ LoopOf[t.conn] = l
             /\ t.pc = "store" /\ t.item \in Items
             /\ \/ r = Idle
                \/ /\ r.pc = "fan" /\ r.conn = t.conn /\ r.pushTo = t.pushTo
                   /\ r.read = t.read /\ r.found = t.found
                   /\ r.members = t.members /\ r.item = [t.item EXCEPT !.turn = 0]
<1> DEFINE t == task[l]
           item == [t.item EXCEPT !.turn = 0]
           new == [t EXCEPT !.pc = "fan", !.target = NoUser, !.item = item]
<1>1. t.pc = "store" /\ UNCHANGED link
  BY DEF Store, sharedVars
<1>2. t \in Tasks /\ t.conn \in Conns /\ LoopOf[t.conn] = l /\ Busy(l)
  BY <1>1, BusyIn
<1>3. t.item \in Items /\ item \in Items
  BY <1>2 DEF Tasks, Items
<1>4. task' = [task EXCEPT ![l] = Rest(new)]
  <2>1. [t EXCEPT !.pc = "fan", !.target = NoUser, !.item.turn = 0] = new
    BY <1>2 DEF Tasks
  <2>2. task' = [task EXCEPT ![l] =
                   Rest([t EXCEPT !.pc = "fan", !.target = NoUser, !.item.turn = 0])]
    BY DEF Store
  <2> QED BY <2>1, <2>2
<1>5. /\ new \in Tasks /\ new.pc = "fan" /\ new.conn = t.conn /\ new.pushTo = t.pushTo
      /\ new.item = item /\ new.members = t.members
      /\ new.read = t.read /\ new.found = t.found
  BY <1>2, <1>3 DEF Tasks, Pcs
<1> HIDE DEF new
<1>6. Rest(new) \in Tasks /\ Rest(new) \in {new, Idle}
  BY <1>5, RestType
<1>7. TypeTasks'
  BY <1>1, <1>2, <1>4, <1>5, <1>6, TaskGoes
<1>8. task'[l] = Rest(new) /\ Only(l)
  BY <1>4, TaskSet DEF Only
<1> QED BY <1>1, <1>2, <1>3, <1>5, <1>6, <1>7, <1>8

------------------------------------------------------------------------------
(* The type invariant is preserved. *)

\* Nothing but the tasks and the history changes.
Calm == UNCHANGED <<sharedVars, pending, wire, storeVars, sent, logins>>

\* A step that changes tasks and history only.
LEMMA CalmType ==
  ASSUME TypeOK, TypeTasks', Calm
  PROVE  TypeOK'
<1>1. TypeSessions' /\ TypeWires' /\ TypeStores' /\ TypeCounts'
  BY DEF TypeOK, Calm, sharedVars, storeVars, TypeSessions, TypeWires, TypeStores, TypeCounts
<1> QED BY <1>1, TypeParts

\* A connection comes.
LEMMA ConnectedType == ASSUME TypeOK, NEW c \in Conns, Connected(c) PROVE TypeOK'
<1>1. arrival' \in [Conns -> Nat]
  <2>1. IsFiniteSet({d \in Conns : link[d] # "new"})
    BY ChatAssumption, FS_Subset
  <2>2. 1 + Cardinality({d \in Conns : link[d] # "new"}) \in Nat
    BY <2>1, FS_CardinalityType
  <2> QED BY <2>2 DEF Connected, TypeOK
<1>2. TypeSessions'
  <2>1. /\ link' \in [Conns -> {"new", "up", "closing", "down"}] /\ sessions' \subseteq Conns
        /\ ctype' \in [Conns -> Types \cup {NoType}]
    BY DEF Connected, TypeOK
  <2> QED BY <1>1, <2>1 DEF Connected, TypeSessions, TypeOK
<1>3. TypeTasks'
  BY DEF Connected, TypeTasks, TypeOK, OwnHandlers, Busy
<1>4. TypeWires' /\ TypeStores' /\ TypeCounts'
  BY DEF Connected, TypeOK, TypeWires, TypeStores, TypeCounts, storeVars
<1> QED BY <1>2, <1>3, <1>4, TypeParts

\* A connection is closed for a wrong package.
LEMMA ForceCloseType == ASSUME TypeOK, NEW c \in Conns, ForceClose(c) PROVE TypeOK'
<1>2. TypeSessions'
  BY DEF ForceClose, TypeSessions, TypeOK
<1>3. TypeTasks'
  BY DEF ForceClose, TypeTasks, TypeOK, OwnHandlers, Busy
<1>4. TypeWires' /\ TypeStores' /\ TypeCounts'
  BY DEF ForceClose, TypeOK, TypeWires, TypeStores, TypeCounts, storeVars
<1> QED BY <1>2, <1>3, <1>4, TypeParts

\* The note that a user is offline, and whom it is sent to.
OfflineNote(c) == [Note("offline") EXCEPT !.from = c]
Told(c) == IF Vaild(c) THEN FirstSessions(uid[c]) ELSE {}

\* What the friends are told when a session leaves.
LEMMA DisconnectedSends ==
  ASSUME TypeOK, NEW c \in Conns, Disconnected(c)
  PROVE  /\ OfflineNote(c) \in Items /\ OfflineNote(c).id = 0 /\ OfflineNote(c).turn = 0
         /\ OfflineNote(c).kind = "offline"
         /\ Told(c) \subseteq Conns /\ SendAll(LoopOf[c], Told(c), OfflineNote(c))
<1>1. "offline" \in Kinds
  BY DEF Kinds
<1>2. /\ OfflineNote(c) \in Items /\ OfflineNote(c).id = 0 /\ OfflineNote(c).turn = 0
      /\ OfflineNote(c).kind = "offline"
  BY <1>1, ItemTypes DEF OfflineNote
<1>3. Told(c) \subseteq Conns
  BY SessionTypes DEF Told
<1> QED BY <1>2, <1>3 DEF Disconnected, OfflineNote, Told

\* A session leaves.
LEMMA DisconnectedType == ASSUME TypeOK, NEW c \in Conns, Disconnected(c) PROVE TypeOK'
<1>1. TypeWires'
  BY DisconnectedSends, SendFacts DEF TypeWires
<1>2. TypeSessions'
  BY DEF Disconnected, TypeSessions, TypeOK
<1>3. TypeTasks'
  BY DEF Disconnected, TypeTasks, TypeOK, OwnHandlers, Busy
<1>4. TypeStores' /\ TypeCounts'
  BY DEF Disconnected, TypeOK, TypeStores, TypeCounts, storeVars
<1> QED BY <1>1, <1>2, <1>3, <1>4, TypeParts

\* A loop writes what it was handed.
LEMMA FlushType == ASSUME TypeOK, NEW l \in Loops, Flush(l) PROVE TypeOK'
<1>1. TypeWires'
  <2>1. \A c \in Conns : wire[c] \o pending[c] \in Seq(Items)
    BY ConcatSet DEF TypeOK
  <2>2. <<>> \in Seq(Items)
    BY EmptyHolds
  <2>3. wire' = [c \in Conns |-> IF LoopOf[c] = l /\ link[c] # "down" THEN wire[c] \o pending[c]
                                                                   ELSE wire[c]]
    BY DEF Flush
  <2>4. wire' \in [Conns -> Seq(Items)]
    BY <2>1, <2>3 DEF TypeOK
  <2>5. pending' = [c \in Conns |-> IF LoopOf[c] = l THEN <<>> ELSE pending[c]]
    BY DEF Flush
  <2>6. pending' \in [Conns -> Seq(Items)]
    BY <2>2, <2>5 DEF TypeOK
  <2> QED BY <2>4, <2>6 DEF TypeWires
<1>2. TypeSessions'
  BY DEF Flush, TypeSessions, TypeOK, sharedVars
<1>3. TypeTasks'
  BY DEF Flush, TypeTasks, TypeOK, OwnHandlers, Busy, sharedVars
<1>4. TypeStores' /\ TypeCounts'
  BY DEF Flush, TypeOK, TypeStores, TypeCounts, storeVars
<1> QED BY <1>1, <1>2, <1>3, <1>4, TypeParts

\* The steps of a client.
LEMMA ClientType ==
  ASSUME TypeOK, NEW c \in Conns, Client(c)
  PROVE  TypeOK'
<1>1. CASE Connected(c) \/ ForceClose(c) \/ Disconnected(c)
  BY <1>1, ConnectedType, ForceCloseType, DisconnectedType
<1>2. ASSUME NEW u \in Ids, NEW t \in Types, LoginAccepted(c, u, t) PROVE TypeOK'
  <2>1. TypeTasks'
    BY <1>2, LoginAcceptedTask
  <2>2. TypeSessions' /\ TypeWires' /\ TypeStores' /\ TypeCounts'
    BY <1>2, ChatAssumption DEF LoginAccepted, TypeOK, sharedVars, storeVars, TypeSessions,
                                TypeWires, TypeStores, TypeCounts
  <2> QED BY <2>1, <2>2, TypeParts
<1>3. CASE LoginRefused(c)
  <2>1. TypeTasks'
    BY <1>3, LoginRefusedTask
  <2>2. Note("refused") \in Items
    BY ItemTypes DEF Kinds
  <2>3. Append(wire[c], Note("refused")) \in Seq(Items)
    BY <2>2, AppendSet DEF TypeOK
  <2>4. TypeWires'
    BY <1>3, <2>3 DEF LoginRefused, TypeOK, TypeWires
  <2>5. TypeSessions' /\ TypeStores' /\ TypeCounts'
    BY <1>3, ChatAssumption DEF LoginRefused, TypeOK, sharedVars, storeVars, TypeSessions,
                                TypeStores, TypeCounts
  <2> QED BY <2>1, <2>4, <2>5, TypeParts
<1>4. ASSUME NEW op \in Ops, NEW a \in Ids, Command(c, op, a) PROVE TypeOK'
  <2>1. TypeTasks' /\ sent' \in 1..MaxCommands
    BY <1>4, CommandTask
  <2>2. TypeSessions' /\ TypeWires' /\ TypeStores' /\ TypeCounts'
    BY <1>4, <2>1, ChatAssumption DEF Command, TypeOK, sharedVars, storeVars, TypeSessions,
                                TypeWires, TypeStores, TypeCounts
  <2> QED BY <2>1, <2>2, TypeParts
<1> QED BY <1>1, <1>2, <1>3, <1>4 DEF Client

\* A message that waited in a store is written to the client.
LEMMA DrainWires ==
  ASSUME TypeOK, NEW c \in Conns, NEW s \in Seq(Items), wire' = [wire EXCEPT ![c] = @ \o s],
         UNCHANGED pending
  PROVE  TypeWires'
<1>1. wire[c] \o s \in Seq(Items)
  BY ConcatSet DEF TypeOK
<1> QED BY <1>1 DEF TypeOK, TypeWires

\* The session a login clashes with.
LEMMA KickSends ==
  ASSUME TypeOK, NEW l \in Loops, Kick(l)
  PROVE  /\ Note("kick") \in Items /\ Note("kick").id = 0 /\ Note("kick").turn = 0
         /\ Note("kick").kind = "kick"
         /\ SendAll(l, {task[l].clash}, Note("kick"))
<1>1. "kick" \in Kinds
  BY DEF Kinds
<1> QED BY <1>1, ItemTypes DEF Kick, Send

\* A clashing session is kicked.
LEMMA KickType == ASSUME TypeOK, NEW l \in Loops, Kick(l) PROVE TypeOK'
<1>1. TypeTasks'
  BY StepTask
<1>2. TypeWires'
  BY KickSends, SendFacts DEF TypeWires
<1>3. TypeSessions' /\ TypeStores' /\ TypeCounts'
  BY DEF Kick, TypeOK, storeVars, TypeSessions, TypeStores, TypeCounts
<1> QED BY <1>1, <1>2, <1>3, TypeParts

\* A session takes its user and its type.
LEMMA AdoptType == ASSUME TypeOK, NEW l \in Loops, AdoptId(l) \/ AdoptRest(l) PROVE TypeOK'
<1>1. TypeTasks' /\ task[l] \in Tasks
  BY StepTask DEF TypeOK
<1>2. task[l].user \in Ids \cup {NoUser} /\ task[l].type \in Types \cup {NoType}
  BY <1>1 DEF Tasks
<1>3. CASE AdoptId(l)
  <2>1. TypeSessions' /\ TypeWires' /\ TypeStores' /\ TypeCounts'
    BY <1>2, <1>3 DEF AdoptId, TypeOK, storeVars, TypeSessions, TypeWires, TypeStores, TypeCounts
  <2> QED BY <1>1, <2>1, TypeParts
<1>4. CASE AdoptRest(l)
  <2>1. Note("login") \in Items
    BY ItemTypes DEF Kinds
  <2>2. \A c \in Conns : Append(wire[c], Note("login")) \in Seq(Items)
    BY <2>1, AppendSet DEF TypeOK
  <2>3. wire' = [wire EXCEPT ![task[l].conn] = Append(@, Note("login"))] /\ UNCHANGED pending
    BY <1>4 DEF AdoptRest
  <2>4. TypeWires'
    BY <2>2, <2>3 DEF TypeOK, TypeWires
  <2>5. TypeSessions' /\ TypeStores' /\ TypeCounts'
    BY <1>2, <1>4 DEF AdoptRest, TypeOK, storeVars, TypeSessions, TypeStores, TypeCounts
  <2> QED BY <1>1, <2>4, <2>5, TypeParts
<1> QED BY <1>3, <1>4

\* What waited for a user is delivered.
LEMMA DrainType == ASSUME TypeOK, NEW l \in Loops, DrainMsgs(l) \/ DrainNotify(l) PROVE TypeOK'
<1>1. TypeTasks' /\ task[l].conn \in Conns
  BY StepTask, DrainNotifyTask
<1>2. <<>> \in Seq(Items)
  BY EmptyHolds
<1>3. TypeSessions' /\ TypeCounts'
  BY DEF DrainMsgs, DrainNotify, TypeOK, sharedVars, TypeSessions, TypeCounts
<1> DEFINE c == task[l].conn
           u == uid[c]
<1>4. CASE DrainMsgs(l)
  <2>1. CASE u \in Ids
    <3>1. wire' = [wire EXCEPT ![c] = @ \o cacheMsg[u]] /\ cacheMsg' = [cacheMsg EXCEPT ![u] = <<>>]
          /\ UNCHANGED <<pending, cacheNotify>>
      BY <1>4, <2>1 DEF DrainMsgs
    <3>2. cacheMsg[u] \in Seq(Items)
      BY <2>1 DEF TypeOK
    <3>3. TypeWires'
      BY <1>1, <3>1, <3>2, DrainWires
    <3>4. TypeStores'
      BY <1>2, <3>1 DEF TypeStores, TypeOK
    <3> QED BY <1>1, <1>3, <3>3, <3>4, TypeParts
  <2>2. CASE u \notin Ids
    <3>1. UNCHANGED <<wire, pending, cacheMsg, cacheNotify>>
      BY <1>4, <2>2 DEF DrainMsgs
    <3>2. TypeWires' /\ TypeStores'
      BY <3>1 DEF TypeOK, TypeWires, TypeStores
    <3> QED BY <1>1, <1>3, <3>2, TypeParts
  <2> QED BY <2>1, <2>2
<1>5. CASE DrainNotify(l)
  <2>1. CASE u \in Ids
    <3>1. /\ wire' = [wire EXCEPT ![c] = @ \o cacheNotify[u]]
          /\ cacheNotify' = [cacheNotify EXCEPT ![u] = <<>>] /\ UNCHANGED <<pending, cacheMsg>>
      BY <1>5, <2>1 DEF DrainNotify
    <3>2. cacheNotify[u] \in Seq(Items)
      BY <2>1 DEF TypeOK
    <3>3. TypeWires'
      BY <1>1, <3>1, <3>2, DrainWires
    <3>4. TypeStores'
      BY <1>2, <3>1 DEF TypeStores, TypeOK
    <3> QED BY <1>1, <1>3, <3>3, <3>4, TypeParts
  <2>2. CASE u \notin Ids
    <3>1. UNCHANGED <<wire, pending, cacheMsg, cacheNotify>>
      BY <1>5, <2>2 DEF DrainNotify
    <3>2. TypeWires' /\ TypeStores'
      BY <3>1 DEF TypeOK, TypeWires, TypeStores
    <3> QED BY <1>1, <1>3, <3>2, TypeParts
  <2> QED BY <2>1, <2>2
<1> QED BY <1>4, <1>5

\* The steps of a search, and of a fan-out.
LEMMA FanType ==
  ASSUME TypeOK, NEW l \in Loops,
         \/ getSessionByUserIdAndClientType(l) \/ getSessionsByUserId(l)
         \/ SkipSelf(l) \/ Snapshot(l) \/ Push(l) \/ Store(l)
  PROVE  TypeOK'
<1>0. CASE getSessionByUserIdAndClientType(l) \/ getSessionsByUserId(l)
  <2>1. TypeTasks'
    BY <1>0, SearchTask, LookTask
  <2>2. Calm
    BY <1>0 DEF getSessionByUserIdAndClientType, getSessionsByUserId, Calm
  <2> QED BY <2>1, <2>2, CalmType
<1>1. CASE SkipSelf(l) \/ Snapshot(l)
  <2>1. TypeTasks'
    BY <1>1, SkipSelfTask, SnapshotTask
  <2>2. Calm
    BY <1>1 DEF SkipSelf, Snapshot, Calm
  <2> QED BY <2>1, <2>2, CalmType
<1>2. CASE Push(l)
  <2>1. TypeTasks'
    BY <1>2, PushTask
  <2>2. task[l].item \in Items
    BY DEF TypeOK, Tasks
  <2>3. \/ UNCHANGED <<pending, wire>>
        \/ SendAll(l, {First(task[l].pushTo)}, task[l].item)
    BY <1>2 DEF Push, Send
  <2>4. TypeWires'
    BY <2>2, <2>3, SendFacts DEF TypeWires, TypeOK
  <2>5. TypeSessions' /\ TypeStores' /\ TypeCounts'
    BY <1>2 DEF Push, TypeOK, sharedVars, storeVars, TypeSessions, TypeStores, TypeCounts
  <2> QED BY <2>1, <2>4, <2>5, TypeParts
<1>3. CASE Store(l)
  <2>1. TypeTasks' /\ task[l].item \in Items
    BY <1>3, StoreTask
  <2>2. \A u \in Ids : /\ Append(cacheMsg[u], task[l].item) \in Seq(Items)
                       /\ Append(cacheNotify[u], task[l].item) \in Seq(Items)
    BY <2>1, AppendSet DEF TypeOK
  <2>3. TypeStores'
    <3>1. \/ /\ cacheMsg' = [cacheMsg EXCEPT ![task[l].target] = Append(@, task[l].item)]
             /\ UNCHANGED cacheNotify
          \/ /\ cacheNotify' = [cacheNotify EXCEPT ![task[l].target] = Append(@, task[l].item)]
             /\ UNCHANGED cacheMsg
      BY <1>3 DEF Store
    <3>2. /\ cacheMsg \in [Ids -> Seq(Items)] /\ cacheNotify \in [Ids -> Seq(Items)]
      BY DEF TypeOK
    <3>3. CASE UNCHANGED cacheNotify /\
               cacheMsg' = [cacheMsg EXCEPT ![task[l].target] = Append(@, task[l].item)]
      BY <2>2, <3>2, <3>3 DEF TypeStores
    <3>4. CASE UNCHANGED cacheMsg /\
               cacheNotify' = [cacheNotify EXCEPT ![task[l].target] = Append(@, task[l].item)]
      BY <2>2, <3>2, <3>4 DEF TypeStores
    <3> QED BY <3>1, <3>3, <3>4
  <2>4. TypeSessions' /\ TypeWires' /\ TypeCounts'
    BY <1>3 DEF Store, TypeOK, sharedVars, TypeSessions, TypeWires, TypeCounts
  <2> QED BY <2>1, <2>3, <2>4, TypeParts
<1> QED BY <1>0, <1>1, <1>2, <1>3

\* Every step preserves the types.
LEMMA TypeStep == TypeOK /\ [Next]_vars => TypeOK'
<1> SUFFICES ASSUME TypeOK, [Next]_vars PROVE TypeOK'
  OBVIOUS
<1>1. ASSUME NEW c \in Conns, Client(c) PROVE TypeOK'
  BY <1>1, ClientType
<1>2. ASSUME NEW l \in Loops, Handler(l) PROVE TypeOK'
  BY <1>2, KickType, AdoptType, DrainType, FanType DEF Handler
<1>3. ASSUME NEW l \in Loops, Flush(l) PROVE TypeOK'
  BY <1>3, FlushType
<1>4. CASE UNCHANGED vars
  BY <1>4 DEF vars, sharedVars, storeVars, TypeOK, OwnHandlers, Busy
<1> QED BY <1>1, <1>2, <1>3, <1>4 DEF Next

------------------------------------------------------------------------------
(* What the other invariants stand on: the list of sessions, and what a handler *)
(* in a step has to work with. *)

\* The sessions in the list are those of connections that are there; a connection that
\* was never there has no user.
Listed == \A c \in Conns : /\ c \in sessions <=> link[c] \in {"up", "closing"}
                           /\ link[c] = "new" => uid[c] = NoUser /\ ~isLogin[c]

\* The steps of a login, and of a fan-out.
Logging == {"search", "kick", "adopt", "settle"}
Fanning == {"fan", "store"}

GoodTask(t) ==
  /\ t.pc = "kick" => t.clash \in Conns
  /\ t.pc \in Logging => t.user \in Ids /\ t.type \in Types
  /\ t.pc = "store" => /\ t.target \in Ids /\ t.item.kind \in Messages /\ t.pushTo = {}
                       /\ t.item.turn > Len(t.members)
  /\ t.pc # "store" => t.item.turn = 0
  /\ t.item.id <= sent /\ (t.item.kind \in Messages => t.item.id > 0)
  /\ t.pc \in Fanning => t.item.from = t.conn
  /\ t.pc \notin Fanning => NoFan(t)
  /\ t.read # {} => t.pc \in {"search", "fan"} /\ t.pushTo = {}
  /\ t.read = {} => t.found = {}
  /\ t.pc = "fan" /\ t.read # {} => Head(t.members) \in Ids

GoodTasks == \A l \in Loops : GoodTask(task[l])

Base == TypeOK /\ Listed /\ GoodTasks

\* An idle loop is in no step.
LEMMA GoodIdle == ASSUME TypeOK PROVE GoodTask(Idle)
BY DEF GoodTask, Idle, NoItem, NoFan, Logging, Fanning, Messages, StoresMsg, StoresNotify, TypeOK

\* The first state.
LEMMA BaseInit == Init => Base
<1> SUFFICES ASSUME Init PROVE Base
  OBVIOUS
<1>1. TypeOK
  BY TypeInit
<1>2. Listed
  BY DEF Init, Listed
<1>3. GoodTasks
  BY <1>1, GoodIdle DEF Init, GoodTasks
<1> QED BY <1>1, <1>2, <1>3 DEF Base

\* The list of sessions follows the connections.
LEMMA ListedStep == ASSUME TypeOK, Listed, [Next]_vars PROVE Listed'
<1> USE DEF Listed, TypeOK
<1>1. ASSUME NEW c \in Conns, Connected(c) PROVE Listed'
  BY <1>1 DEF Connected
<1>2. ASSUME NEW c \in Conns, ForceClose(c) PROVE Listed'
  BY <1>2 DEF ForceClose
<1>3. ASSUME NEW c \in Conns, Disconnected(c) PROVE Listed'
  BY <1>3 DEF Disconnected
<1>4. ASSUME UNCHANGED sharedVars PROVE Listed'
  BY <1>4 DEF sharedVars
<1>5. ASSUME NEW c \in Conns, Client(c) PROVE Listed'
  <2>1. ASSUME NEW u \in Ids, NEW t \in Types, LoginAccepted(c, u, t) PROVE UNCHANGED sharedVars
    BY <2>1 DEF LoginAccepted
  <2>2. ASSUME LoginRefused(c) PROVE UNCHANGED sharedVars
    BY <2>2 DEF LoginRefused
  <2>3. ASSUME NEW op \in Ops, NEW a \in Ids, Command(c, op, a)
        PROVE  UNCHANGED sharedVars
    BY <2>3 DEF Command
  <2> HIDE DEF Listed
  <2> QED BY <1>1, <1>2, <1>3, <1>4, <1>5, <2>1, <2>2, <2>3 DEF Client
<1>6. ASSUME NEW l \in Loops, Kick(l) PROVE Listed'
  BY <1>6 DEF Kick
<1>7. ASSUME NEW l \in Loops, AdoptId(l) \/ AdoptRest(l) PROVE Listed'
  <2>1. task[l].conn \in Conns /\ link[task[l].conn] = "up"
    BY <1>7, BusyIn DEF AdoptId, AdoptRest
  <2>2. CASE AdoptId(l)
    BY <2>1, <2>2 DEF AdoptId
  <2>3. CASE AdoptRest(l)
    BY <2>1, <2>3 DEF AdoptRest
  <2> QED BY <1>7, <2>2, <2>3
<1>8. ASSUME NEW l \in Loops, Handler(l) PROVE Listed'
  <2>1. Kick(l) \/ AdoptId(l) \/ AdoptRest(l) \/ UNCHANGED sharedVars
    BY <1>8 DEF Handler, getSessionByUserIdAndClientType, DrainMsgs, DrainNotify, SkipSelf,
                getSessionsByUserId, Snapshot, Push, Store
  <2> HIDE DEF Listed
  <2> QED BY <1>4, <1>6, <1>7, <2>1
<1>9. ASSUME NEW l \in Loops, Flush(l) PROVE UNCHANGED sharedVars
  BY <1>9 DEF Flush
<1>10. CASE UNCHANGED vars
  BY <1>4, <1>10 DEF vars
<1> HIDE DEF Listed
<1> QED BY <1>4, <1>5, <1>8, <1>9, <1>10 DEF Next

\* The tasks of the other loops stay good.
LEMMA OthersGood ==
  ASSUME TypeOK, TypeOK', GoodTasks, NEW l, Only(l), sent' >= sent, GoodTask(task[l])' 
  PROVE  GoodTasks'
<1>1. ASSUME NEW k \in Loops, k # l PROVE GoodTask(task[k])'
  <2>1. task'[k] = task[k] /\ GoodTask(task[k]) /\ task[k] \in Tasks
    BY <1>1 DEF Only, GoodTasks, TypeOK
  <2>2. task[k].item.id \in Nat
    BY <2>1, ChatAssumption DEF Tasks, Items
  <2>3. task[k].item.id <= sent'
    BY <2>1, <2>2 DEF GoodTask, TypeOK
  <2> QED BY <2>1, <2>3 DEF GoodTask
<1> QED BY <1>1 DEF GoodTasks, Only

\* The handler that a step starts, continues or ends has what it works with.
LEMMA GoodClient ==
  ASSUME Base, TypeOK', NEW c \in Conns, Client(c)
  PROVE  GoodTasks'
<1>1. TypeOK /\ GoodTasks /\ GoodTask(Idle) /\ LoopOf[c] \in Loops
  BY GoodIdle, ChatAssumption DEF Base
<1>2. sent \in Nat /\ sent' \in Nat
  BY <1>1, ChatAssumption DEF TypeOK
<1> DEFINE l == LoopOf[c]
           r == task'[l]
<1>3. ASSUME NEW u \in Ids, NEW t \in Types, LoginAccepted(c, u, t) PROVE GoodTasks'
  <2>1. /\ Only(l) /\ r.pc = "search" /\ r.user = u /\ r.type = t
        /\ r.read = {} /\ NoFan(r)
    BY <1>1, <1>3, LoginAcceptedTask
  <2>2. sent' = sent
    BY <1>3 DEF LoginAccepted
  <2>3. GoodTask(task[l])'
    BY <1>2, <2>1, <2>2 DEF GoodTask, NoFan, NoItem, Logging, Fanning, Messages, StoresMsg, StoresNotify
  <2> QED BY <1>1, <1>2, <2>1, <2>2, <2>3, OthersGood
<1>4. CASE LoginRefused(c)
  <2>1. Only(l) /\ (r = Idle \/ (r.pc = "drain" /\ r.read = {} /\ NoFan(r)))
    BY <1>1, <1>4, LoginRefusedTask
  <2>2. sent' = sent
    BY <1>4 DEF LoginRefused
  <2>3. GoodTask(task[l])'
    BY <1>1, <1>2, <2>1, <2>2 DEF GoodTask, NoFan, NoItem, Logging, Fanning, Messages, StoresMsg,
                             StoresNotify, Idle
  <2> QED BY <1>1, <1>2, <2>1, <2>2, <2>3, OthersGood
<1>5. ASSUME NEW op \in Ops, NEW a \in Ids, Command(c, op, a) PROVE GoodTasks'
  <2>1. /\ Only(l) /\ sent' = sent + 1
        /\ \/ r = Idle
           \/ /\ r.pc = "fan" /\ r.conn = c /\ r.item.id = sent' /\ r.item.from = c
              /\ r.item.turn = 0 /\ r.read = {} /\ r.found = {}
    BY <1>1, <1>5, CommandTask
  <2>2. GoodTask(task[l])'
    BY <1>1, <1>2, <2>1 DEF GoodTask, NoFan, NoItem, Logging, Fanning, Messages, StoresMsg,
                             StoresNotify, Idle
  <2> QED BY <1>1, <1>2, <2>1, <2>2, OthersGood
<1>6. CASE Connected(c) \/ ForceClose(c) \/ Disconnected(c)
  BY <1>1, <1>6 DEF Connected, ForceClose, Disconnected, GoodTasks, GoodTask
<1> QED BY <1>3, <1>4, <1>5, <1>6 DEF Client

\* The steps of a handler.
LEMMA GoodHandler ==
  ASSUME Base, TypeOK', NEW l \in Loops, Handler(l)
  PROVE  GoodTasks'
<1>1. /\ TypeOK /\ GoodTasks /\ GoodTask(Idle) /\ task[l] \in Tasks /\ GoodTask(task[l])
      /\ task'[l] \in Tasks
  BY GoodIdle DEF Base, GoodTasks, TypeOK
<1>2. sent \in Nat /\ sent' = sent
  <2>1. sent \in Nat
    BY <1>1, ChatAssumption DEF TypeOK
  <2>2. sent' = sent
    BY DEF Handler, getSessionByUserIdAndClientType, Kick, AdoptId, AdoptRest, DrainMsgs,
           DrainNotify, SkipSelf, getSessionsByUserId, Snapshot, Push, Store
  <2> QED BY <2>1, <2>2
<1> DEFINE t == task[l]
           r == task'[l]
<1> USE DEF GoodTask, Logging, Fanning
<1>3. CASE Kick(l) \/ AdoptId(l) \/ AdoptRest(l) \/ DrainMsgs(l)
  <2>1. /\ Only(l) /\ r.user = t.user /\ r.type = t.type /\ r.clash = t.clash
        /\ r.item = t.item /\ r.members = t.members /\ r.pushTo = t.pushTo
        /\ r.read = t.read /\ r.found = t.found
        /\ t.pc \in {"kick", "adopt", "settle", "drain"}
        /\ r.pc \in {"adopt", "settle", "drain", "drainNotify"}
        /\ r.pc \in Logging => t.pc \in Logging
    BY <1>1, <1>3, StepTask
  <2>2. GoodTask(task[l])'
    BY <1>1, <1>2, <2>1 DEF NoFan
  <2> QED BY <1>1, <1>2, <2>1, <2>2, OthersGood
<1>4. CASE DrainNotify(l)
  <2>1. /\ Only(l)
        /\ \/ r = Idle
           \/ /\ r.pc = "fan" /\ r.item.kind = "online" /\ r.item.id = 0 /\ r.item.turn = 0
              /\ r.item.from = r.conn /\ r.read = {} /\ r.found = {}
    BY <1>1, <1>4, DrainNotifyTask
  <2>2. GoodTask(Idle)'
    BY <1>1, <1>2
  <2>3. GoodTask(task[l])'
    BY <1>1, <1>2, <2>1, <2>2 DEF Messages, StoresMsg, StoresNotify
  <2> QED BY <1>1, <1>2, <2>1, <2>3, OthersGood
<1>5. CASE SkipSelf(l) \/ Push(l)
  <2>1. /\ Only(l) /\ t.pc = "fan"
        /\ \/ r = Idle
           \/ /\ r.pc = "fan" /\ r.conn = t.conn /\ r.item = t.item
              /\ r.read = {} /\ r.found = {}
    <3>1. CASE SkipSelf(l)
      BY <1>1, <3>1, SkipSelfTask
    <3>2. CASE Push(l)
      BY <1>1, <3>2, PushTask
    <3> QED BY <1>5, <3>1, <3>2
  <2>2. GoodTask(task[l])'
    BY <1>1, <1>2, <2>1
  <2> QED BY <1>1, <1>2, <2>1, <2>2, OthersGood
<1>6. CASE Snapshot(l)
  <2>1. /\ Only(l) /\ t.pc = "fan" /\ Len(t.members) > 0
        /\ \/ r = Idle
           \/ /\ r.pc = "store" /\ r.conn = t.conn /\ r.pushTo = {} /\ t.item.kind \in Messages
              /\ r.target \in Ids /\ Len(r.members) < Len(t.members)
              /\ r.item = [t.item EXCEPT !.turn = Len(t.members)]
              /\ r.read = {} /\ r.found = {}
           \/ /\ r.pc = "fan" /\ r.conn = t.conn /\ r.item = t.item
              /\ r.read = {} /\ r.found = {}
    <3>1. t.read # {}
      BY <1>6 DEF Snapshot
    <3> QED BY <1>1, <1>6, <3>1, SnapshotTask
  <2>2. t.item \in Items /\ r.members \in Seq(Ids)
    BY <1>1 DEF Tasks
  <2>3. CASE r.pc = "store"
    <3>1. /\ r.item.turn = Len(t.members) /\ r.item.kind = t.item.kind
          /\ r.item.id = t.item.id /\ r.item.from = t.item.from
      BY <1>1, <2>1, <2>2, <2>3 DEF Items, Idle
    <3> QED BY <1>1, <1>2, <2>1, <2>2, <2>3, <3>1, OthersGood DEF Idle
  <2>4. CASE r.pc # "store"
    <3>1. GoodTask(task[l])'
      BY <1>1, <1>2, <2>1, <2>4
    <3> QED BY <1>1, <1>2, <2>1, <3>1, OthersGood
  <2> QED BY <2>3, <2>4
<1>7. CASE Store(l)
  <2>1. /\ Only(l) /\ t.pc = "store" /\ t.item \in Items
        /\ \/ r = Idle
           \/ /\ r.pc = "fan" /\ r.conn = t.conn /\ r.item = [t.item EXCEPT !.turn = 0]
              /\ r.read = {} /\ r.found = {}
    BY <1>1, <1>7, StoreTask
  <2>2. r # Idle => /\ r.item.turn = 0 /\ r.item.kind = t.item.kind
                    /\ r.item.id = t.item.id /\ r.item.from = t.item.from
    BY <2>1 DEF Items
  <2>3. GoodTask(task[l])'
    BY <1>1, <1>2, <2>1, <2>2
  <2> QED BY <1>1, <1>2, <2>1, <2>3, OthersGood
<1>8. CASE getSessionByUserIdAndClientType(l)
  <2> DEFINE c == First(Unread(l))
  <2>1. /\ Only(l) /\ t.pc = "search" /\ c \in Conns
        /\ r.user = t.user /\ r.type = t.type
        /\ r.item = t.item /\ r.members = t.members /\ r.pushTo = t.pushTo /\ r.found = t.found
        /\ \/ r.pc = "kick" /\ r.clash = c /\ r.read = {}
           \/ r.pc = "adopt" /\ r.read = {}
           \/ r.pc = "search"
    BY <1>1, <1>8, SearchTask
  <2> HIDE DEF c
  <2>2. GoodTask(task[l])'
    BY <1>1, <1>2, <2>1 DEF NoFan
  <2> QED BY <1>1, <1>2, <2>1, <2>2, OthersGood
<1>9. CASE getSessionsByUserId(l)
  <2> DEFINE c == First(Unread(l))
  <2>1. /\ Only(l) /\ t.pc = "fan" /\ r.pc = "fan" /\ r.conn = t.conn /\ r.pushTo = {}
        /\ r.item = t.item /\ r.members = t.members /\ r.read = t.read \cup {c}
        /\ Head(t.members) \in Ids
    BY <1>1, <1>9, LookTask
  <2> HIDE DEF c
  <2>2. r.read # {}
    BY <2>1
  <2>3. GoodTask(task[l])'
    BY <1>1, <1>2, <2>1, <2>2
  <2> HIDE DEF GoodTask
  <2>4. Only(l) /\ sent' >= sent
    BY <1>2, <2>1
  <2> QED BY <1>1, <2>3, <2>4, OthersGood
<1> QED BY <1>3, <1>4, <1>5, <1>6, <1>7, <1>8, <1>9 DEF Handler

\* Types, list and tasks are preserved together.
LEMMA BaseStep == Base /\ [Next]_vars => Base'
<1> SUFFICES ASSUME Base, [Next]_vars PROVE Base'
  OBVIOUS
<1>1. TypeOK' /\ Listed'
  BY TypeStep, ListedStep DEF Base
<1>2. GoodTasks'
  <2>1. CASE UNCHANGED vars
    BY <2>1 DEF vars, Base, GoodTasks, GoodTask
  <2>2. ASSUME NEW l \in Loops, Flush(l) PROVE GoodTasks'
    BY <2>2 DEF Flush, Base, GoodTasks, GoodTask
  <2> QED BY <1>1, <2>1, <2>2, GoodClient, GoodHandler DEF Next
<1> QED BY <1>1, <1>2 DEF Base

------------------------------------------------------------------------------
(* Who changes what: the task of a loop, and what a session knows. *)

\* The handler in the steps pcs, if any, is one of c.
Handling(c, pcs) == task[LoopOf[c]].pc \in pcs /\ task[LoopOf[c]].conn = c

\* The task of a loop is changed by that loop: a handler starts, or takes a step.
LEMMA LoopSteps ==
  ASSUME Base, [Next]_vars, NEW k \in Loops
  PROVE  \/ task'[k] = task[k]
         \/ /\ task[k] = Idle
            /\ task'[k].pc \in {"idle", "search", "drain", "fan"}
            /\ task'[k].read = {} /\ task'[k].found = {} /\ task'[k].pushTo = {}
         \/ Handler(k)
<1>1. TypeOK
  BY DEF Base
<1>2. ASSUME NEW c \in Conns, Client(c) PROVE \/ task'[k] = task[k]
         \/ /\ task[k] = Idle
            /\ task'[k].pc \in {"idle", "search", "drain", "fan"}
            /\ task'[k].read = {} /\ task'[k].found = {} /\ task'[k].pushTo = {}
  <2> DEFINE l == LoopOf[c]
  <2>1. ASSUME NEW u \in Ids, NEW t \in Types, LoginAccepted(c, u, t)
        PROVE  /\ Only(l) /\ task[l] = Idle /\ task'[l].pc = "search"
               /\ task'[l].read = {} /\ NoFan(task'[l])
    BY <1>1, <2>1, LoginAcceptedTask
  <2>2. ASSUME LoginRefused(c)
        PROVE  /\ Only(l) /\ task[l] = Idle
               /\ \/ task'[l] = Idle
                  \/ task'[l].pc = "drain" /\ task'[l].read = {} /\ NoFan(task'[l])
    BY <1>1, <2>2, LoginRefusedTask
  <2>3. ASSUME NEW op \in Ops, NEW a \in Ids, Command(c, op, a)
        PROVE  /\ Only(l) /\ task[l] = Idle
               /\ \/ task'[l] = Idle
                  \/ /\ task'[l].pc = "fan" /\ task'[l].pushTo = {}
                     /\ task'[l].read = {} /\ task'[l].found = {}
    BY <1>1, <2>3, CommandTask
  <2>4. ASSUME Connected(c) \/ ForceClose(c) \/ Disconnected(c) PROVE task'[k] = task[k]
    BY <2>4 DEF Connected, ForceClose, Disconnected
  <2>5. CASE k = l
    BY <1>2, <2>1, <2>2, <2>3, <2>4, <2>5 DEF Client, NoFan, Idle
  <2>6. CASE k # l
    BY <1>2, <2>1, <2>2, <2>3, <2>4, <2>6 DEF Client, Only
  <2> QED BY <2>5, <2>6
<1>3. ASSUME NEW l \in Loops, Handler(l), l # k PROVE task'[k] = task[k]
  <2>1. Only(l)
    BY <1>1, <1>3, SearchTask, StepTask, DrainNotifyTask, SkipSelfTask, LookTask, SnapshotTask,
       PushTask, StoreTask DEF Handler
  <2> QED BY <1>3, <2>1 DEF Only
<1>4. ASSUME NEW l \in Loops, Flush(l) PROVE task'[k] = task[k]
  BY <1>4 DEF Flush
<1>5. ASSUME UNCHANGED vars PROVE task'[k] = task[k]
  BY <1>5 DEF vars
<1> QED BY <1>2, <1>3, <1>4, <1>5 DEF Next

\* A step is one of a client, a flush, a stutter, or one of these handlers.
LEMMA HandlerSteps ==
  ASSUME Base, NEW l \in Loops, Handler(l)
  PROVE  /\ task[l] \in Tasks /\ GoodTask(task[l]) /\ Busy(l)
         /\ task[l].conn \in Conns /\ LoopOf[task[l].conn] = l /\ link[task[l].conn] = "up"
         /\ getSessionByUserIdAndClientType(l) => task[l].pc = "search"
         /\ Kick(l) => task[l].pc = "kick" /\ task[l].clash \in Conns
         /\ AdoptId(l) => task[l].pc = "adopt" /\ task[l].user \in Ids /\ task[l].type \in Types
         /\ AdoptRest(l) => task[l].pc = "settle"
         /\ DrainMsgs(l) => task[l].pc = "drain"
         /\ DrainNotify(l) => task[l].pc = "drainNotify"
         /\ SkipSelf(l) \/ getSessionsByUserId(l) \/ Snapshot(l) \/ Push(l) => task[l].pc = "fan"
         /\ Store(l) => task[l].pc = "store" /\ task[l].target \in Ids
<1>1. TypeOK /\ GoodTask(task[l])
  BY DEF Base, GoodTasks
<1>2. /\ getSessionByUserIdAndClientType(l) => task[l].pc = "search"
      /\ Kick(l) => task[l].pc = "kick"
      /\ AdoptId(l) => task[l].pc = "adopt"
      /\ AdoptRest(l) => task[l].pc = "settle"
      /\ DrainMsgs(l) => task[l].pc = "drain"
      /\ DrainNotify(l) => task[l].pc = "drainNotify"
      /\ SkipSelf(l) \/ getSessionsByUserId(l) \/ Snapshot(l) \/ Push(l) => task[l].pc = "fan"
      /\ Store(l) => task[l].pc = "store"
  BY DEF getSessionByUserIdAndClientType, Kick, AdoptId, AdoptRest, DrainMsgs, DrainNotify,
         SkipSelf, getSessionsByUserId, Snapshot, Push, Store
<1>3. task[l].pc # "idle"
  BY <1>2 DEF Handler
<1> QED BY <1>1, <1>2, <1>3, BusyIn DEF GoodTask, Logging

\* A session becomes that of another user by a kick, or by a login of its own.
LEMMA UidSteps ==
  ASSUME Base, [Next]_vars, NEW c \in Conns
  PROVE  \/ uid'[c] = uid[c]
         \/ uid'[c] = NoUser /\ c \in kicked' /\ \E l \in Loops : Kick(l) /\ task[l].clash = c
         \/ /\ AdoptId(LoopOf[c]) /\ task[LoopOf[c]].conn = c
            /\ uid'[c] = task[LoopOf[c]].user /\ uid'[c] \in Ids
<1>1. uid \in [Conns -> Ids \cup {NoUser}]
  BY DEF Base, TypeOK
<1>2. ASSUME NEW d \in Conns, Client(d) PROVE uid' = uid
  BY <1>2 DEF Client, Connected, ForceClose, Disconnected, LoginAccepted, LoginRefused, Command,
              sharedVars
<1>3. ASSUME NEW l \in Loops, Kick(l)
      PROVE  uid'[c] = uid[c] \/ (uid'[c] = NoUser /\ c \in kicked' /\ task[l].clash = c)
  BY <1>1, <1>3 DEF Kick
<1>4. ASSUME NEW l \in Loops, AdoptId(l)
      PROVE  \/ uid'[c] = uid[c]
             \/ /\ l = LoopOf[c] /\ task[LoopOf[c]].conn = c
                /\ uid'[c] = task[LoopOf[c]].user /\ uid'[c] \in Ids
  <2>1. uid' = [uid EXCEPT ![task[l].conn] = task[l].user]
    BY <1>4 DEF AdoptId
  <2>2. task[l].user \in Ids /\ LoopOf[task[l].conn] = l
    BY <1>4, HandlerSteps DEF Handler
  <2> QED BY <1>1, <2>1, <2>2
<1>5. ASSUME NEW l \in Loops, Handler(l) \/ Flush(l) PROVE Kick(l) \/ AdoptId(l) \/ uid' = uid
  BY <1>5 DEF Handler, getSessionByUserIdAndClientType, AdoptRest, DrainMsgs, DrainNotify,
              SkipSelf, getSessionsByUserId, Snapshot, Push, Store, Flush, sharedVars
<1>6. UNCHANGED vars => uid' = uid
  BY DEF vars, sharedVars
<1> QED BY <1>2, <1>3, <1>4, <1>5, <1>6 DEF Next

\* A session is logged in, and gets its client type, by its own login.
LEMMA LoginSteps ==
  ASSUME Base, [Next]_vars, NEW c \in Conns
  PROVE  \/ isLogin'[c] = isLogin[c] /\ ctype'[c] = ctype[c]
         \/ isLogin'[c] = isLogin[c] /\ Connected(c)
         \/ /\ AdoptRest(LoopOf[c]) /\ task[LoopOf[c]].conn = c
            /\ isLogin'[c] = TRUE /\ ctype'[c] = task[LoopOf[c]].type
<1>1. isLogin \in [Conns -> BOOLEAN] /\ ctype \in [Conns -> Types \cup {NoType}]
  BY DEF Base, TypeOK
<1>2. ASSUME NEW d \in Conns, Client(d) PROVE isLogin' = isLogin /\ (ctype' = ctype \/ Connected(d))
  BY <1>2 DEF Client, ForceClose, Connected, Disconnected, LoginAccepted, LoginRefused, Command,
              sharedVars
<1>3. ASSUME NEW d \in Conns, Connected(d) PROVE ctype'[c] = ctype[c] \/ c = d
  BY <1>1, <1>3 DEF Connected
<1>4. ASSUME NEW l \in Loops, AdoptRest(l)
      PROVE  \/ isLogin'[c] = isLogin[c] /\ ctype'[c] = ctype[c]
             \/ /\ l = LoopOf[c] /\ task[LoopOf[c]].conn = c
                /\ isLogin'[c] = TRUE /\ ctype'[c] = task[LoopOf[c]].type
  <2>1. /\ isLogin' = [isLogin EXCEPT ![task[l].conn] = TRUE]
        /\ ctype' = [ctype EXCEPT ![task[l].conn] = task[l].type]
    BY <1>4 DEF AdoptRest
  <2>2. LoopOf[task[l].conn] = l
    BY <1>4, HandlerSteps DEF Handler
  <2> QED BY <1>1, <2>1, <2>2
<1>5. ASSUME NEW l \in Loops, Handler(l) \/ Flush(l)
      PROVE  AdoptRest(l) \/ (isLogin' = isLogin /\ ctype' = ctype)
  BY <1>5 DEF Handler, getSessionByUserIdAndClientType, Kick, AdoptId, DrainMsgs, DrainNotify,
              SkipSelf, getSessionsByUserId, Snapshot, Push, Store, Flush, sharedVars
<1>6. UNCHANGED vars => isLogin' = isLogin /\ ctype' = ctype
  BY DEF vars, sharedVars
<1> QED BY <1>2, <1>3, <1>4, <1>5, <1>6 DEF Next

\* The list of sessions, the connections, and what history remembers.
LEMMA ListSteps ==
  ASSUME Base, [Next]_vars
  PROVE  /\ kicked \subseteq kicked' /\ overlap \subseteq overlap' /\ raced \subseteq raced'
         /\ \A c \in Conns : /\ link[c] # "new" => link'[c] # "new"
                             /\ link[c] # "new" /\ link'[c] = "up" => link[c] = "up"
                             /\ c \in sessions' => c \in sessions \/ uid[c] = NoUser
<1>1. ASSUME NEW d \in Conns, Connected(d)
      PROVE  /\ UNCHANGED history /\ link[d] = "new" /\ link' = [link EXCEPT ![d] = "up"]
             /\ sessions' = sessions \cup {d}
  BY <1>1 DEF Connected
<1>2. ASSUME NEW d \in Conns, ForceClose(d)
      PROVE  /\ UNCHANGED history /\ link[d] = "up" /\ link' = [link EXCEPT ![d] = "closing"]
             /\ sessions' = sessions
  BY <1>2 DEF ForceClose
<1>3. ASSUME NEW d \in Conns, Disconnected(d)
      PROVE  /\ UNCHANGED history /\ link[d] # "new" /\ link' = [link EXCEPT ![d] = "down"]
             /\ sessions' = sessions \ {d}
  BY <1>3 DEF Disconnected
<1>4. ASSUME NEW d \in Conns, Client(d)
      PROVE  \/ Connected(d) \/ ForceClose(d) \/ Disconnected(d)
             \/ UNCHANGED <<link, sessions, kicked, raced>> /\ overlap \subseteq overlap'
  <2>1. ASSUME NEW u \in Ids, NEW t \in Types, LoginAccepted(d, u, t)
        PROVE  UNCHANGED <<link, sessions, kicked, raced>> /\ overlap \subseteq overlap'
    BY <2>1 DEF LoginAccepted, sharedVars
  <2>2. ASSUME LoginRefused(d)
        PROVE  UNCHANGED <<link, sessions, kicked, raced>> /\ overlap \subseteq overlap'
    BY <2>2 DEF LoginRefused, sharedVars, history
  <2>3. ASSUME NEW op \in Ops, NEW a \in Ids, Command(d, op, a)
        PROVE  UNCHANGED <<link, sessions, kicked, raced>> /\ overlap \subseteq overlap'
    BY <2>3 DEF Command, sharedVars, history
  <2> QED BY <1>4, <2>1, <2>2, <2>3 DEF Client
<1>5. ASSUME NEW l \in Loops, Handler(l) \/ Flush(l)
      PROVE  /\ UNCHANGED <<link, sessions>>
             /\ kicked \subseteq kicked' /\ overlap \subseteq overlap' /\ raced \subseteq raced'
  <2>1. CASE Kick(l)
    BY <2>1 DEF Kick
  <2>2. CASE AdoptId(l)
    BY <2>2 DEF AdoptId
  <2>3. CASE Snapshot(l)
    BY <2>3 DEF Snapshot, sharedVars
  <2>4. CASE \/ getSessionByUserIdAndClientType(l) \/ AdoptRest(l) \/ DrainMsgs(l)
             \/ DrainNotify(l) \/ SkipSelf(l) \/ getSessionsByUserId(l) \/ Push(l) \/ Store(l)
             \/ Flush(l)
    BY <2>4 DEF getSessionByUserIdAndClientType, AdoptRest, DrainMsgs, DrainNotify, SkipSelf,
                getSessionsByUserId, Push, Store, Flush, sharedVars, history
  <2> QED BY <1>5, <2>1, <2>2, <2>3, <2>4 DEF Handler
<1>6. UNCHANGED vars => UNCHANGED <<link, sessions, history>>
  BY DEF vars, sharedVars
<1>7. /\ link \in [Conns -> {"new", "up", "closing", "down"}]
      /\ \A c \in Conns : link[c] = "new" => uid[c] = NoUser
  BY DEF Base, TypeOK, Listed
<1>8. CASE UNCHANGED history /\ \E d \in Conns :
             \/ link[d] = "new" /\ link' = [link EXCEPT ![d] = "up"] /\ sessions' = sessions \cup {d}
             \/ link[d] = "up" /\ link' = [link EXCEPT ![d] = "closing"] /\ sessions' = sessions
             \/ link' = [link EXCEPT ![d] = "down"] /\ sessions' = sessions \ {d}
  BY <1>7, <1>8 DEF history
<1>9. CASE /\ UNCHANGED <<link, sessions>>
           /\ kicked \subseteq kicked' /\ overlap \subseteq overlap' /\ raced \subseteq raced'
  BY <1>9
<1> QED BY <1>1, <1>2, <1>3, <1>4, <1>5, <1>6, <1>8, <1>9 DEF Next, history

------------------------------------------------------------------------------
(* A session that is logged in has a user, or was kicked. *)

LoginInv == \A c \in Conns : isLogin[c] \/ Handling(c, {"settle"}) => Vaild(c) \/ c \in kicked

\* A login is settling after its session has taken the user, and until it is answered.
LEMMA SettleSteps ==
  ASSUME Base, [Next]_vars, NEW c \in Conns
  PROVE  /\ Handling(c, {"settle"})' => \/ Handling(c, {"settle"})
                                        \/ AdoptId(LoopOf[c]) /\ task[LoopOf[c]].conn = c
         /\ Handling(c, {"settle"}) => \/ Handling(c, {"settle"})'
                                       \/ AdoptRest(LoopOf[c]) /\ task[LoopOf[c]].conn = c
<1> DEFINE l == LoopOf[c]
<1>1. TypeOK /\ l \in Loops
  BY ChatAssumption DEF Base
<1>2. CASE task'[l] = task[l]
  BY <1>2 DEF Handling
<1>3. CASE task[l] = Idle /\ task'[l].pc \in {"idle", "search", "drain", "fan"}
  BY <1>3 DEF Handling, Idle
<1>4. CASE Handler(l)
  <2>1. CASE Kick(l) \/ AdoptId(l) \/ AdoptRest(l) \/ DrainMsgs(l)
    BY <1>1, <2>1, StepTask DEF Handling
  <2>2. CASE DrainNotify(l) \/ SkipSelf(l) \/ Snapshot(l) \/ Push(l) \/ Store(l)
    <3>1. task'[l] = Idle \/ task'[l].pc \in {"fan", "store"}
      <4>1. CASE DrainNotify(l)
        BY <1>1, <4>1, DrainNotifyTask
      <4>2. CASE SkipSelf(l)
        BY <1>1, <4>2, SkipSelfTask
      <4>3. CASE Snapshot(l)
        BY <1>1, <4>3, SnapshotTask
      <4>4. CASE Push(l) \/ Store(l)
        BY <1>1, <4>4, PushTask, StoreTask
      <4> QED BY <2>2, <4>1, <4>2, <4>3, <4>4
    <3>2. task[l].pc # "settle"
      BY <1>1, <2>2, DrainNotifyTask, SkipSelfTask, SnapshotTask, PushTask, StoreTask
    <3> QED BY <3>1, <3>2 DEF Handling, Idle
  <2>3. CASE getSessionByUserIdAndClientType(l)
    BY <1>1, <2>3, SearchTask DEF Handling
  <2>4. CASE getSessionsByUserId(l)
    BY <1>1, <2>4, LookTask DEF Handling
  <2> QED BY <1>4, <2>1, <2>2, <2>3, <2>4 DEF Handler
<1> QED BY <1>1, <1>2, <1>3, <1>4, LoopSteps

\* A session loses its user by a kick only.
LEMMA LoginInvStep == ASSUME Base, LoginInv, [Next]_vars PROVE LoginInv'
<1> SUFFICES ASSUME NEW c \in Conns, isLogin'[c] \/ Handling(c, {"settle"})'
             PROVE  Vaild(c)' \/ c \in kicked'
  BY DEF LoginInv
<1>1. kicked \subseteq kicked' /\ NoUser \notin Ids
  BY ListSteps, ChatAssumption
<1>2. CASE isLogin[c] \/ Handling(c, {"settle"})
  <2>1. Vaild(c) \/ c \in kicked
    BY <1>2 DEF LoginInv
  <2> QED BY <1>1, <2>1, UidSteps DEF Vaild
<1>3. CASE AdoptId(LoopOf[c]) /\ task[LoopOf[c]].conn = c
  <2>1. LoopOf[c] \in Loops /\ uid \in [Conns -> Ids \cup {NoUser}]
    BY ChatAssumption DEF Base, TypeOK
  <2>2. uid'[c] = task[LoopOf[c]].user /\ task[LoopOf[c]].user \in Ids
    BY <1>3, <2>1, HandlerSteps DEF AdoptId, Handler
  <2> QED BY <1>1, <2>2 DEF Vaild
<1>4. CASE AdoptRest(LoopOf[c]) /\ task[LoopOf[c]].conn = c
  BY <1>2, <1>4 DEF AdoptRest, Handling
<1> QED BY <1>2, <1>3, <1>4, LoginSteps, SettleSteps

------------------------------------------------------------------------------
(* What was found valid is valid, or was kicked since. *)

PushInv == \A l \in Loops : \A c \in task[l].found \cup task[l].pushTo : Vaild(c) \/ c \in kicked

\* A snapshot empties or goes down by one, and is taken of what was found.
LEMMA PushToSteps ==
  ASSUME Base, [Next]_vars, NEW l \in Loops
  PROVE  \/ task'[l].pushTo \subseteq {}
         \/ task'[l].pushTo = task[l].pushTo /\ task'[l].item = task[l].item
         \/ /\ Push(l) /\ task'[l].pushTo = task[l].pushTo \ {First(task[l].pushTo)}
            /\ task'[l].item = task[l].item
         \/ /\ Snapshot(l) /\ task'[l].pushTo = task[l].found
            /\ task'[l].item = task[l].item /\ task[l].pushTo = {}
<1>1. TypeOK
  BY DEF Base
<1>2. CASE task'[l] = task[l] \/ task'[l].pushTo = {}
  BY <1>2
<1>3. CASE Handler(l)
  <2>1. CASE Kick(l) \/ AdoptId(l) \/ AdoptRest(l) \/ DrainMsgs(l)
    BY <1>1, <2>1, StepTask
  <2>2. CASE DrainNotify(l)
    BY <1>1, <2>2, DrainNotifyTask DEF Idle
  <2>3. CASE SkipSelf(l)
    BY <1>1, <2>3, SkipSelfTask DEF Idle
  <2>4. CASE Snapshot(l)
    <3>1. task[l].pushTo = {}
      BY <2>4 DEF Snapshot, Base, GoodTasks, GoodTask
    <3>2. \/ task'[l] = Idle
          \/ task'[l].pushTo = {}
          \/ task'[l].pushTo = task[l].found /\ task'[l].item = task[l].item
      BY <1>1, <2>4, <3>1, SnapshotTask
    <3> QED BY <2>4, <3>1, <3>2 DEF Idle
  <2>5. CASE Push(l)
    BY <1>1, <2>5, PushTask DEF Idle
  <2>6. CASE Store(l)
    <3>1. task[l].pushTo = {}
      BY <2>6, HandlerSteps DEF Handler, GoodTask
    <3>2. task'[l] = Idle \/ task'[l].pushTo = task[l].pushTo
      BY <1>1, <2>6, StoreTask
    <3>3. task'[l].pushTo = {}
      BY <3>1, <3>2 DEF Idle
    <3> QED BY <3>3
  <2>7. CASE getSessionByUserIdAndClientType(l) \/ getSessionsByUserId(l)
    BY <1>1, <2>7, SearchTask, LookTask
  <2> QED BY <1>3, <2>1, <2>2, <2>3, <2>4, <2>5, <2>6, <2>7 DEF Handler
<1> QED BY <1>2, <1>3, LoopSteps

\* What a handler is finding is forgotten, or stays, or is one session more, that belongs
\* to the user looked for.
LEMMA FoundSteps ==
  ASSUME Base, [Next]_vars, NEW l \in Loops
  PROVE  \/ task'[l].found \subseteq {}
         \/ task'[l].found = task[l].found /\ task'[l].item = task[l].item
         \/ /\ getSessionsByUserId(l) /\ First(Unread(l)) \in sessions
            /\ Belongs(First(Unread(l)), Head(task[l].members))
            /\ task'[l].found = task[l].found \cup {First(Unread(l))}
            /\ task'[l].item = task[l].item
<1>1. TypeOK
  BY DEF Base
<1>2. CASE task'[l] = task[l] \/ task'[l].found = {}
  BY <1>2
<1>3. CASE Handler(l)
  <2>1. CASE Kick(l) \/ AdoptId(l) \/ AdoptRest(l) \/ DrainMsgs(l)
    BY <1>1, <2>1, StepTask
  <2>2. CASE DrainNotify(l)
    BY <1>1, <2>2, DrainNotifyTask DEF Idle
  <2>3. CASE SkipSelf(l)
    BY <1>1, <2>3, SkipSelfTask DEF Idle
  <2>4. CASE Snapshot(l)
    <3>1. task'[l] = Idle \/ (task'[l].read = {} /\ task'[l].found = {})
      BY <1>1, <2>4, SnapshotTask
    <3> QED BY <3>1 DEF Idle
  <2>5. CASE Push(l)
    BY <1>1, <2>5, PushTask DEF Idle
  <2>6. CASE Store(l)
    <3>1. task[l].found = {}
      BY <2>6, HandlerSteps DEF Handler, GoodTask
    <3>2. task'[l] = Idle \/ task'[l].found = task[l].found
      BY <1>1, <2>6, StoreTask
    <3>3. task'[l].found = {}
      BY <3>1, <3>2 DEF Idle
    <3> QED BY <3>3
  <2>7. CASE getSessionByUserIdAndClientType(l)
    BY <1>1, <2>7, SearchTask
  <2>8. CASE getSessionsByUserId(l)
    BY <1>1, <2>8, LookTask
  <2> QED BY <1>3, <2>1, <2>2, <2>3, <2>4, <2>5, <2>6, <2>7, <2>8 DEF Handler
<1> QED BY <1>2, <1>3, LoopSteps

\* What is found is valid, and a session loses its user by a kick only.
LEMMA PushInvStep == ASSUME Base, PushInv, [Next]_vars PROVE PushInv'
<1> SUFFICES ASSUME NEW l \in Loops, NEW c \in task'[l].found \cup task'[l].pushTo
             PROVE  Vaild(c)' \/ c \in kicked'
  BY DEF PushInv
<1>1. kicked \subseteq kicked' /\ NoUser \notin Ids
  BY ListSteps, ChatAssumption
<1>2. c \in Conns /\ (Vaild(c) \/ c \in kicked)
  <2>1. /\ sessions \subseteq Conns
        /\ \A k \in Loops : task[k].found \subseteq Conns /\ task[k].pushTo \subseteq Conns
    BY DEF Base, TypeOK, Tasks
  <2>2. c \in task[l].found \cup task[l].pushTo \/ (c \in sessions /\ Vaild(c))
    BY PushToSteps, FoundSteps DEF Belongs
  <2> QED BY <2>1, <2>2 DEF PushInv
<1> QED BY <1>1, <1>2, UidSteps DEF Vaild

------------------------------------------------------------------------------
(* What is written to a client. *)

\* Somebody may write to the client of c.
Writable(c) == \/ Vaild(c) \/ isLogin[c] \/ pending[c] # <<>>
               \/ \E l \in Loops : \/ c \in task[l].pushTo
                                   \/ c \in task[l].found
                                   \/ task[l].pc = "kick" /\ task[l].clash = c

\* The loop l sends m to c.
Sent(l, c, m) == /\ m \in Items /\ link[c] = "up" /\ Writable(c) /\ task[l].pc # "settle"
                 /\ \/ Written(c, m) /\ LoopOf[c] = l
                    \/ Handed(c, m) /\ LoopOf[c] # l

\* What was handed to the loop of c is written, unless c is down.
Flushed(c) == /\ ~Busy(LoopOf[c]) /\ pending'[c] = <<>>
              /\ wire'[c] = IF link[c] # "down" THEN wire[c] \o pending[c] ELSE wire[c]

\* What waited for the user of c is written.
Drained(c) == LET l == LoopOf[c]
                  u == uid[c]
              IN  /\ task[l].conn = c /\ u \in Ids /\ pending'[c] = pending[c]
                  /\ \/ DrainMsgs(l) /\ wire'[c] = wire[c] \o cacheMsg[u]
                     \/ DrainNotify(l) /\ wire'[c] = wire[c] \o cacheNotify[u]

WireStep(c) ==
  \/ Untouched(c)
  \/ Written(c, Note("refused")) \/ (Written(c, Note("login")) /\ Handling(c, {"settle"}))
  \/ \E l \in Loops : \E m \in Items : Sent(l, c, m) /\ m.id = 0 /\ m.turn = 0
  \/ \E l \in Loops : /\ Push(l) /\ c = First(task[l].pushTo) /\ Sent(l, c, task[l].item)
  \/ Flushed(c)
  \/ Drained(c)

\* What is written and handed over in any step.
LEMMA WireSteps == ASSUME Base, [Next]_vars, NEW c \in Conns PROVE WireStep(c)
<1>1. /\ TypeOK /\ NoUser \notin Ids
      /\ wire \in [Conns -> Seq(Items)] /\ pending \in [Conns -> Seq(Items)]
  BY ChatAssumption DEF Base, TypeOK
<1>2. CASE UNCHANGED <<wire, pending>>
  BY <1>2 DEF WireStep, Untouched
<1>3. ASSUME NEW d \in Conns, Disconnected(d) PROVE WireStep(c)
  <2>1. /\ OfflineNote(d) \in Items /\ OfflineNote(d).id = 0 /\ OfflineNote(d).turn = 0
        /\ SendAll(LoopOf[d], Told(d), OfflineNote(d))
    BY <1>1, <1>3, DisconnectedSends
  <2>2. ASSUME c \in Told(d) PROVE Writable(c)
    <3>1. ASSUME NEW u \in Ids, NEW S, S = {e \in sessions : uid[e] = u}, S # {}
          PROVE  Vaild(First(S))
      <4>1. S \in SUBSET Conns /\ arrival \in [Conns -> Nat]
        BY <1>1, <3>1 DEF TypeOK
      <4>2. First(S) \in S
        BY <3>1, <4>1, FirstIn
      <4> QED BY <1>1, <3>1, <4>2 DEF Vaild
    <3>2. \A u : ToSet(FriendsOf(u)) \subseteq Ids
      BY FriendsType, SetOfSeq
    <3> QED BY <2>2, <3>1, <3>2 DEF Told, FirstSessions, Writable
  <2>3. LoopOf[d] \in Loops /\ task[LoopOf[d]].pc # "settle"
    BY <1>3, ChatAssumption DEF Disconnected, Busy, Idle
  <2>4. \/ Untouched(c) /\ (c \notin Told(d) \/ link[c] # "up")
        \/ Written(c, OfflineNote(d)) /\ c \in Told(d) /\ link[c] = "up" /\ LoopOf[c] = LoopOf[d]
        \/ Handed(c, OfflineNote(d)) /\ c \in Told(d) /\ link[c] = "up" /\ LoopOf[c] # LoopOf[d]
    BY <1>1, <2>1, SendFacts
  <2> QED BY <2>1, <2>2, <2>3, <2>4 DEF WireStep, Sent
<1>4. ASSUME NEW d \in Conns, LoginRefused(d) PROVE WireStep(c)
  <2>1. wire' = [wire EXCEPT ![d] = Append(@, Note("refused"))] /\ UNCHANGED pending
    BY <1>4 DEF LoginRefused
  <2> QED BY <1>1, <2>1 DEF WireStep, Untouched, Written
<1>5. ASSUME NEW d \in Conns, Client(d) PROVE WireStep(c)
  <2>1. Disconnected(d) \/ LoginRefused(d) \/ UNCHANGED <<wire, pending>>
    BY <1>5 DEF Client, Connected, ForceClose, LoginAccepted, Command
  <2> QED BY <1>2, <1>3, <1>4, <2>1
<1>6. ASSUME NEW l \in Loops, Kick(l) PROVE WireStep(c)
  <2>1. /\ Note("kick") \in Items /\ Note("kick").id = 0 /\ Note("kick").turn = 0
        /\ SendAll(l, {task[l].clash}, Note("kick")) /\ task[l].pc = "kick"
    BY <1>1, <1>6, KickSends DEF Kick
  <2>2. c \in {task[l].clash} => Writable(c)
    BY <2>1 DEF Writable
  <2>3. \/ Untouched(c) /\ (c \notin {task[l].clash} \/ link[c] # "up")
        \/ Written(c, Note("kick")) /\ c \in {task[l].clash} /\ link[c] = "up" /\ LoopOf[c] = l
        \/ Handed(c, Note("kick")) /\ c \in {task[l].clash} /\ link[c] = "up" /\ LoopOf[c] # l
    BY <1>1, <2>1, SendFacts
  <2> QED BY <2>1, <2>2, <2>3 DEF WireStep, Sent
<1>7. ASSUME NEW l \in Loops, AdoptRest(l) PROVE WireStep(c)
  <2>1. /\ wire' = [wire EXCEPT ![task[l].conn] = Append(@, Note("login"))] /\ UNCHANGED pending
        /\ task[l].pc = "settle"
    BY <1>7 DEF AdoptRest
  <2>2. LoopOf[task[l].conn] = l
    BY <1>7, HandlerSteps DEF Handler
  <2> QED BY <1>1, <2>1, <2>2 DEF WireStep, Untouched, Written, Handling
<1>8. ASSUME NEW l \in Loops, DrainMsgs(l) PROVE WireStep(c)
  <2> DEFINE d == task[l].conn
  <2>1. LoopOf[d] = l
    BY <1>8, HandlerSteps DEF Handler
  <2>2. CASE uid[d] \in Ids
    <3>1. wire' = [wire EXCEPT ![d] = @ \o cacheMsg[uid[d]]] /\ UNCHANGED pending
      BY <1>8, <2>2 DEF DrainMsgs
    <3>2. CASE c = d
      BY <1>1, <1>8, <2>1, <2>2, <3>1, <3>2 DEF WireStep, Drained
    <3>3. CASE c # d
      BY <1>1, <3>1, <3>3 DEF WireStep, Untouched
    <3> QED BY <3>2, <3>3
  <2>3. CASE uid[d] \notin Ids
    BY <1>2, <1>8, <2>3 DEF DrainMsgs
  <2> QED BY <2>2, <2>3
<1>9. ASSUME NEW l \in Loops, DrainNotify(l) PROVE WireStep(c)
  <2> DEFINE d == task[l].conn
  <2>1. LoopOf[d] = l
    BY <1>9, HandlerSteps DEF Handler
  <2>2. CASE uid[d] \in Ids
    <3>1. wire' = [wire EXCEPT ![d] = @ \o cacheNotify[uid[d]]] /\ UNCHANGED pending
      BY <1>9, <2>2 DEF DrainNotify
    <3>2. CASE c = d
      BY <1>1, <1>9, <2>1, <2>2, <3>1, <3>2 DEF WireStep, Drained
    <3>3. CASE c # d
      BY <1>1, <3>1, <3>3 DEF WireStep, Untouched
    <3> QED BY <3>2, <3>3
  <2>3. CASE uid[d] \notin Ids
    BY <1>2, <1>9, <2>3 DEF DrainNotify
  <2> QED BY <2>2, <2>3
<1>10. ASSUME NEW l \in Loops, Push(l) PROVE WireStep(c)
  <2> DEFINE d == First(task[l].pushTo)
             m == task[l].item
  <2>1. d \in task[l].pushTo /\ task[l].pc = "fan" /\ m \in Items
    BY <1>1, <1>10, PushTask DEF TypeOK, Tasks
  <2>2. UNCHANGED <<wire, pending>> \/ SendAll(l, {d}, m)
    BY <1>10 DEF Push, Send
  <2>3. CASE SendAll(l, {d}, m)
    <3>1. \/ Untouched(c) /\ (c \notin {d} \/ link[c] # "up")
          \/ Written(c, m) /\ c \in {d} /\ link[c] = "up" /\ LoopOf[c] = l
          \/ Handed(c, m) /\ c \in {d} /\ link[c] = "up" /\ LoopOf[c] # l
      BY <1>1, <2>1, <2>3, SendFacts
    <3>2. c \in {d} => Writable(c)
      BY <2>1 DEF Writable
    <3> QED BY <1>10, <2>1, <3>1, <3>2 DEF WireStep, Sent
  <2> QED BY <1>2, <2>2, <2>3
<1>11. ASSUME NEW l \in Loops, Handler(l) PROVE WireStep(c)
  <2>1. \/ Kick(l) \/ AdoptRest(l) \/ DrainMsgs(l) \/ DrainNotify(l) \/ Push(l)
        \/ UNCHANGED <<wire, pending>>
    BY <1>11 DEF Handler, getSessionByUserIdAndClientType, AdoptId, SkipSelf, getSessionsByUserId,
                 Snapshot, Store
  <2> QED BY <1>2, <1>6, <1>7, <1>8, <1>9, <1>10, <2>1
<1>12. ASSUME NEW l \in Loops, Flush(l) PROVE WireStep(c)
  <2>1. /\ ~Busy(l)
        /\ pending'[c] = IF LoopOf[c] = l THEN <<>> ELSE pending[c]
        /\ wire'[c] = IF LoopOf[c] = l /\ link[c] # "down" THEN wire[c] \o pending[c] ELSE wire[c]
    BY <1>1, <1>12 DEF Flush
  <2> QED BY <2>1 DEF WireStep, Untouched, Flushed
<1>13. CASE UNCHANGED vars
  BY <1>2, <1>13 DEF vars
<1> QED BY <1>5, <1>11, <1>12, <1>13 DEF Next

\* What is written stays written, in its place.
Grows(c) == /\ Len(wire'[c]) \in Nat /\ Len(wire[c]) \in Nat /\ Len(wire[c]) <= Len(wire'[c])
            /\ \A i \in 1..Len(wire[c]) : wire'[c][i] = wire[c][i]

\* A wire only grows.
LEMMA WireGrows == ASSUME Base, [Next]_vars, NEW c \in Conns PROVE Grows(c)
<1>1. TypeOK /\ wire[c] \in Seq(Items) /\ pending[c] \in Seq(Items) /\ WireStep(c)
  BY WireSteps DEF Base, TypeOK
<1>2. CASE wire'[c] = wire[c]
  BY <1>1, <1>2 DEF Grows
<1>3. ASSUME NEW s \in Seq(Items), wire'[c] = wire[c] \o s PROVE Grows(c)
  BY <1>1, <1>3, ConcatSet DEF Grows
<1>4. ASSUME NEW m \in Items, wire'[c] = Append(wire[c], m) PROVE Grows(c)
  BY <1>1, <1>4 DEF Grows
<1>5. Note("refused") \in Items /\ Note("login") \in Items
  BY ItemTypes DEF Kinds
<1>6. \A l \in Loops : task[l].item \in Items
  BY <1>1 DEF TypeOK, Tasks
<1>7. CASE Drained(c)
  <2>1. cacheMsg[uid[c]] \in Seq(Items) /\ cacheNotify[uid[c]] \in Seq(Items)
    BY <1>1, <1>7 DEF Drained, TypeOK
  <2> QED BY <1>3, <1>7, <2>1 DEF Drained
<1>8. CASE Flushed(c)
  BY <1>1, <1>2, <1>3, <1>8 DEF Flushed
<1> QED BY <1>1, <1>2, <1>4, <1>5, <1>6, <1>7, <1>8 DEF WireStep, Untouched, Written, Handed, Sent

------------------------------------------------------------------------------
(* A client reads the answer to its login first. *)

HasLogin(c) == \E i \in 1..Len(wire[c]) : wire[c][i].kind = "login"

AnswerInv == \A c \in Conns : Writable(c) => HasLogin(c) \/ Handling(c, {"settle"})

\* Of what is new to a client, this may come before the answer to its login.
LEMMA NewsAfterLogin ==
  ASSUME Base, AnswerInv, [Next]_vars, NEW c \in Conns, NEW i \in 1..Len(wire'[c]),
         i \notin 1..Len(wire[c])
  PROVE  wire'[c][i].kind = "refused" \/ wire'[c][i].kind = "login" \/ HasLogin(c)
<1>1. TypeOK /\ wire[c] \in Seq(Items) /\ pending[c] \in Seq(Items) /\ WireStep(c)
  BY WireSteps DEF Base, TypeOK
<1>2. ASSUME NEW m \in Items, wire'[c] = Append(wire[c], m) PROVE wire'[c][i] = m
  BY <1>1, <1>2
<1>3. wire'[c] # wire[c]
  OBVIOUS
<1>4. Note("refused") \in Items /\ Note("login") \in Items
      /\ Note("refused").kind = "refused" /\ Note("login").kind = "login"
  BY ItemTypes DEF Kinds
<1>5. CASE Written(c, Note("refused")) \/ Written(c, Note("login"))
  BY <1>2, <1>4, <1>5 DEF Written
<1>6. ASSUME NEW l \in Loops, NEW m \in Items, Sent(l, c, m) PROVE HasLogin(c)
  BY <1>3, <1>6 DEF Sent, Handed, AnswerInv, Handling
<1>7. CASE Flushed(c)
  <2>1. pending[c] # <<>>
    <3>1. SUFFICES ASSUME pending[c] = <<>> PROVE FALSE
      OBVIOUS
    <3>2. Len(pending[c]) = 0
      BY <3>1
    <3>3. Len(wire'[c]) = Len(wire[c]) + Len(pending[c])
      <4>1. Len(wire[c] \o pending[c]) = Len(wire[c]) + Len(pending[c])
        BY <1>1, ConcatSet
      <4>2. wire'[c] = wire[c] \o pending[c]
        BY <1>3, <1>7 DEF Flushed
      <4> QED BY <4>1, <4>2
    <3>4. Len(wire[c]) \in Nat
      BY <1>1
    <3> QED BY <3>2, <3>3, <3>4
  <2>2. ~Handling(c, {"settle"})
    BY <1>7 DEF Flushed, Busy, Idle, Handling
  <2> QED BY <2>1, <2>2 DEF AnswerInv, Writable
<1>8. CASE Drained(c)
  <2>1. Vaild(c)
    BY <1>8, ChatAssumption DEF Drained, Vaild
  <2>2. ~Handling(c, {"settle"})
    BY <1>8 DEF Drained, DrainMsgs, DrainNotify, Handling
  <2> QED BY <2>1, <2>2 DEF AnswerInv, Writable
<1>9. \A l \in Loops : task[l].item \in Items
  BY <1>1 DEF TypeOK, Tasks
<1> QED BY <1>1, <1>3, <1>5, <1>6, <1>7, <1>8, <1>9 DEF WireStep, Untouched

\* Nothing is written to a client before the answer to its login.
LEMMA LoginFirstStep ==
  ASSUME Base, AnswerInv, LoginAnsweredFirst, [Next]_vars
  PROVE  LoginAnsweredFirst'
<1> SUFFICES ASSUME NEW c \in Conns, NEW i \in 1..Len(wire'[c]), wire'[c][i].kind # "refused"
             PROVE  \E j \in 1..i : wire'[c][j].kind = "login"
  BY DEF LoginAnsweredFirst
<1>1. Grows(c)
  BY WireGrows
<1>2. CASE i \in 1..Len(wire[c])
  <2>1. PICK j \in 1..i : wire[c][j].kind = "login"
    BY <1>1, <1>2 DEF LoginAnsweredFirst, Grows
  <2> QED BY <1>1, <1>2, <2>1 DEF Grows
<1>3. CASE i \notin 1..Len(wire[c])
  <2>1. wire'[c][i].kind = "login" \/ HasLogin(c)
    BY <1>3, NewsAfterLogin
  <2>2. CASE HasLogin(c)
    <3>1. PICK j \in 1..Len(wire[c]) : wire[c][j].kind = "login"
      BY <2>2 DEF HasLogin
    <3>2. j \in 1..i /\ wire'[c][j].kind = "login"
      BY <1>1, <1>3, <3>1 DEF Grows
    <3> QED BY <3>2
  <2>3. CASE wire'[c][i].kind = "login"
    BY <1>1, <2>3 DEF Grows
  <2> QED BY <2>1, <2>2, <2>3
<1> QED BY <1>2, <1>3

\* Whom somebody may write to now, he could before, or it is a login that is settling,
\* or one that has been answered.
LEMMA WritableSteps ==
  ASSUME Base, [Next]_vars, NEW c \in Conns, Writable(c)'
  PROVE  \/ Writable(c) \/ Handling(c, {"settle"})'
         \/ AdoptRest(LoopOf[c]) /\ task[LoopOf[c]].conn = c
<1>1. TypeOK /\ LoopOf[c] \in Loops /\ NoUser \notin Ids
  BY ChatAssumption DEF Base
<1>2. CASE Vaild(c)'
  <2>1. Vaild(c) \/ (AdoptId(LoopOf[c]) /\ task[LoopOf[c]].conn = c)
    BY <1>2, UidSteps DEF Vaild
  <2>2. AdoptId(LoopOf[c]) /\ task[LoopOf[c]].conn = c => Handling(c, {"settle"})'
    BY <1>1, StepTask DEF Handling
  <2> QED BY <2>1, <2>2 DEF Writable
<1>3. CASE isLogin'[c]
  BY <1>3, LoginSteps DEF Writable
<1>4. CASE pending'[c] # <<>>
  <2>1. WireStep(c)
    BY WireSteps
  <2>2. pending'[c] = pending[c] \/ Writable(c)
    BY <1>4, <2>1 DEF WireStep, Untouched, Written, Sent, Flushed, Drained
  <2> QED BY <1>4, <2>2 DEF Writable
<1>5. ASSUME NEW l \in Loops, c \in task'[l].pushTo \/ c \in task'[l].found PROVE Writable(c)
  <2>1. CASE c \in task'[l].pushTo
    BY <2>1, PushToSteps DEF Writable
  <2>2. CASE c \in task'[l].found
    <3>1. \/ c \in task[l].found
          \/ getSessionsByUserId(l) /\ Belongs(c, Head(task[l].members))
      BY <2>2, FoundSteps
    <3> QED BY <3>1 DEF Writable, Belongs
  <2> QED BY <1>5, <2>1, <2>2
<1>6. ASSUME NEW l \in Loops, task'[l].pc = "kick", task'[l].clash = c PROVE Writable(c)
  <2>1. CASE task'[l] = task[l]
    BY <1>6, <2>1 DEF Writable
  <2>2. CASE Handler(l)
    <3>1. CASE Kick(l) \/ AdoptId(l) \/ AdoptRest(l) \/ DrainMsgs(l)
      BY <1>1, <1>6, <3>1, StepTask
    <3>2. CASE DrainNotify(l)
      BY <1>1, <1>6, <3>2, DrainNotifyTask DEF Idle
    <3>3. CASE SkipSelf(l)
      BY <1>1, <1>6, <3>3, SkipSelfTask DEF Idle
    <3>4. CASE Snapshot(l)
      <4>1. task'[l] = Idle \/ task'[l].pc \in {"store", "fan"}
        BY <1>1, <3>4, SnapshotTask
      <4> QED BY <1>6, <4>1 DEF Idle
    <3>5. CASE Push(l) \/ Store(l)
      <4>1. task'[l] = Idle \/ task'[l].pc = "fan"
        BY <1>1, <3>5, PushTask, StoreTask
      <4> QED BY <1>6, <4>1 DEF Idle
    <3>6. CASE getSessionByUserIdAndClientType(l)
      <4> DEFINE d == First(Unread(l))
      <4>1. /\ d \in sessions /\ task[l].pc = "search"
            /\ \/ uid[d] = task[l].user /\ task'[l].clash = d
               \/ task'[l].pc \in {"adopt", "search"}
        BY <1>1, <3>6, SearchTask
      <4> HIDE DEF d
      <4>2. task[l].user \in Ids
        BY <4>1 DEF Base, GoodTasks, GoodTask, Logging
      <4> QED BY <1>1, <1>6, <4>1, <4>2 DEF Writable, Vaild
    <3>7. CASE getSessionsByUserId(l)
      BY <1>1, <1>6, <3>7, LookTask
    <3> QED BY <2>2, <3>1, <3>2, <3>3, <3>4, <3>5, <3>6, <3>7 DEF Handler
  <2>3. CASE task'[l].pc \in {"idle", "search", "drain", "fan"}
    BY <1>6, <2>3
  <2> QED BY <2>1, <2>2, <2>3, LoopSteps
<1> QED BY <1>2, <1>3, <1>4, <1>5, <1>6 DEF Writable

\* A session can be written to only after its login is answered.
LEMMA AnswerInvStep == ASSUME Base, AnswerInv, [Next]_vars PROVE AnswerInv'
<1> SUFFICES ASSUME NEW c \in Conns, Writable(c)' PROVE HasLogin(c)' \/ Handling(c, {"settle"})'
  BY DEF AnswerInv
<1>1. Grows(c)
  BY WireGrows
<1>2. HasLogin(c) => HasLogin(c)'
  BY <1>1 DEF HasLogin, Grows
<1>3. AdoptRest(LoopOf[c]) /\ task[LoopOf[c]].conn = c => HasLogin(c)'
  <2>1. ASSUME AdoptRest(LoopOf[c]), task[LoopOf[c]].conn = c PROVE HasLogin(c)'
    <3>1. wire' = [wire EXCEPT ![c] = Append(@, Note("login"))]
      BY <2>1 DEF AdoptRest
    <3>2. wire[c] \in Seq(Items) /\ wire'[c] = Append(wire[c], Note("login"))
      BY <3>1 DEF Base, TypeOK
    <3>3. /\ Note("login") \in Items /\ Note("login").kind = "login"
      BY ItemTypes DEF Kinds
    <3>4. Len(wire[c]) + 1 \in 1..Len(wire'[c]) /\ wire'[c][Len(wire[c]) + 1] = Note("login")
      BY <3>2, <3>3
    <3> QED BY <3>3, <3>4 DEF HasLogin
  <2> QED BY <2>1
<1>4. Writable(c) => HasLogin(c) \/ Handling(c, {"settle"})
  BY DEF AnswerInv
<1> QED BY <1>2, <1>3, <1>4, WritableSteps, SettleSteps

------------------------------------------------------------------------------
(* What was found is pushed. *)

\* What was found was there.
SeenInv == /\ \A k \in seen : k[2] \in Conns /\ link[k[2]] # "new"
           /\ \A l \in Loops : \A c \in task[l].found : link[c] # "new"

\* A session is seen by a snapshot.
LEMMA SeenSteps ==
  ASSUME Base, [Next]_vars
  PROVE  \A k \in seen' : \/ k \in seen
                          \/ \E l \in Loops : /\ Snapshot(l) /\ k[1] = task[l].item.id
                                              /\ k[2] \in task[l].found
<1>1. ASSUME NEW l \in Loops, Snapshot(l), NEW k \in seen'
      PROVE  k \in seen \/ (k[1] = task[l].item.id /\ k[2] \in task[l].found)
  <2> DEFINE found == task[l].found
  <2>1. seen' = seen \/ seen' = seen \cup {<<task[l].item.id, c>> : c \in found}
    BY <1>1 DEF Snapshot
  <2> HIDE DEF found
  <2>2. k \in seen \/ \E c \in found : k = <<task[l].item.id, c>>
    BY <1>1, <2>1
  <2> QED BY <2>2 DEF found
<1>2. ASSUME NEW l \in Loops, Handler(l) \/ Flush(l) PROVE Snapshot(l) \/ seen' = seen
  BY <1>2 DEF Handler, getSessionByUserIdAndClientType, Kick, AdoptId, AdoptRest, DrainMsgs,
              DrainNotify, SkipSelf, getSessionsByUserId, Push, Store, Flush, history
<1>3. ASSUME NEW c \in Conns, Client(c) PROVE seen' = seen
  BY <1>3 DEF Client, Connected, ForceClose, Disconnected, LoginAccepted, LoginRefused, Command,
              history
<1>4. UNCHANGED vars => seen' = seen
  BY DEF vars, history
<1> QED BY <1>1, <1>2, <1>3, <1>4 DEF Next

\* What was seen was connected.
LEMMA SeenInvStep == ASSUME Base, SeenInv, [Next]_vars PROVE SeenInv'
<1>1. ASSUME NEW l \in Loops, NEW c \in task[l].found PROVE c \in Conns /\ link'[c] # "new"
  <2>1. c \in Conns /\ link[c] # "new"
    BY DEF Base, TypeOK, Tasks, SeenInv
  <2> QED BY <2>1, ListSteps
<1>2. ASSUME NEW k \in seen' PROVE k[2] \in Conns /\ link'[k[2]] # "new"
  <2>1. CASE k \in seen
    BY <2>1, ListSteps DEF SeenInv
  <2> QED BY <1>1, <1>2, <2>1, SeenSteps
<1>3. ASSUME NEW l \in Loops, NEW c \in task'[l].found PROVE link'[c] # "new"
  <2>1. CASE c \in task[l].found
    BY <1>1, <2>1
  <2>2. CASE c \in sessions
    <3>1. c \in Conns /\ link[c] # "new"
      BY <2>2 DEF Base, TypeOK, Listed
    <3> QED BY <3>1, ListSteps
  <2> QED BY <1>3, <2>1, <2>2, FoundSteps
<1> QED BY <1>2, <1>3 DEF SeenInv

\* What a client got, or will get, it keeps.
LEMMA GotSteps ==
  ASSUME Base, [Next]_vars, NEW c \in Conns, NEW id, Got(c, id), link[c] = "up"
  PROVE  Got(c, id)'
<1>1. TypeOK /\ wire[c] \in Seq(Items) /\ pending[c] \in Seq(Items) /\ WireStep(c)
  BY WireSteps DEF Base, TypeOK
<1> DEFINE all == ToSet(wire[c]) \cup ToSet(pending[c])
<1>2. ASSUME all \subseteq ToSet(wire'[c]) \cup ToSet(pending'[c]) PROVE Got(c, id)'
  BY <1>2 DEF Got
<1>3. ASSUME NEW m \in Items, Written(c, m) \/ Handed(c, m)
      PROVE  all \subseteq ToSet(wire'[c]) \cup ToSet(pending'[c])
  <2>1. /\ ToSet(Append(wire[c], m)) = ToSet(wire[c]) \cup {m}
        /\ ToSet(Append(pending[c], m)) = ToSet(pending[c]) \cup {m}
    BY <1>1, AppendSet
  <2>2. CASE Written(c, m)
    BY <2>1, <2>2 DEF Written
  <2>3. CASE Handed(c, m)
    BY <2>1, <2>3 DEF Handed
  <2> QED BY <1>3, <2>2, <2>3
<1>4. Note("refused") \in Items /\ Note("login") \in Items /\ \A l \in Loops : task[l].item \in Items
  BY <1>1, ItemTypes DEF Kinds, TypeOK, Tasks
<1>5. CASE Drained(c)
  <2>1. cacheMsg[uid[c]] \in Seq(Items) /\ cacheNotify[uid[c]] \in Seq(Items)
    BY <1>1, <1>5 DEF Drained, TypeOK
  <2>2. ASSUME NEW s \in Seq(Items), wire'[c] = wire[c] \o s, pending'[c] = pending[c]
        PROVE  all \subseteq ToSet(wire'[c]) \cup ToSet(pending'[c])
    BY <1>1, <2>2, ConcatSet
  <2> QED BY <1>2, <1>5, <2>1, <2>2 DEF Drained
<1>6. CASE Flushed(c)
  <2>1. wire'[c] = wire[c] \o pending[c]
    BY <1>6 DEF Flushed
  <2>2. ToSet(wire'[c]) = all
    BY <1>1, <2>1, ConcatSet
  <2> QED BY <1>2, <2>2
<1>7. CASE Untouched(c)
  BY <1>7 DEF Untouched, Got
<1> QED BY <1>1, <1>2, <1>3, <1>4, <1>5, <1>6, <1>7 DEF WireStep, Sent

\* The session whose turn it is gets what is pushed, or was kicked, or is not connected.
LEMMA PushGives ==
  ASSUME Base, PushInv, NEW l \in Loops, Push(l), [Next]_vars,
         NEW c, c = First(task[l].pushTo), NEW id, id = task[l].item.id
  PROVE  Got(c, id)' \/ c \in kicked \/ link[c] # "up"
<1>0. PICK m : m = task[l].item
  OBVIOUS
<1>1. TypeOK /\ c \in task[l].pushTo /\ c \in Conns /\ m \in Items /\ m.id = id
  <2>1. TypeOK
    BY DEF Base
  <2>2. task[l].item \in Items
    BY <2>1 DEF TypeOK, Tasks
  <2> QED BY <1>0, <2>1, <2>2, PushTask
<1>2. Vaild(c) \/ c \in kicked
  BY <1>1 DEF PushInv
<1>3. (m.kind \in Rechecks /\ ~Vaild(c)) \/ SendAll(l, {c}, m)
  BY <1>0 DEF Push, Send
<1>4. CASE SendAll(l, {c}, m)
  <2>1. \/ Untouched(c) /\ (c \notin {c} \/ link[c] # "up")
        \/ Written(c, m) /\ c \in {c} /\ link[c] = "up" /\ LoopOf[c] = l
        \/ Handed(c, m) /\ c \in {c} /\ link[c] = "up" /\ LoopOf[c] # l
    BY <1>1, <1>4, SendFacts
  <2>2. wire[c] \in Seq(Items) /\ pending[c] \in Seq(Items)
    BY <1>1 DEF TypeOK
  <2>3. CASE Written(c, m) \/ Handed(c, m)
    <3>1. m \in ToSet(wire'[c]) \cup ToSet(pending'[c])
      <4>1. /\ ToSet(Append(wire[c], m)) = ToSet(wire[c]) \cup {m}
            /\ ToSet(Append(pending[c], m)) = ToSet(pending[c]) \cup {m}
        BY <1>1, <2>2, AppendSet
      <4> QED BY <2>3, <4>1 DEF Written, Handed
    <3> QED BY <1>1, <3>1 DEF Got
  <2> QED BY <2>1, <2>3
<1> QED BY <1>2, <1>3, <1>4

\* What was seen is pushed to, or has been.
LEMMA PushedStep ==
  ASSUME Base, PushInv, SeenInv, PushedToSeen, [Next]_vars
  PROVE  PushedToSeen'
<1> SUFFICES ASSUME NEW k \in seen'
             PROVE  \/ Got(k[2], k[1])' \/ k[2] \in kicked' \/ link'[k[2]] # "up"
                    \/ \E l \in Loops : task'[l].item.id = k[1] /\ k[2] \in task'[l].pushTo
  BY DEF PushedToSeen
<1> DEFINE c == k[2]
           id == k[1]
<1>1. kicked \subseteq kicked' /\ TypeOK
  BY ListSteps DEF Base
<1>2. CASE k \in seen
  <2>1. c \in Conns /\ link[c] # "new"
    BY <1>2 DEF SeenInv
  <2>2. CASE Got(c, id) /\ link[c] = "up"
    BY <2>1, <2>2, GotSteps
  <2>3. CASE c \in kicked \/ link[c] # "up"
    BY <1>1, <2>1, <2>3, ListSteps
  <2>4. ASSUME NEW l \in Loops, task[l].item.id = id, c \in task[l].pushTo
        PROVE  \/ Got(c, id)' \/ c \in kicked' \/ link'[c] # "up"
               \/ task'[l].item.id = id /\ c \in task'[l].pushTo
    <3>1. CASE task'[l].pushTo = task[l].pushTo /\ task'[l].item = task[l].item
      BY <2>4, <3>1
    <3>2. CASE /\ Push(l) /\ task'[l].pushTo = task[l].pushTo \ {First(task[l].pushTo)}
               /\ task'[l].item = task[l].item
      <4>1. CASE c = First(task[l].pushTo)
        BY <1>1, <2>1, <2>4, <3>2, <4>1, PushGives, ListSteps
      <4> QED BY <2>4, <3>2, <4>1
    <3>3. CASE Push(l) /\ task'[l].pushTo \subseteq {}
      <4>1. c = First(task[l].pushTo)
        BY <1>1, <2>4, <3>3, PushTask
      <4> QED BY <1>1, <2>1, <2>4, <3>3, <4>1, PushGives, ListSteps
    <3>4. CASE ~Push(l)
      <4>1. task[l].pc = "fan" /\ task[l].pushTo # {}
        BY <2>4 DEF Base, GoodTasks, GoodTask, Fanning, NoFan
      <4>2. ~Handler(l)
        <5>1. task[l].read = {}
          BY <4>1 DEF Base, GoodTasks, GoodTask
        <5> QED BY <3>4, <4>1, <5>1, HandlerSteps
                DEF Handler, SkipSelf, getSessionsByUserId, Snapshot
      <4>3. task'[l] = task[l]
        BY <4>1, <4>2, LoopSteps DEF Idle
      <4> QED BY <2>4, <4>3
    <3> QED BY <2>4, <3>1, <3>2, <3>3, <3>4, PushToSteps
  <2> QED BY <1>2, <2>2, <2>3, <2>4 DEF PushedToSeen
<1>3. ASSUME NEW l \in Loops, Snapshot(l), id = task[l].item.id, c \in task[l].found
      PROVE  task'[l].item.id = id /\ c \in task'[l].pushTo
  <2>1. task'[l].pushTo = task[l].found /\ task'[l].item = task[l].item
    BY <1>1, <1>3, SnapshotTask
  <2> QED BY <1>3, <2>1
<1> QED BY <1>2, <1>3, SeenSteps

------------------------------------------------------------------------------
(* What waits for a user who is online. *)

\* A handler that is looking for a user has found the sessions of the user that it has
\* passed, or raced with a login.
LookingInv ==
  \A l \in Loops : task[l].pc = "fan" /\ task[l].read # {} =>
    \/ <<task[l].item.id, Head(task[l].members)>> \in raced
    \/ \A c \in sessions \cap task[l].read :
         uid[c] = Head(task[l].members) => c \in task[l].found

StoringInv ==
  \A l \in Loops : task[l].pc = "store" =>
    \/ <<task[l].item.id, task[l].target>> \in raced
    \/ \A c \in sessions : uid[c] # task[l].target

\* A message waits for a user for whom a login has still to look.
Waits(m, u, pcs) == \/ <<m.id, u>> \in raced
                    \/ \A c \in sessions : uid[c] = u => Handling(c, pcs)

Early == {"settle", "drain"}
Late == {"settle", "drain", "drainNotify"}

StrandInv ==
  \A u \in Ids : /\ \A m \in ToSet(cacheMsg[u]) : Waits(m, u, Early)
                 /\ \A m \in ToSet(cacheNotify[u]) : Waits(m, u, Late)

\* A user gets a session that is in the list only by a login of its own.
LEMMA NewSessions ==
  ASSUME Base, [Next]_vars, NEW u \in Ids, NEW c \in sessions', uid'[c] = u
  PROVE  /\ c \in Conns
         /\ \/ c \in sessions /\ uid[c] = u
            \/ /\ AdoptId(LoopOf[c]) /\ task[LoopOf[c]].conn = c /\ task[LoopOf[c]].user = u
               /\ \A k \in Storing(u, c) : <<task[k].item.id, u>> \in raced'
<1>1. c \in Conns
  <2>1. sessions' \subseteq Conns
    BY TypeStep DEF Base, TypeOK
  <2> QED BY <2>1
<1>2. NoUser \notin Ids
  BY ChatAssumption
<1>3. CASE uid'[c] = uid[c]
  BY <1>1, <1>2, <1>3, ListSteps
<1>4. CASE /\ AdoptId(LoopOf[c]) /\ task[LoopOf[c]].conn = c
           /\ uid'[c] = task[LoopOf[c]].user /\ uid'[c] \in Ids
  <2>1. raced' = raced \cup { <<task[k].item.id, u>> : k \in Storing(u, c) }
    BY <1>4 DEF AdoptId
  <2> QED BY <1>1, <1>4, <2>1
<1> QED BY <1>1, <1>2, <1>3, <1>4, UidSteps

\* A handler goes on looking for a user, or looks at one more session.
LEMMA LookSteps ==
  ASSUME Base, [Next]_vars, NEW l \in Loops, task'[l].pc = "fan", task'[l].read # {}
  PROVE  task'[l] = task[l] \/ getSessionsByUserId(l)
<1>1. TypeOK /\ GoodTask(task[l])
  BY DEF Base, GoodTasks
<1>2. CASE Handler(l) /\ ~getSessionsByUserId(l)
  <2>1. CASE Kick(l) \/ AdoptId(l) \/ AdoptRest(l) \/ DrainMsgs(l)
    BY <1>1, <2>1, StepTask
  <2>2. CASE DrainNotify(l)
    BY <1>1, <2>2, DrainNotifyTask DEF Idle
  <2>3. CASE SkipSelf(l)
    BY <1>1, <2>3, SkipSelfTask DEF Idle
  <2>4. CASE Snapshot(l)
    <3>1. task'[l] = Idle \/ (task'[l].read = {} /\ task'[l].found = {})
      BY <1>1, <2>4, SnapshotTask
    <3> QED BY <3>1 DEF Idle
  <2>5. CASE Push(l)
    <3>1. task[l].read = {}
      BY <1>1, <2>5 DEF GoodTask, Push
    <3> QED BY <1>1, <2>5, <3>1, PushTask DEF Idle
  <2>6. CASE Store(l)
    <3>1. task[l].read = {}
      BY <1>1, <2>6 DEF GoodTask, Store
    <3>2. task'[l] = Idle \/ task'[l].read = task[l].read
      BY <1>1, <2>6, StoreTask
    <3> QED BY <3>1, <3>2 DEF Idle
  <2>7. CASE getSessionByUserIdAndClientType(l)
    BY <1>1, <2>7, SearchTask
  <2> QED BY <1>2, <2>1, <2>2, <2>3, <2>4, <2>5, <2>6, <2>7 DEF Handler
<1> QED BY <1>2, LoopSteps

\* A session that takes the user after the handler has passed it is one it raced with.
LEMMA LookingInvStep == ASSUME Base, LookingInv, [Next]_vars PROVE LookingInv'
<1> SUFFICES ASSUME NEW l \in Loops, task'[l].pc = "fan", task'[l].read # {},
                    <<task'[l].item.id, Head(task'[l].members)>> \notin raced',
                    NEW c \in sessions' \cap task'[l].read, uid'[c] = Head(task'[l].members)
             PROVE  c \in task'[l].found
  BY DEF LookingInv
<1>1. TypeOK /\ raced \subseteq raced'
  BY ListSteps DEF Base
<1>2. CASE task'[l] = task[l]
  <2>1. PICK u \in Ids : u = Head(task[l].members)
    BY <1>2 DEF Base, GoodTasks, GoodTask
  <2>2. l \in Storing(u, c)
    BY <1>2, <2>1 DEF Storing
  <2>3. c \in sessions /\ uid[c] = u
    BY <1>2, <2>1, <2>2, NewSessions
  <2> QED BY <1>1, <1>2, <2>1, <2>3 DEF LookingInv
<1>3. CASE getSessionsByUserId(l)
  <2> DEFINE e == First(Unread(l))
             u == Head(task[l].members)
  <2>1. /\ task[l].pc = "fan" /\ u \in Ids
        /\ task'[l].item = task[l].item /\ task'[l].members = task[l].members
        /\ task'[l].read = task[l].read \cup {e}
        /\ Belongs(e, u) => task'[l].found = task[l].found \cup {e}
        /\ ~Belongs(e, u) => task'[l].found = task[l].found
    BY <1>1, <1>3, LookTask
  <2> HIDE DEF e
  <2>2. UNCHANGED <<sessions, uid, raced>>
    BY <1>3 DEF getSessionsByUserId, sharedVars, history
  <2>3. CASE c = e
    BY <2>1, <2>2, <2>3, ChatAssumption DEF Belongs, Vaild
  <2>4. CASE c \in task[l].read
    BY <2>1, <2>2, <2>4 DEF LookingInv
  <2> QED BY <2>1, <2>3, <2>4
<1> QED BY <1>2, <1>3, LookSteps

\* A handler about to store knows of no session, or raced with a login.
LEMMA StoringInvStep == ASSUME Base, LookingInv, StoringInv, [Next]_vars PROVE StoringInv'
<1> SUFFICES ASSUME NEW l \in Loops, task'[l].pc = "store"
             PROVE  \/ <<task'[l].item.id, task'[l].target>> \in raced'
                    \/ \A c \in sessions' : uid'[c] # task'[l].target
  BY DEF StoringInv
<1>1. TypeOK /\ raced \subseteq raced'
  BY ListSteps DEF Base
<1>2. CASE task'[l] = task[l]
  <2>1. task[l].target \in Ids
    BY <1>2 DEF Base, GoodTasks, GoodTask
  <2>2. \A c : l \in Storing(task[l].target, c)
    BY <1>2 DEF Storing
  <2>3. \/ <<task[l].item.id, task[l].target>> \in raced
        \/ \A c \in sessions : uid[c] # task[l].target
    BY <1>2 DEF StoringInv
  <2> QED BY <1>1, <1>2, <2>1, <2>2, <2>3, NewSessions
<1>3. CASE Snapshot(l)
  <2> DEFINE u == Head(task[l].members)
  <2>1. /\ task[l].pc = "fan" /\ u \in Ids /\ task[l].found = {}
        /\ task'[l].target = u /\ task'[l].item = [task[l].item EXCEPT !.turn = Len(task[l].members)]
    BY <1>1, <1>3, SnapshotTask DEF Idle
  <2>2. task'[l].item.id = task[l].item.id
    <3>1. task[l].item \in Items
      BY <1>1 DEF TypeOK, Tasks
    <3> QED BY <2>1, <3>1 DEF Items
  <2>3. task[l].read # {} /\ sessions \subseteq task[l].read
    BY <1>3 DEF Snapshot, Unread
  <2>4. \/ <<task[l].item.id, u>> \in raced
        \/ \A c \in sessions : uid[c] # u
    BY <2>1, <2>3 DEF LookingInv
  <2>5. UNCHANGED <<sessions, uid>>
    BY <1>3 DEF Snapshot, sharedVars
  <2> QED BY <1>1, <2>1, <2>2, <2>4, <2>5
<1>4. CASE Handler(l) /\ ~Snapshot(l)
  <2>1. CASE Kick(l) \/ AdoptId(l) \/ AdoptRest(l) \/ DrainMsgs(l)
    BY <1>1, <2>1, StepTask
  <2>2. CASE DrainNotify(l)
    BY <1>1, <2>2, DrainNotifyTask DEF Idle
  <2>3. CASE SkipSelf(l)
    BY <1>1, <2>3, SkipSelfTask DEF Idle
  <2>4. CASE Push(l)
    BY <1>1, <2>4, PushTask DEF Idle
  <2>5. CASE Store(l)
    <3>1. task'[l] = Idle \/ task'[l].pc = "fan"
      BY <1>1, <2>5, StoreTask
    <3> QED BY <3>1 DEF Idle
  <2>6. CASE getSessionByUserIdAndClientType(l) \/ getSessionsByUserId(l)
    BY <1>1, <2>6, SearchTask, LookTask
  <2> QED BY <1>4, <2>1, <2>2, <2>3, <2>4, <2>5, <2>6 DEF Handler
<1> QED BY <1>2, <1>3, <1>4, LoopSteps

\* What waits for a user goes on waiting, and a login that has still to look has to.
LEMMA WaitSteps ==
  ASSUME Base, [Next]_vars, NEW u \in Ids, NEW m, NEW pcs, Waits(m, u, pcs),
         pcs \in {Early, Late}, pcs = Late => \A l \in Loops : DrainNotify(l) => uid[task[l].conn] # u,
         pcs = Early => \A l \in Loops : DrainMsgs(l) => uid[task[l].conn] # u
  PROVE  Waits(m, u, pcs)'
<1> SUFFICES ASSUME <<m.id, u>> \notin raced', NEW c \in sessions', uid'[c] = u
             PROVE  Handling(c, pcs)'
  BY DEF Waits
<1>1. TypeOK /\ raced \subseteq raced'
  BY ListSteps DEF Base
<1>2. c \in Conns /\ LoopOf[c] \in Loops
  BY NewSessions, ChatAssumption
<1>3. CASE c \in sessions /\ uid[c] = u
  <2>1. Handling(c, pcs)
    BY <1>1, <1>3 DEF Waits
  <2> DEFINE l == LoopOf[c]
  <2>2. /\ task[l].conn = c /\ task[l].pc \in {"settle", "drain", "drainNotify"}
        /\ pcs = Early => task[l].pc # "drainNotify"
    BY <2>1 DEF Handling, Early, Late
  <2>3. CASE task'[l] = task[l]
    BY <2>1, <2>3 DEF Handling
  <2>4. CASE Handler(l)
    <3>1. AdoptRest(l) \/ DrainMsgs(l) \/ DrainNotify(l)
      <4>1. /\ getSessionByUserIdAndClientType(l) => task[l].pc = "search"
            /\ Kick(l) => task[l].pc = "kick"
            /\ AdoptId(l) => task[l].pc = "adopt"
            /\ SkipSelf(l) \/ getSessionsByUserId(l) \/ Snapshot(l) \/ Push(l)
                 => task[l].pc = "fan"
            /\ Store(l) => task[l].pc = "store"
        BY <1>2, <2>4, HandlerSteps
      <4> QED BY <2>2, <2>4, <4>1 DEF Handler
    <3>2. ~DrainNotify(l)
      BY <1>2, <1>3, <2>2 DEF DrainNotify, Early, Late
    <3>3. /\ task'[l].conn = c
          /\ AdoptRest(l) => task'[l].pc = "drain"
          /\ DrainMsgs(l) => task'[l].pc = "drainNotify"
      BY <1>1, <1>2, <2>2, <3>1, <3>2, StepTask
    <3>4. DrainMsgs(l) => pcs = Late
      BY <1>2, <1>3, <2>2
    <3> QED BY <3>1, <3>2, <3>3, <3>4 DEF Handling, Early, Late
  <2> QED BY <1>2, <2>2, <2>3, <2>4, LoopSteps DEF Idle
<1>4. CASE AdoptId(LoopOf[c]) /\ task[LoopOf[c]].conn = c
  BY <1>1, <1>2, <1>4, StepTask DEF Handling, Early, Late
<1> QED BY <1>3, <1>4, NewSessions

\* What is added to a store, or taken from it.
LEMMA StoreSteps ==
  ASSUME Base, [Next]_vars, NEW u \in Ids
  PROVE  /\ \/ cacheMsg'[u] = cacheMsg[u]
            \/ cacheMsg'[u] = <<>> /\ \E l \in Loops : DrainMsgs(l) /\ uid[task[l].conn] = u
            \/ \E l \in Loops : /\ Store(l) /\ task[l].target = u /\ task[l].item.kind \in StoresMsg
                                /\ cacheMsg'[u] = Append(cacheMsg[u], task[l].item)
         /\ \/ cacheNotify'[u] = cacheNotify[u]
            \/ cacheNotify'[u] = <<>> /\ \E l \in Loops : DrainNotify(l) /\ uid[task[l].conn] = u
            \/ \E l \in Loops : /\ Store(l) /\ task[l].target = u /\ task[l].item.kind \notin StoresMsg
                                /\ cacheNotify'[u] = Append(cacheNotify[u], task[l].item)
         /\ \A l \in Loops : DrainMsgs(l) /\ uid[task[l].conn] = u => cacheMsg'[u] = <<>>
         /\ \A l \in Loops : DrainNotify(l) /\ uid[task[l].conn] = u => cacheNotify'[u] = <<>>
<1>1. cacheMsg \in [Ids -> Seq(Items)] /\ cacheNotify \in [Ids -> Seq(Items)]
  BY DEF Base, TypeOK
<1>2. ASSUME NEW l \in Loops, DrainMsgs(l)
      PROVE  /\ cacheNotify' = cacheNotify
             /\ cacheMsg'[u] = IF uid[task[l].conn] = u THEN <<>> ELSE cacheMsg[u]
  BY <1>1, <1>2 DEF DrainMsgs
<1>3. ASSUME NEW l \in Loops, DrainNotify(l)
      PROVE  /\ cacheMsg' = cacheMsg
             /\ cacheNotify'[u] = IF uid[task[l].conn] = u THEN <<>> ELSE cacheNotify[u]
  BY <1>1, <1>3 DEF DrainNotify
<1>4. ASSUME NEW l \in Loops, Store(l)
      PROVE  /\ \/ cacheMsg'[u] = cacheMsg[u]
                \/ /\ task[l].target = u /\ task[l].item.kind \in StoresMsg
                   /\ cacheMsg'[u] = Append(cacheMsg[u], task[l].item)
             /\ \/ cacheNotify'[u] = cacheNotify[u]
                \/ /\ task[l].target = u /\ task[l].item.kind \notin StoresMsg
                   /\ cacheNotify'[u] = Append(cacheNotify[u], task[l].item)
  BY <1>1, <1>4 DEF Store
<1>5. ASSUME NEW l \in Loops, Handler(l) \/ Flush(l)
      PROVE  DrainMsgs(l) \/ DrainNotify(l) \/ Store(l) \/ UNCHANGED storeVars
  BY <1>5 DEF Handler, getSessionByUserIdAndClientType, Kick, AdoptId, AdoptRest, SkipSelf,
              getSessionsByUserId, Snapshot, Push, Flush
<1>6. ASSUME NEW c \in Conns, Client(c) PROVE UNCHANGED storeVars
  BY <1>6 DEF Client, Connected, ForceClose, Disconnected, LoginAccepted, LoginRefused, Command
<1>7. UNCHANGED vars => UNCHANGED storeVars
  BY DEF vars
<1>8. /\ \A l \in Loops : DrainMsgs(l) /\ uid[task[l].conn] = u => cacheMsg'[u] = <<>>
      /\ \A l \in Loops : DrainNotify(l) /\ uid[task[l].conn] = u => cacheNotify'[u] = <<>>
  BY <1>2, <1>3
<1>9. CASE UNCHANGED storeVars
  BY <1>8, <1>9 DEF storeVars
<1>10. CASE \E l \in Loops : DrainMsgs(l)
  BY <1>2, <1>8, <1>10
<1>11. CASE \E l \in Loops : DrainNotify(l)
  BY <1>3, <1>8, <1>11
<1>12. CASE \E l \in Loops : Store(l)
  BY <1>4, <1>8, <1>12
<1> QED BY <1>5, <1>6, <1>7, <1>9, <1>10, <1>11, <1>12 DEF Next

\* What waits is for a user who is not there, or raced with a login.
LEMMA StrandInvStep == ASSUME Base, StoringInv, StrandInv, [Next]_vars PROVE StrandInv'
<1>1. /\ TypeOK /\ cacheMsg \in [Ids -> Seq(Items)] /\ cacheNotify \in [Ids -> Seq(Items)]
  BY DEF Base, TypeOK
<1>2. ASSUME NEW l \in Loops, Store(l), NEW m, m = task[l].item, NEW pcs
      PROVE  /\ m \in Items
             /\ \A u \in Ids : u = task[l].target => Waits(m, u, pcs)'
  <2>1. task[l].pc = "store" /\ UNCHANGED <<sessions, uid, raced>> /\ m \in Items
    BY <1>1, <1>2 DEF Store, sharedVars, history, TypeOK, Tasks
  <2>2. \/ <<m.id, task[l].target>> \in raced
        \/ \A c \in sessions : uid[c] # task[l].target
    BY <1>2, <2>1 DEF StoringInv
  <2> QED BY <2>1, <2>2 DEF Waits
<1> SUFFICES ASSUME NEW u \in Ids
             PROVE  /\ \A m \in ToSet(cacheMsg'[u]) : Waits(m, u, Early)'
                    /\ \A m \in ToSet(cacheNotify'[u]) : Waits(m, u, Late)'
  BY DEF StrandInv
<1>3. ASSUME NEW m \in ToSet(cacheMsg'[u]) PROVE Waits(m, u, Early)'
  <2>1. CASE m \in ToSet(cacheMsg[u])
    <3>1. ASSUME NEW l \in Loops, DrainMsgs(l) PROVE uid[task[l].conn] # u
      BY <1>3, <3>1, StoreSteps, EmptyHolds
    <3>2. Waits(m, u, Early) /\ Early # Late
      BY <2>1 DEF StrandInv, Early, Late
    <3> QED BY <3>1, <3>2, WaitSteps
  <2>2. CASE m \notin ToSet(cacheMsg[u])
    <3>1. PICK l \in Loops : /\ Store(l) /\ task[l].target = u
                             /\ cacheMsg'[u] = Append(cacheMsg[u], task[l].item)
      BY <1>3, <2>2, StoreSteps, EmptyHolds
    <3>2. task[l].item \in Items /\ cacheMsg[u] \in Seq(Items)
      BY <1>1, <1>2, <3>1
    <3>3. m = task[l].item
      BY <1>3, <2>2, <3>1, <3>2, AppendSet
    <3> QED BY <1>2, <3>1, <3>3
  <2> QED BY <2>1, <2>2
<1>4. ASSUME NEW m \in ToSet(cacheNotify'[u]) PROVE Waits(m, u, Late)'
  <2>1. CASE m \in ToSet(cacheNotify[u])
    <3>1. ASSUME NEW l \in Loops, DrainNotify(l) PROVE uid[task[l].conn] # u
      BY <1>4, <3>1, StoreSteps, EmptyHolds
    <3>2. Waits(m, u, Late) /\ Early # Late
      BY <2>1 DEF StrandInv, Early, Late
    <3> QED BY <3>1, <3>2, WaitSteps
  <2>2. CASE m \notin ToSet(cacheNotify[u])
    <3>1. PICK l \in Loops : /\ Store(l) /\ task[l].target = u
                             /\ cacheNotify'[u] = Append(cacheNotify[u], task[l].item)
      BY <1>4, <2>2, StoreSteps, EmptyHolds
    <3>2. task[l].item \in Items /\ cacheNotify[u] \in Seq(Items)
      BY <1>1, <1>2, <3>1
    <3>3. m = task[l].item
      BY <1>4, <2>2, <3>1, <3>2, AppendSet
    <3> QED BY <1>2, <3>1, <3>3
  <2> QED BY <2>1, <2>2
<1> QED BY <1>3, <1>4

------------------------------------------------------------------------------
(* Two sessions of one user and client type. *)

\* The client type a session has, or is about to take.
TypeOf(c) == IF Handling(c, {"settle"}) THEN task[LoopOf[c]].type ELSE ctype[c]

\* Two sessions of the same user and type.
Twins(c, d) == c # d /\ Vaild(c) /\ uid[c] = uid[d] /\ TypeOf(c) = TypeOf(d)

UniqueSessions == \A c, d \in sessions : Twins(c, d) => <<uid[c], TypeOf(c)>> \in overlap

\* Two logins of the same user.
UniqueLogins ==
  \A l, k \in Loops :
    (/\ l # k /\ task[l].pc \in Logging /\ task[k].pc \in Logging
     /\ task[l].user = task[k].user)
      => <<task[l].user, task[l].type>> \in overlap

\* A session that the login of l has passed over, and that is not the one it clashes with.
Missed(l, d) == /\ task[l].pc \in {"search", "kick", "adopt"} /\ d # task[l].conn
                /\ task[l].pc = "search" => d \in task[l].read
                /\ task[l].pc = "kick" => d # task[l].clash
                /\ uid[d] = task[l].user /\ TypeOf(d) = task[l].type

UniqueSearch ==
  \A l \in Loops : \A d \in sessions :
    Missed(l, d) => <<task[l].user, task[l].type>> \in overlap

\* A session that is settling is that of the user of its login, or was kicked.
SettlingUser == \A c \in Conns : Handling(c, {"settle"}) => uid[c] \in {task[LoopOf[c]].user, NoUser}

UniqueInv == UniqueSessions /\ UniqueLogins /\ UniqueSearch /\ SettlingUser

\* What a session is, or is about to be, changes with its identity and with its connection.
LEMMA TypeOfSteps ==
  ASSUME Base, [Next]_vars, NEW c \in Conns
  PROVE  \/ TypeOf(c)' = TypeOf(c)
         \/ Connected(c)
         \/ /\ AdoptId(LoopOf[c]) /\ task[LoopOf[c]].conn = c
            /\ TypeOf(c)' = task[LoopOf[c]].type
<1> DEFINE l == LoopOf[c]
<1>1. TypeOK /\ l \in Loops
  BY ChatAssumption DEF Base
<1>2. CASE AdoptId(l) /\ task[l].conn = c
  BY <1>1, <1>2, StepTask DEF TypeOf, Handling
<1>3. CASE AdoptRest(l) /\ task[l].conn = c
  <2>1. task[l].pc = "settle" /\ task'[l].pc = "drain"
    BY <1>1, <1>3, StepTask
  <2>2. ctype'[c] = task[l].type
    BY <1>1, <1>3 DEF AdoptRest, TypeOK
  <2> QED BY <1>3, <2>1, <2>2 DEF TypeOf, Handling
<1>4. CASE /\ ~(AdoptId(l) /\ task[l].conn = c) /\ ~(AdoptRest(l) /\ task[l].conn = c)
           /\ ~Connected(c)
  <2>1. Handling(c, {"settle"})' <=> Handling(c, {"settle"})
    BY <1>4, SettleSteps
  <2>2. ctype'[c] = ctype[c]
    BY <1>4, LoginSteps
  <2>3. ASSUME Handling(c, {"settle"}) PROVE task'[l].type = task[l].type
    <3>1. CASE Handler(l)
      <4>1. /\ getSessionByUserIdAndClientType(l) => task[l].pc = "search"
            /\ Kick(l) => task[l].pc = "kick"
            /\ AdoptId(l) => task[l].pc = "adopt"
            /\ DrainMsgs(l) => task[l].pc = "drain"
            /\ DrainNotify(l) => task[l].pc = "drainNotify"
            /\ SkipSelf(l) \/ getSessionsByUserId(l) \/ Snapshot(l) \/ Push(l)
                 => task[l].pc = "fan"
            /\ Store(l) => task[l].pc = "store"
        BY <1>1, <3>1, HandlerSteps
      <4>2. AdoptRest(l)
        BY <2>3, <3>1, <4>1 DEF Handler, Handling
      <4> QED BY <1>1, <4>2, StepTask
    <3> QED BY <1>1, <2>3, <3>1, LoopSteps DEF Handling, Idle
  <2> QED BY <2>1, <2>2, <2>3 DEF TypeOf
<1> QED BY <1>2, <1>3, <1>4

\* A login that is under way goes on being that of its user and type.
LEMMA LoggingSteps ==
  ASSUME Base, [Next]_vars, NEW l \in Loops, task'[l].pc \in Logging
  PROVE  \/ /\ task[l].pc \in Logging /\ task'[l].user = task[l].user
            /\ task'[l].type = task[l].type /\ task'[l].conn = task[l].conn
            /\ \/ task'[l] = task[l]
               \/ getSessionByUserIdAndClientType(l)
               \/ Kick(l) /\ task'[l].pc = "adopt"
               \/ AdoptId(l) /\ task'[l].pc = "settle"
         \/ \E c \in Conns, u \in Ids, t \in Types : /\ LoginAccepted(c, u, t) /\ LoopOf[c] = l
<1>1. TypeOK
  BY DEF Base
<1> USE DEF Logging
<1>2. CASE task'[l] = task[l]
  BY <1>2
<1>3. CASE Handler(l)
  <2>1. CASE Kick(l) \/ AdoptId(l) \/ AdoptRest(l) \/ DrainMsgs(l)
    BY <1>1, <2>1, StepTask
  <2>2. CASE DrainNotify(l) \/ SkipSelf(l) \/ Snapshot(l) \/ Push(l) \/ Store(l)
    <3>1. task'[l] = Idle \/ task'[l].pc \in {"fan", "store"}
      <4>1. CASE DrainNotify(l)
        BY <1>1, <4>1, DrainNotifyTask
      <4>2. CASE SkipSelf(l)
        BY <1>1, <4>2, SkipSelfTask
      <4>3. CASE Snapshot(l)
        BY <1>1, <4>3, SnapshotTask
      <4>4. CASE Push(l) \/ Store(l)
        BY <1>1, <4>4, PushTask, StoreTask
      <4> QED BY <2>2, <4>1, <4>2, <4>3, <4>4
    <3> QED BY <3>1 DEF Idle
  <2>3. CASE getSessionByUserIdAndClientType(l)
    BY <1>1, <2>3, SearchTask
  <2>4. CASE getSessionsByUserId(l)
    BY <1>1, <2>4, LookTask
  <2> QED BY <1>3, <2>1, <2>2, <2>3, <2>4 DEF Handler
<1>4. ASSUME NEW d \in Conns, Client(d), LoopOf[d] = l, task'[l] # task[l]
      PROVE  \E u \in Ids, t \in Types : LoginAccepted(d, u, t)
  <2>1. CASE LoginRefused(d)
    <3>1. task'[l] = Idle \/ task'[l].pc = "drain"
      BY <1>1, <1>4, <2>1, LoginRefusedTask
    <3> QED BY <3>1 DEF Idle
  <2>2. ASSUME NEW op \in Ops, NEW a \in Ids, Command(d, op, a) PROVE FALSE
    <3>1. task'[l] = Idle \/ task'[l].pc = "fan"
      BY <1>1, <1>4, <2>2, CommandTask
    <3> QED BY <3>1 DEF Idle
  <2>3. ~(Connected(d) \/ ForceClose(d) \/ Disconnected(d))
    BY <1>4 DEF Connected, ForceClose, Disconnected
  <2> QED BY <1>4, <2>1, <2>2, <2>3 DEF Client
<1>5. ASSUME NEW d \in Conns, Client(d), LoopOf[d] # l PROVE task'[l] = task[l]
  <2>1. Only(LoopOf[d]) \/ task' = task
    BY <1>1, <1>5, LoginAcceptedTask, LoginRefusedTask, CommandTask
       DEF Client, Connected, ForceClose, Disconnected
  <2> QED BY <1>5, <2>1 DEF Only
<1>6. ASSUME NEW k \in Loops, Handler(k), k # l PROVE task'[l] = task[l]
  <2>1. Only(k)
    BY <1>1, <1>6, SearchTask, StepTask, DrainNotifyTask, SkipSelfTask, LookTask, SnapshotTask,
       PushTask, StoreTask DEF Handler
  <2> QED BY <1>6, <2>1 DEF Only
<1>7. ASSUME NEW k \in Loops, Flush(k) PROVE task'[l] = task[l]
  BY <1>7 DEF Flush
<1>8. UNCHANGED vars => task'[l] = task[l]
  BY DEF vars
<1> QED BY <1>2, <1>3, <1>4, <1>5, <1>6, <1>7, <1>8 DEF Next

\* A login that begins during another of the same user is remembered.
LEMMA AcceptedOverlap ==
  ASSUME Base, [Next]_vars, NEW c \in Conns, NEW u \in Ids, NEW t \in Types, LoginAccepted(c, u, t),
         NEW k \in Loops, task[k].pc \in Logging, task[k].user = u
  PROVE  <<u, t>> \in overlap' /\ <<u, task[k].type>> \in overlap'
BY DEF LoginAccepted, Logging

\* A session of u in the list was that before, or has just been adopted.
Was(x, u) == x \in sessions /\ uid[x] = u /\ TypeOf(x)' = TypeOf(x)
Adopted(x, u) == /\ AdoptId(LoopOf[x]) /\ task[LoopOf[x]].conn = x /\ task[LoopOf[x]].user = u
                 /\ TypeOf(x)' = task[LoopOf[x]].type

\* How a session comes to have a user and a type.
LEMMA MemberSteps ==
  ASSUME Base, [Next]_vars, NEW u \in Ids, NEW x \in sessions', uid'[x] = u
  PROVE  x \in Conns /\ (Was(x, u) \/ Adopted(x, u))
<1>1. x \in Conns
  BY NewSessions
<1>2. CASE AdoptId(LoopOf[x]) /\ task[LoopOf[x]].conn = x
  <2>1. TypeOK /\ LoopOf[x] \in Loops
    BY <1>1, ChatAssumption DEF Base
  <2>2. TypeOf(x)' = task[LoopOf[x]].type
    BY <1>2, <2>1, StepTask DEF TypeOf, Handling
  <2>3. uid'[x] = task[LoopOf[x]].user
    BY <1>1, <1>2, <2>1 DEF AdoptId, TypeOK
  <2> QED BY <1>1, <1>2, <2>2, <2>3 DEF Adopted
<1>3. CASE ~(AdoptId(LoopOf[x]) /\ task[LoopOf[x]].conn = x)
  <2>1. x \in sessions /\ uid[x] = u
    BY <1>3, NewSessions
  <2>2. ~Connected(x)
    BY <1>1, <2>1 DEF Connected, Base, Listed
  <2>3. TypeOf(x)' = TypeOf(x)
    BY <1>1, <1>3, <2>2, TypeOfSteps
  <2> QED BY <1>1, <2>1, <2>3 DEF Was
<1> QED BY <1>2, <1>3

\* One session is adopted at a time.
LEMMA OneAdopted ==
  ASSUME Base, NEW c \in Conns, NEW d \in Conns, NEW u, NEW v, Adopted(c, u), Adopted(d, v)
  PROVE  c = d
<1>1. TypeOK /\ LoopOf[c] \in Loops /\ LoopOf[d] \in Loops
  BY ChatAssumption DEF Base
<1>2. Only(LoopOf[c]) /\ task[LoopOf[d]].pc = "adopt" /\ task'[LoopOf[d]].pc = "settle"
  BY <1>1, StepTask DEF Adopted
<1>3. LoopOf[c] = LoopOf[d]
  BY <1>1, <1>2 DEF Only
<1> QED BY <1>3 DEF Adopted

\* Two sessions of a user and type.
LEMMA UniqueSessionsStep ==
  ASSUME Base, UniqueInv, [Next]_vars
  PROVE  UniqueSessions'
<1> SUFFICES ASSUME NEW c \in sessions', NEW d \in sessions', Twins(c, d)'
             PROVE  <<uid'[c], TypeOf(c)'>> \in overlap'
  BY DEF UniqueSessions
<1>1. PICK u \in Ids : uid'[c] = u /\ uid'[d] = u
  <2>1. uid' \in [Conns -> Ids \cup {NoUser}] /\ sessions' \subseteq Conns
    BY TypeStep DEF Base, TypeOK
  <2> QED BY <2>1 DEF Twins, Vaild
<1>2. c # d /\ TypeOf(c)' = TypeOf(d)' /\ overlap \subseteq overlap' /\ NoUser \notin Ids
  BY ListSteps, ChatAssumption DEF Twins
<1>3. /\ c \in Conns /\ (Was(c, u) \/ Adopted(c, u))
      /\ d \in Conns /\ (Was(d, u) \/ Adopted(d, u))
  BY <1>1, MemberSteps
<1>4. CASE Was(c, u) /\ Was(d, u)
  <2>1. Twins(c, d)
    BY <1>2, <1>4 DEF Was, Twins, Vaild
  <2> QED BY <1>1, <1>2, <1>4, <2>1 DEF Was, UniqueInv, UniqueSessions
<1>5. ASSUME NEW x \in Conns, NEW y \in Conns, x # y, Adopted(x, u), Was(y, u),
             TypeOf(x)' = TypeOf(y)'
      PROVE  <<u, TypeOf(x)'>> \in overlap'
  <2>1. LoopOf[x] \in Loops /\ task[LoopOf[x]].pc = "adopt"
    BY <1>5, ChatAssumption DEF Adopted, AdoptId
  <2>2. Missed(LoopOf[x], y) /\ y \in sessions
    BY <1>5, <2>1 DEF Missed, Adopted, Was
  <2>3. <<task[LoopOf[x]].user, task[LoopOf[x]].type>> \in overlap
    BY <2>1, <2>2 DEF UniqueInv, UniqueSearch
  <2> QED BY <1>2, <1>5, <2>3 DEF Adopted
<1>6. ~(Adopted(c, u) /\ Adopted(d, u))
  BY <1>2, <1>3, OneAdopted
<1> QED BY <1>1, <1>2, <1>3, <1>4, <1>5, <1>6

\* Two logins of a user.
LEMMA UniqueLoginsStep ==
  ASSUME Base, UniqueInv, [Next]_vars
  PROVE  UniqueLogins'
<1> SUFFICES ASSUME NEW l \in Loops, NEW k \in Loops, l # k,
                    task'[l].pc \in Logging, task'[k].pc \in Logging,
                    task'[l].user = task'[k].user
             PROVE  <<task'[l].user, task'[l].type>> \in overlap'
  BY DEF UniqueLogins, Logging
<1>1. TypeOK /\ overlap \subseteq overlap'
  BY ListSteps DEF Base
<1>2. ASSUME NEW i \in Loops, NEW j \in Loops, i # j, task'[j].pc \in Logging,
             task'[i].user = task'[j].user,
             NEW c \in Conns, NEW u \in Ids, NEW t \in Types, LoginAccepted(c, u, t), LoopOf[c] = i
      PROVE  /\ <<task'[i].user, task'[i].type>> \in overlap'
             /\ <<task'[j].user, task'[j].type>> \in overlap'
  <2>1. task'[j] = task[j] /\ task'[i].user = u /\ task'[i].type = t
    BY <1>1, <1>2, LoginAcceptedTask DEF Only
  <2>2. task[j].pc \in Logging /\ task[j].user = u
    BY <1>2, <2>1
  <2> QED BY <1>2, <2>1, <2>2, AcceptedOverlap
<1>3. CASE /\ task[l].pc \in Logging /\ task[l].user = task'[l].user /\ task[l].type = task'[l].type
           /\ task[k].pc \in Logging /\ task[k].user = task'[k].user /\ task[k].type = task'[k].type
  BY <1>1, <1>3 DEF UniqueInv, UniqueLogins
<1>4. \/ task[l].pc \in Logging /\ task'[l].user = task[l].user /\ task'[l].type = task[l].type
      \/ \E c \in Conns, u \in Ids, t \in Types : LoginAccepted(c, u, t) /\ LoopOf[c] = l
  BY LoggingSteps
<1>5. \/ task[k].pc \in Logging /\ task'[k].user = task[k].user /\ task'[k].type = task[k].type
      \/ \E c \in Conns, u \in Ids, t \in Types : LoginAccepted(c, u, t) /\ LoopOf[c] = k
  BY LoggingSteps
<1> QED BY <1>2, <1>3, <1>4, <1>5

\* A session the search of a login missed.
LEMMA UniqueSearchStep ==
  ASSUME Base, UniqueInv, [Next]_vars
  PROVE  UniqueSearch'
<1> SUFFICES ASSUME NEW l \in Loops, NEW d \in sessions', Missed(l, d)'
             PROVE  <<task'[l].user, task'[l].type>> \in overlap'
  BY DEF UniqueSearch
<1>1. TypeOK /\ overlap \subseteq overlap' /\ NoUser \notin Ids
  BY ListSteps, ChatAssumption DEF Base
<1>2. /\ task'[l].pc \in {"search", "kick", "adopt"} /\ d # task'[l].conn
      /\ task'[l].pc = "search" => d \in task'[l].read
      /\ task'[l].pc = "kick" => d # task'[l].clash
      /\ uid'[d] = task'[l].user /\ TypeOf(d)' = task'[l].type
  BY DEF Missed
<1>3. CASE /\ task[l].pc \in Logging /\ task'[l].user = task[l].user
           /\ task'[l].type = task[l].type /\ task'[l].conn = task[l].conn
           /\ \/ task'[l] = task[l]
              \/ getSessionByUserIdAndClientType(l)
              \/ Kick(l) /\ task'[l].pc = "adopt"
              \/ AdoptId(l) /\ task'[l].pc = "settle"
  <2>1. PICK u \in Ids, t \in Types :
          u = task[l].user /\ t = task[l].type /\ uid'[d] = u /\ TypeOf(d)' = t
    BY <1>2, <1>3 DEF Base, GoodTasks, GoodTask
  <2>2. d \in Conns /\ (Was(d, u) \/ Adopted(d, u))
    BY <2>1, MemberSteps
  <2>3. <<u, t>> \in overlap => <<task'[l].user, task'[l].type>> \in overlap'
    BY <1>1, <1>3, <2>1
  <2>4. ASSUME NEW k \in Loops, k # l, task[k].pc \in Logging, task[k].user = u
        PROVE  <<u, t>> \in overlap
    BY <1>3, <2>1, <2>4 DEF UniqueInv, UniqueLogins
  <2>5. CASE Adopted(d, u)
    <3>1. /\ LoopOf[d] \in Loops /\ LoopOf[d] # l /\ task[LoopOf[d]].pc = "adopt"
          /\ task[LoopOf[d]].user = u
      BY <1>2, <1>3, <2>2, <2>5, ChatAssumption DEF Adopted, AdoptId
    <3> QED BY <2>3, <2>4, <3>1 DEF Logging
  <2>6. CASE Was(d, u)
    <3>1. d \in sessions /\ uid[d] = u /\ TypeOf(d) = t /\ d # task[l].conn
      BY <1>2, <1>3, <2>1, <2>6 DEF Was
    <3>2. Missed(l, d) => <<u, t>> \in overlap
      BY <2>1, <3>1 DEF UniqueInv, UniqueSearch
    <3>3. CASE task'[l] = task[l]
      <4>1. Missed(l, d)
        BY <1>2, <2>1, <3>1, <3>3 DEF Missed
      <4> QED BY <2>3, <3>2, <4>1
    <3>4. CASE Kick(l)
      <4>1. task[l].pc = "kick" /\ task[l].clash \in Conns
        BY <3>4, HandlerSteps DEF Handler
      <4>2. uid'[task[l].clash] = NoUser
        BY <1>1, <3>4, <4>1 DEF Kick, TypeOK
      <4>3. Missed(l, d)
        BY <1>1, <2>1, <3>1, <4>1, <4>2 DEF Missed
      <4> QED BY <2>3, <3>2, <4>3
    <3>5. CASE AdoptId(l) /\ task'[l].pc = "settle"
      BY <1>2, <3>5
    <3>6. CASE getSessionByUserIdAndClientType(l)
      <4>1. PICK c \in Conns :
              /\ task[l].pc = "search" /\ c \in sessions /\ c \in Unread(l)
              /\ \/ uid[c] = u /\ ctype[c] = t /\ task'[l].pc = "kick" /\ task'[l].clash = c
                 \/ /\ uid[c] # u \/ ctype[c] # t
                    /\ \/ task'[l].pc = "adopt" /\ Unread(l) = {c}
                       \/ task'[l].pc = "search" /\ task'[l].read = task[l].read \cup {c}
        BY <1>1, <2>1, <3>6, SearchTask
      <4>2. LoopOf[c] \in Loops
        BY ChatAssumption
      <4>3. ASSUME uid[c] = u, Handling(c, {"settle"}) PROVE <<u, t>> \in overlap
        <5>1. task[LoopOf[c]].user = u
          BY <1>1, <4>3 DEF UniqueInv, SettlingUser
        <5>2. task[LoopOf[c]].pc \in Logging /\ LoopOf[c] # l
          BY <4>1, <4>3 DEF Handling, Logging
        <5> QED BY <2>4, <4>2, <5>1, <5>2
      <4>4. CASE uid[c] = u /\ ~Handling(c, {"settle"}) /\ ctype[c] = t /\ d # c
        <5>1. Twins(c, d)
          BY <1>1, <3>1, <4>4 DEF Twins, Vaild, TypeOf
        <5>2. <<uid[c], TypeOf(c)>> \in overlap
          BY <3>1, <4>1, <5>1 DEF UniqueInv, UniqueSessions
        <5> QED BY <2>3, <4>4, <5>2 DEF TypeOf
      <4>5. CASE uid[c] = u /\ ctype[c] = t
        <5>1. d # c
          BY <1>2, <4>1, <4>5
        <5> QED BY <2>3, <4>3, <4>4, <4>5, <5>1
      <4>6. CASE (uid[c] # u \/ ctype[c] # t) /\ d = c
        <5>1. uid[c] = u /\ Handling(c, {"settle"})
          BY <3>1, <4>6 DEF TypeOf
        <5> QED BY <2>3, <4>3, <5>1
      <4>7. CASE (uid[c] # u \/ ctype[c] # t) /\ d # c
        <5>1. d \in task[l].read
          BY <1>2, <3>1, <4>1, <4>7 DEF Unread
        <5>2. Missed(l, d)
          BY <2>1, <3>1, <4>1, <5>1 DEF Missed
        <5> QED BY <2>3, <3>2, <5>2
      <4> QED BY <4>5, <4>6, <4>7
    <3> QED BY <1>3, <3>3, <3>4, <3>5, <3>6
  <2> QED BY <2>2, <2>5, <2>6
<1>4. ASSUME NEW c \in Conns, NEW u \in Ids, NEW t \in Types, LoginAccepted(c, u, t), LoopOf[c] = l
      PROVE  FALSE
  <2>1. task'[l].pc = "search" /\ task'[l].read = {}
    BY <1>1, <1>4, LoginAcceptedTask
  <2> QED BY <1>2, <2>1
<1> QED BY <1>2, <1>3, <1>4, LoggingSteps DEF Logging

\* A session that is settling.
LEMMA SettlingUserStep ==
  ASSUME Base, UniqueInv, [Next]_vars
  PROVE  SettlingUser'
<1> SUFFICES ASSUME NEW c \in Conns, Handling(c, {"settle"})'
             PROVE  uid'[c] \in {task'[LoopOf[c]].user, NoUser}
  BY DEF SettlingUser
<1> DEFINE l == LoopOf[c]
<1>1. TypeOK /\ l \in Loops
  BY ChatAssumption DEF Base
<1>2. CASE AdoptId(l) /\ task[l].conn = c
  <2>1. task'[l].user = task[l].user
    BY <1>1, <1>2, StepTask
  <2>2. uid'[c] = task[l].user
    BY <1>1, <1>2 DEF AdoptId, TypeOK
  <2> QED BY <2>1, <2>2
<1>3. CASE Handling(c, {"settle"}) /\ ~AdoptId(l)
  <2>1. uid[c] \in {task[l].user, NoUser}
    BY <1>3 DEF UniqueInv, SettlingUser
  <2>2. uid'[c] = uid[c] \/ uid'[c] = NoUser
    BY <1>3, UidSteps
  <2>3. task'[l].user = task[l].user
    <3>1. ~(\E d \in Conns, u \in Ids, t \in Types : LoginAccepted(d, u, t) /\ LoopOf[d] = l)
      <4>1. ASSUME NEW d \in Conns, NEW u \in Ids, NEW t \in Types, LoginAccepted(d, u, t),
                   LoopOf[d] = l
            PROVE  FALSE
        <5>1. task[l] = Idle
          BY <4>1 DEF LoginAccepted, Busy
        <5>2. task[l].pc = "settle"
          BY <1>3 DEF Handling
        <5> QED BY <5>1, <5>2 DEF Idle
      <4> QED BY <4>1
    <3>2. task'[l].pc \in Logging
      BY DEF Handling, Logging
    <3> QED BY <1>1, <3>1, <3>2, LoggingSteps
  <2> QED BY <2>1, <2>2, <2>3
<1>4. Handling(c, {"settle"}) => ~AdoptId(l)
  BY DEF Handling, AdoptId
<1> QED BY <1>2, <1>3, <1>4, SettleSteps

\* The four parts together.
LEMMA UniqueInvStep == ASSUME Base, UniqueInv, [Next]_vars PROVE UniqueInv'
BY UniqueSessionsStep, UniqueLoginsStep, UniqueSearchStep, SettlingUserStep DEF UniqueInv

------------------------------------------------------------------------------
(* The order in which a client reads what another sent. *)

\* What waits in a store is numbered, what is pushed is not.
StoredTurns == \A u \in Ids : \A m \in ToSet(cacheMsg[u]) \cup ToSet(cacheNotify[u]) : m.turn > 0

\* What is stored is numbered.
LEMMA StoredTurnsStep == ASSUME Base, StoredTurns, [Next]_vars PROVE StoredTurns'
<1>1. ASSUME NEW l \in Loops, Store(l) PROVE task[l].item.turn > 0 /\ task[l].item \in Items
  <2>1. task[l].pc = "store"
    BY <1>1 DEF Store
  <2>2. task[l].item \in Items /\ task[l].members \in Seq(Ids)
    BY DEF Base, TypeOK, Tasks
  <2>3. task[l].item.turn > Len(task[l].members) /\ task[l].item.turn \in Nat
    BY <2>1, <2>2 DEF Base, GoodTasks, GoodTask, Items
  <2>4. Len(task[l].members) \in Nat
    BY <2>2
  <2> QED BY <2>2, <2>3, <2>4
<1> SUFFICES ASSUME NEW u \in Ids, NEW m \in ToSet(cacheMsg'[u]) \cup ToSet(cacheNotify'[u])
             PROVE  m.turn > 0
  BY DEF StoredTurns
<1>2. cacheMsg[u] \in Seq(Items) /\ cacheNotify[u] \in Seq(Items)
  BY DEF Base, TypeOK
<1>3. \A l \in Loops : Store(l) =>
         /\ ToSet(Append(cacheMsg[u], task[l].item)) = ToSet(cacheMsg[u]) \cup {task[l].item}
         /\ ToSet(Append(cacheNotify[u], task[l].item)) = ToSet(cacheNotify[u]) \cup {task[l].item}
  BY <1>1, <1>2, AppendSet
<1>4. \/ m \in ToSet(cacheMsg[u]) \cup ToSet(cacheNotify[u])
      \/ \E l \in Loops : Store(l) /\ m = task[l].item
  <2>1. CASE m \in ToSet(cacheMsg'[u])
    <3>1. \/ cacheMsg'[u] = cacheMsg[u] \/ cacheMsg'[u] = <<>>
          \/ \E l \in Loops : Store(l) /\ cacheMsg'[u] = Append(cacheMsg[u], task[l].item)
      BY StoreSteps
    <3> QED BY <1>3, <2>1, <3>1, EmptyHolds
  <2>2. CASE m \in ToSet(cacheNotify'[u])
    <3>1. \/ cacheNotify'[u] = cacheNotify[u] \/ cacheNotify'[u] = <<>>
          \/ \E l \in Loops : Store(l) /\ cacheNotify'[u] = Append(cacheNotify[u], task[l].item)
      BY StoreSteps
    <3> QED BY <1>3, <2>2, <3>1, EmptyHolds
  <2> QED BY <2>1, <2>2
<1> QED BY <1>1, <1>4 DEF StoredTurns

\* A message of s, pushed to a session.
Pushed(m, s) == m.turn = 0 /\ m.id > 0 /\ m.from = s

\* The latest message of s, or the one it is pushing.
Current(s) == IF Handling(s, Fanning) /\ task[LoopOf[s]].item.id > 0 THEN task[LoopOf[s]].item.id
                                                                    ELSE sent

Older(s, c) == \A m \in ToSet(wire[c]) \cup ToSet(pending[c]) : Pushed(m, s) => m.id <= Current(s)

Ordered(q, s) == \A i, j \in 1..Len(q) :
                   i < j /\ Pushed(q[i], s) /\ Pushed(q[j], s) => q[i].id <= q[j].id

Before(p, q, s) == \A i \in 1..Len(p), j \in 1..Len(q) :
                     Pushed(p[i], s) /\ Pushed(q[j], s) => p[i].id <= q[j].id

OrderInv ==
  \A s, c \in Conns :
    /\ Older(s, c)
    /\ Ordered(wire[c], s) /\ Ordered(pending[c], s)
    /\ LoopOf[s] # LoopOf[c] => Before(wire[c], pending[c], s)
    /\ LoopOf[s] = LoopOf[c] => \A m \in ToSet(pending[c]) : ~Pushed(m, s)

\* The number of the message that is pushed does not go down.
LEMMA CurrentSteps ==
  ASSUME Base, [Next]_vars, NEW s \in Conns
  PROVE  /\ Current(s) \in Nat /\ Current(s)' \in Nat /\ Current(s) <= Current(s)'
<1> DEFINE l == LoopOf[s]
           t == task[l]
<1>1. TypeOK /\ TypeOK' /\ l \in Loops /\ GoodTask(t) /\ sent \in Nat /\ sent' \in Nat
  <2>1. TypeOK /\ TypeOK' /\ l \in Loops /\ GoodTask(t)
    BY TypeStep, ChatAssumption DEF Base, GoodTasks
  <2> QED BY <2>1, ChatAssumption DEF TypeOK
<1>2. sent <= sent'
  <2>1. ASSUME NEW c \in Conns, Client(c) PROVE sent <= sent'
    <3>1. ASSUME NEW op \in Ops, NEW a \in Ids, Command(c, op, a) PROVE sent' = sent + 1
      BY <3>1 DEF Command
    <3>2. sent' = sent \/ sent' = sent + 1
      BY <2>1, <3>1 DEF Client, Connected, ForceClose, Disconnected, LoginAccepted, LoginRefused
    <3> QED BY <1>1, <3>2
  <2>2. ASSUME NEW k \in Loops, Handler(k) \/ Flush(k) PROVE sent' = sent
    BY <2>2 DEF Handler, getSessionByUserIdAndClientType, Kick, AdoptId, AdoptRest, DrainMsgs,
                DrainNotify, SkipSelf, getSessionsByUserId, Snapshot, Push, Store, Flush
  <2>3. UNCHANGED vars => sent' = sent
    BY DEF vars
  <2> QED BY <1>1, <2>1, <2>2, <2>3 DEF Next
<1>3. ASSUME NEW k \in Loops PROVE task[k].item.id \in Nat /\ task'[k].item.id \in Nat
  <2>1. task[k] \in Tasks /\ task'[k] \in Tasks
    BY <1>1 DEF TypeOK
  <2> QED BY <2>1, ChatAssumption DEF Tasks, Items
<1>4. t.item.id <= sent
  BY <1>1 DEF GoodTask
<1>5. Current(s) \in Nat /\ Current(s)' \in Nat /\ Current(s) <= sent
  BY <1>1, <1>3, <1>4 DEF Current
<1>6. CASE Current(s)' = sent'
  BY <1>1, <1>2, <1>5, <1>6
<1>7. CASE Current(s)' # sent'
  <2>1. /\ task'[l].pc \in Fanning /\ task'[l].conn = s /\ task'[l].item.id > 0
        /\ Current(s)' = task'[l].item.id
    BY <1>7 DEF Current, Handling
  <2>2. \/ task'[l].pc \in Fanning /\ t.pc \in Fanning /\ t.conn = s /\ t.item.id = task'[l].item.id
        \/ task'[l].item.id = sent'
    <3>1. CASE task'[l] = t
      BY <2>1, <3>1
    <3>2. CASE Handler(l)
      <4>1. CASE Kick(l) \/ AdoptId(l) \/ AdoptRest(l) \/ DrainMsgs(l)
        BY <1>1, <2>1, <4>1, StepTask DEF Fanning
      <4>2. CASE DrainNotify(l)
        BY <1>1, <2>1, <4>2, DrainNotifyTask DEF Idle, Fanning
      <4>3. CASE SkipSelf(l)
        BY <1>1, <2>1, <4>3, SkipSelfTask DEF Idle, Fanning
      <4>4. CASE Push(l)
        BY <1>1, <2>1, <4>4, PushTask DEF Idle, Fanning
      <4>5. CASE Snapshot(l)
        <5>1. \/ task'[l] = Idle
              \/ /\ task'[l].conn = t.conn /\ t.pc = "fan"
                 /\ task'[l].item \in {t.item, [t.item EXCEPT !.turn = Len(t.members)]}
          BY <1>1, <4>5, SnapshotTask
        <5>2. t.item \in Items
          BY <1>1 DEF TypeOK, Tasks
        <5>3. [t.item EXCEPT !.turn = Len(t.members)].id = t.item.id
          BY <5>2 DEF Items
        <5>4. task'[l] # Idle
          BY <2>1 DEF Idle, Fanning
        <5>5. task'[l].item.id = t.item.id
          BY <5>1, <5>3, <5>4
        <5> QED BY <2>1, <5>1, <5>4, <5>5 DEF Fanning
      <4>6. CASE Store(l)
        <5>1. \/ task'[l] = Idle
              \/ /\ task'[l].conn = t.conn /\ t.pc = "store"
                 /\ task'[l].item = [t.item EXCEPT !.turn = 0]
          BY <1>1, <4>6, StoreTask
        <5>2. t.item \in Items
          BY <1>1 DEF TypeOK, Tasks
        <5>3. [t.item EXCEPT !.turn = 0].id = t.item.id
          BY <5>2 DEF Items
        <5>4. task'[l] # Idle
          BY <2>1 DEF Idle, Fanning
        <5>5. task'[l].item.id = t.item.id
          BY <5>1, <5>3, <5>4
        <5> QED BY <2>1, <5>1, <5>4, <5>5 DEF Fanning
      <4>7. CASE getSessionByUserIdAndClientType(l)
        BY <1>1, <2>1, <4>7, SearchTask DEF Fanning
      <4>8. CASE getSessionsByUserId(l)
        BY <1>1, <2>1, <4>8, LookTask DEF Fanning
      <4> QED BY <3>2, <4>1, <4>2, <4>3, <4>4, <4>5, <4>6, <4>7, <4>8 DEF Handler
    <3>3. ASSUME NEW d \in Conns, Client(d), LoopOf[d] = l, task'[l] # t
          PROVE  task'[l].item.id = sent'
      <4>1. ASSUME NEW u \in Ids, NEW ty \in Types, LoginAccepted(d, u, ty) PROVE FALSE
        BY <1>1, <2>1, <3>3, <4>1, LoginAcceptedTask DEF Fanning
      <4>2. CASE LoginRefused(d)
        <5>1. task'[l] = Idle \/ task'[l].pc = "drain"
          BY <1>1, <3>3, <4>2, LoginRefusedTask
        <5> QED BY <2>1, <5>1 DEF Idle, Fanning
      <4>3. ASSUME NEW op \in Ops, NEW a \in Ids, Command(d, op, a)
            PROVE  task'[l].item.id = sent'
        <5>1. task'[l] = Idle \/ task'[l].item.id = sent'
          BY <1>1, <3>3, <4>3, CommandTask
        <5> QED BY <2>1, <5>1 DEF Idle, Fanning
      <4>4. ~(Connected(d) \/ ForceClose(d) \/ Disconnected(d))
        BY <3>3 DEF Connected, ForceClose, Disconnected
      <4> QED BY <3>3, <4>1, <4>2, <4>3, <4>4 DEF Client
    <3>4. ASSUME NEW d \in Conns, Client(d), LoopOf[d] # l PROVE task'[l] = t
      <4>1. Only(LoopOf[d]) \/ task' = task
        BY <1>1, <3>4, LoginAcceptedTask, LoginRefusedTask, CommandTask
           DEF Client, Connected, ForceClose, Disconnected
      <4> QED BY <1>1, <3>4, <4>1 DEF Only
    <3>5. ASSUME NEW k \in Loops, Handler(k), k # l PROVE task'[l] = t
      <4>1. Only(k)
        BY <1>1, <3>5, SearchTask, StepTask, DrainNotifyTask, SkipSelfTask, LookTask,
           SnapshotTask, PushTask, StoreTask DEF Handler
      <4> QED BY <1>1, <3>5, <4>1 DEF Only
    <3>6. ASSUME NEW k \in Loops, Flush(k) PROVE task'[l] = t
      BY <3>6 DEF Flush
    <3>7. UNCHANGED vars => task'[l] = t
      BY DEF vars
    <3> QED BY <3>1, <3>2, <3>3, <3>4, <3>5, <3>6, <3>7 DEF Next
  <2>3. CASE task'[l].item.id = sent'
    BY <1>7, <2>1, <2>3
  <2>4. CASE t.pc \in Fanning /\ t.conn = s /\ t.item.id = task'[l].item.id
    <3>1. Current(s) = Current(s)'
      BY <2>1, <2>4 DEF Current, Handling
    <3> QED BY <1>5, <3>1
  <2> QED BY <2>2, <2>3, <2>4
<1> QED BY <1>5, <1>6, <1>7

\* One more message at the end.
LEMMA OrderedAppend ==
  ASSUME NEW q \in Seq(Items), NEW m \in Items, NEW s, Ordered(q, s),
         Pushed(m, s) => \A x \in ToSet(q) : Pushed(x, s) => x.id <= m.id
  PROVE  Ordered(Append(q, m), s)
<1> DEFINE r == Append(q, m)
<1> SUFFICES ASSUME NEW i \in 1..Len(r), NEW j \in 1..Len(r), i < j, Pushed(r[i], s), Pushed(r[j], s)
             PROVE  r[i].id <= r[j].id
  BY DEF Ordered
<1>1. /\ Len(r) = Len(q) + 1 /\ Len(q) \in Nat
      /\ \A k \in 1..Len(q) : r[k] = q[k]
      /\ r[Len(q) + 1] = m
  OBVIOUS
<1>2. i \in 1..Len(q) /\ r[i] = q[i]
  BY <1>1
<1>3. CASE j \in 1..Len(q)
  BY <1>1, <1>2, <1>3 DEF Ordered
<1>4. CASE j = Len(q) + 1
  BY <1>1, <1>2, <1>4 DEF ToSet
<1> QED BY <1>1, <1>3, <1>4

\* Messages at the end, all later or none of s.
LEMMA OrderedConcat ==
  ASSUME NEW p \in Seq(Items), NEW q \in Seq(Items), NEW s, Ordered(p, s), Ordered(q, s),
         Before(p, q, s)
  PROVE  Ordered(p \o q, s)
<1> DEFINE r == p \o q
<1> SUFFICES ASSUME NEW i \in 1..Len(r), NEW j \in 1..Len(r), i < j, Pushed(r[i], s), Pushed(r[j], s)
             PROVE  r[i].id <= r[j].id
  BY DEF Ordered
<1>1. /\ Len(r) = Len(p) + Len(q)
      /\ \A k \in 1..Len(p) : r[k] = p[k]
      /\ \A k \in 1..Len(r) : k \notin 1..Len(p) => k - Len(p) \in 1..Len(q) /\ r[k] = q[k - Len(p)]
  BY ConcatSet
<1>2. Len(p) \in Nat /\ Len(q) \in Nat
  OBVIOUS
<1> HIDE DEF r
<1>3. CASE j \in 1..Len(p)
  BY <1>1, <1>2, <1>3 DEF Ordered
<1>4. CASE i \in 1..Len(p) /\ j \notin 1..Len(p)
  BY <1>1, <1>2, <1>4 DEF Before
<1>5. CASE i \notin 1..Len(p) /\ j \notin 1..Len(p)
  <2>1. /\ i - Len(p) \in 1..Len(q) /\ j - Len(p) \in 1..Len(q) /\ i - Len(p) < j - Len(p)
        /\ r[i] = q[i - Len(p)] /\ r[j] = q[j - Len(p)]
    BY <1>1, <1>2, <1>5
  <2> QED BY <2>1 DEF Ordered
<1>6. i \notin 1..Len(p) => j \notin 1..Len(p)
  BY <1>1, <1>2
<1> QED BY <1>3, <1>4, <1>5, <1>6

\* What is before others by what the sequences hold.
LEMMA BeforeSets ==
  ASSUME NEW p \in Seq(Items), NEW q \in Seq(Items), NEW s
  PROVE  Before(p, q, s) <=> \A x \in ToSet(p), y \in ToSet(q) :
                               Pushed(x, s) /\ Pushed(y, s) => x.id <= y.id
BY DEF Before, ToSet

\* A sequence with nothing of s.
LEMMA OrderedNone ==
  ASSUME NEW q \in Seq(Items), NEW s, \A m \in ToSet(q) : ~Pushed(m, s)
  PROVE  Ordered(q, s) /\ \A p \in Seq(Items) : Before(p, q, s) /\ Before(q, p, s)
BY DEF Ordered, Before, ToSet

\* The message a handler pushes is the latest of its client.
LEMMA PushedCurrent ==
  ASSUME Base, NEW l \in Loops, Push(l), NEW s, Pushed(task[l].item, s)
  PROVE  s \in Conns /\ LoopOf[s] = l /\ Current(s) = task[l].item.id
<1>1. TypeOK /\ GoodTask(task[l])
  BY DEF Base, GoodTasks
<1>2. task[l].pc = "fan" /\ task[l].conn \in Conns /\ LoopOf[task[l].conn] = l
  BY <1>1, PushTask
<1>3. task[l].item.from = task[l].conn
  BY <1>1, <1>2 DEF GoodTask, Fanning
<1> QED BY <1>2, <1>3 DEF Pushed, Current, Handling, Fanning

\* The order of what s sent to c.
Order(s, c) == /\ Older(s, c)
               /\ Ordered(wire[c], s) /\ Ordered(pending[c], s)
               /\ LoopOf[s] # LoopOf[c] => Before(wire[c], pending[c], s)
               /\ LoopOf[s] = LoopOf[c] => \A m \in ToSet(pending[c]) : ~Pushed(m, s)

\* One more message on the wire, or handed to its loop.
LEMMA OrderAppend ==
  ASSUME TypeOK, NEW s \in Conns, NEW c \in Conns, NEW m \in Items, Order(s, c),
         Current(s) \in Nat, Current(s)' \in Nat, Current(s) <= Current(s)',
         Pushed(m, s) => m.id = Current(s),
         \/ Written(c, m) /\ (Pushed(m, s) => LoopOf[s] = LoopOf[c])
         \/ Handed(c, m) /\ (Pushed(m, s) => LoopOf[s] # LoopOf[c])
  PROVE  Order(s, c)'
<1>1. wire[c] \in Seq(Items) /\ pending[c] \in Seq(Items)
  BY DEF TypeOK
<1>2. \A x \in ToSet(wire[c]) \cup ToSet(pending[c]) \cup {m} : x \in Items /\ x.id \in Nat
  <2>1. ToSet(wire[c]) \cup ToSet(pending[c]) \cup {m} \subseteq Items
    BY <1>1, SetOfSeq
  <2> QED BY <2>1, ChatAssumption DEF Items
<1>3. \A x \in ToSet(wire[c]) \cup ToSet(pending[c]) : Pushed(x, s) => x.id <= Current(s)
  BY DEF Order, Older
<1>4. /\ Append(wire[c], m) \in Seq(Items) /\ ToSet(Append(wire[c], m)) = ToSet(wire[c]) \cup {m}
      /\ Append(pending[c], m) \in Seq(Items)
      /\ ToSet(Append(pending[c], m)) = ToSet(pending[c]) \cup {m}
  BY <1>1, AppendSet
<1>5. ToSet(wire'[c]) \cup ToSet(pending'[c]) = ToSet(wire[c]) \cup ToSet(pending[c]) \cup {m}
  BY <1>4 DEF Written, Handed
<1>6. Older(s, c)'
  <2>1. ASSUME NEW x \in ToSet(wire'[c]) \cup ToSet(pending'[c]), Pushed(x, s)
        PROVE  x.id <= Current(s)'
    <3>1. x.id <= Current(s) /\ x.id \in Nat
      BY <1>2, <1>3, <1>5, <2>1
    <3> QED BY <3>1
  <2> QED BY <2>1 DEF Older, Pushed
<1>7. CASE Written(c, m) /\ (Pushed(m, s) => LoopOf[s] = LoopOf[c])
  <2>1. Ordered(Append(wire[c], m), s)
    BY <1>1, <1>3, OrderedAppend DEF Order
  <2>2. LoopOf[s] # LoopOf[c] => Before(Append(wire[c], m), pending[c], s)
    BY <1>1, <1>4, <1>7, BeforeSets DEF Order
  <2>3. /\ Ordered(wire'[c], s) /\ Ordered(pending'[c], s)
        /\ LoopOf[s] # LoopOf[c] => Before(wire'[c], pending'[c], s)
        /\ LoopOf[s] = LoopOf[c] => \A x \in ToSet(pending'[c]) : ~Pushed(x, s)
    BY <1>7, <2>1, <2>2 DEF Written, Order
  <2> QED BY <1>6, <2>3 DEF Order, Ordered, Before, Pushed
<1>8. CASE Handed(c, m) /\ (Pushed(m, s) => LoopOf[s] # LoopOf[c])
  <2>1. Ordered(Append(pending[c], m), s)
    BY <1>1, <1>3, OrderedAppend DEF Order
  <2>2. LoopOf[s] # LoopOf[c] => Before(wire[c], Append(pending[c], m), s)
    <3>1. SUFFICES ASSUME LoopOf[s] # LoopOf[c], NEW x \in ToSet(wire[c]),
                          NEW y \in ToSet(pending[c]) \cup {m}, Pushed(x, s), Pushed(y, s)
                   PROVE  x.id <= y.id
      BY <1>1, <1>4, BeforeSets
    <3>2. CASE y \in ToSet(pending[c])
      BY <1>1, <3>1, <3>2, BeforeSets DEF Order
    <3>3. CASE y = m
      BY <1>3, <3>1, <3>3
    <3> QED BY <3>1, <3>2, <3>3
  <2>3. /\ Ordered(wire'[c], s) /\ Ordered(pending'[c], s)
        /\ LoopOf[s] # LoopOf[c] => Before(wire'[c], pending'[c], s)
        /\ LoopOf[s] = LoopOf[c] => \A x \in ToSet(pending'[c]) : ~Pushed(x, s)
    BY <1>4, <1>8, <2>1, <2>2 DEF Handed, Order
  <2> QED BY <1>6, <2>3 DEF Order, Ordered, Before, Pushed
<1> QED BY <1>7, <1>8

\* What is written at the end, when it is nothing of s or all of it is later.
LEMMA OrderConcat ==
  ASSUME TypeOK, NEW s \in Conns, NEW c \in Conns, NEW q \in Seq(Items), Order(s, c),
         Current(s) \in Nat, Current(s)' \in Nat, Current(s) <= Current(s)',
         wire'[c] = wire[c] \o q,
         \/ q = pending[c] /\ pending'[c] = <<>>
         \/ (\A m \in ToSet(q) : ~Pushed(m, s)) /\ pending'[c] = pending[c]
  PROVE  Order(s, c)'
<1>1. wire[c] \in Seq(Items) /\ pending[c] \in Seq(Items)
  BY DEF TypeOK
<1>2. \A x \in ToSet(wire[c]) \cup ToSet(pending[c]) : x.id \in Nat
  <2>1. ToSet(wire[c]) \cup ToSet(pending[c]) \subseteq Items
    BY <1>1, SetOfSeq
  <2> QED BY <2>1, ChatAssumption DEF Items
<1>3. ToSet(wire'[c]) = ToSet(wire[c]) \cup ToSet(q)
  BY <1>1, ConcatSet
<1>4. /\ <<>> \in Seq(Items) /\ ToSet(<<>>) = {}
      /\ Ordered(<<>>, s) /\ \A p \in Seq(Items) : Before(p, <<>>, s)
  BY EmptyHolds, OrderedNone
<1>5. Older(s, c)'
  <2>1. ASSUME NEW x \in ToSet(wire'[c]) \cup ToSet(pending'[c]), Pushed(x, s)
        PROVE  x.id <= Current(s)'
    <3>1. x \in ToSet(wire[c]) \cup ToSet(pending[c])
      BY <1>3, <1>4, <2>1
    <3>2. x.id <= Current(s) /\ x.id \in Nat
      BY <1>2, <2>1, <3>1 DEF Order, Older
    <3> QED BY <3>2
  <2> QED BY <2>1 DEF Older, Pushed
<1>6. Before(wire[c], q, s) /\ Ordered(q, s)
  <2>1. CASE \A m \in ToSet(q) : ~Pushed(m, s)
    BY <1>1, <2>1, OrderedNone
  <2>2. CASE q = pending[c] /\ ~(\A m \in ToSet(q) : ~Pushed(m, s))
    BY <2>2 DEF Order
  <2> QED BY <2>1, <2>2
<1>7. Ordered(wire'[c], s) /\ wire'[c] \in Seq(Items)
  BY <1>1, <1>6, OrderedConcat, ConcatSet DEF Order
<1>8. CASE pending'[c] = <<>>
  <2>1. /\ Ordered(pending'[c], s) /\ Before(wire'[c], pending'[c], s)
        /\ \A x \in ToSet(pending'[c]) : ~Pushed(x, s)
    BY <1>4, <1>7, <1>8
  <2> QED BY <1>5, <1>7, <2>1 DEF Order, Ordered, Before, Pushed
<1>9. CASE pending'[c] = pending[c] /\ \A m \in ToSet(q) : ~Pushed(m, s)
  <2>1. LoopOf[s] # LoopOf[c] => Before(wire'[c], pending'[c], s)
    BY <1>1, <1>3, <1>7, <1>9, BeforeSets DEF Order
  <2>2. /\ Ordered(pending'[c], s)
        /\ LoopOf[s] = LoopOf[c] => \A x \in ToSet(pending'[c]) : ~Pushed(x, s)
    BY <1>9 DEF Order
  <2> QED BY <1>5, <1>7, <2>1, <2>2 DEF Order, Ordered, Before, Pushed
<1> QED BY <1>8, <1>9

\* The order of what is written and handed over.
LEMMA OrderInvStep == ASSUME Base, StoredTurns, OrderInv, [Next]_vars PROVE OrderInv'
<1> SUFFICES ASSUME NEW s \in Conns, NEW c \in Conns PROVE Order(s, c)'
  BY DEF OrderInv, Order
<1>1. TypeOK /\ Order(s, c) /\ wire[c] \in Seq(Items) /\ pending[c] \in Seq(Items)
  BY DEF OrderInv, Order, Base, TypeOK
<1>2. Current(s) \in Nat /\ Current(s)' \in Nat /\ Current(s) <= Current(s)'
  BY CurrentSteps
<1>3. ASSUME NEW m \in Items, ~Pushed(m, s), Written(c, m) \/ Handed(c, m) PROVE Order(s, c)'
  BY <1>1, <1>2, <1>3, OrderAppend
<1>4. CASE Written(c, Note("refused")) \/ Written(c, Note("login"))
  <2>1. /\ Note("refused") \in Items /\ Note("refused").id = 0
        /\ Note("login") \in Items /\ Note("login").id = 0
    BY ItemTypes DEF Kinds
  <2> QED BY <1>3, <1>4, <2>1 DEF Pushed
<1>5. ASSUME NEW l \in Loops, NEW m \in Items, Sent(l, c, m), m.id = 0 PROVE Order(s, c)'
  BY <1>3, <1>5 DEF Sent, Pushed
<1>6. ASSUME NEW l \in Loops, Push(l), Sent(l, c, task[l].item) PROVE Order(s, c)'
  <2>1. PICK m \in Items : m = task[l].item
    BY <1>6 DEF Sent
  <2>2. Pushed(m, s) => LoopOf[s] = l /\ m.id = Current(s)
    BY <1>6, <2>1, PushedCurrent
  <2>3. \/ Written(c, m) /\ LoopOf[c] = l
        \/ Handed(c, m) /\ LoopOf[c] # l
    BY <1>6, <2>1 DEF Sent
  <2> QED BY <1>1, <1>2, <2>2, <2>3, OrderAppend
<1>7. CASE Drained(c)
  <2>1. PICK q \in Seq(Items) : /\ wire'[c] = wire[c] \o q /\ pending'[c] = pending[c]
                                /\ q \in {cacheMsg[uid[c]], cacheNotify[uid[c]]}
    BY <1>1, <1>7 DEF Drained, TypeOK
  <2>2. \A m \in ToSet(q) : ~Pushed(m, s)
    BY <1>7, <2>1 DEF Drained, StoredTurns, Pushed
  <2> QED BY <1>1, <1>2, <2>1, <2>2, OrderConcat
<1>8. CASE Flushed(c)
  <2>1. CASE link[c] # "down"
    <3>1. wire'[c] = wire[c] \o pending[c] /\ pending'[c] = <<>>
      BY <1>8, <2>1 DEF Flushed
    <3> QED BY <1>1, <1>2, <3>1, OrderConcat
  <2>2. CASE link[c] = "down"
    <3>1. wire'[c] = wire[c] /\ pending'[c] = <<>>
      BY <1>8, <2>2 DEF Flushed
    <3>2. /\ <<>> \in Seq(Items) /\ ToSet(<<>>) = {}
          /\ Ordered(<<>>, s) /\ \A p \in Seq(Items) : Before(p, <<>>, s)
      BY EmptyHolds, OrderedNone
    <3>3. Older(s, c)'
      <4>1. ASSUME NEW x \in ToSet(wire[c]), Pushed(x, s) PROVE x.id <= Current(s)'
        <5>1. x \in Items
          BY <1>1, SetOfSeq
        <5>2. x.id \in Nat /\ x.id <= Current(s)
          BY <1>1, <4>1, <5>1, ChatAssumption DEF Order, Older, Items
        <5> QED BY <1>2, <5>2
      <4> QED BY <3>1, <3>2, <4>1 DEF Older, Pushed
    <3>4. /\ Ordered(wire'[c], s) /\ Ordered(pending'[c], s) /\ Before(wire'[c], pending'[c], s)
          /\ \A m \in ToSet(pending'[c]) : ~Pushed(m, s)
      BY <1>1, <3>1, <3>2 DEF Order
    <3> QED BY <3>3, <3>4 DEF Order, Ordered, Before, Pushed
  <2> QED BY <2>1, <2>2
<1>9. CASE Untouched(c)
  <2>1. Older(s, c)'
    <3>1. ASSUME NEW x \in ToSet(wire[c]) \cup ToSet(pending[c]), Pushed(x, s)
          PROVE  x.id <= Current(s)'
      <4>1. x \in Items
        BY <1>1, SetOfSeq
      <4>2. x.id \in Nat /\ x.id <= Current(s)
        BY <1>1, <3>1, <4>1, ChatAssumption DEF Order, Older, Items
      <4> QED BY <1>2, <4>2
    <3> QED BY <1>9, <3>1 DEF Older, Pushed, Untouched
  <2> QED BY <1>1, <1>9, <2>1 DEF Order, Ordered, Before, Pushed, Untouched
<1>10. WireStep(c)
  BY WireSteps
<1> QED BY <1>4, <1>5, <1>6, <1>7, <1>8, <1>9, <1>10 DEF WireStep

------------------------------------------------------------------------------
(* A message that had to be stored is in one place. *)

\* A command is run by one handler.
OneHandler == \A l, k \in Loops :
                task[l].item.id > 0 /\ task[l].item.id = task[k].item.id => l = k

\* What a handler found nobody for is behind it.
AbsentDone == \A a \in absent : /\ a[1] \in 1..sent /\ a[2] \in Nat /\ a[2] > 0
                                /\ \A l \in Loops : task[l].item.id = a[1]
                                                      => a[2] > Len(task[l].members)

\* What is numbered is a copy of what a handler found nobody for.
Numbered(m) == m.turn > 0 => <<m.id, m.turn>> \in absent

NumberedInv ==
  /\ \A u \in Ids : \A m \in ToSet(cacheMsg[u]) \cup ToSet(cacheNotify[u]) : Numbered(m)
  /\ \A c \in Conns : \A m \in ToSet(wire[c]) : Numbered(m)
  /\ \A l \in Loops : Numbered(task[l].item)
  /\ \A c \in Conns : \A m \in ToSet(pending[c]) : m.turn = 0

\* The message a handler works on: the same, none, or one that has just been sent.
LEMMA ItemSteps ==
  ASSUME Base, [Next]_vars, NEW l \in Loops
  PROVE  \/ task'[l].item.id = 0
         \/ /\ task'[l].item.id = task[l].item.id
            /\ Len(task'[l].members) <= Len(task[l].members)
         \/ /\ Only(l) /\ task'[l].item.id = sent' /\ sent' = sent + 1
<1>1. TypeOK /\ TypeOK'
  BY TypeStep DEF Base
<1>2. /\ task[l].members \in Seq(Ids) /\ task'[l].members \in Seq(Ids)
      /\ task[l].item \in Items
  BY <1>1 DEF TypeOK, Tasks
<1>3. Len(task[l].members) \in Nat /\ Len(task'[l].members) \in Nat
  BY <1>2
<1>4. Idle.item.id = 0
  BY DEF Idle, NoItem
<1>5. CASE task'[l] = task[l]
  BY <1>3, <1>5
<1>6. CASE Handler(l)
  <2>1. CASE Kick(l) \/ AdoptId(l) \/ AdoptRest(l) \/ DrainMsgs(l)
    BY <1>1, <1>3, <2>1, StepTask
  <2>2. CASE DrainNotify(l)
    BY <1>1, <1>4, <2>2, DrainNotifyTask
  <2>3. CASE SkipSelf(l)
    <3>1. \/ task'[l] = Idle
          \/ task'[l].item = task[l].item /\ Len(task'[l].members) < Len(task[l].members)
      BY <1>1, <2>3, SkipSelfTask
    <3> QED BY <1>3, <1>4, <3>1
  <2>4. CASE Push(l)
    <3>1. \/ task'[l] = Idle
          \/ task'[l].item = task[l].item /\ task'[l].members = task[l].members
      BY <1>1, <2>4, PushTask
    <3> QED BY <1>3, <1>4, <3>1
  <2>5. CASE Snapshot(l)
    <3>1. \/ task'[l] = Idle
          \/ /\ task'[l].item \in {task[l].item, [task[l].item EXCEPT !.turn = Len(task[l].members)]}
             /\ Len(task'[l].members) < Len(task[l].members)
      BY <1>1, <2>5, SnapshotTask
    <3>2. [task[l].item EXCEPT !.turn = Len(task[l].members)].id = task[l].item.id
      BY <1>2 DEF Items
    <3>3. \/ task'[l] = Idle
          \/ /\ task'[l].item.id = task[l].item.id
             /\ Len(task'[l].members) <= Len(task[l].members)
      <4>1. CASE task'[l] # Idle
        <5>1. task'[l].item.id = task[l].item.id
          BY <3>1, <3>2, <4>1
        <5>2. \/ Len(task'[l].members) < Len(task[l].members)
              \/ Len(task'[l].members) = Len(task[l].members)
          BY <3>1, <4>1
        <5> QED BY <1>3, <5>1, <5>2
      <4> QED BY <4>1
    <3> QED BY <1>4, <3>3
  <2>6. CASE Store(l)
    <3>1. \/ task'[l] = Idle
          \/ /\ task'[l].item = [task[l].item EXCEPT !.turn = 0]
             /\ task'[l].members = task[l].members
      BY <1>1, <2>6, StoreTask
    <3>2. [task[l].item EXCEPT !.turn = 0].id = task[l].item.id
      BY <1>2 DEF Items
    <3>3. \/ task'[l] = Idle
          \/ /\ task'[l].item.id = task[l].item.id
             /\ Len(task'[l].members) <= Len(task[l].members)
      <4>1. CASE task'[l] # Idle
        <5>1. task'[l].item.id = task[l].item.id
          BY <3>1, <3>2, <4>1
        <5>2. \/ Len(task'[l].members) < Len(task[l].members)
              \/ Len(task'[l].members) = Len(task[l].members)
          BY <3>1, <4>1
        <5> QED BY <1>3, <5>1, <5>2
      <4> QED BY <4>1
    <3> QED BY <1>4, <3>3
  <2>7. CASE getSessionByUserIdAndClientType(l)
    <3>1. task'[l].item = task[l].item /\ task'[l].members = task[l].members
      BY <1>1, <2>7, SearchTask
    <3> QED BY <1>3, <3>1
  <2>8. CASE getSessionsByUserId(l)
    <3>1. task'[l].item = task[l].item /\ task'[l].members = task[l].members
      BY <1>1, <2>8, LookTask
    <3> QED BY <1>3, <3>1
  <2> QED BY <1>6, <2>1, <2>2, <2>3, <2>4, <2>5, <2>6, <2>7, <2>8 DEF Handler
<1>7. ASSUME NEW d \in Conns, Client(d), LoopOf[d] = l, task'[l] # task[l]
      PROVE  task'[l].item.id = 0 \/ (Only(l) /\ task'[l].item.id = sent' /\ sent' = sent + 1)
  <2>1. ASSUME NEW u \in Ids, NEW t \in Types, LoginAccepted(d, u, t) PROVE task'[l].item.id = 0
    <3>1. NoFan(task'[l])
      BY <1>1, <1>7, <2>1, LoginAcceptedTask
    <3> QED BY <3>1 DEF NoFan, NoItem
  <2>2. CASE LoginRefused(d)
    <3>1. task'[l] = Idle \/ NoFan(task'[l])
      BY <1>1, <1>7, <2>2, LoginRefusedTask
    <3> QED BY <1>4, <3>1 DEF NoFan, NoItem
  <2>3. ASSUME NEW op \in Ops, NEW a \in Ids, Command(d, op, a)
        PROVE  task'[l].item.id = 0 \/ (Only(l) /\ task'[l].item.id = sent' /\ sent' = sent + 1)
    <3>1. /\ Only(l) /\ sent' = sent + 1
          /\ task'[l] = Idle \/ task'[l].item.id = sent'
      BY <1>1, <1>7, <2>3, CommandTask
    <3> QED BY <1>4, <3>1
  <2>4. ~(Connected(d) \/ ForceClose(d) \/ Disconnected(d))
    BY <1>7 DEF Connected, ForceClose, Disconnected
  <2> QED BY <1>7, <2>1, <2>2, <2>3, <2>4 DEF Client
<1>8. ASSUME NEW d \in Conns, Client(d), LoopOf[d] # l PROVE task'[l] = task[l]
  <2>1. Only(LoopOf[d]) \/ task' = task
    BY <1>1, <1>8, LoginAcceptedTask, LoginRefusedTask, CommandTask
       DEF Client, Connected, ForceClose, Disconnected
  <2> QED BY <1>8, <2>1 DEF Only
<1>9. ASSUME NEW k \in Loops, Handler(k), k # l PROVE task'[l] = task[l]
  <2>1. Only(k)
    BY <1>1, <1>9, StepTask, DrainNotifyTask, SkipSelfTask, SnapshotTask, PushTask, StoreTask,
       SearchTask, LookTask
       DEF Handler
  <2> QED BY <1>9, <2>1 DEF Only
<1>10. ASSUME NEW k \in Loops, Flush(k) PROVE task'[l] = task[l]
  BY <1>10 DEF Flush
<1>11. UNCHANGED vars => task'[l] = task[l]
  BY DEF vars
<1> QED BY <1>5, <1>6, <1>7, <1>8, <1>9, <1>10, <1>11 DEF Next

\* How many commands there were.
LEMMA SentSteps ==
  ASSUME Base, [Next]_vars
  PROVE  sent \in Nat /\ sent' \in Nat /\ sent <= sent'
<1>1. TypeOK /\ TypeOK' /\ sent \in Nat /\ sent' \in Nat
  <2>1. TypeOK /\ TypeOK'
    BY TypeStep DEF Base
  <2> QED BY <2>1, ChatAssumption DEF TypeOK
<1>2. ASSUME NEW c \in Conns, Client(c) PROVE sent <= sent'
  <2>1. ASSUME NEW op \in Ops, NEW a \in Ids, Command(c, op, a) PROVE sent' = sent + 1
    BY <2>1 DEF Command
  <2>2. sent' = sent \/ sent' = sent + 1
    BY <1>2, <2>1 DEF Client, Connected, ForceClose, Disconnected, LoginAccepted, LoginRefused
  <2> QED BY <1>1, <2>2
<1>3. ASSUME NEW k \in Loops, Handler(k) \/ Flush(k) PROVE sent' = sent
  BY <1>3 DEF Handler, getSessionByUserIdAndClientType, Kick, AdoptId, AdoptRest, DrainMsgs,
              DrainNotify, SkipSelf, getSessionsByUserId, Snapshot, Push, Store, Flush
<1>4. UNCHANGED vars => sent' = sent
  BY DEF vars
<1> QED BY <1>1, <1>2, <1>3, <1>4 DEF Next

\* A new command has a new number.
LEMMA OneHandlerStep == ASSUME Base, OneHandler, [Next]_vars PROVE OneHandler'
<1> SUFFICES ASSUME NEW l \in Loops, NEW k \in Loops, l # k,
                    task'[l].item.id > 0, task'[l].item.id = task'[k].item.id
             PROVE  FALSE
  BY DEF OneHandler
<1>1. sent \in Nat
  BY SentSteps
<1>2. \A j \in Loops : task[j].item.id <= sent /\ task[j].item.id \in Nat
  <2>1. ASSUME NEW j \in Loops PROVE task[j].item.id <= sent /\ task[j].item.id \in Nat
    <3>1. task[j] \in Tasks /\ GoodTask(task[j])
      BY DEF Base, TypeOK, GoodTasks
    <3> QED BY <3>1, ChatAssumption DEF Tasks, Items, GoodTask
  <2> QED BY <2>1
<1>3. \A j \in Loops : \/ task'[j].item.id = 0
                       \/ task'[j].item.id = task[j].item.id
                       \/ Only(j) /\ task'[j].item.id = sent + 1
  BY ItemSteps
<1>4. CASE Only(l) /\ task'[l].item.id = sent + 1
  <2>1. task'[k].item.id = task[k].item.id
    BY <1>4 DEF Only
  <2>2. task[k].item.id = sent + 1 /\ task[k].item.id <= sent
    BY <1>2, <1>4, <2>1
  <2> QED BY <1>1, <2>2
<1>5. CASE Only(k) /\ task'[k].item.id = sent + 1
  <2>1. task'[l].item.id = task[l].item.id
    BY <1>5 DEF Only
  <2> QED BY <1>1, <1>2, <1>5, <2>1
<1>6. CASE task'[l].item.id = task[l].item.id /\ task'[k].item.id = task[k].item.id
  BY <1>6 DEF OneHandler
<1> QED BY <1>3, <1>4, <1>5, <1>6

\* A handler finds nobody for a message.
Misses(l) == Snapshot(l) /\ task[l].item.kind \in Messages /\ task[l].found = {}

\* A copy has to be stored only where a snapshot finds nobody.
LEMMA AbsentSteps ==
  ASSUME Base, [Next]_vars
  PROVE  \/ absent' = absent /\ \A l \in Loops : ~Misses(l)
         \/ \E l \in Loops : /\ Misses(l)
                             /\ absent' = absent \cup {<<task[l].item.id, Len(task[l].members)>>}
<1>1. ASSUME NEW l \in Loops, Snapshot(l)
      PROVE  /\ absent' = IF Misses(l) THEN absent \cup {<<task[l].item.id, Len(task[l].members)>>}
                                       ELSE absent
             /\ \A k \in Loops : k # l => ~Misses(k)
  <2>1. absent' = IF Misses(l) THEN absent \cup {<<task[l].item.id, Len(task[l].members)>>}
                               ELSE absent
    BY <1>1 DEF Snapshot, Misses
  <2>2. ASSUME NEW k \in Loops, k # l PROVE ~Misses(k)
    <3>1. task'[k] = task[k]
      BY <1>1, <2>2, SnapshotTask DEF Only, Base
    <3>2. ASSUME Misses(k) PROVE FALSE
      <4>1. task'[k] = Idle \/ Len(task'[k].members) < Len(task[k].members)
        BY <3>2, SnapshotTask DEF Misses, Base
      <4>2. task[k].pc = "fan" /\ task[k].members \in Seq(Ids)
        BY <3>2 DEF Misses, Snapshot, Base, TypeOK, Tasks
      <4>3. Len(task[k].members) \in Nat
        BY <4>2
      <4> QED BY <3>1, <4>1, <4>2, <4>3 DEF Idle
    <3> QED BY <3>2
  <2> QED BY <2>1, <2>2
<1>2. CASE \E l \in Loops : Snapshot(l)
  BY <1>1, <1>2
<1>3. CASE \A l \in Loops : ~Snapshot(l)
  <2>1. ASSUME NEW l \in Loops, Handler(l) \/ Flush(l) PROVE absent' = absent
    BY <1>3, <2>1 DEF Handler, getSessionByUserIdAndClientType, Kick, AdoptId, AdoptRest,
                      DrainMsgs, DrainNotify, SkipSelf, getSessionsByUserId, Push, Store, Flush,
                      history
  <2>2. ASSUME NEW c \in Conns, Client(c) PROVE absent' = absent
    BY <2>2 DEF Client, Connected, ForceClose, Disconnected, LoginAccepted, LoginRefused, Command,
                history
  <2>3. UNCHANGED vars => absent' = absent
    BY DEF vars, history
  <2> QED BY <1>3, <2>1, <2>2, <2>3 DEF Next, Misses
<1> QED BY <1>2, <1>3

\* What a handler that finds nobody goes on with.
LEMMA MissTask ==
  ASSUME Base, NEW l \in Loops, Misses(l)
  PROVE  LET t == task[l]
             r == task'[l]
         IN  /\ Only(l) /\ t.pc = "fan" /\ r.pc = "store"
             /\ Len(t.members) \in Nat /\ Len(r.members) \in Nat /\ Len(r.members) < Len(t.members)
             /\ Len(t.members) > 0
             /\ t.item.id \in 1..sent /\ r.item.id = t.item.id /\ r.item.turn = Len(t.members)
<1> DEFINE t == task[l]
           r == task'[l]
<1>1. TypeOK /\ GoodTask(t) /\ t.item \in Items /\ t.members \in Seq(Ids) /\ sent \in Nat
  <2>1. TypeOK /\ GoodTask(t)
    BY DEF Base, GoodTasks
  <2> QED BY <2>1, ChatAssumption DEF TypeOK, Tasks
<1>2. /\ Only(l) /\ t.pc = "fan" /\ r.pc = "store" /\ Len(r.members) < Len(t.members)
      /\ Len(t.members) > 0 /\ TypeTasks'
      /\ r.item = [t.item EXCEPT !.turn = Len(t.members)]
  <2>1. /\ Only(l) /\ TypeTasks' /\ t.pc = "fan" /\ Len(t.members) > 0
        /\ \/ r.pc = "store" /\ Len(r.members) < Len(t.members)
              /\ r.item = [t.item EXCEPT !.turn = Len(t.members)]
           \/ r = Idle /\ t.item.kind \notin Messages
           \/ r.pc = "fan" /\ (t.found # {} \/ t.item.kind \notin Messages)
    BY <1>1, SnapshotTask DEF Misses
  <2> QED BY <2>1 DEF Misses
<1>3. r.item.id = t.item.id /\ r.item.turn = Len(t.members)
  BY <1>1, <1>2 DEF Items
<1>4. t.item.id \in 1..sent
  <2>1. t.item.id > 0 /\ t.item.id <= sent /\ t.item.id \in Nat
    BY <1>1, ChatAssumption DEF GoodTask, Misses, Items
  <2> QED BY <1>1, <2>1
<1>5. r.members \in Seq(Ids)
  BY <1>2 DEF TypeTasks, Tasks
<1>6. Len(t.members) \in Nat /\ Len(r.members) \in Nat
  BY <1>1, <1>5
<1> QED BY <1>2, <1>3, <1>4, <1>6

\* The audience of a command is gone through once.
LEMMA AbsentDoneStep == ASSUME Base, OneHandler, AbsentDone, [Next]_vars PROVE AbsentDone'
<1> SUFFICES ASSUME NEW a \in absent'
             PROVE  /\ a[1] \in 1..sent' /\ a[2] \in Nat /\ a[2] > 0
                    /\ \A l \in Loops : task'[l].item.id = a[1] => a[2] > Len(task'[l].members)
  BY DEF AbsentDone
<1>1. sent \in Nat /\ sent' \in Nat /\ sent <= sent'
  BY SentSteps
<1>2. CASE a \in absent
  <2>1. a[1] \in 1..sent /\ a[2] \in Nat /\ a[2] > 0
    BY <1>2 DEF AbsentDone
  <2>2. ASSUME NEW l \in Loops, task'[l].item.id = a[1] PROVE a[2] > Len(task'[l].members)
    <3>1. /\ task'[l].item.id = task[l].item.id /\ Len(task'[l].members) <= Len(task[l].members)
      BY <1>1, <2>1, <2>2, ItemSteps
    <3>2. a[2] > Len(task[l].members)
      BY <1>2, <2>2, <3>1 DEF AbsentDone
    <3>3. Len(task[l].members) \in Nat /\ Len(task'[l].members) \in Nat
      <4>1. task[l].members \in Seq(Ids) /\ task'[l].members \in Seq(Ids)
        BY TypeStep DEF Base, TypeOK, Tasks
      <4> QED BY <4>1
    <3> QED BY <2>1, <3>1, <3>2, <3>3
  <2> QED BY <1>1, <2>1, <2>2
<1>3. ASSUME NEW k \in Loops, Misses(k), a = <<task[k].item.id, Len(task[k].members)>>
      PROVE  /\ a[1] \in 1..sent' /\ a[2] \in Nat /\ a[2] > 0
             /\ \A l \in Loops : task'[l].item.id = a[1] => a[2] > Len(task'[l].members)
  <2>1. /\ Only(k) /\ Len(task[k].members) \in Nat /\ Len(task[k].members) > 0
        /\ Len(task'[k].members) < Len(task[k].members) /\ task[k].item.id \in 1..sent
    BY <1>3, MissTask
  <2>2. a[1] = task[k].item.id /\ a[2] = Len(task[k].members)
    BY <1>3
  <2>3. ASSUME NEW l \in Loops, task'[l].item.id = a[1] PROVE a[2] > Len(task'[l].members)
    <3>1. CASE l = k
      BY <2>1, <2>2, <3>1
    <3>2. CASE l # k
      <4>1. task[l].item.id = task[k].item.id
        BY <2>1, <2>2, <2>3, <3>2 DEF Only
      <4> QED BY <2>1, <3>2, <4>1 DEF OneHandler
    <3> QED BY <3>1, <3>2
  <2> QED BY <1>1, <2>1, <2>2, <2>3
<1> QED BY <1>2, <1>3, AbsentSteps

\* A number is given where nobody was found.
LEMMA NumberedStep == ASSUME Base, NumberedInv, [Next]_vars PROVE NumberedInv'
<1>1. TypeOK /\ TypeOK'
  BY TypeStep DEF Base
<1>2. absent \subseteq absent'
  BY AbsentSteps
<1>3. ASSUME NEW m, Numbered(m) PROVE Numbered(m)'
  BY <1>2, <1>3 DEF Numbered
<1>4. \A l \in Loops : task[l].item \in Items /\ Numbered(task[l].item)
  BY <1>1 DEF NumberedInv, TypeOK, Tasks
<1>5. ASSUME NEW u \in Ids, NEW m \in ToSet(cacheMsg'[u]) \cup ToSet(cacheNotify'[u])
      PROVE  Numbered(m)
  <2>1. cacheMsg[u] \in Seq(Items) /\ cacheNotify[u] \in Seq(Items)
    BY <1>1 DEF TypeOK
  <2>2. \A l \in Loops : 
           /\ ToSet(Append(cacheMsg[u], task[l].item)) = ToSet(cacheMsg[u]) \cup {task[l].item}
           /\ ToSet(Append(cacheNotify[u], task[l].item)) = ToSet(cacheNotify[u]) \cup {task[l].item}
    BY <1>4, <2>1, AppendSet
  <2>3. CASE m \in ToSet(cacheMsg'[u])
    <3>1. \/ cacheMsg'[u] = cacheMsg[u] \/ cacheMsg'[u] = <<>>
          \/ \E l \in Loops : Store(l) /\ cacheMsg'[u] = Append(cacheMsg[u], task[l].item)
      BY StoreSteps
    <3>2. m \in ToSet(cacheMsg[u]) \/ \E l \in Loops : m = task[l].item
      BY <2>2, <2>3, <3>1, EmptyHolds
    <3> QED BY <1>4, <3>2 DEF NumberedInv
  <2>4. CASE m \in ToSet(cacheNotify'[u])
    <3>1. \/ cacheNotify'[u] = cacheNotify[u] \/ cacheNotify'[u] = <<>>
          \/ \E l \in Loops : Store(l) /\ cacheNotify'[u] = Append(cacheNotify[u], task[l].item)
      BY StoreSteps
    <3>2. m \in ToSet(cacheNotify[u]) \/ \E l \in Loops : m = task[l].item
      BY <2>2, <2>4, <3>1, EmptyHolds
    <3> QED BY <1>4, <3>2 DEF NumberedInv
  <2> QED BY <2>3, <2>4
<1>6. ASSUME NEW c \in Conns
      PROVE  /\ \A m \in ToSet(wire'[c]) : Numbered(m)
             /\ \A m \in ToSet(pending'[c]) : m.turn = 0
  <2>1. /\ wire[c] \in Seq(Items) /\ pending[c] \in Seq(Items) /\ WireStep(c)
        /\ \A m \in ToSet(wire[c]) : Numbered(m)
        /\ \A m \in ToSet(pending[c]) : m.turn = 0
    BY <1>1, WireSteps DEF TypeOK, NumberedInv
  <2>2. ASSUME NEW m \in Items, m.turn = 0, Written(c, m) \/ Handed(c, m)
        PROVE  /\ \A x \in ToSet(wire'[c]) : Numbered(x)
               /\ \A x \in ToSet(pending'[c]) : x.turn = 0
    <3>1. /\ ToSet(Append(wire[c], m)) = ToSet(wire[c]) \cup {m}
          /\ ToSet(Append(pending[c], m)) = ToSet(pending[c]) \cup {m}
      BY <2>1, AppendSet
    <3>2. Numbered(m)
      BY <2>2 DEF Numbered
    <3> QED BY <2>1, <2>2, <3>1, <3>2 DEF Written, Handed
  <2>3. CASE Written(c, Note("refused")) \/ Written(c, Note("login"))
    <3>1. /\ Note("refused") \in Items /\ Note("refused").turn = 0
          /\ Note("login") \in Items /\ Note("login").turn = 0
      BY ItemTypes DEF Kinds
    <3> QED BY <2>2, <2>3, <3>1
  <2>4. ASSUME NEW l \in Loops, NEW m \in Items, Sent(l, c, m), m.turn = 0
        PROVE  /\ \A x \in ToSet(wire'[c]) : Numbered(x)
               /\ \A x \in ToSet(pending'[c]) : x.turn = 0
    BY <2>2, <2>4 DEF Sent
  <2>5. \A l \in Loops : Push(l) => task[l].item.turn = 0 /\ task[l].item \in Items
    BY <1>4 DEF Push, Base, GoodTasks, GoodTask
  <2>6. CASE Drained(c)
    <3>1. PICK q \in Seq(Items) : /\ wire'[c] = wire[c] \o q /\ pending'[c] = pending[c]
                                  /\ q \in {cacheMsg[uid[c]], cacheNotify[uid[c]]}
      BY <1>1, <2>6 DEF Drained, TypeOK
    <3>2. \A m \in ToSet(q) : Numbered(m)
      BY <2>6, <3>1 DEF Drained, NumberedInv
    <3>3. ToSet(wire'[c]) = ToSet(wire[c]) \cup ToSet(q)
      BY <2>1, <3>1, ConcatSet
    <3> QED BY <2>1, <3>1, <3>2, <3>3
  <2>7. CASE Flushed(c)
    <3>1. wire'[c] \in {wire[c], wire[c] \o pending[c]} /\ pending'[c] = <<>>
      BY <2>7 DEF Flushed
    <3>2. ToSet(wire[c] \o pending[c]) = ToSet(wire[c]) \cup ToSet(pending[c])
      BY <2>1, ConcatSet
    <3>3. \A m \in ToSet(pending[c]) : Numbered(m)
      BY <2>1 DEF Numbered
    <3>4. \A m \in ToSet(wire'[c]) : Numbered(m)
      BY <2>1, <3>1, <3>2, <3>3
    <3> QED BY <3>1, <3>4, EmptyHolds
  <2> QED BY <2>1, <2>3, <2>4, <2>5, <2>6, <2>7 DEF WireStep, Untouched
<1>7. ASSUME NEW l \in Loops PROVE Numbered(task[l].item)'
  <2>1. CASE task'[l] = task[l]
    BY <1>3, <1>4, <2>1 DEF Numbered
  <2>2. CASE Misses(l)
    <3>1. /\ task'[l].item.id = task[l].item.id /\ task'[l].item.turn = Len(task[l].members)
      BY <2>2, MissTask
    <3>2. <<task[l].item.id, Len(task[l].members)>> \in absent'
      BY <2>2 DEF Misses, Snapshot
    <3> QED BY <3>1, <3>2 DEF Numbered
  <2>3. CASE task'[l] # task[l] /\ ~Misses(l)
    <3>1. task'[l].pc # "store"
      <4>1. CASE Handler(l)
        <5>1. CASE Kick(l) \/ AdoptId(l) \/ AdoptRest(l) \/ DrainMsgs(l)
          BY <1>1, <5>1, StepTask
        <5>2. CASE DrainNotify(l)
          BY <1>1, <5>2, DrainNotifyTask DEF Idle
        <5>3. CASE SkipSelf(l)
          BY <1>1, <5>3, SkipSelfTask DEF Idle
        <5>4. CASE Snapshot(l)
          <6>1. \/ task'[l] = Idle \/ task'[l].pc = "fan"
                \/ (task[l].found = {} /\ task[l].item.kind \in Messages)
            BY <1>1, <5>4, SnapshotTask
          <6> QED BY <2>3, <5>4, <6>1 DEF Misses, Idle
        <5>5. CASE Push(l) \/ Store(l)
          <6>1. task'[l] = Idle \/ task'[l].pc = "fan"
            BY <1>1, <5>5, PushTask, StoreTask
          <6> QED BY <6>1 DEF Idle
        <5>6. CASE getSessionByUserIdAndClientType(l)
          BY <1>1, <5>6, SearchTask
        <5>7. CASE getSessionsByUserId(l)
          BY <1>1, <5>7, LookTask
        <5> QED BY <4>1, <5>1, <5>2, <5>3, <5>4, <5>5, <5>6, <5>7 DEF Handler
      <4> QED BY <2>3, <4>1, LoopSteps
    <3>2. GoodTask(task[l])'
      BY BaseStep DEF Base, GoodTasks
    <3>3. task'[l].item.turn = 0
      BY <3>1, <3>2 DEF GoodTask
    <3> QED BY <3>3 DEF Numbered
  <2> QED BY <2>1, <2>2, <2>3
<1>8. /\ \A u \in Ids : \A m \in ToSet(cacheMsg'[u]) \cup ToSet(cacheNotify'[u]) : Numbered(m)'
      /\ \A c \in Conns : \A m \in ToSet(wire'[c]) : Numbered(m)'
      /\ \A c \in Conns : \A m \in ToSet(pending'[c]) : m.turn = 0
  BY <1>3, <1>5, <1>6
<1> QED BY <1>7, <1>8 DEF NumberedInv, ToSet

\* The one place.
Sole(q, id, n, i) == At(q, id, n) = {i}

\* The places of a copy in a sequence that grows.
LEMMA AtAppend ==
  ASSUME NEW q \in Seq(Items), NEW m \in Items, NEW id, NEW n
  PROVE  /\ m.id = id /\ m.turn = n => At(Append(q, m), id, n) = At(q, id, n) \cup {Len(q) + 1}
         /\ ~(m.id = id /\ m.turn = n) => At(Append(q, m), id, n) = At(q, id, n)
<1> DEFINE r == Append(q, m)
<1>1. /\ Len(r) = Len(q) + 1 /\ Len(q) \in Nat
      /\ \A k \in 1..Len(q) : r[k] = q[k]
      /\ r[Len(q) + 1] = m
  OBVIOUS
<1>2. \A k : k \in 1..Len(r) <=> k \in 1..Len(q) \/ k = Len(q) + 1
  BY <1>1
<1>3. Len(q) + 1 \notin 1..Len(q)
  BY <1>1
<1> HIDE DEF r
<1>4. \A k : k \in At(r, id, n) <=> k \in At(q, id, n) \/ (k = Len(q) + 1 /\ m.id = id /\ m.turn = n)
  BY <1>1, <1>2, <1>3 DEF At
<1>5. m.id = id /\ m.turn = n => At(r, id, n) = At(q, id, n) \cup {Len(q) + 1}
  BY <1>4
<1>6. ~(m.id = id /\ m.turn = n) => At(r, id, n) = At(q, id, n)
  BY <1>4
<1> QED BY <1>5, <1>6 DEF r

\* The first place of a copy.
LEMMA AtAdded ==
  ASSUME NEW q \in Seq(Items), NEW m \in Items, NEW id, NEW n, m.id = id, m.turn = n,
         At(q, id, n) = {}
  PROVE  Sole(Append(q, m), id, n, Len(q) + 1)
BY AtAppend DEF Sole

\* No place of a copy.
LEMMA AtNone ==
  ASSUME NEW q \in Seq(Items), NEW id, NEW n
  PROVE  At(q, id, n) = {} <=> \A m \in ToSet(q) : ~(m.id = id /\ m.turn = n)
BY DEF At, ToSet

\* Nothing comes with a sequence that does not hold the copy.
LEMMA AtConcat ==
  ASSUME NEW p \in Seq(Items), NEW q \in Seq(Items), NEW id, NEW n
  PROVE  At(q, id, n) = {} => At(p \o q, id, n) = At(p, id, n)
<1> DEFINE r == p \o q
<1>1. /\ Len(r) = Len(p) + Len(q)
      /\ \A k \in 1..Len(p) : r[k] = p[k]
      /\ \A k \in 1..Len(q) : r[Len(p) + k] = q[k]
      /\ \A k \in 1..Len(r) : k \notin 1..Len(p) => k - Len(p) \in 1..Len(q) /\ r[k] = q[k - Len(p)]
  BY ConcatSet
<1>2. Len(p) \in Nat /\ Len(q) \in Nat
  OBVIOUS
<1> HIDE DEF r
<1>3. \A k \in 1..Len(p) : k \in 1..Len(r)
  BY <1>1, <1>2
<1>4. ASSUME At(q, id, n) = {} PROVE At(r, id, n) = At(p, id, n)
  <2>1. ASSUME NEW k \in At(r, id, n) PROVE k \in At(p, id, n)
    <3>1. k \in 1..Len(r) /\ r[k].id = id /\ r[k].turn = n
      BY <2>1 DEF At
    <3>2. k \in 1..Len(p)
      <4>1. ASSUME k \notin 1..Len(p) PROVE FALSE
        <5>1. k - Len(p) \in At(q, id, n)
          BY <1>1, <3>1, <4>1 DEF At
        <5> QED BY <1>4, <5>1
      <4> QED BY <4>1
    <3> QED BY <1>1, <3>1, <3>2 DEF At
  <2>2. ASSUME NEW k \in At(p, id, n) PROVE k \in At(r, id, n)
    BY <1>1, <1>3, <2>2 DEF At
  <2> QED BY <2>1, <2>2
<1> QED BY <1>4 DEF r

\* A copy comes with the sequence that holds it.
LEMMA AtMoved ==
  ASSUME NEW p \in Seq(Items), NEW q \in Seq(Items), NEW id, NEW n, NEW i \in Nat,
         Sole(q, id, n, i), At(p, id, n) = {}
  PROVE  Sole(p \o q, id, n, Len(p) + i)
<1> DEFINE r == p \o q
<1>1. /\ Len(r) = Len(p) + Len(q)
      /\ \A k \in 1..Len(p) : r[k] = p[k]
      /\ \A k \in 1..Len(q) : r[Len(p) + k] = q[k]
      /\ \A k \in 1..Len(r) : k \notin 1..Len(p) => k - Len(p) \in 1..Len(q) /\ r[k] = q[k - Len(p)]
  BY ConcatSet
<1>2. Len(p) \in Nat /\ Len(q) \in Nat
  OBVIOUS
<1> HIDE DEF r
<1>3. i \in 1..Len(q) /\ q[i].id = id /\ q[i].turn = n
  <2>1. i \in At(q, id, n)
    BY DEF Sole
  <2> QED BY <2>1 DEF At
<1>4. Len(p) + i \in At(r, id, n)
  <2>1. Len(p) + i \in 1..Len(r) /\ r[Len(p) + i] = q[i]
    BY <1>1, <1>2, <1>3
  <2> QED BY <1>3, <2>1 DEF At
<1>5. ASSUME NEW k \in At(r, id, n) PROVE k = Len(p) + i
  <2>1. k \in 1..Len(r) /\ r[k].id = id /\ r[k].turn = n
    BY <1>5 DEF At
  <2>2. k \notin 1..Len(p)
    <3>1. ASSUME k \in 1..Len(p) PROVE FALSE
      <4>1. k \in At(p, id, n)
        BY <1>1, <2>1, <3>1 DEF At
      <4> QED BY <4>1
    <3> QED BY <3>1
  <2>3. k - Len(p) \in At(q, id, n)
    BY <1>1, <2>1, <2>2 DEF At
  <2>4. k - Len(p) = i
    BY <2>3 DEF Sole
  <2> QED BY <1>2, <1>3, <2>1, <2>4
<1> QED BY <1>4, <1>5 DEF r, Sole

\* A copy is nowhere, or in one place, of some sequences.
None(f, D, id, n) == \A x \in D : At(f[x], id, n) = {}
One(f, D, id, n) == \E x \in D : /\ \E i : At(f[x], id, n) = {i}
                                 /\ \A y \in D : y # x => At(f[y], id, n) = {}
NoStorer(id, n) == Storers(id, n) = {}
OneStorer(id, n) == \E l \in Loops : Storers(id, n) = {l}

Nowhere(id, n) == /\ None(cacheMsg, Ids, id, n) /\ None(cacheNotify, Ids, id, n)
                  /\ None(wire, Conns, id, n)

OnePlace(id, n) ==
  \/ OneStorer(id, n) /\ Nowhere(id, n)
  \/ /\ NoStorer(id, n)
     /\ \/ /\ One(cacheMsg, Ids, id, n) /\ None(cacheNotify, Ids, id, n)
           /\ None(wire, Conns, id, n)
        \/ /\ None(cacheMsg, Ids, id, n) /\ One(cacheNotify, Ids, id, n)
           /\ None(wire, Conns, id, n)
        \/ /\ None(cacheMsg, Ids, id, n) /\ None(cacheNotify, Ids, id, n)
           /\ One(wire, Conns, id, n)

PlaceInv == \A a \in absent : OnePlace(a[1], a[2])

\* What is not drained does not reach a wire.
LEMMA WireAt ==
  ASSUME Base, NumberedInv, [Next]_vars, NEW c \in Conns, ~Drained(c), NEW id, NEW n \in Nat, n > 0
  PROVE  At(wire'[c], id, n) = At(wire[c], id, n)
<1>1. /\ TypeOK /\ wire[c] \in Seq(Items) /\ pending[c] \in Seq(Items) /\ WireStep(c)
      /\ \A m \in ToSet(pending[c]) : m.turn = 0
  BY WireSteps DEF Base, TypeOK, NumberedInv
<1>2. ASSUME NEW m \in Items, m.turn = 0, Written(c, m) \/ Handed(c, m)
      PROVE  At(wire'[c], id, n) = At(wire[c], id, n)
  <2>1. ~(m.id = id /\ m.turn = n)
    BY <1>2
  <2>2. At(Append(wire[c], m), id, n) = At(wire[c], id, n)
    BY <1>1, <2>1, AtAppend
  <2> QED BY <1>2, <2>2 DEF Written, Handed
<1>3. CASE Written(c, Note("refused")) \/ Written(c, Note("login"))
  <2>1. /\ Note("refused") \in Items /\ Note("refused").turn = 0
        /\ Note("login") \in Items /\ Note("login").turn = 0
    BY ItemTypes DEF Kinds
  <2> QED BY <1>2, <1>3, <2>1
<1>4. ASSUME NEW l \in Loops, NEW m \in Items, Sent(l, c, m), m.turn = 0
      PROVE  At(wire'[c], id, n) = At(wire[c], id, n)
  BY <1>2, <1>4 DEF Sent
<1>5. \A l \in Loops : Push(l) => task[l].item.turn = 0 /\ task[l].item \in Items
  BY <1>1 DEF Push, Base, GoodTasks, GoodTask, TypeOK, Tasks
<1>6. CASE Flushed(c)
  <2>1. At(pending[c], id, n) = {}
    BY <1>1, AtNone
  <2>2. At(wire[c] \o pending[c], id, n) = At(wire[c], id, n)
    BY <1>1, <2>1, AtConcat
  <2> QED BY <1>6, <2>2 DEF Flushed
<1> QED BY <1>1, <1>3, <1>4, <1>5, <1>6 DEF WireStep, Untouched

\* A handler comes to store a copy when it finds nobody, and stores it.
LEMMA StorerSteps ==
  ASSUME Base, [Next]_vars, NEW l \in Loops, ~Misses(l)
  PROVE  task'[l] = task[l] \/ (task'[l].pc # "store" /\ (Store(l) \/ task[l].pc # "store"))
<1>1. TypeOK
  BY DEF Base
<1>2. CASE task[l] = Idle /\ task'[l].pc \in {"idle", "search", "drain", "fan"}
  BY <1>2 DEF Idle
<1>3. CASE Handler(l)
  <2>1. CASE Kick(l) \/ AdoptId(l) \/ AdoptRest(l) \/ DrainMsgs(l)
    BY <1>1, <2>1, StepTask
  <2>2. CASE DrainNotify(l)
    BY <1>1, <2>2, DrainNotifyTask DEF Idle
  <2>3. CASE SkipSelf(l)
    BY <1>1, <2>3, SkipSelfTask DEF Idle
  <2>4. CASE Snapshot(l)
    <3>1. /\ task[l].pc = "fan"
          /\ \/ task'[l] = Idle \/ task'[l].pc = "fan"
             \/ (task[l].found = {} /\ task[l].item.kind \in Messages)
      BY <1>1, <2>4, SnapshotTask
    <3> QED BY <2>4, <3>1 DEF Misses, Idle
  <2>5. CASE Push(l)
    <3>1. task[l].pc = "fan" /\ (task'[l] = Idle \/ task'[l].pc = "fan")
      BY <1>1, <2>5, PushTask
    <3> QED BY <3>1 DEF Idle
  <2>6. CASE Store(l)
    <3>1. task'[l] = Idle \/ task'[l].pc = "fan"
      BY <1>1, <2>6, StoreTask
    <3> QED BY <2>6, <3>1 DEF Idle
  <2>7. CASE getSessionByUserIdAndClientType(l)
    BY <1>1, <2>7, SearchTask
  <2>8. CASE getSessionsByUserId(l)
    BY <1>1, <2>8, LookTask
  <2> QED BY <1>3, <2>1, <2>2, <2>3, <2>4, <2>5, <2>6, <2>7, <2>8 DEF Handler
<1> QED BY <1>2, <1>3, LoopSteps

\* What is nowhere yet is about to be stored.
LEMMA MissPlace ==
  ASSUME Base, OneHandler, AbsentDone, NumberedInv, [Next]_vars, NEW l \in Loops, Misses(l),
         NEW id, id = task[l].item.id, NEW n, n = Len(task[l].members)
  PROVE  OnePlace(id, n)'
<1>1. /\ Only(l) /\ n \in Nat /\ n > 0 /\ id > 0 /\ task'[l].pc = "store" /\ task'[l].item.id = id
      /\ task'[l].item.turn = n
  BY MissTask, SentSteps
<1>2. <<id, n>> \notin absent
  BY <1>1 DEF AbsentDone
<1>3. ASSUME NEW m, Numbered(m) PROVE ~(m.id = id /\ m.turn = n)
  BY <1>1, <1>2, <1>3 DEF Numbered
<1>4. /\ wire \in [Conns -> Seq(Items)] /\ cacheMsg \in [Ids -> Seq(Items)]
      /\ cacheNotify \in [Ids -> Seq(Items)]
  BY DEF Base, TypeOK
<1>5. Nowhere(id, n)
  <2>1. \A u \in Ids : At(cacheMsg[u], id, n) = {} /\ At(cacheNotify[u], id, n) = {}
    BY <1>3, <1>4, AtNone DEF NumberedInv
  <2>2. \A c \in Conns : At(wire[c], id, n) = {}
    BY <1>3, <1>4, AtNone DEF NumberedInv
  <2> QED BY <2>1, <2>2 DEF Nowhere, None
<1>6. UNCHANGED <<wire, cacheMsg, cacheNotify>>
  BY DEF Misses, Snapshot, storeVars
<1>7. Nowhere(id, n)'
  BY <1>5, <1>6 DEF Nowhere, None
<1>8. \A k \in Loops : k \in Storers(id, n)' <=> k = l
  <2>1. \A k \in Loops : ~(task[k].item.id = id /\ task[k].item.turn = n)
    BY <1>3 DEF NumberedInv
  <2>2. \A k \in Loops : k # l => task'[k] = task[k]
    BY <1>1 DEF Only
  <2> QED BY <1>1, <2>1, <2>2 DEF Storers
<1>9. Storers(id, n)' = {l}
  BY <1>8 DEF Storers
<1> QED BY <1>7, <1>9 DEF OnePlace, OneStorer

\* Handlers about to store a copy go on to be.
LEMMA StorersKept ==
  ASSUME Base, [Next]_vars, NEW id, NEW n,
         \A l \in Loops : Misses(l) => ~(task[l].item.id = id /\ Len(task[l].members) = n),
         \A l \in Loops : Store(l) => ~(task[l].item.id = id /\ task[l].item.turn = n)
  PROVE  Storers(id, n)' = Storers(id, n)
<1>1. ASSUME NEW k \in Loops PROVE k \in Storers(id, n)' <=> k \in Storers(id, n)
  <2>1. CASE Misses(k)
    <3>1. /\ task[k].pc = "fan" /\ task'[k].item.id = task[k].item.id
          /\ task'[k].item.turn = Len(task[k].members)
      BY <2>1, MissTask
    <3> QED BY <2>1, <3>1 DEF Storers
  <2>2. CASE ~Misses(k)
    BY <2>2, StorerSteps DEF Storers
  <2> QED BY <2>1, <2>2
<1> QED BY <1>1 DEF Storers

\* One copy stays one when no place of it changes.
LEMMA SameOne ==
  ASSUME NEW f, NEW g, NEW D, NEW id, NEW n,
         \A x \in D : At(g[x], id, n) = At(f[x], id, n), One(f, D, id, n)
  PROVE  One(g, D, id, n)
<1>1. PICK x \in D : /\ \E i : At(f[x], id, n) = {i}
                     /\ \A y \in D : y # x => At(f[y], id, n) = {}
  BY DEF One
<1>2. PICK i : At(f[x], id, n) = {i}
  BY <1>1
<1>3. At(g[x], id, n) = {i}
  BY <1>2
<1>4. \A y \in D : y # x => At(g[y], id, n) = {}
  BY <1>1
<1> QED BY <1>3, <1>4 DEF One

\* A copy stays where it is when no place of it changes.
LEMMA SamePlace ==
  ASSUME NEW id, NEW n, OnePlace(id, n), Storers(id, n)' = Storers(id, n),
         \A u \in Ids : /\ At(cacheMsg'[u], id, n) = At(cacheMsg[u], id, n)
                        /\ At(cacheNotify'[u], id, n) = At(cacheNotify[u], id, n),
         \A c \in Conns : At(wire'[c], id, n) = At(wire[c], id, n)
  PROVE  OnePlace(id, n)'
<1>1. NoStorer(id, n)' = NoStorer(id, n) /\ OneStorer(id, n)' = OneStorer(id, n)
  BY DEF NoStorer, OneStorer
<1>2. None(cacheMsg, Ids, id, n)' <=> None(cacheMsg, Ids, id, n)
  BY DEF None
<1>3. None(cacheNotify, Ids, id, n)' <=> None(cacheNotify, Ids, id, n)
  BY DEF None
<1>4. None(wire, Conns, id, n)' <=> None(wire, Conns, id, n)
  BY DEF None
<1>5. One(cacheMsg, Ids, id, n) => One(cacheMsg', Ids, id, n)
  BY SameOne
<1>6. One(cacheNotify, Ids, id, n) => One(cacheNotify', Ids, id, n)
  BY SameOne
<1>7. One(wire, Conns, id, n) => One(wire', Conns, id, n)
  BY SameOne
<1> QED BY <1>1, <1>2, <1>3, <1>4, <1>5, <1>6, <1>7 DEF OnePlace, Nowhere, One

\* The places of a copy are the same.
Still(f, g, D, id, n) == \A x \in D : At(g[x], id, n) = At(f[x], id, n)

\* What f held for u is on the wire of c.
Moved(f, g, u, w, v, c) == g = [f EXCEPT ![u] = <<>>] /\ v = [w EXCEPT ![c] = @ \o f[u]]

\* A store moved to a wire takes its copies there.
LEMMA MovedAt ==
  ASSUME NEW f \in [Ids -> Seq(Items)], NEW w \in [Conns -> Seq(Items)],
         NEW u \in Ids, NEW c \in Conns, NEW g, NEW v, Moved(f, g, u, w, v, c),
         NEW id, NEW n
  PROVE  \/ /\ Still(f, g, Ids, id, n)
            /\ Still(w, v, Conns, id, n)
         \/ /\ One(f, Ids, id, n) /\ None(w, Conns, id, n)
                 => None(g, Ids, id, n) /\ One(v, Conns, id, n)
            /\ ~None(f, Ids, id, n)
<1>1. /\ g[u] = <<>> /\ \A x \in Ids : x # u => g[x] = f[x]
      /\ v[c] = w[c] \o f[u] /\ \A x \in Conns : x # c => v[x] = w[x]
      /\ f[u] \in Seq(Items) /\ w[c] \in Seq(Items)
  BY DEF Moved
<1>2. At(<<>>, id, n) = {}
  BY DEF At
<1>3. CASE At(f[u], id, n) = {}
  <2>1. At(w[c] \o f[u], id, n) = At(w[c], id, n)
    BY <1>1, <1>3, AtConcat
  <2> QED BY <1>1, <1>2, <1>3, <2>1 DEF Still
<1>4. CASE At(f[u], id, n) # {}
  <2>1. ~None(f, Ids, id, n)
    BY <1>4 DEF None
  <2>2. ASSUME One(f, Ids, id, n), None(w, Conns, id, n)
        PROVE  None(g, Ids, id, n) /\ One(v, Conns, id, n)
    <3>1. PICK i \in Nat : At(f[u], id, n) = {i}
      <4>1. PICK j : At(f[u], id, n) = {j}
        BY <1>4, <2>2 DEF One
      <4>2. j \in At(f[u], id, n)
        BY <4>1
      <4>3. j \in Nat
        BY <1>1, <4>2 DEF At
      <4> QED BY <4>1, <4>3
    <3>2. \A x \in Ids : x # u => At(f[x], id, n) = {}
      BY <1>4, <2>2 DEF One
    <3>3. At(w[c] \o f[u], id, n) = {Len(w[c]) + i}
      <4>1. At(w[c], id, n) = {}
        BY <2>2 DEF None
      <4>2. Sole(f[u], id, n, i)
        BY <3>1 DEF Sole
      <4>3. Sole(w[c] \o f[u], id, n, Len(w[c]) + i)
        BY <1>1, <4>1, <4>2, AtMoved
      <4> QED BY <4>3 DEF Sole
    <3>4. None(g, Ids, id, n)
      BY <1>1, <1>2, <3>2 DEF None
    <3>5. One(v, Conns, id, n)
      BY <1>1, <2>2, <3>3 DEF None, One
    <3> QED BY <3>4, <3>5
  <2> QED BY <2>1, <2>2
<1> QED BY <1>3, <1>4

\* The copy a handler was about to store is in the store.
LEMMA StoredPlace ==
  ASSUME Base, [Next]_vars, NEW id, NEW n \in Nat, n > 0, OnePlace(id, n),
         NEW l \in Loops, Store(l), task[l].item.id = id, task[l].item.turn = n
  PROVE  OnePlace(id, n)'
<1>0. PICK t : t = task[l]
  OBVIOUS
<1>1. /\ TypeOK /\ Only(l) /\ t.pc = "store" /\ t.item \in Items /\ t.target \in Ids
      /\ t.item.id = id /\ t.item.turn = n /\ task'[l].pc # "store"
  <2>1. TypeOK /\ Only(l) /\ t.pc = "store" /\ t.item \in Items /\ task'[l].pc # "store"
    <3>1. TypeOK
      BY DEF Base
    <3>2. task'[l] = Idle \/ task'[l].pc = "fan"
      BY <3>1, StoreTask
    <3>3. Only(l) /\ task[l].pc = "store" /\ task[l].item \in Items
      BY <3>1, StoreTask
    <3>4. task'[l].pc # "store"
      BY <3>2 DEF Idle
    <3> QED BY <1>0, <3>1, <3>3, <3>4
  <2> QED BY <1>0, <2>1 DEF Base, GoodTasks, GoodTask
<1>2. l \in Storers(id, n)
  BY <1>0, <1>1 DEF Storers
<1>3. Storers(id, n) = {l} /\ Nowhere(id, n)
  BY <1>2 DEF OnePlace, NoStorer, OneStorer
<1>4. NoStorer(id, n)'
  <2>1. ASSUME NEW k \in Loops PROVE k \notin Storers(id, n)'
    <3>1. CASE k = l
      BY <1>1, <3>1 DEF Storers
    <3>2. CASE k # l
      <4>1. k \notin Storers(id, n) /\ task'[k] = task[k]
        BY <1>1, <1>3, <3>2 DEF Only
      <4> QED BY <4>1 DEF Storers
    <3> QED BY <3>1, <3>2
  <2> QED BY <2>1 DEF NoStorer, Storers
<1>5. cacheMsg \in [Ids -> Seq(Items)] /\ cacheNotify \in [Ids -> Seq(Items)]
  BY <1>1 DEF TypeOK
<1>6. wire' = wire
  BY DEF Store
<1>7. ASSUME NEW f \in [Ids -> Seq(Items)], None(f, Ids, id, n),
             NEW g, g = [f EXCEPT ![t.target] = Append(@, t.item)]
      PROVE  One(g, Ids, id, n)
  <2>1. At(f[t.target], id, n) = {} /\ f[t.target] \in Seq(Items)
    BY <1>1, <1>7 DEF None
  <2>2. Sole(Append(f[t.target], t.item), id, n, Len(f[t.target]) + 1)
    BY <1>1, <2>1, AtAdded
  <2>3. At(g[t.target], id, n) = {Len(f[t.target]) + 1}
    BY <1>1, <1>7, <2>2 DEF Sole
  <2>4. \A y \in Ids : y # t.target => At(g[y], id, n) = {}
    BY <1>7 DEF None
  <2> QED BY <1>1, <2>3, <2>4 DEF One
<1>8. None(wire, Conns, id, n)'
  BY <1>3, <1>6 DEF Nowhere, None
<1>9. CASE t.item.kind \in StoresMsg
  <2>1. cacheMsg' = [cacheMsg EXCEPT ![t.target] = Append(@, t.item)] /\ cacheNotify' = cacheNotify
    BY <1>0, <1>9 DEF Store
  <2>2. One(cacheMsg', Ids, id, n)
    BY <1>3, <1>5, <1>7, <2>1 DEF Nowhere
  <2>3. None(cacheNotify, Ids, id, n)'
    BY <1>3, <2>1 DEF Nowhere, None
  <2> QED BY <1>4, <1>8, <2>2, <2>3 DEF OnePlace, One
<1>10. CASE t.item.kind \notin StoresMsg
  <2>1. /\ cacheNotify' = [cacheNotify EXCEPT ![t.target] = Append(@, t.item)]
        /\ cacheMsg' = cacheMsg
    BY <1>0, <1>10 DEF Store
  <2>2. One(cacheNotify', Ids, id, n)
    BY <1>3, <1>5, <1>7, <2>1 DEF Nowhere
  <2>3. None(cacheMsg, Ids, id, n)'
    BY <1>3, <2>1 DEF Nowhere, None
  <2> QED BY <1>4, <1>8, <2>2, <2>3 DEF OnePlace, One
<1> QED BY <1>9, <1>10

\* A login moves what waited for its user from one of the stores to its wire.
LEMMA MovedPlace ==
  ASSUME Base, NEW id, NEW n, OnePlace(id, n), Storers(id, n)' = Storers(id, n),
         NEW l \in Loops, DrainMsgs(l) \/ DrainNotify(l)
  PROVE  OnePlace(id, n)'
<1> DEFINE c == task[l].conn
           u == uid[c]
<1>1. /\ wire \in [Conns -> Seq(Items)] /\ cacheMsg \in [Ids -> Seq(Items)]
      /\ cacheNotify \in [Ids -> Seq(Items)] /\ c \in Conns
  <2>1. TypeOK
    BY DEF Base
  <2>2. task[l].pc # "idle"
    BY DEF DrainMsgs, DrainNotify
  <2> QED BY <2>1, <2>2, BusyIn DEF TypeOK
<1>2. CASE UNCHANGED <<wire, cacheMsg, cacheNotify>>
  BY <1>2, SamePlace
<1>3. \/ UNCHANGED <<wire, cacheMsg, cacheNotify>>
      \/ /\ u \in Ids /\ wire' = [wire EXCEPT ![c] = @ \o cacheMsg[u]]
         /\ cacheMsg' = [cacheMsg EXCEPT ![u] = <<>>] /\ cacheNotify' = cacheNotify
      \/ /\ u \in Ids /\ wire' = [wire EXCEPT ![c] = @ \o cacheNotify[u]]
         /\ cacheNotify' = [cacheNotify EXCEPT ![u] = <<>>] /\ cacheMsg' = cacheMsg
  BY DEF DrainMsgs, DrainNotify
<1> HIDE DEF c, u
<1>4. NoStorer(id, n)' = NoStorer(id, n)
  BY DEF NoStorer
<1>5. CASE /\ u \in Ids /\ wire' = [wire EXCEPT ![c] = @ \o cacheMsg[u]]
           /\ cacheMsg' = [cacheMsg EXCEPT ![u] = <<>>] /\ cacheNotify' = cacheNotify
  <2>1. \/ /\ Still(cacheMsg, cacheMsg', Ids, id, n)
           /\ Still(wire, wire', Conns, id, n)
        \/ /\ One(cacheMsg, Ids, id, n) /\ None(wire, Conns, id, n)
                => None(cacheMsg', Ids, id, n) /\ One(wire', Conns, id, n)
           /\ ~None(cacheMsg, Ids, id, n)
    <3>1. Moved(cacheMsg, cacheMsg', u, wire, wire', c)
      BY <1>5 DEF Moved
    <3>2. u \in Ids
      BY <1>5
    <3> QED BY <1>1, <3>1, <3>2, MovedAt
  <2>2. CASE /\ Still(cacheMsg, cacheMsg', Ids, id, n)
             /\ Still(wire, wire', Conns, id, n)
    BY <1>5, <2>2, SamePlace DEF Still
  <2>3. CASE /\ One(cacheMsg, Ids, id, n) /\ None(wire, Conns, id, n)
                  => None(cacheMsg', Ids, id, n) /\ One(wire', Conns, id, n)
             /\ ~None(cacheMsg, Ids, id, n)
    <3>1. /\ NoStorer(id, n) /\ One(cacheMsg, Ids, id, n) /\ None(cacheNotify, Ids, id, n)
          /\ None(wire, Conns, id, n)
      BY <2>3 DEF OnePlace, Nowhere
    <3>2. None(cacheMsg', Ids, id, n) /\ One(wire', Conns, id, n)
      BY <2>3, <3>1
    <3>3. None(cacheNotify, Ids, id, n)'
      BY <1>5, <3>1 DEF None
    <3>4. None(cacheMsg, Ids, id, n)'
      BY <3>2 DEF None
    <3> QED BY <1>4, <3>1, <3>2, <3>3, <3>4 DEF OnePlace, One
  <2> QED BY <2>1, <2>2, <2>3
<1>6. CASE /\ u \in Ids /\ wire' = [wire EXCEPT ![c] = @ \o cacheNotify[u]]
           /\ cacheNotify' = [cacheNotify EXCEPT ![u] = <<>>] /\ cacheMsg' = cacheMsg
  <2>1. \/ /\ Still(cacheNotify, cacheNotify', Ids, id, n)
           /\ Still(wire, wire', Conns, id, n)
        \/ /\ One(cacheNotify, Ids, id, n) /\ None(wire, Conns, id, n)
                => None(cacheNotify', Ids, id, n) /\ One(wire', Conns, id, n)
           /\ ~None(cacheNotify, Ids, id, n)
    <3>1. Moved(cacheNotify, cacheNotify', u, wire, wire', c)
      BY <1>6 DEF Moved
    <3>2. u \in Ids
      BY <1>6
    <3> QED BY <1>1, <3>1, <3>2, MovedAt
  <2>2. CASE /\ Still(cacheNotify, cacheNotify', Ids, id, n)
             /\ Still(wire, wire', Conns, id, n)
    BY <1>6, <2>2, SamePlace DEF Still
  <2>3. CASE /\ One(cacheNotify, Ids, id, n) /\ None(wire, Conns, id, n)
                  => None(cacheNotify', Ids, id, n) /\ One(wire', Conns, id, n)
             /\ ~None(cacheNotify, Ids, id, n)
    <3>1. /\ NoStorer(id, n) /\ One(cacheNotify, Ids, id, n) /\ None(cacheMsg, Ids, id, n)
          /\ None(wire, Conns, id, n)
      BY <2>3 DEF OnePlace, Nowhere
    <3>2. None(cacheNotify', Ids, id, n) /\ One(wire', Conns, id, n)
      BY <2>3, <3>1
    <3>3. None(cacheMsg, Ids, id, n)'
      BY <1>6, <3>1 DEF None
    <3>4. None(cacheNotify, Ids, id, n)'
      BY <3>2 DEF None
    <3> QED BY <1>4, <3>1, <3>2, <3>3, <3>4 DEF OnePlace, One
  <2> QED BY <2>1, <2>2, <2>3
<1> QED BY <1>2, <1>3, <1>5, <1>6

\* A copy stays where it is when it is neither stored nor moved.
LEMMA CopyStays ==
  ASSUME Base, NumberedInv, [Next]_vars, NEW id, NEW n \in Nat, n > 0, OnePlace(id, n),
         Storers(id, n)' = Storers(id, n),
         \A l \in Loops : Store(l) => ~(task[l].item.id = id /\ task[l].item.turn = n),
         \A l \in Loops : ~DrainMsgs(l) /\ ~DrainNotify(l)
  PROVE  OnePlace(id, n)'
<1>1. TypeOK /\ \A l \in Loops : task[l].item \in Items
  BY DEF Base, TypeOK, Tasks
<1>2. cacheMsg \in [Ids -> Seq(Items)] /\ cacheNotify \in [Ids -> Seq(Items)]
  BY <1>1 DEF TypeOK
<1>3. ASSUME NEW c \in Conns PROVE At(wire'[c], id, n) = At(wire[c], id, n)
  <2>1. ~Drained(c)
    <3>1. LoopOf[c] \in Loops
      BY ChatAssumption
    <3> QED BY <3>1 DEF Drained
  <2> QED BY <2>1, WireAt
<1>4. ASSUME NEW l \in Loops, Store(l), NEW u \in Ids
      PROVE  /\ At(Append(cacheMsg[u], task[l].item), id, n) = At(cacheMsg[u], id, n)
             /\ At(Append(cacheNotify[u], task[l].item), id, n) = At(cacheNotify[u], id, n)
  <2>1. PICK m : m = task[l].item
    OBVIOUS
  <2>2. m \in Items /\ ~(m.id = id /\ m.turn = n)
    BY <1>1, <1>4, <2>1
  <2>3. cacheMsg[u] \in Seq(Items) /\ cacheNotify[u] \in Seq(Items)
    BY <1>2
  <2>4. /\ At(Append(cacheMsg[u], m), id, n) = At(cacheMsg[u], id, n)
        /\ At(Append(cacheNotify[u], m), id, n) = At(cacheNotify[u], id, n)
    BY <2>2, <2>3, AtAppend
  <2> QED BY <2>1, <2>4
<1>5. ASSUME NEW u \in Ids PROVE At(cacheMsg'[u], id, n) = At(cacheMsg[u], id, n)
  <2>1. \/ cacheMsg'[u] = cacheMsg[u]
        \/ \E l \in Loops : Store(l) /\ cacheMsg'[u] = Append(cacheMsg[u], task[l].item)
    BY StoreSteps
  <2> QED BY <1>4, <2>1
<1>6. ASSUME NEW u \in Ids PROVE At(cacheNotify'[u], id, n) = At(cacheNotify[u], id, n)
  <2>1. \/ cacheNotify'[u] = cacheNotify[u]
        \/ \E l \in Loops : Store(l) /\ cacheNotify'[u] = Append(cacheNotify[u], task[l].item)
    BY StoreSteps
  <2> QED BY <1>4, <2>1
<1> QED BY <1>3, <1>5, <1>6, SamePlace

\* A copy goes from handler to store to wire, and never leaves a place behind.
LEMMA PlaceInvStep ==
  ASSUME Base, OneHandler, AbsentDone, NumberedInv, PlaceInv, [Next]_vars PROVE PlaceInv'
<1> SUFFICES ASSUME NEW a \in absent', NEW id, id = a[1], NEW n, n = a[2] PROVE OnePlace(id, n)'
  BY DEF PlaceInv
<1>1. ASSUME NEW l \in Loops, Misses(l), id = task[l].item.id, n = Len(task[l].members)
      PROVE  OnePlace(id, n)'
  BY <1>1, MissPlace
<1>2. CASE \A l \in Loops : Misses(l) => ~(task[l].item.id = id /\ Len(task[l].members) = n)
  <2>1. a \in absent
    <3>1. ASSUME NEW l \in Loops, Misses(l), a = <<task[l].item.id, Len(task[l].members)>>
          PROVE  FALSE
      BY <1>2, <3>1
    <3> QED BY <3>1, AbsentSteps
  <2>2. OnePlace(id, n)
    BY <2>1 DEF PlaceInv
  <2>3. n \in Nat /\ n > 0
    BY <2>1 DEF AbsentDone
  <2>4. ASSUME NEW l \in Loops, Store(l), task[l].item.id = id, task[l].item.turn = n
        PROVE  OnePlace(id, n)'
    BY <2>2, <2>3, <2>4, StoredPlace
  <2>5. CASE \A l \in Loops : Store(l) => ~(task[l].item.id = id /\ task[l].item.turn = n)
    <3>1. Storers(id, n)' = Storers(id, n)
      BY <1>2, <2>5, StorersKept
    <3>2. ASSUME NEW l \in Loops, DrainMsgs(l) \/ DrainNotify(l) PROVE OnePlace(id, n)'
      BY <2>2, <3>1, <3>2, MovedPlace
    <3>3. CASE \A l \in Loops : ~DrainMsgs(l) /\ ~DrainNotify(l)
      BY <2>2, <2>3, <2>5, <3>1, <3>3, CopyStays
    <3> QED BY <3>2, <3>3
  <2> QED BY <2>4, <2>5
<1> QED BY <1>1, <1>2

\* What is in one place has one copy.
LEMMA OneCopy == ASSUME NEW id, NEW n, OnePlace(id, n) PROVE Cardinality(Copies(id, n)) = 1
<1> DEFINE T == { <<"task", l, 0>> : l \in Storers(id, n) }
           M == UNION { { <<"msg", u, i>> : i \in At(cacheMsg[u], id, n) } : u \in Ids }
           N == UNION { { <<"notify", u, i>> : i \in At(cacheNotify[u], id, n) } : u \in Ids }
           W == UNION { { <<"wire", c, i>> : i \in At(wire[c], id, n) } : c \in Conns }
<1>1. Copies(id, n) = ((T \cup M) \cup N) \cup W
  BY DEF Copies
<1>2. /\ NoStorer(id, n) => T = {}
      /\ None(cacheMsg, Ids, id, n) => M = {}
      /\ None(cacheNotify, Ids, id, n) => N = {}
      /\ None(wire, Conns, id, n) => W = {}
  BY DEF NoStorer, None
<1>3. ASSUME OneStorer(id, n) PROVE \E p : T = {p}
  <2>1. PICK l : Storers(id, n) = {l}
    BY <1>3 DEF OneStorer
  <2>2. T = { <<"task", l, 0>> }
    BY <2>1
  <2> QED BY <2>2
<1>4. ASSUME One(cacheMsg, Ids, id, n) PROVE \E p : M = {p}
  <2>1. PICK u \in Ids : /\ \E i : At(cacheMsg[u], id, n) = {i}
                         /\ \A y \in Ids : y # u => At(cacheMsg[y], id, n) = {}
    BY <1>4 DEF One
  <2>2. PICK i : At(cacheMsg[u], id, n) = {i}
    BY <2>1
  <2>3. M = { <<"msg", u, i>> }
    BY <2>1, <2>2
  <2> QED BY <2>3
<1>5. ASSUME One(cacheNotify, Ids, id, n) PROVE \E p : N = {p}
  <2>1. PICK u \in Ids : /\ \E i : At(cacheNotify[u], id, n) = {i}
                         /\ \A y \in Ids : y # u => At(cacheNotify[y], id, n) = {}
    BY <1>5 DEF One
  <2>2. PICK i : At(cacheNotify[u], id, n) = {i}
    BY <2>1
  <2>3. N = { <<"notify", u, i>> }
    BY <2>1, <2>2
  <2> QED BY <2>3
<1>6. ASSUME One(wire, Conns, id, n) PROVE \E p : W = {p}
  <2>1. PICK c \in Conns : /\ \E i : At(wire[c], id, n) = {i}
                           /\ \A y \in Conns : y # c => At(wire[y], id, n) = {}
    BY <1>6 DEF One
  <2>2. PICK i : At(wire[c], id, n) = {i}
    BY <2>1
  <2>3. W = { <<"wire", c, i>> }
    BY <2>1, <2>2
  <2> QED BY <2>3
<1> HIDE DEF T, M, N, W
<1>7. \E p : Copies(id, n) = {p}
  <2>1. CASE OneStorer(id, n) /\ Nowhere(id, n)
    BY <1>1, <1>2, <1>3, <2>1 DEF Nowhere
  <2>2. CASE NoStorer(id, n)
    <3>1. T = {}
      BY <1>2, <2>2
    <3>2. CASE /\ One(cacheMsg, Ids, id, n) /\ None(cacheNotify, Ids, id, n)
               /\ None(wire, Conns, id, n)
      BY <1>1, <1>2, <1>4, <3>1, <3>2
    <3>3. CASE /\ None(cacheMsg, Ids, id, n) /\ One(cacheNotify, Ids, id, n)
               /\ None(wire, Conns, id, n)
      BY <1>1, <1>2, <1>5, <3>1, <3>3
    <3>4. CASE /\ None(cacheMsg, Ids, id, n) /\ None(cacheNotify, Ids, id, n)
               /\ One(wire, Conns, id, n)
      BY <1>1, <1>2, <1>6, <3>1, <3>4
    <3>5. OneStorer(id, n) => ~NoStorer(id, n)
      BY DEF OneStorer, NoStorer
    <3> QED BY <2>1, <3>2, <3>3, <3>4 DEF OnePlace
  <2> QED BY <2>1, <2>2 DEF OnePlace
<1>8. PICK p : Copies(id, n) = {p}
  BY <1>7
<1> QED BY <1>8, FS_Singleton

------------------------------------------------------------------------------
(* The inductive invariant, and what follows from it. *)

\* What is pushed with a number was sent by a client.
Signed(m) == m.id > 0 /\ m.turn = 0 => m.from \in Conns

SignedInv == \A c \in Conns : \A m \in ToSet(wire[c]) \cup ToSet(pending[c]) : Signed(m)

\* Only clients send with a number.
LEMMA SignedStep == ASSUME Base, StoredTurns, SignedInv, [Next]_vars PROVE SignedInv'
<1> SUFFICES ASSUME NEW c \in Conns, NEW m \in ToSet(wire'[c]) \cup ToSet(pending'[c])
             PROVE  Signed(m)
  BY DEF SignedInv
<1>1. /\ TypeOK /\ wire[c] \in Seq(Items) /\ pending[c] \in Seq(Items) /\ WireStep(c)
      /\ \A u \in Ids : cacheMsg[u] \in Seq(Items) /\ cacheNotify[u] \in Seq(Items)
  BY WireSteps DEF Base, TypeOK
<1>2. CASE m \in ToSet(wire[c]) \cup ToSet(pending[c])
  BY <1>2 DEF SignedInv
<1>3. ASSUME NEW x \in Items, Signed(x), Written(c, x) \/ Handed(c, x) PROVE Signed(m)
  <2>1. /\ ToSet(Append(wire[c], x)) = ToSet(wire[c]) \cup {x}
        /\ ToSet(Append(pending[c], x)) = ToSet(pending[c]) \cup {x}
    BY <1>1, AppendSet
  <2>2. m \in ToSet(wire[c]) \cup ToSet(pending[c]) \cup {x}
    BY <1>3, <2>1 DEF Written, Handed
  <2> QED BY <1>2, <1>3, <2>2
<1>4. CASE Written(c, Note("refused")) \/ Written(c, Note("login"))
  <2>1. /\ Note("refused") \in Items /\ Note("refused").id = 0
        /\ Note("login") \in Items /\ Note("login").id = 0
    BY ItemTypes DEF Kinds
  <2> QED BY <1>3, <1>4, <2>1 DEF Signed
<1>5. ASSUME NEW l \in Loops, NEW x \in Items, Sent(l, c, x), x.id = 0 PROVE Signed(m)
  BY <1>3, <1>5 DEF Sent, Signed
<1>6. ASSUME NEW l \in Loops, Push(l), Sent(l, c, task[l].item) PROVE Signed(m)
  <2>1. Signed(task[l].item)
    <3>1. ASSUME task[l].item.id > 0, task[l].item.turn = 0,
                 NEW s, s = task[l].item.from
          PROVE  s \in Conns
      BY <1>6, <3>1, PushedCurrent DEF Pushed
    <3> QED BY <3>1 DEF Signed
  <2>2. task[l].item \in Items
    BY <1>1 DEF TypeOK, Tasks
  <2> QED BY <1>3, <1>6, <2>1, <2>2 DEF Sent
<1>7. CASE Flushed(c)
  <2>1. ToSet(wire[c] \o pending[c]) = ToSet(wire[c]) \cup ToSet(pending[c])
    BY <1>1, ConcatSet
  <2>2. m \in ToSet(wire[c]) \cup ToSet(pending[c])
    BY <1>7, <2>1, EmptyHolds DEF Flushed
  <2> QED BY <1>2, <2>2
<1>8. CASE Drained(c)
  <2>1. ASSUME NEW u \in Ids, NEW q \in {cacheMsg[u], cacheNotify[u]},
               wire'[c] = wire[c] \o q, pending'[c] = pending[c]
        PROVE  Signed(m)
    <3>1. ToSet(wire[c] \o q) = ToSet(wire[c]) \cup ToSet(q)
      BY <1>1, ConcatSet
    <3>2. \A x \in ToSet(q) : x.turn > 0
      BY DEF StoredTurns
    <3> QED BY <1>2, <2>1, <3>1, <3>2 DEF Signed
  <2> QED BY <1>8, <2>1 DEF Drained
<1> QED BY <1>1, <1>2, <1>4, <1>5, <1>6, <1>7, <1>8 DEF WireStep, Untouched

\* The parts of the inductive invariant: of the sessions, of what is pushed, of what is
\* stored, and of where it is.
SessionInv == LoginInv /\ UniqueInv
PushingInv == PushInv /\ SeenInv /\ PushedToSeen /\ AnswerInv /\ LoginAnsweredFirst
WaitingInv == LookingInv /\ StoringInv /\ StrandInv /\ StoredTurns /\ OrderInv /\ SignedInv
CopyInv == OneHandler /\ AbsentDone /\ NumberedInv /\ PlaceInv

IInv == Base /\ SessionInv /\ PushingInv /\ WaitingInv /\ CopyInv

\* The first state: nothing sent, seen, stored or found missing.
LEMMA InitIInv == Init => IInv
<1> SUFFICES ASSUME Init PROVE IInv
  OBVIOUS
<1>1. /\ Base /\ Idle.pc = "idle" /\ Idle.item = NoItem /\ Idle.conn = "none"
      /\ Idle.pushTo = {} /\ Idle.read = {} /\ Idle.found = {}
  BY BaseInit DEF Idle
<1>2. /\ \A l \in Loops : task[l] = Idle
      /\ \A c \in Conns : /\ link[c] = "new" /\ uid[c] = NoUser /\ isLogin[c] = FALSE
                          /\ wire[c] = <<>> /\ pending[c] = <<>> /\ LoopOf[c] \in Loops
      /\ \A u \in Ids : cacheMsg[u] = <<>> /\ cacheNotify[u] = <<>>
      /\ sessions = {} /\ seen = {} /\ absent = {}
  BY ChatAssumption DEF Init
<1>3. \A c \in Conns : \A S : "idle" \notin S => ~Handling(c, S)
  BY <1>1, <1>2 DEF Handling
<1>4. LoginInv /\ UniqueInv
  <2>1. \A c \in Conns : ~Handling(c, {"settle"})
    BY <1>3
  <2> QED BY <1>1, <1>2, <2>1 DEF LoginInv, UniqueInv, UniqueSessions, UniqueLogins, UniqueSearch,
                                  Missed, SettlingUser, Logging
<1>5. PushInv /\ SeenInv /\ PushedToSeen /\ AnswerInv /\ LoginAnsweredFirst
  <2>1. \A c \in Conns : ~Writable(c)
    BY <1>1, <1>2 DEF Writable, Vaild
  <2> QED BY <1>1, <1>2, <2>1 DEF PushInv, SeenInv, PushedToSeen, AnswerInv, LoginAnsweredFirst
<1>6. LookingInv /\ StoringInv /\ StrandInv /\ StoredTurns /\ OrderInv /\ SignedInv
  <2>1. ToSet(<<>>) = {} /\ Len(<<>>) = 0
    BY EmptyHolds
  <2> QED BY <1>1, <1>2, <2>1 DEF LookingInv, StoringInv, StrandInv, StoredTurns, OrderInv,
                                  SignedInv, Older, Ordered, Before
<1>7. OneHandler /\ AbsentDone /\ NumberedInv /\ PlaceInv
  <2>1. ToSet(<<>>) = {} /\ NoItem.id = 0 /\ NoItem.turn = 0
    BY EmptyHolds DEF NoItem
  <2> QED BY <1>1, <1>2, <2>1 DEF OneHandler, AbsentDone, NumberedInv, Numbered, PlaceInv
<1> QED BY <1>1, <1>4, <1>5, <1>6, <1>7 DEF IInv, SessionInv, PushingInv, WaitingInv, CopyInv

\* Every step preserves the invariant, part by part.
LEMMA StepIInv == IInv /\ [Next]_vars => IInv'
<1> SUFFICES ASSUME IInv, [Next]_vars PROVE IInv'
  OBVIOUS
<1> USE DEF IInv
<1>1. Base'
  BY BaseStep
<1>2. SessionInv'
  BY LoginInvStep, UniqueInvStep DEF SessionInv
<1>3. PushingInv'
  BY PushInvStep, SeenInvStep, PushedStep, AnswerInvStep, LoginFirstStep DEF PushingInv
<1>4. WaitingInv'
  BY LookingInvStep, StoringInvStep, StrandInvStep, StoredTurnsStep, OrderInvStep, SignedStep
  DEF WaitingInv
<1>5. CopyInv'
  BY OneHandlerStep, AbsentDoneStep, NumberedStep, PlaceInvStep DEF CopyInv
<1> QED BY <1>1, <1>2, <1>3, <1>4, <1>5

\* The inductive invariant, for any numbers of connections, loops, users and commands.
THEOREM ChatInvariance == Spec => []IInv
BY InitIInv, StepIInv, PTL DEF Spec

\* A busy loop executes a handler of a connection of its own that is connected.
THEOREM ChatTypeOK == Spec => []TypeOK
<1>1. IInv => TypeOK
  BY DEF IInv, Base
<1> QED BY <1>1, ChatInvariance, PTL

\* What a handler pushes reaches every session it had found, unless the session was kicked
\* or its connection went down (the snapshots of getSessionsByUserId).
THEOREM ChatPushedToSeen == Spec => []PushedToSeen
<1>1. IInv => PushedToSeen
  BY DEF IInv, PushingInv
<1> QED BY <1>1, ChatInvariance, PTL

\* Whatever other loops push to a session as soon as it has its user, the answer to the
\* login is what its client reads first.
THEOREM ChatLoginAnsweredFirst == Spec => []LoginAnsweredFirst
<1>1. IInv => LoginAnsweredFirst
  BY DEF IInv, PushingInv
<1> QED BY <1>1, ChatInvariance, PTL

\* What is in order for each sender is in order.
LEMMA OrderedWires == IInv => SenderOrder
<1> SUFFICES ASSUME IInv, NEW c \in Conns, NEW i \in 1..Len(wire[c]), NEW j \in 1..Len(wire[c]),
                    i < j, wire[c][i].turn = 0, wire[c][j].turn = 0,
                    wire[c][i].id > 0, wire[c][j].id > 0, wire[c][i].from = wire[c][j].from
             PROVE  wire[c][i].id <= wire[c][j].id
  BY DEF SenderOrder
<1>1. PICK s : s = wire[c][i].from
  OBVIOUS
<1>2. s \in Conns
  <2>1. wire[c][i] \in ToSet(wire[c])
    BY DEF ToSet
  <2>2. Signed(wire[c][i])
    BY <2>1 DEF IInv, WaitingInv, SignedInv
  <2> QED BY <1>1, <2>2 DEF Signed
<1>3. Ordered(wire[c], s)
  BY <1>2 DEF IInv, WaitingInv, OrderInv
<1> QED BY <1>1, <1>3 DEF Ordered, Pushed

\* The messages of one client reach another in the order they were sent, whichever loops
\* the two live on.
THEOREM ChatSenderOrder == Spec => []SenderOrder
BY OrderedWires, ChatInvariance, PTL

\* A session whose login is over, or has still to announce its user, is not logging in.
LEMMA SettledOver ==
  ASSUME NEW c, Settled(c)
  PROVE  /\ c \in sessions /\ Vaild(c)
         /\ ~Handling(c, {"settle"}) /\ ~Handling(c, Early) /\ ~Handling(c, Late)
BY DEF Settled, Handling, Early, Late

\* A settled session does not deliver any more, so what waits for it raced.
LEMMA StrandedRaced == IInv => StrandedOnlyByRace
<1> SUFFICES ASSUME IInv, NEW u \in Ids, NEW c \in Conns, Settled(c), uid[c] = u,
                    NEW m \in ToSet(cacheMsg[u]) \cup ToSet(cacheNotify[u])
             PROVE  <<m.id, u>> \in raced
  BY DEF StrandedOnlyByRace
<1>1. c \in sessions /\ ~Handling(c, Early) /\ ~Handling(c, Late)
  BY SettledOver
<1>2. Waits(m, u, Early) \/ Waits(m, u, Late)
  BY DEF IInv, WaitingInv, StrandInv
<1> QED BY <1>1, <1>2 DEF Waits

\* A message waits for a user who is online only when its handler had looked for the
\* sessions of the user, or had passed the session while looking, before the login, and
\* stored it after the login had emptied the store: the one window in which toChat leaves
\* a message behind.
THEOREM ChatStrandedOnlyByRace == Spec => []StrandedOnlyByRace
BY StrandedRaced, ChatInvariance, PTL

\* Settled sessions have the type that was asked for.
LEMMA UniqueSettled == IInv => UniqueUnlessOverlap
<1> SUFFICES ASSUME IInv, NEW c \in Conns, NEW d \in Conns, c # d, Settled(c), Settled(d),
                    uid[c] = uid[d], ctype[c] = ctype[d]
             PROVE  <<uid[c], ctype[c]>> \in overlap
  BY DEF UniqueUnlessOverlap
<1>1. c \in sessions /\ d \in sessions /\ Vaild(c) /\ TypeOf(c) = ctype[c] /\ TypeOf(d) = ctype[d]
  BY SettledOver DEF TypeOf
<1> QED BY <1>1 DEF IInv, SessionInv, UniqueInv, UniqueSessions, Twins

\* Two sessions of one user and client type come only from a login of that type that
\* overlapped another login of the user.
THEOREM ChatUniqueUnlessOverlap == Spec => []UniqueUnlessOverlap
BY UniqueSettled, ChatInvariance, PTL

\* What had to be stored is in one place: about to be stored, in one store, or on one wire.
THEOREM ChatOfflineConserved == Spec => []OfflineConserved
<1>1. IInv => OfflineConserved
  BY OneCopy DEF IInv, CopyInv, PlaceInv, OfflineConserved
<1> QED BY <1>1, ChatInvariance, PTL

\* Only a command changes the number of commands.
LEMMA CountedCommands ==
  ASSUME [Next]_vars, sent' # sent
  PROVE  \E c \in Conns : \E op \in Ops : \E a \in Ids : Command(c, op, a)
<1>1. ASSUME NEW l \in Loops, Handler(l) \/ Flush(l) PROVE sent' = sent
  BY <1>1 DEF Handler, getSessionByUserIdAndClientType, Kick, AdoptId, AdoptRest, DrainMsgs,
              DrainNotify, SkipSelf, getSessionsByUserId, Snapshot, Push, Store, Flush
<1>2. ASSUME NEW c \in Conns, Client(c)
      PROVE  sent' = sent \/ \E op \in Ops : \E a \in Ids : Command(c, op, a)
  BY <1>2 DEF Client, Connected, ForceClose, Disconnected, LoginAccepted, LoginRefused
<1>3. UNCHANGED vars => sent' = sent
  BY DEF vars
<1> QED BY <1>1, <1>2, <1>3 DEF Next

\* The session of a command is logged in.
LEMMA CommandsAct ==
  ASSUME IInv, [Next]_vars, sent' # sent, NEW l \in Loops, task'[l] # task[l], Busy(l)'
  PROVE  Vaild(task'[l].conn) \/ task'[l].conn \in kicked
<1>1. PICK c \in Conns : \E op \in Ops : \E a \in Ids : Command(c, op, a)
  BY CountedCommands
<1>2. TypeOK
  BY DEF IInv, Base
<1>3. /\ Only(LoopOf[c]) /\ isLogin[c]
      /\ task'[LoopOf[c]] = Idle \/ task'[LoopOf[c]].conn = c
  BY <1>1, <1>2, CommandTask
<1>4. l = LoopOf[c] /\ task'[l].conn = c
  BY <1>3 DEF Only, Busy
<1>5. Vaild(c) \/ c \in kicked
  BY <1>3 DEF IInv, SessionInv, LoginInv
<1> QED BY <1>4, <1>5

\* Only a session that a clashing login has made invalid executes a command for nobody.
THEOREM ChatOnlyKickedActAsNobody == Spec => OnlyKickedActAsNobody
<1>1. IInv /\ [Next]_vars =>
        [sent' # sent => \A l \in Loops : task'[l] # task[l] /\ Busy(l)' =>
                           Vaild(task'[l].conn) \/ task'[l].conn \in kicked]_vars
  BY CommandsAct
<1> QED BY <1>1, ChatInvariance, PTL DEF Spec, OnlyKickedActAsNobody
===============================================================================
