----------------------------- MODULE ChatService -----------------------------
(***************************************************************************)
(* The chat server (server1/IMServer): the sessions of ChatService, the    *)
(* handlers of ChatSession that log a user in and fan messages out to the  *)
(* sessions of other users, and the offline store of CacheManager.         *)
(*                                                                         *)
(* Every connection belongs to one event loop and its handlers run there,  *)
(* one at a time.  The loops run concurrently and share m_sessions (under  *)
(* m_sessionMutex), the two caches (each under its mutex) and, under no    *)
(* lock at all, the identity (m_onlineUserInfo) of every session.  A       *)
(* handler is split wherever another loop can see or change what it uses:  *)
(* a step is one critical section, or one access to a shared session.      *)
(*                                                                         *)
(* Relationships do not change here (see README); the replies a command    *)
(* sends to its own client are left out, but for the answer to a login.    *)
(***************************************************************************)
EXTENDS Naturals, FiniteSets, SequencesExt

CONSTANTS Conns,        \* client connections, each used once
          Loops,        \* the event loops of TcpServer
          LoopOf,       \* [Conns -> Loops]: the loop a connection was given
          Users,        \* ids below 0x0fffffff: of registered users, and others
          Groups,       \* ids from 0x0fffffff on: of groups, and others
          Friends,      \* the friends or members of every user and group there is
          Types,        \* client types
          Credentials,  \* who may log in where: <<conn, user, client type>>
          Refusals,     \* connections whose clients may get the password wrong
          Offenders,    \* connections whose clients may send a package that is wrong
          Ops,          \* the commands the clients send
          MaxCommands,  \* bound: commands sent
          MaxLogins     \* bound: login requests

VARIABLES link,         \* link[c]: "new", "up", "closing" or "down", m_state of the connection
          sessions,     \* the connections whose sessions are in m_sessions
          arrival,      \* the order of that list: the number of each connection, from 1
          uid,          \* m_onlineUserInfo.u_id of each session, NoUser when invalid
          ctype,        \* m_onlineUserInfo.u_clientType
          isLogin,      \* m_isLogin
          task,         \* the handler each loop is executing
          pending,      \* pending[c]: the sends to c that other loops handed to its loop
                        \* (of m_pendingFunctors, those of one connection)
          wire,         \* what was written to each client, in order
          cacheMsg,     \* m_cacheMsgs
          cacheNotify,  \* m_cacheNotifys
          sent,         \* commands sent so far; the last identifies the latest
          logins,       \* login requests so far
          \* history, read by no action:
          seen,         \* <<id, c>>: command id found the session of c, to push to it
          absent,       \* <<id, n>>: it found nobody for the n-th last of its audience
          kicked,       \* sessions invalidated by a clashing login
          overlap,      \* <<user, type>> of logins that overlap another of the user
          raced         \* <<id, u>> cached by a handler while u was logging in

sharedVars == <<link, sessions, arrival, uid, ctype, isLogin>>
storeVars == <<cacheMsg, cacheNotify>>
history == <<seen, absent, kicked, overlap, raced>>
vars == <<sharedVars, task, pending, wire, storeVars, sent, logins, history>>

NoUser == 0
NoType == 0

Ids == Users \cup Groups

ASSUME ChatAssumption ==
  /\ IsFiniteSet(Conns) /\ "none" \notin Conns
  /\ LoopOf \in [Conns -> Loops]
  /\ DOMAIN Friends \subseteq Ids /\ Friends \in [DOMAIN Friends -> Seq(Ids)]
  /\ NoUser \notin Ids
  /\ Ops \subseteq {"chat", "group", "apply", "join", "answer", "delete", "status"}
  /\ MaxCommands \in Nat /\ MaxLogins \in Nat

------------------------------------------------------------------------------
(* The commands that reach other users, and what their handlers do with a  *)
(* user that has no valid session and with a session found valid earlier.  *)

StoresMsg == {"chat", "group", "apply"}     \* addCacheMsg
StoresNotify == {"answer"}                  \* addCacheNotify
Rechecks == {"chat", "delete", "online"}    \* vaild() is tested again before send
Messages == StoresMsg \cup StoresNotify

\* `turn` is 0 in what is pushed.  In what is stored it is the place of the user in
\* the audience, counted from the end: it tells the copies of a message apart.
NoItem == [kind |-> "none", id |-> 0, from |-> "none", turn |-> 0]

\* `read` holds the sessions a search has passed, `found` those it has found.
Idle == [pc |-> "idle", conn |-> "none", user |-> NoUser, type |-> NoType, clash |-> "none",
         item |-> NoItem, members |-> <<>>, read |-> {}, found |-> {}, pushTo |-> {},
         target |-> NoUser]

Busy(l) == task[l] # Idle

\* Mutation: a handler drops what it has still to push with its last lookup.
RestEarly(t) == IF t.members = <<>> THEN Idle ELSE t

\* The fan-out of a handler ends when nobody is left to send to.
Rest(t) == IF t.members = <<>> /\ t.pushTo = {} THEN Idle ELSE t

FriendsOf(u) == IF u \in DOMAIN Friends THEN Friends[u] ELSE <<>>

\* ChatSession::vaild
Vaild(c) == uid[c] # NoUser

\* Of some sessions, the one that comes first in m_sessions.
First(S) == CHOOSE c \in S : \A d \in S : arrival[c] <= arrival[d]

\* Mutation: only sessions whose login has been answered are found.
BelongsAnswered(c, u) == uid[c] = u /\ isLogin[c]

\* What getSessionsByUserId asks of a session.
Belongs(c, u) == uid[c] = u /\ Vaild(c)

\* A search takes m_sessionMutex with the first session it reads, and holds it to its end.
Unlocked(l) == \A k \in Loops : k # l => task[k].read = {}

\* The sessions a search has still to read: their identities may change meanwhile.
Unread(l) == sessions \ task[l].read

\* Mutations: the functor is put in front of the others, or lost.
EnqueueFront(q, item) == <<item>> \o q
EnqueueLost(q, item) == q

\* queueInLoop: behind what the loop was handed before.
Enqueue(q, item) == Append(q, item)

\* Mutation: a connection is written to from whatever loop sends.
SendAllDirect(l, to, item) ==
  /\ wire' = [c \in Conns |-> IF c \in to /\ link[c] = "up" THEN Append(wire[c], item)
                                                         ELSE wire[c]]
  /\ UNCHANGED pending

\* TcpConnection::send called on loop l: written at once on the loop of the
\* connection, queued to that loop otherwise, dropped when it is not connected.
SendAll(l, to, item) ==
  LET live == {c \in to : link[c] = "up"}
  IN  /\ wire' = [c \in Conns |-> IF c \in live /\ LoopOf[c] = l THEN Append(wire[c], item)
                                                               ELSE wire[c]]
      /\ pending' = [c \in Conns |-> IF c \in live /\ LoopOf[c] # l THEN Enqueue(pending[c], item)
                                                                  ELSE pending[c]]

Send(l, c, item) == SendAll(l, {c}, item)

Note(kind) == [NoItem EXCEPT !.kind = kind]

Init == /\ link = [c \in Conns |-> "new"]
        /\ sessions = {}
        /\ arrival = [c \in Conns |-> 0]
        /\ uid = [c \in Conns |-> NoUser]
        /\ ctype = [c \in Conns |-> NoType]
        /\ isLogin = [c \in Conns |-> FALSE]
        /\ task = [l \in Loops |-> Idle]
        /\ pending = [c \in Conns |-> <<>>]
        /\ wire = [c \in Conns |-> <<>>]
        /\ cacheMsg = [u \in Ids |-> <<>>]
        /\ cacheNotify = [u \in Ids |-> <<>>]
        /\ sent = 0 /\ logins = 0
        /\ seen = {} /\ absent = {} /\ kicked = {} /\ overlap = {} /\ raced = {}

------------------------------------------------------------------------------
(* Connections come and go; a loop serves them between handlers.           *)

\* onConnected: the new connection gets a session, u_id 0.  The constructor of
\* ChatSession leaves u_clientType uninitialized: it may hold anything.
Connected(c) ==
  /\ ~Busy(LoopOf[c]) /\ Unlocked(LoopOf[c])
  /\ link[c] = "new"
  /\ link' = [link EXCEPT ![c] = "up"]
  /\ sessions' = sessions \cup {c}
  /\ arrival' = [arrival EXCEPT ![c] = 1 + Cardinality({d \in Conns : link[d] # "new"})]
  /\ \E t \in Types \cup {NoType} : ctype' = [ctype EXCEPT ![c] = t]
  /\ UNCHANGED <<uid, isLogin, task, pending, wire, storeVars, sent, logins, history>>

\* onRead met a wrong package: m_state is kDisconnecting until forceCloseInLoop
\* runs, at the end of the same round, before anything more is read.
ForceClose(c) ==
  /\ c \in Offenders
  /\ ~Busy(LoopOf[c]) /\ link[c] = "up"
  /\ link' = [link EXCEPT ![c] = "closing"]
  /\ UNCHANGED <<sessions, arrival, uid, ctype, isLogin, task, pending, wire, storeVars, sent,
                 logins, history>>

\* For each friend of u the first session in the list is told (once: that a list may
\* name a friend twice shows in nothing here).
FirstSessions(u) ==
  LET of(f) == {c \in sessions : uid[c] = f}
  IN  {First(of(f)) : f \in {g \in ToSet(FriendsOf(u)) : of(g) # {}}}

\* onDisconnected, whole under m_sessionMutex: the friends of a valid session
\* are told that its user is offline, and the session leaves the list.
Disconnected(c) ==
  /\ ~Busy(LoopOf[c]) /\ Unlocked(LoopOf[c])
  /\ link[c] \in {"up", "closing"}
  /\ link' = [link EXCEPT ![c] = "down"]
  /\ SendAll(LoopOf[c], IF Vaild(c) THEN FirstSessions(uid[c]) ELSE {},
             [Note("offline") EXCEPT !.from = c])
  /\ sessions' = sessions \ {c}
  /\ UNCHANGED <<arrival, uid, ctype, isLogin, task, storeVars, sent, logins, history>>

\* doPendingFunctors: the loop writes what other loops handed to it, except to
\* connections that went down meanwhile.
Flush(l) ==
  /\ ~Busy(l)
  /\ \E c \in Conns : LoopOf[c] = l /\ pending[c] # <<>>
  /\ pending' = [c \in Conns |-> IF LoopOf[c] = l THEN <<>> ELSE pending[c]]
  /\ wire' = [c \in Conns |-> IF LoopOf[c] = l /\ link[c] # "down" THEN wire[c] \o pending[c]
                                                              ELSE wire[c]]
  /\ UNCHANGED <<sharedVars, task, storeVars, sent, logins, history>>

------------------------------------------------------------------------------
(* toLogin.                                                                *)

Announce(c) == [Idle EXCEPT !.pc = "fan", !.conn = c, !.item = [Note("online") EXCEPT !.from = c],
                            !.members = FriendsOf(uid[c])]

\* The name and the password are right.  A group has a password too (ChatSession.cpp:392);
\* a name nobody has leaves u_id uninitialized (:372), and an empty password passes for
\* whatever id it holds.
LoginAccepted(c, u, t) ==
  /\ ~Busy(LoopOf[c]) /\ link[c] = "up" /\ logins < MaxLogins
  /\ <<c, u, t>> \in Credentials
  /\ logins' = logins + 1
  /\ task' = [task EXCEPT ![LoopOf[c]] = [Idle EXCEPT !.pc = "search", !.conn = c,
                                                      !.user = u, !.type = t]]
  /\ LET others == { l \in Loops : /\ task[l].pc \in {"search", "kick", "adopt", "settle"}
                                   /\ task[l].user = u }
     IN  overlap' = overlap \cup (UNION { {<<u, t>>, <<u, task[l].type>>} : l \in others })
  /\ UNCHANGED <<sharedVars, pending, wire, storeVars, sent, seen, absent, kicked, raced>>

\* Not registered or wrong password.  A session that is logged in already falls
\* through to the delivery of its offline messages all the same.
LoginRefused(c) ==
  /\ c \in Refusals
  /\ ~Busy(LoopOf[c]) /\ link[c] = "up" /\ logins < MaxLogins
  /\ logins' = logins + 1
  /\ wire' = [wire EXCEPT ![c] = Append(@, Note("refused"))]
  /\ task' = [task EXCEPT ![LoopOf[c]] = IF isLogin[c] THEN [Idle EXCEPT !.pc = "drain", !.conn = c]
                                                     ELSE Idle]
  /\ UNCHANGED <<sharedVars, pending, storeVars, sent, history>>

\* getSessionByUserIdAndClientType reads one session after the other, and stops at one
\* of the same user and client type.
getSessionByUserIdAndClientType(l) ==
  /\ task[l].pc = "search" /\ Unlocked(l) /\ Unread(l) # {}
  /\ LET t == task[l]
         c == First(Unread(l))
     IN  task' = [task EXCEPT ![l] =
                    IF uid[c] = t.user /\ ctype[c] = t.type
                    THEN [t EXCEPT !.pc = "kick", !.clash = c, !.read = {}]
                    ELSE IF Unread(l) = {c} THEN [t EXCEPT !.pc = "adopt", !.read = {}]
                    ELSE [t EXCEPT !.read = @ \cup {c}]]
  /\ UNCHANGED <<sharedVars, pending, wire, storeVars, sent, logins, history>>

\* Mutation: the clashing session is told but stays valid.
KickOnlyTells(l) ==
  /\ task[l].pc = "kick"
  /\ Send(l, task[l].clash, Note("kick"))
  /\ kicked' = kicked \cup {task[l].clash}
  /\ task' = [task EXCEPT ![l].pc = "adopt"]
  /\ UNCHANGED <<sharedVars, storeVars, sent, logins, seen, absent,
                 overlap, raced>>

\* The clashing session is sent KICK and made invalid; its connection stays.
Kick(l) ==
  /\ task[l].pc = "kick"
  /\ LET old == task[l].clash
     IN  /\ Send(l, old, Note("kick"))
         /\ uid' = [uid EXCEPT ![old] = NoUser]
         /\ kicked' = kicked \cup {old}
  /\ task' = [task EXCEPT ![l].pc = "adopt"]
  /\ UNCHANGED <<link, sessions, arrival, ctype, isLogin, storeVars, sent, logins, seen, absent,
                 overlap, raced>>

\* Handlers that store a message for u, or will if they find no other session, and that
\* will not find c any more.
Storing(u, c) ==
  { k \in Loops : \/ task[k].pc = "store" /\ task[k].target = u
                  \/ c \in task[k].read /\ task[k].pc = "fan" /\ Head(task[k].members) = u }

\* The session takes the identity of the user: every loop finds it from now on.
AdoptId(l) ==
  /\ task[l].pc = "adopt"
  /\ uid' = [uid EXCEPT ![task[l].conn] = task[l].user]
  /\ task' = [task EXCEPT ![l].pc = "settle"]
  /\ raced' = raced \cup { <<task[k].item.id, task[l].user>> :
                          k \in Storing(task[l].user, task[l].conn) }
  /\ UNCHANGED <<link, sessions, arrival, ctype, isLogin, pending, wire, storeVars, sent, logins,
                 seen, absent, kicked, overlap>>

\* The client type, m_isLogin and the answer to the client.
AdoptRest(l) ==
  /\ task[l].pc = "settle"
  /\ LET c == task[l].conn
     IN  /\ ctype' = [ctype EXCEPT ![c] = task[l].type]
         /\ isLogin' = [isLogin EXCEPT ![c] = TRUE]
         /\ wire' = [wire EXCEPT ![c] = Append(@, Note("login"))]
  /\ task' = [task EXCEPT ![l].pc = "drain"]
  /\ UNCHANGED <<link, sessions, arrival, uid, pending, storeVars, sent, logins, history>>

\* Mutation: what is delivered is not erased from the store.
DrainKeepsMsgs(l) ==
  /\ task[l].pc = "drain"
  /\ LET c == task[l].conn
     IN  wire' = IF uid[c] \in Ids THEN [wire EXCEPT ![c] = @ \o cacheMsg[uid[c]]]
                                     ELSE wire
  /\ task' = [task EXCEPT ![l].pc = "drainNotify"]
  /\ UNCHANGED <<sharedVars, pending, storeVars, sent, logins, history>>

\* getCacheMsg for the user the session has now, which may be nobody by now.
DrainMsgs(l) ==
  /\ task[l].pc = "drain"
  /\ LET c == task[l].conn
         u == uid[c]
     IN  IF u \in Ids
         THEN /\ wire' = [wire EXCEPT ![c] = @ \o cacheMsg[u]]
              /\ cacheMsg' = [cacheMsg EXCEPT ![u] = <<>>]
         ELSE UNCHANGED <<wire, cacheMsg>>
  /\ task' = [task EXCEPT ![l].pc = "drainNotify"]
  /\ UNCHANGED <<sharedVars, pending, cacheNotify, sent, logins, history>>

\* getCacheNotify, then the friends are looked up to be told.
DrainNotify(l) ==
  /\ task[l].pc = "drainNotify"
  /\ LET c == task[l].conn
         u == uid[c]
     IN  /\ IF u \in Ids
            THEN /\ wire' = [wire EXCEPT ![c] = @ \o cacheNotify[u]]
                 /\ cacheNotify' = [cacheNotify EXCEPT ![u] = <<>>]
            ELSE UNCHANGED <<wire, cacheNotify>>
         /\ task' = [task EXCEPT ![l] = Rest(Announce(c))]
  /\ UNCHANGED <<sharedVars, pending, cacheMsg, sent, logins, history>>

------------------------------------------------------------------------------
(* The commands that reach other users: toChat, toGroupChat, toAddFriend,  *)
(* toResponseFriendApply, toDelFriend, toChangeUserStatus.                 *)

\* isFriend answers 0 for friends, and toAddFriend goes on only then: it applies to a
\* friend, or joins a group the user is in.
Reaches(c, op, a) ==
  CASE op = "chat"   -> a \in Users
    [] op = "group"  -> a \in Groups
    [] op = "apply"  -> a \in Users /\ a \in ToSet(FriendsOf(uid[c]))
    [] op = "join"   -> a \in Groups /\ a \in ToSet(FriendsOf(uid[c]))
    [] op = "status" -> a = uid[c]
    [] OTHER         -> a \in DOMAIN Friends

\* Whom the handler goes through, in order.
Audience(op, a) ==
  IF op \in {"group", "join", "status"} \/ (op = "delete" /\ a \in Groups)
  THEN FriendsOf(a) ELSE <<a>>

\* Mutation: the login is not asked for.
CommandUnchecked(c, op, a) ==
  /\ ~Busy(LoopOf[c]) /\ link[c] = "up"
  /\ sent < MaxCommands
  /\ Reaches(c, op, a)
  /\ sent' = sent + 1
  /\ task' = [task EXCEPT ![LoopOf[c]] =
                Rest([Idle EXCEPT !.pc = "fan", !.conn = c, !.members = Audience(op, a),
                        !.item = [kind |-> op, id |-> sent + 1, from |-> c, turn |-> 0]])]
  /\ UNCHANGED <<sharedVars, pending, wire, storeVars, logins, history>>

\* handleData: commands other than those of a login need m_isLogin.
Command(c, op, a) ==
  /\ ~Busy(LoopOf[c]) /\ link[c] = "up" /\ isLogin[c]
  /\ sent < MaxCommands
  /\ Reaches(c, op, a)
  /\ sent' = sent + 1
  /\ task' = [task EXCEPT ![LoopOf[c]] =
                Rest([Idle EXCEPT !.pc = "fan", !.conn = c, !.members = Audience(op, a),
                        !.item = [kind |-> op, id |-> sent + 1, from |-> c, turn |-> 0]])]
  /\ UNCHANGED <<sharedVars, pending, wire, storeVars, logins, history>>

\* toGroupChat passes over its own user, as the session knows it now.
IsSelf(l) == task[l].item.kind = "group" /\ Head(task[l].members) = uid[task[l].conn]

SkipSelf(l) ==
  /\ task[l].pc = "fan" /\ task[l].pushTo = {} /\ task[l].read = {}
  /\ task[l].members # <<>>
  /\ IsSelf(l)
  /\ task' = [task EXCEPT ![l] = Rest([task[l] EXCEPT !.members = Tail(@)])]
  /\ UNCHANGED <<sharedVars, pending, wire, storeVars, sent, logins, history>>

\* getSessionsByUserId for the next user of the audience reads one session after the
\* other, each as it is at that moment.
getSessionsByUserId(l) ==
  /\ task[l].pc = "fan" /\ task[l].pushTo = {} /\ Unlocked(l)
  /\ task[l].members # <<>>
  /\ task[l].read = {} => ~IsSelf(l)
  /\ Unread(l) # {}
  /\ LET c == First(Unread(l))
     IN  task' = [task EXCEPT ![l].read = @ \cup {c},
                              ![l].found = IF Belongs(c, Head(task[l].members))
                                           THEN @ \cup {c} ELSE @]
  /\ UNCHANGED <<sharedVars, pending, wire, storeVars, sent, logins, history>>

\* All were read: the mutex is released, and what was found is a snapshot.
Snapshot(l) ==
  /\ task[l].pc = "fan" /\ task[l].members # <<>>
  /\ task[l].read # {} /\ Unread(l) = {}
  /\ LET t == task[l]
         m == Head(t.members)
         rest == [t EXCEPT !.members = Tail(@), !.read = {}, !.found = {}]
         stores == t.item.kind \in Messages
     IN  /\ task' = [task EXCEPT ![l] =
                       IF t.found = {} /\ stores
                       THEN [rest EXCEPT !.pc = "store", !.target = m,
                                         !.item.turn = Len(t.members)]
                       ELSE Rest([rest EXCEPT !.pushTo = t.found])]
         /\ seen' = IF stores THEN seen \cup { <<t.item.id, c>> : c \in t.found } ELSE seen
         /\ absent' = IF stores /\ t.found = {} THEN absent \cup {<<t.item.id, Len(t.members)>>}
                                              ELSE absent
  /\ UNCHANGED <<sharedVars, pending, wire, storeVars, sent, logins, kicked, overlap, raced>>

\* One session of the snapshot: some handlers test again that it is valid.
Push(l) ==
  /\ task[l].pc = "fan" /\ task[l].pushTo # {}
  /\ LET c == First(task[l].pushTo)
     IN  /\ IF task[l].item.kind \in Rechecks /\ ~Vaild(c)
            THEN UNCHANGED <<pending, wire>>
            ELSE Send(l, c, task[l].item)
         /\ task' = [task EXCEPT ![l] = Rest([task[l] EXCEPT !.pushTo = @ \ {c}])]
  /\ UNCHANGED <<sharedVars, storeVars, sent, logins, history>>

\* addCacheMsg or addCacheNotify.
Store(l) ==
  /\ task[l].pc = "store"
  /\ LET t == task[l]
     IN  IF t.item.kind \in StoresMsg
         THEN /\ cacheMsg' = [cacheMsg EXCEPT ![t.target] = Append(@, t.item)]
              /\ UNCHANGED cacheNotify
         ELSE /\ cacheNotify' = [cacheNotify EXCEPT ![t.target] = Append(@, t.item)]
              /\ UNCHANGED cacheMsg
  /\ task' = [task EXCEPT ![l] =
                Rest([task[l] EXCEPT !.pc = "fan", !.target = NoUser, !.item.turn = 0])]
  /\ UNCHANGED <<sharedVars, pending, wire, sent, logins, history>>

------------------------------------------------------------------------------
\* The next step of the handler a loop is executing.
Handler(l) == \/ getSessionByUserIdAndClientType(l) \/ Kick(l) \/ AdoptId(l) \/ AdoptRest(l)
              \/ DrainMsgs(l) \/ DrainNotify(l)
              \/ SkipSelf(l) \/ getSessionsByUserId(l) \/ Snapshot(l) \/ Push(l) \/ Store(l)

Client(c) == \/ Connected(c) \/ ForceClose(c) \/ Disconnected(c)
             \/ \E u \in Ids : \E t \in Types : LoginAccepted(c, u, t)
             \/ LoginRefused(c)
             \/ \E op \in Ops : \E a \in Ids : Command(c, op, a)

Next == \/ \E c \in Conns : Client(c)
        \/ \E l \in Loops : Handler(l) \/ Flush(l)

Spec == Init /\ [][Next]_vars

\* A loop finishes the handler it is in, and empties its queue on every round,
\* forceCloseInLoop included.
Fairness == /\ \A l \in Loops : WF_vars(Handler(l)) /\ WF_vars(Flush(l))
            /\ \A c \in Conns : WF_vars(link[c] = "closing" /\ Disconnected(c))

FairSpec == Spec /\ Fairness

------------------------------------------------------------------------------
Kinds == {"none", "chat", "group", "apply", "join", "answer", "delete", "status",
          "online", "offline", "login", "refused", "kick"}

Items == [kind : Kinds, id : 0..MaxCommands, from : Conns \cup {"none"}, turn : Nat]

Pcs == {"idle", "search", "kick", "adopt", "settle", "drain", "drainNotify", "fan", "store"}

Tasks == [pc : Pcs, conn : Conns \cup {"none"}, user : Ids \cup {NoUser},
          type : Types \cup {NoType}, clash : Conns \cup {"none"}, item : Items,
          members : Seq(Ids), read : SUBSET Conns, found : SUBSET Conns,
          pushTo : SUBSET Conns, target : Ids \cup {NoUser}]

\* A busy loop executes a handler of a connection of its own.
OwnHandlers == \A l \in Loops : Busy(l) => /\ task[l].conn \in Conns /\ LoopOf[task[l].conn] = l
                                           /\ link[task[l].conn] = "up"

\* Type invariant.
TypeOK ==
  /\ link \in [Conns -> {"new", "up", "closing", "down"}]
  /\ sessions \subseteq Conns
  /\ arrival \in [Conns -> Nat]
  /\ uid \in [Conns -> Ids \cup {NoUser}]
  /\ ctype \in [Conns -> Types \cup {NoType}]
  /\ isLogin \in [Conns -> BOOLEAN]
  /\ task \in [Loops -> Tasks] /\ OwnHandlers
  /\ pending \in [Conns -> Seq(Items)] /\ wire \in [Conns -> Seq(Items)]
  /\ cacheMsg \in [Ids -> Seq(Items)] /\ cacheNotify \in [Ids -> Seq(Items)]
  /\ sent \in 0..MaxCommands /\ logins \in 0..MaxLogins

\* What client c has got or, while its connection lives, will get.
Got(c, id) == \E m \in ToSet(wire[c]) \cup ToSet(pending[c]) : m.id = id

Settled(c) == /\ c \in sessions /\ Vaild(c)
              /\ task[LoopOf[c]].conn = c => task[LoopOf[c]].pc \in {"idle", "fan", "store"}

\* The places of a sequence that hold the n-th last copy of message id.
At(s, id, n) == { i \in 1..Len(s) : s[i].id = id /\ s[i].turn = n }

\* The handlers about to store it.
Storers(id, n) == { l \in Loops : /\ task[l].pc = "store"
                                  /\ task[l].item.id = id /\ task[l].item.turn = n }

\* Where a copy that had to be stored is: about to be stored, in a store, or on a wire.
Copies(id, n) ==
  { <<"task", l, 0>> : l \in Storers(id, n) }
    \cup (UNION { { <<"msg", u, i>> : i \in At(cacheMsg[u], id, n) } : u \in Ids })
    \cup (UNION { { <<"notify", u, i>> : i \in At(cacheNotify[u], id, n) } : u \in Ids })
    \cup (UNION { { <<"wire", c, i>> : i \in At(wire[c], id, n) } : c \in Conns })

\* An offline message is neither lost nor doubled: each copy a handler had to store is
\* in one place, about to be stored, in the store of a user or on one wire.
OfflineConserved == \A k \in absent : Cardinality(Copies(k[1], k[2])) = 1

\* A message is pushed to every session its handler found, unless that session
\* was kicked or its connection went down before its turn.
PushedToSeen ==
  \A k \in seen :
    \/ Got(k[2], k[1]) \/ k[2] \in kicked \/ link[k[2]] # "up"
    \/ \E l \in Loops : task[l].item.id = k[1] /\ k[2] \in task[l].pushTo

\* Another loop finds a session before the handler of its login has answered;
\* still, the answer to the login is the first thing a user's client reads.
LoginAnsweredFirst ==
  \A c \in Conns : \A i \in 1..Len(wire[c]) :
    wire[c][i].kind # "refused" => \E j \in 1..i : wire[c][j].kind = "login"

\* What one client sends reaches another client in the order it was sent,
\* whichever loop each of them lives on (messages that waited offline aside).
SenderOrder ==
  \A c \in Conns : \A i, j \in 1..Len(wire[c]) :
    (/\ i < j /\ wire[c][i].turn = 0 /\ wire[c][j].turn = 0
     /\ wire[c][i].id > 0 /\ wire[c][j].id > 0 /\ wire[c][i].from = wire[c][j].from)
      => wire[c][i].id <= wire[c][j].id

\* A message waits in the store of a user who is online only when its handler had
\* looked for the user's sessions, or had passed the session while it was looking,
\* before the login took the identity, and stored it after the login had emptied
\* the store.
StrandedOnlyByRace ==
  \A u \in Ids :
    (\E c \in Conns : Settled(c) /\ uid[c] = u) =>
      \A m \in ToSet(cacheMsg[u]) \cup ToSet(cacheNotify[u]) : <<m.id, u>> \in raced

\* Two settled sessions of one user and client type come only from a login of that
\* type that overlapped another login of the user: of the same type, or of another
\* whose session has taken the user but not the type yet, and is found in its place.
UniqueUnlessOverlap ==
  \A c, d \in Conns :
    (/\ c # d /\ Settled(c) /\ Settled(d) /\ uid[c] = uid[d] /\ ctype[c] = ctype[d])
      => <<uid[c], ctype[c]>> \in overlap

\* A session that a message was meant for gets it, if it stays.
SeenGetsIt ==
  \A id \in 1..MaxCommands, c \in Conns :
    <<id, c>> \in seen
      ~> (\E i \in 1..Len(wire[c]) : wire[c][i].id = id) \/ link[c] = "down" \/ c \in kicked

\* A command is executed for nobody, the user 0, only by a session that a clashing
\* login has made invalid: m_isLogin implies a user however logins, kicks and
\* commands interleave (ChatSession.cpp:190, :404).
OnlyKickedActAsNobody ==
  [][sent' # sent =>
       \A l \in Loops : task'[l] # task[l] /\ Busy(l)' =>
         Vaild(task'[l].conn) \/ task'[l].conn \in kicked]_vars
==============================================================================
