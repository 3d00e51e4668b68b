------------------------------- MODULE Friends -------------------------------
(***************************************************************************)
(* UserManager (server1/IMServer): users, groups and relationships in      *)
(* memory and in the database, and the handlers of ChatSession that change *)
(* them: answer to an application, joining, deletion, creation of a group, *)
(* registration, change of a password or of the profile.                   *)
(*                                                                         *)
(* A handler writes the database first, with no lock, and the memory then, *)
(* under m_mutex; handlers run on several loops.  A group is a user with   *)
(* an id above BASE_GROUP_ID, a member of it a friend of it.  Any client   *)
(* may name any id.  What other clients are told is in ChatService, the    *)
(* connections to the database are in ConnPool.                            *)
(***************************************************************************)
EXTENDS Integers, FiniteSets, SequencesExt

CONSTANTS Loops,          \* the event loops
          BASE_GROUP_ID,
          FirstUsers,     \* ids in the user table before the first start
          FirstRows,      \* pairs in the relationship table then
          Names,          \* names users register under
          NameOf,         \* the names of the first users
          Values,         \* passwords, and what a profile is changed to
          Stray,          \* ids an unregistered name may log in with (ChatSession.cpp:369)
          MaxUserId,      \* bound: user ids given out
          MaxGroupId,     \* bound: group ids given out
          MaxCommands,    \* bound: commands
          MaxRestarts     \* bound: starts after the first

\* 0 is the id of a session that was kicked; no user has it.
Ids == 0..MaxUserId \cup BASE_GROUP_ID + 1..MaxGroupId
Groups == {i \in Ids : i > BASE_GROUP_ID}
Pairs == {p \in Ids \X Ids : p[1] < p[2]}

\* u_password, u_birthday and the rest of the profile.  toChangePassword changes the first,
\* toChangeUserInfo ("info") the others.  The owner of a group, which createGroup writes in
\* both places and no start loads, is left out: nobody reads it.
Keys == {"password", "info"}
Fields == {"password", "profile", "birthday"}
FieldsOf(key) == IF key = "password" THEN {"password"} ELSE Fields \ {"password"}

\* The first table is one that registrations made one after the other: no two users of one
\* name. The loops are finitely many threads.
ASSUME FriendsAssumption ==
  /\ BASE_GROUP_ID \in Nat /\ MaxUserId \in 0..BASE_GROUP_ID /\ MaxGroupId \in Nat
  /\ FirstUsers \subseteq Ids \ {0} /\ FirstRows \subseteq Pairs
  /\ NameOf \in [FirstUsers -> Names \cup {"none"}]
  /\ \A i, j \in FirstUsers \ Groups : NameOf[i] = NameOf[j] => i = j
  /\ Stray \subseteq Ids
  /\ IsFiniteSet(Loops)
  /\ MaxCommands \in Nat /\ MaxRestarts \in Nat

VARIABLES order,       \* the ids in m_users, in the order of the list
          list,        \* list[a][b]: how often b is in the u_friends of a
          field,       \* the fields of each user in memory
          baseUserId, baseGroupId,
          task,        \* the handler each loop is in
          table,       \* ids in the user table
          names,       \* the names of their users
          rows,        \* rows[p]: how often p is in the relationship table
          column,      \* and their columns in the user table
          commands, restarts,
          \* history, read by no action:
          unloaded,    \* users whose relationships could not be read at the start
          half,        \* pairs related while one of them was not in m_users
          crossed,     \* pairs two handlers built and released at once
          mixed,       \* fields of users two handlers changed at once
          left,        \* left[p]: rows of p deleted beyond the one that Unlink takes
          twins        \* names two handlers registered at the same time

memoryVars == <<order, list, field, baseUserId, baseGroupId>>
dbVars == <<table, names, rows, column>>
history == <<unloaded, half, crossed, mixed, left, twins>>
vars == <<memoryVars, dbVars, task, commands, restarts, history>>

Idle == [pc |-> "idle", me |-> 0, other |-> 0, name |-> "none", key |-> "none",
         value |-> "none", result |-> 0]

Known == ToSet(order)
PairOf(a, b) == IF a < b THEN <<a, b>> ELSE <<b, a>>
PairIn(t) == PairOf(t.me, t.other)
LargestOf(S) == {m \in S : \A i \in S : i <= m}
Descending(S) == {o \in [1..Cardinality(S) -> S] :
                    ToSet(o) = S /\ \A i, j \in 1..Cardinality(S) : i < j => o[i] > o[j]}

\* What a change makes of the fields of a user.
Changed(r, t) == [k \in Fields |-> IF k \in FieldsOf(t.key) THEN t.value ELSE r[k]]

\* Some other handler is between the tests of P.
Meanwhile(l, P(_)) == \E k \in Loops \ {l} : P(task[k])

Dangling == {p \in Pairs : rows[p] > 0 /\ ~({p[1], p[2]} \subseteq table)}

\* UserManager::init: m_users in descending order of the ids, the largest id of
\* each kind, and the relationships of those whose query does not fail.  The
\* birthday is read under a key the result does not have, "u_bithday", and is 0.
Load(failed) ==
  /\ order' \in Descending(table)
  /\ baseUserId' \in LargestOf((table \ Groups) \cup {0})
  /\ baseGroupId' \in LargestOf((table \cap Groups) \cup {BASE_GROUP_ID})
  /\ list' = [a \in Ids |-> [b \in Ids |->
               IF a = b \/ a \notin table \/ a \in failed THEN 0 ELSE rows[PairOf(a, b)]]]
  /\ field' = [i \in Ids |-> [column[i] EXCEPT !["birthday"] = "zero"]]
  /\ unloaded' = failed
  /\ half' = Dangling /\ crossed' = {} /\ mixed' = {} /\ left' = [p \in Pairs |-> 0]

\* Before the first start: the tables, and nothing in memory.
Init == /\ table = FirstUsers
        /\ rows = [p \in Pairs |-> IF p \in FirstRows THEN 1 ELSE 0]
        /\ names = [i \in Ids |-> IF i \in FirstUsers THEN NameOf[i] ELSE "none"]
        /\ column = [i \in Ids |-> [k \in Fields |-> "default"]]
        /\ order = <<>> /\ list = [a \in Ids |-> [b \in Ids |-> 0]]
        /\ field = column
        /\ baseUserId = 0 /\ baseGroupId = BASE_GROUP_ID
        /\ task = [l \in Loops |-> Idle]
        /\ commands = 0 /\ restarts = 0
        /\ unloaded = {} /\ half = Dangling /\ crossed = {} /\ mixed = {}
        /\ left = [p \in Pairs |-> 0] /\ twins = {}

----------------------------------------------------------------------------
\* Commands.  `me` is m_onlineUserInfo.u_id: 0 after a kick; a group that logged in with its
\* password; and, since toLogin leaves u_id as it finds it for a name nobody has, any id.
Callers == {0} \cup Known \cup Stray

Begin(l, t) == /\ task[l] = Idle /\ restarts > 0 /\ commands < MaxCommands
               /\ task' = [task EXCEPT ![l] = t]
               /\ commands' = commands + 1
               /\ UNCHANGED <<memoryVars, dbVars, restarts, unloaded, half, crossed, mixed,
                               left>>

\* toResponseFriendApply with accept 1: any two ids but equal ones.
Answer(l) == \E me \in Callers, f \in Ids :
  /\ me # f
  /\ Begin(l, [Idle EXCEPT !.pc = "insert", !.me = me, !.other = f])
  /\ UNCHANGED twins

\* toAddFriend on a group: isFriend answers 0 for members, so members join again.
Join(l) == \E me \in Callers, g \in Groups :
  /\ list[me][g] > 0
  /\ Begin(l, [Idle EXCEPT !.pc = "insert", !.me = me, !.other = g])
  /\ UNCHANGED twins

\* toDelFriend
Delete(l) == \E me \in Callers, f \in Ids :
  /\ me # f
  /\ Begin(l, [Idle EXCEPT !.pc = "delete", !.me = me, !.other = f])
  /\ UNCHANGED twins

\* toChangePassword, when the user is found and the old password is right, and
\* toChangeUserInfo.
Change(l) == \E me \in Callers, k \in Keys, v \in Values :
  /\ k = "password" => me \in Known
  /\ Begin(l, [Idle EXCEPT !.pc = "update", !.me = me, !.key = k, !.value = v])
  /\ UNCHANGED twins

\* toCreateGroup: the id is taken at once.
Create(l) == \E me \in Callers :
  /\ task[l] = Idle /\ restarts > 0 /\ commands < MaxCommands /\ baseGroupId < MaxGroupId
  /\ baseGroupId' = baseGroupId + 1
  /\ task' = [task EXCEPT ![l] = [Idle EXCEPT !.pc = "group", !.me = me,
                                              !.other = baseGroupId + 1]]
  /\ commands' = commands + 1
  /\ UNCHANGED <<order, list, field, baseUserId, dbVars, restarts, history>>

\* toRegister: no user in memory has the name.  A mutant: it looks at groups only.
GroupNameTaken(n) == \E i \in Known \cap Groups : names[i] = n
NameTaken(n) == \E i \in Known \ Groups : names[i] = n
Register(l) == \E n \in Names, v \in Values :
  /\ ~NameTaken(n)
  /\ Begin(l, [Idle EXCEPT !.pc = "register", !.name = n, !.value = v])
  /\ twins' = IF Meanwhile(l, LAMBDA t : t.name = n) THEN twins \cup {n} ELSE twins

----------------------------------------------------------------------------
\* Steps of the handlers.
Goto(l, pc) == task' = [task EXCEPT ![l].pc = pc]
Return(l) == task' = [task EXCEPT ![l] = Idle]
Bounds == <<commands, restarts>>

\* registerForUser: the id, and the row or an error (u_id is the primary key).
InsertUser(l) ==
  LET id == baseUserId + 1 IN
  /\ task[l].pc = "register" /\ baseUserId < MaxUserId
  /\ baseUserId' = id
  /\ \/ /\ id \notin table /\ table' = table \cup {id}
        /\ names' = [names EXCEPT ![id] = task[l].name]
        /\ column' = [column EXCEPT ![id] = [password |-> task[l].value, profile |-> "default",
                                             birthday |-> "default"]]
        /\ task' = [task EXCEPT ![l].pc = "push", ![l].other = id]
     \/ Return(l) /\ UNCHANGED <<table, names, column>>
  /\ UNCHANGED <<order, list, field, baseGroupId, rows, Bounds, history>>

\* createGroup: the row, or an error; toCreateGroup joins the group either way.  The name
\* of the group goes into the column of the password, and the nickname is empty.
InsertGroup(l) ==
  LET g == task[l].other IN
  /\ task[l].pc = "group"
  /\ \/ /\ g \notin table /\ table' = table \cup {g} /\ Goto(l, "push")
        /\ column' = [column EXCEPT ![g] = [password |-> "name", profile |-> "empty",
                                            birthday |-> "default"]]
     \/ Goto(l, "insert") /\ UNCHANGED <<table, column>>
  /\ UNCHANGED <<memoryVars, names, rows, Bounds, history>>

\* registerForUser, createGroup: m_users.push_back.  A new user has a gender the table has
\* not; a new group has its name as its nickname, no password and no birthday set at all.
Push(l) ==
  LET id == task[l].other IN
  /\ task[l].pc = "push"
  /\ order' = Append(order, id)
  /\ \/ /\ id \in Groups /\ Goto(l, "insert")
        /\ field' = [field EXCEPT ![id] = [password |-> "empty", profile |-> "name",
                                          birthday |-> "unset"]]
     \/ /\ id \notin Groups /\ Return(l)
        /\ field' = [field EXCEPT ![id] = [password |-> task[l].value, profile |-> "fresh",
                                          birthday |-> "default"]]
  /\ UNCHANGED <<list, baseUserId, baseGroupId, dbVars, Bounds, history>>

\* buildFriendRelationship, releaseFriendRelationship: the database.  Another
\* handler that is past its own statement for the pair, and not yet at m_users:
Crosses(l, pc) == Meanwhile(l, LAMBDA t : t.pc = pc /\ PairIn(t) = PairIn(task[l]))

\* A mutant: an error of the statement is not seen.
InsertUnchecked(l) ==
  /\ task[l].pc = "insert" /\ task[l].me # task[l].other /\ Goto(l, "link")
  /\ \/ rows' = [rows EXCEPT ![PairIn(task[l])] = @ + 1]
     \/ UNCHANGED rows
  /\ UNCHANGED <<memoryVars, table, names, column, Bounds, history>>

Insert(l) ==
  LET p == PairIn(task[l]) IN
  /\ task[l].pc = "insert"
  /\ \/ /\ task[l].me # task[l].other
        /\ rows' = [rows EXCEPT ![p] = @ + 1] /\ Goto(l, "link")
        /\ crossed' = IF Crosses(l, "unlink") THEN crossed \cup {p} ELSE crossed
     \/ Return(l) /\ UNCHANGED <<rows, crossed>>
  /\ UNCHANGED <<memoryVars, table, names, column, Bounds, unloaded, half, mixed, left,
                 twins>>

\* One DELETE takes every row of the pair.
DeleteRows(l) ==
  LET p == PairIn(task[l]) IN
  /\ task[l].pc = "delete"
  /\ \/ /\ rows[p] > 0 /\ rows' = [rows EXCEPT ![p] = 0] /\ Goto(l, "unlink")
        /\ crossed' = IF Crosses(l, "link") THEN crossed \cup {p} ELSE crossed
        /\ left' = [left EXCEPT ![p] = @ + rows[p] - 1]
     \/ Return(l) /\ UNCHANGED <<rows, crossed, left>>
  /\ UNCHANGED <<memoryVars, table, names, column, Bounds, unloaded, half, mixed, twins>>

\* The loops over m_users answer 0 when both were found, and 3 otherwise; after
\* the smaller id `continue` skips that test, and nothing follows its last user.
Answered(p, found) == IF found = {p[1], p[2]} /\ Last(order) # p[1] THEN 0 ELSE 3

\* A mutant: the loop over m_users ends at the first of the two.
LinkFirst(l) ==
  LET p == PairIn(task[l])
      found == {p[1], p[2]} \cap Known
      first == {order[i] : i \in {j \in 1..Len(order) : /\ order[j] \in found
                                                        /\ \A k \in 1..j - 1 : order[k] \notin found}}
  IN /\ task[l].pc = "link"
     /\ list' = [a \in Ids |-> [b \in Ids |->
                  IF a \in first /\ a # b /\ PairOf(a, b) = p THEN list[a][b] + 1 ELSE list[a][b]]]
     /\ half' = IF found = {p[1], p[2]} THEN half ELSE half \cup {p}
     /\ task' = [task EXCEPT ![l].pc = "linked", ![l].result = Answered(p, found)]
     /\ UNCHANGED <<order, field, baseUserId, baseGroupId, dbVars, Bounds, unloaded, crossed,
                    mixed, left, twins>>

\* buildFriendRelationship: the memory.
Link(l) ==
  LET p == PairIn(task[l])
      found == {p[1], p[2]} \cap Known
  IN /\ task[l].pc = "link"
     /\ list' = [a \in Ids |-> [b \in Ids |->
                  IF a \in found /\ a # b /\ PairOf(a, b) = p THEN list[a][b] + 1 ELSE list[a][b]]]
     /\ half' = IF found = {p[1], p[2]} THEN half ELSE half \cup {p}
     /\ task' = [task EXCEPT ![l].pc = "linked", ![l].result = Answered(p, found)]
     /\ UNCHANGED <<order, field, baseUserId, baseGroupId, dbVars, Bounds, unloaded, crossed,
                    mixed, left, twins>>

\* releaseFriendRelationship: one entry on each side.
Unlink(l) ==
  LET p == PairIn(task[l])
      found == {a \in {p[1], p[2]} \cap Known : \E b \in {p[1], p[2]} : list[a][b] > 0}
  IN /\ task[l].pc = "unlink"
     /\ list' = [a \in Ids |-> [b \in Ids |->
                  IF a \in found /\ a # b /\ PairOf(a, b) = p THEN list[a][b] - 1 ELSE list[a][b]]]
     /\ task' = [task EXCEPT ![l].pc = "unlinked", ![l].result = Answered(p, found)]
     /\ UNCHANGED <<order, field, baseUserId, baseGroupId, dbVars, Bounds, history>>

\* The handler tells the clients, unless the result is an error.
Finish(l) == /\ task[l].pc \in {"linked", "unlinked"}
             /\ Return(l)
             /\ UNCHANGED <<memoryVars, dbVars, Bounds, history>>

\* changePassword, updateUser: the database; no row changes when the values are there.
Update(l) ==
  LET t == task[l]
      changing(u) == u.pc = "keep" /\ u.me = t.me /\ FieldsOf(u.key) = FieldsOf(t.key)
      adding(u) == u.pc = "push" /\ u.other = t.me
  IN /\ t.pc = "update"
     /\ \/ /\ t.me \in table /\ Changed(column[t.me], t) # column[t.me]
           /\ column' = [column EXCEPT ![t.me] = Changed(@, t)] /\ Goto(l, "keep")
           /\ mixed' = IF Meanwhile(l, changing) \/ Meanwhile(l, adding)
                         THEN mixed \cup ({t.me} \X FieldsOf(t.key)) ELSE mixed
        \/ Return(l) /\ UNCHANGED <<column, mixed>>
     /\ UNCHANGED <<memoryVars, table, names, rows, Bounds, unloaded, half, crossed, left,
                    twins>>

\* changePassword, updateUser: the memory.
Keep(l) == /\ task[l].pc = "keep"
           /\ field' = IF task[l].me \in Known
                         THEN [field EXCEPT ![task[l].me] = Changed(@, task[l])] ELSE field
           /\ Return(l)
           /\ UNCHANGED <<order, list, baseUserId, baseGroupId, dbVars, Bounds, history>>

\* The server is started, the first time or after it stopped at any point.
Start == /\ restarts <= MaxRestarts
         /\ restarts' = restarts + 1
         /\ \E failed \in SUBSET table : Load(failed)
         /\ task' = [l \in Loops |-> Idle]
         /\ UNCHANGED <<dbVars, commands, twins>>

Handler(l) == \/ Answer(l) \/ Join(l) \/ Delete(l) \/ Change(l) \/ Create(l) \/ Register(l)
              \/ InsertUser(l) \/ InsertGroup(l) \/ Push(l) \/ Insert(l) \/ DeleteRows(l)
              \/ Link(l) \/ Unlink(l) \/ Finish(l) \/ Update(l) \/ Keep(l)
Next == Start \/ \E l \in Loops : Handler(l)
Spec == Init /\ [][Next]_vars

----------------------------------------------------------------------------
\* Type correctness.
PCs == {"idle", "insert", "delete", "update", "group", "register", "push", "link", "unlink",
        "linked", "unlinked", "keep"}
Lists == [Ids -> [Ids -> Nat]]
Tasks == [pc : PCs, me : Ids, other : Ids, name : Names \cup {"none"},
          key : Keys \cup {"none"}, value : Values \cup {"none"}, result : {0, 3}]
TypeOK == /\ order \in Seq(Ids) /\ table \subseteq Ids
          /\ list \in Lists /\ rows \in [Pairs -> Nat]
          /\ baseUserId \in 0..MaxUserId
          /\ baseGroupId \in Nat /\ baseGroupId >= BASE_GROUP_ID
          /\ task \in [Loops -> Tasks]
          /\ \A l \in Loops : task[l].pc \in {"delete", "link", "unlink"} => task[l].me # task[l].other

\* Friendship is mutual in memory, whatever handlers run at once, except between
\* users whose relationships were not read at the start, and for pairs that were
\* related while one of the two was not in m_users (UserManager.cpp:281-297: a
\* session that was kicked, an id nobody has, a group that could not be created).
AsymmetricOnlyHalfBuilt ==
  \A a, b \in Ids \ unloaded : list[a][b] # list[b][a] => PairOf(a, b) \in half

\* When no handler runs, memory holds what the database holds, and every difference is one
\* of these.  Friends: pairs half built, or built and released by two handlers at once (no
\* lock is held from the statement to m_mutex); and each row that a DELETE takes beyond the
\* first leaves an entry in both lists that no deletion takes out (UserManager.cpp:310-328).
\* Fields: what two handlers changed at once, and what no handler has changed since it came
\* to memory as something else than its column: the birthday, 0 after every start
\* (UserManager.cpp:141), the profile of a user registered since (112), and all fields of a
\* group made since (392-411).
AtRest == \A l \in Loops : task[l] = Idle
Unwritten == [password |-> {"empty"}, profile |-> {"fresh", "name"}, birthday |-> {"zero", "unset"}]
MemoryMatchesRows == AtRest =>
  /\ \A a, b \in Known \ unloaded :
       a # b /\ PairOf(a, b) \notin half \cup crossed =>
         list[a][b] = rows[PairOf(a, b)] + left[PairOf(a, b)]
  /\ \A a \in Known, k \in Fields :
       <<a, k>> \notin mixed => field[a][k] \in {column[a][k]} \cup Unwritten[k]

\* No two users have one name, in the table either, unless two handlers looked for
\* the name before either had added it (ChatSession.cpp:301 and UserManager.cpp:109).
NamesUniqueUnlessOverlap ==
  \A i, j \in table \ Groups : i # j /\ names[i] = names[j] => names[i] \in twins

\* "error to build relation" (ChatSession.cpp:792): a handler that answers nobody
\* because of the error has built no relation.
ErrorBuiltNothing ==
  \A l \in Loops : task[l].pc = "linked" /\ task[l].result # 0 =>
    LET a == task[l].me
        b == task[l].other
    IN ~(a \in Known /\ b \in Known /\ list[a][b] > 0 /\ list[b][a] > 0)
==============================================================================
