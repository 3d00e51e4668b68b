--------------------------- MODULE Friends_proofs ---------------------------
(***************************************************************************)
(* Theorems about Friends for any loops, ids, values and number of         *)
(* restarts: its types; that friendship is mutual in memory but for the    *)
(* pairs that were half built; that memory holds what the database holds   *)
(* when no handler is on its way between the two; and that no two users    *)
(* have one name but where two registrations looked for it at once.        *)
(***************************************************************************)
EXTENDS Friends, FiniteSetTheorems, TLAPS

----------------------------------------------------------------------------
\* Only users in memory have friends, and nobody is a friend of himself.
ListsOfKnown == \A a, b \in Ids : list[a][b] > 0 => a \in Known /\ a # b

IInv == TypeOK /\ ListsOfKnown /\ AsymmetricOnlyHalfBuilt

\* The ids are finitely many integers.
LEMMA IdsFinite == Ids \subseteq Nat /\ IsFiniteSet(Ids)
<1>1. BASE_GROUP_ID \in Nat /\ MaxUserId \in Nat /\ MaxGroupId \in Nat
  BY FriendsAssumption
<1>2. IsFiniteSet(0..MaxUserId)
  BY <1>1, FS_Interval
<1>3. IsFiniteSet(BASE_GROUP_ID + 1..MaxGroupId)
  BY <1>1, FS_Interval
<1>4. IsFiniteSet(Ids)
  BY <1>2, <1>3, FS_Union DEF Ids
<1> QED BY <1>1, <1>4 DEF Ids

\* A user of a kind has another id than one of the other kind.
LEMMA UserIds == /\ 0..MaxUserId \subseteq Ids \ Groups
                 /\ Ids \ Groups \subseteq 0..MaxUserId
                 /\ \A g \in Int : g > BASE_GROUP_ID /\ g <= MaxGroupId => g \in Groups
                 /\ 0 \in Ids \ Groups /\ \A g \in Groups : g \in Nat /\ g > BASE_GROUP_ID
<1>1. BASE_GROUP_ID \in Nat /\ MaxUserId \in 0..BASE_GROUP_ID /\ MaxGroupId \in Nat
  BY FriendsAssumption
<1>2. \A i : i \in Ids <=> i \in 0..MaxUserId \/ i \in BASE_GROUP_ID + 1..MaxGroupId
  BY DEF Ids
<1> QED BY <1>1, <1>2 DEF Groups

\* PairOf is a pair of the relationship table, the same from both sides.
LEMMA PairOfSymmetric ==
  ASSUME NEW a \in Ids, NEW b \in Ids, a # b
  PROVE  /\ PairOf(a, b) \in Pairs /\ PairOf(a, b) = PairOf(b, a)
         /\ {PairOf(a, b)[1], PairOf(a, b)[2]} = {a, b}
BY IdsFinite DEF PairOf, Pairs

\* The order of a fresh m_users is a sequence of the users of the table.
LEMMA DescendingIsSeq ==
  ASSUME NEW S \in SUBSET Ids, NEW o \in Descending(S)
  PROVE  o \in Seq(Ids) /\ ToSet(o) = S
<1>1. IsFiniteSet(S)
  BY IdsFinite, FS_Subset
<1>2. Cardinality(S) \in Nat
  BY <1>1, FS_CardinalityType
<1>3. o \in [1..Cardinality(S) -> S] /\ ToSet(o) = S
  BY DEF Descending
<1> QED BY <1>2, <1>3

\* A new user at the end of m_users.
LEMMA AppendKnown ==
  ASSUME NEW s \in Seq(Ids), NEW i \in Ids
  PROVE  Append(s, i) \in Seq(Ids) /\ ToSet(Append(s, i)) = ToSet(s) \cup {i}
<1>1. Append(s, i) \in Seq(Ids)
  OBVIOUS
<1>2. ToSet(Append(s, i)) = {Append(s, i)[k] : k \in 1..Len(s) + 1}
  BY DEF ToSet
<1>3. \A k \in 1..Len(s) : Append(s, i)[k] = s[k]
  OBVIOUS
<1>4. Append(s, i)[Len(s) + 1] = i
  OBVIOUS
<1>5. ToSet(s) = {s[k] : k \in 1..Len(s)}
  BY DEF ToSet
<1>6. ASSUME NEW x PROVE x \in ToSet(Append(s, i)) <=> x \in ToSet(s) \/ x = i
  <2>1. ASSUME x \in ToSet(Append(s, i)) PROVE x \in ToSet(s) \/ x = i
    <3>1. PICK k \in 1..Len(s) + 1 : x = Append(s, i)[k]
      BY <1>2, <2>1
    <3> QED BY <3>1, <1>3, <1>4, <1>5
  <2>2. ASSUME x \in ToSet(s) \/ x = i PROVE x \in ToSet(Append(s, i))
    <3>1. CASE x = i
      <4>1. Len(s) + 1 \in 1..Len(s) + 1
        OBVIOUS
      <4> QED BY <1>2, <1>4, <3>1, <4>1
    <3>2. CASE x \in ToSet(s)
      <4>1. PICK k \in 1..Len(s) : x = s[k]
        BY <1>5, <3>2
      <4>2. k \in 1..Len(s) + 1
        OBVIOUS
      <4> QED BY <1>2, <1>3, <4>1, <4>2
    <3> QED BY <2>2, <3>1, <3>2
  <2> QED BY <2>1, <2>2
<1> QED BY <1>1, <1>6

----------------------------------------------------------------------------
LEMMA InitInv == Init => IInv
<1> SUFFICES ASSUME Init PROVE IInv
  OBVIOUS
<1>1. FirstUsers \subseteq Ids /\ <<>> \in Seq(Ids) /\ 0 \in Ids
  BY FriendsAssumption, UserIds
<1>2. TypeOK
  BY <1>1, FriendsAssumption DEF Init, TypeOK, Lists, Tasks, Idle, PCs
<1> QED BY <1>2 DEF Init, IInv, ListsOfKnown, AsymmetricOnlyHalfBuilt

\* What a step that leaves m_users, the lists and the rows alone keeps.
quiet == <<order, list, unloaded, half>>
LEMMA QuietKeepsLists ==
  ASSUME ListsOfKnown, AsymmetricOnlyHalfBuilt, UNCHANGED quiet
  PROVE  ListsOfKnown' /\ AsymmetricOnlyHalfBuilt'
BY DEF quiet, ListsOfKnown, AsymmetricOnlyHalfBuilt, Known

\* The condition TypeOK puts on a handler.
TaskOK(t) == /\ t \in Tasks
             /\ t.pc \in {"delete", "link", "unlink"} => t.me # t.other

\* The handlers have it.
TasksOK == task \in [Loops -> Tasks] /\ \A l \in Loops : TaskOK(task[l])

\* A handler goes on to another statement, or returns.
LEMMA GotoOK ==
  ASSUME TasksOK, NEW l \in Loops, NEW pc \in PCs,
         pc \in {"delete", "link", "unlink"} => task[l].me # task[l].other, Goto(l, pc)
  PROVE  TasksOK'
<1>1. [task[l] EXCEPT !.pc = pc] \in Tasks
  BY DEF TasksOK, Tasks
<1>2. task' = [task EXCEPT ![l] = [task[l] EXCEPT !.pc = pc]]
  BY DEF Goto
<1>3. /\ [task[l] EXCEPT !.pc = pc].me = task[l].me /\ [task[l] EXCEPT !.pc = pc].pc = pc
      /\ [task[l] EXCEPT !.pc = pc].other = task[l].other
  BY DEF TasksOK, TaskOK, Tasks
<1> QED BY <1>1, <1>2, <1>3 DEF TasksOK, TaskOK

LEMMA ReturnOK == ASSUME TasksOK, NEW l \in Loops, Return(l) PROVE TasksOK'
<1>1. TaskOK(Idle)
  BY UserIds DEF TaskOK, Tasks, Idle, PCs
<1> QED BY <1>1 DEF TasksOK, TaskOK, Return

\* A handler changed to one with the condition.
LEMMA TaskStep ==
  ASSUME TypeOK, NEW l \in Loops, NEW t, TaskOK(t), task' = [task EXCEPT ![l] = t],
         order' \in Seq(Ids), table' \subseteq Ids, list' \in Lists, rows' \in [Pairs -> Nat],
         baseUserId' \in 0..MaxUserId, baseGroupId' \in Nat, baseGroupId' >= BASE_GROUP_ID
  PROVE  TypeOK'
BY DEF TypeOK, TaskOK

----------------------------------------------------------------------------
\* The start: memory is what the tables say.
LEMMA StartInv == IInv /\ Start => IInv'
<1> SUFFICES ASSUME IInv, Start PROVE IInv'
  OBVIOUS
<1> USE DEF IInv
<1>1. PICK failed \in SUBSET table : Load(failed)
  BY DEF Start
<1>2. table \in SUBSET Ids /\ rows \in [Pairs -> Nat] /\ UNCHANGED <<table, rows>>
  BY DEF TypeOK, Start, dbVars
<1>3. order' \in Seq(Ids) /\ Known' = table
  BY <1>1, <1>2, DescendingIsSeq DEF Load, Known
<1>4. ASSUME NEW a \in Ids, NEW b \in Ids
      PROVE  /\ list'[a][b] = IF a = b \/ a \notin table \/ a \in failed THEN 0 ELSE rows[PairOf(a, b)]
             /\ list'[a][b] \in Nat
  <2>1. list'[a][b] = IF a = b \/ a \notin table \/ a \in failed THEN 0 ELSE rows[PairOf(a, b)]
    BY <1>1 DEF Load
  <2>2. a # b => rows[PairOf(a, b)] \in Nat
    BY <1>2, PairOfSymmetric
  <2> QED BY <2>1, <2>2
<1>5. list' \in Lists
  <2>1. list' = [a \in Ids |-> [b \in Ids |-> list'[a][b]]]
    BY <1>1 DEF Load
  <2> QED BY <1>4, <2>1 DEF Lists
<1>6. baseUserId' \in 0..MaxUserId /\ baseGroupId' \in Nat /\ baseGroupId' >= BASE_GROUP_ID
  <2>1. table \ Groups \subseteq 0..MaxUserId
    BY <1>2, UserIds
  <2>2. 0 \in 0..MaxUserId
    BY FriendsAssumption
  <2>3. baseUserId' \in 0..MaxUserId
    BY <1>1, <2>1, <2>2 DEF Load, LargestOf
  <2>4. BASE_GROUP_ID \in Nat /\ \A g \in Groups : g \in Nat /\ g >= BASE_GROUP_ID
    BY FriendsAssumption, UserIds
  <2> QED BY <1>1, <2>3, <2>4 DEF Load, LargestOf
<1>7. TypeOK'
  <2>1. task' = [k \in Loops |-> Idle]
    BY DEF Start
  <2>2. TaskOK(Idle)
    BY UserIds DEF TaskOK, Tasks, Idle, PCs
  <2> QED BY <1>2, <1>3, <1>5, <1>6, <2>1, <2>2 DEF TypeOK, TaskOK
<1>8. ListsOfKnown'
  BY <1>3, <1>4 DEF ListsOfKnown
<1>9. AsymmetricOnlyHalfBuilt'
  <2> SUFFICES ASSUME NEW a \in Ids, NEW b \in Ids, a \notin failed, b \notin failed,
                      list'[a][b] # list'[b][a]
               PROVE  PairOf(a, b) \in half'
    BY <1>1 DEF AsymmetricOnlyHalfBuilt, Load
  <2>1. a # b
    OBVIOUS
  <2>2. rows[PairOf(a, b)] > 0 /\ ~({a, b} \subseteq table)
    <3>1. PairOf(a, b) = PairOf(b, a) /\ rows[PairOf(a, b)] \in Nat
      BY <1>2, <2>1, PairOfSymmetric
    <3> QED BY <1>4, <2>1, <3>1
  <2>3. PairOf(a, b) \in Dangling
    BY <2>1, <2>2, PairOfSymmetric DEF Dangling
  <2> QED BY <1>1, <2>3 DEF Load
<1> QED BY <1>7, <1>8, <1>9

\* Commands: a handler begins, and only the tasks and a group's id change.
LEMMA CommandInv ==
  ASSUME IInv, NEW l \in Loops,
         Answer(l) \/ Join(l) \/ Delete(l) \/ Change(l) \/ Create(l) \/ Register(l)
  PROVE  IInv'
<1> USE DEF IInv
<1>1. Known \subseteq Ids /\ 0 \in Ids /\ Callers \subseteq Ids
  <2>1. Known \subseteq Ids
    BY DEF Known, ToSet, TypeOK
  <2> QED BY <2>1, UserIds, FriendsAssumption DEF Callers
<1>0. \A me \in Callers, g \in Groups : me \in Ids /\ g \in Ids
  <2>1. Groups \subseteq Ids
    BY DEF Groups
  <2> QED BY <1>1, <2>1
<1>2. UNCHANGED quiet /\ UNCHANGED <<table, rows, baseUserId>>
  BY DEF Answer, Join, Delete, Change, Create, Register, Begin, memoryVars, dbVars, history, quiet
<1>3. PICK t : TaskOK(t) /\ task' = [task EXCEPT ![l] = t] /\ baseGroupId' \in Nat
               /\ baseGroupId' >= BASE_GROUP_ID
  <2> USE DEF Begin, TaskOK, Tasks, Idle, PCs, TypeOK, memoryVars
  <2>1. CASE Answer(l)
    BY <1>1, <2>1 DEF Answer
  <2>2. CASE Join(l)
    <3>1. PICK me \in Callers, g \in Groups :
            task' = [task EXCEPT ![l] = [Idle EXCEPT !.pc = "insert", !.me = me, !.other = g]]
      BY <2>2 DEF Join
    <3>2. me \in Ids /\ g \in Ids
      BY <1>0
    <3> QED BY <2>2, <3>1, <3>2 DEF Join
  <2>3. CASE Delete(l)
    BY <1>1, <2>3 DEF Delete
  <2>4. CASE Change(l)
    BY <1>1, <2>4 DEF Change
  <2>5. CASE Create(l)
    <3>1. baseGroupId + 1 \in Groups
      <4>1. baseGroupId \in Nat /\ baseGroupId >= BASE_GROUP_ID /\ baseGroupId < MaxGroupId
        BY <2>5 DEF Create
      <4>2. BASE_GROUP_ID \in Nat /\ MaxGroupId \in Nat
        BY FriendsAssumption
      <4>3. baseGroupId + 1 \in Int /\ baseGroupId + 1 > BASE_GROUP_ID /\ baseGroupId + 1 <= MaxGroupId
        BY <4>1, <4>2
      <4> QED BY <4>3, UserIds
    <3>2. PICK me \in Callers :
            /\ task' = [task EXCEPT ![l] = [Idle EXCEPT !.pc = "group", !.me = me,
                                                        !.other = baseGroupId + 1]]
            /\ baseGroupId' = baseGroupId + 1
      BY <2>5 DEF Create
    <3>3. TaskOK([Idle EXCEPT !.pc = "group", !.me = me, !.other = baseGroupId + 1])
      <4>1. me \in Ids /\ baseGroupId + 1 \in Ids
        BY <1>0, <3>1
      <4> QED BY <4>1
    <3>4. baseGroupId' \in Nat /\ baseGroupId' >= BASE_GROUP_ID
      BY <3>2, FriendsAssumption
    <3> QED BY <3>2, <3>3, <3>4
  <2>6. CASE Register(l)
    BY <1>1, <2>6 DEF Register
  <2> QED BY <2>1, <2>2, <2>3, <2>4, <2>5, <2>6
<1>4. TypeOK'
  BY <1>2, <1>3, TaskStep DEF quiet, TypeOK
<1> QED BY <1>2, <1>4, QuietKeepsLists

\* The steps that write neither m_users nor the lists.
LEMMA QuietInv ==
  ASSUME IInv, NEW l \in Loops,
         InsertUser(l) \/ InsertGroup(l) \/ Insert(l) \/ DeleteRows(l) \/ Finish(l) \/ Update(l)
         \/ Keep(l)
  PROVE  IInv'
<1> USE DEF IInv
<1>1. UNCHANGED quiet
  BY DEF InsertUser, InsertGroup, Insert, DeleteRows, Finish, Update, Keep, memoryVars, history, quiet
<1>2. TaskOK(task[l]) /\ TaskOK(Idle)
  BY UserIds DEF TypeOK, TaskOK, Tasks, Idle, PCs
<1>3. TasksOK /\ task[l] \in Tasks
  BY DEF TypeOK, TasksOK, TaskOK
<1>4. TasksOK'
  <2>1. CASE InsertUser(l)
    <3>1. CASE Return(l)
      BY <1>3, <3>1, ReturnOK
    <3>2. CASE task' = [task EXCEPT ![l].pc = "push", ![l].other = baseUserId + 1]
      <4>1. baseUserId + 1 \in Ids
        <5>1. baseUserId + 1 \in 0..MaxUserId
          BY <2>1, FriendsAssumption DEF InsertUser, TypeOK
        <5> QED BY <5>1, UserIds
      <4>2. [task[l] EXCEPT !.pc = "push", !.other = baseUserId + 1] \in Tasks
        BY <1>3, <4>1 DEF Tasks, PCs
      <4> QED BY <1>3, <3>2, <4>1, <4>2 DEF TasksOK, TaskOK, Tasks
    <3> QED BY <2>1, <3>1, <3>2 DEF InsertUser
  <2>2. CASE InsertGroup(l)
    <3>1. Goto(l, "push") \/ Goto(l, "insert")
      BY <2>2 DEF InsertGroup
    <3> QED BY <1>3, <3>1, GotoOK DEF PCs
  <2>3. CASE Insert(l)
    <3>1. (task[l].me # task[l].other /\ Goto(l, "link")) \/ Return(l)
      BY <2>3 DEF Insert
    <3> QED BY <1>3, <3>1, GotoOK, ReturnOK DEF PCs
  <2>4. CASE DeleteRows(l)
    <3>1. task[l].me # task[l].other /\ (Goto(l, "unlink") \/ Return(l))
      BY <1>2, <2>4 DEF TaskOK, DeleteRows
    <3> QED BY <1>3, <3>1, GotoOK, ReturnOK DEF PCs
  <2>5. CASE Finish(l) \/ Keep(l)
    BY <1>3, <2>5, ReturnOK DEF Finish, Keep
  <2>6. CASE Update(l)
    <3>1. CASE Return(l)
      BY <1>3, <3>1, ReturnOK
    <3>2. CASE Goto(l, "keep")
      BY <1>3, <2>6, <3>2 DEF Update, Goto, TasksOK, TaskOK, Tasks, PCs
    <3> QED BY <2>6, <3>1, <3>2 DEF Update
  <2> QED BY <2>1, <2>2, <2>3, <2>4, <2>5, <2>6
<1>5. rows' \in [Pairs -> Nat]
  <2>1. CASE Insert(l) \/ DeleteRows(l)
    <3>1. rows' = rows \/ (task[l].me # task[l].other /\ rows \in [Pairs -> Nat])
      BY <1>2, <2>1 DEF TypeOK, TaskOK, Insert, DeleteRows
    <3>2. task[l].me # task[l].other => PairIn(task[l]) \in Pairs
      BY <1>3, PairOfSymmetric DEF Tasks, PairIn
    <3> QED BY <2>1, <3>1, <3>2 DEF Insert, DeleteRows, TypeOK
  <2>2. CASE ~(Insert(l) \/ DeleteRows(l))
    BY <2>2 DEF InsertUser, InsertGroup, Finish, Update, Keep, TypeOK, dbVars
  <2> QED BY <2>1, <2>2
<1>6. table' \subseteq Ids /\ baseUserId' \in 0..MaxUserId
  <2>1. CASE InsertUser(l)
    BY <2>1, UserIds, FriendsAssumption DEF InsertUser, TypeOK
  <2>2. CASE InsertGroup(l)
    BY <1>3, <2>2 DEF InsertGroup, TypeOK, Tasks, memoryVars
  <2>3. CASE ~(InsertUser(l) \/ InsertGroup(l))
    BY <2>3 DEF Insert, DeleteRows, Finish, Update, Keep, TypeOK, memoryVars, dbVars
  <2> QED BY <2>1, <2>2, <2>3
<1>7. UNCHANGED baseGroupId
  BY DEF InsertUser, InsertGroup, Insert, DeleteRows, Finish, Update, Keep, memoryVars
<1>8. TypeOK'
  BY <1>1, <1>4, <1>5, <1>6, <1>7 DEF TypeOK, TasksOK, TaskOK, quiet
<1> QED BY <1>1, <1>8, QuietKeepsLists

\* m_users.push_back
LEMMA PushInv == ASSUME IInv, NEW l \in Loops, Push(l) PROVE IInv'
<1> USE DEF IInv
<1>1. TaskOK(task[l]) /\ TaskOK(Idle) /\ task[l].other \in Ids
  BY UserIds DEF TypeOK, TaskOK, Tasks, Idle, PCs
<1>2. order' \in Seq(Ids) /\ Known' = Known \cup {task[l].other}
  BY <1>1, AppendKnown DEF Push, Known, TypeOK
<1>3. UNCHANGED <<list, unloaded, half, table, rows, baseUserId, baseGroupId>>
  BY DEF Push, dbVars, history
<1>4. TasksOK'
  <2>1. TasksOK
    BY DEF TypeOK, TasksOK, TaskOK
  <2>2. Goto(l, "insert") \/ Return(l)
    BY DEF Push
  <2> QED BY <2>1, <2>2, GotoOK, ReturnOK DEF PCs
<1>5. TypeOK'
  BY <1>2, <1>3, <1>4 DEF TypeOK, TasksOK, TaskOK
<1>6. ListsOfKnown' /\ AsymmetricOnlyHalfBuilt'
  BY <1>2, <1>3 DEF ListsOfKnown, AsymmetricOnlyHalfBuilt
<1> QED BY <1>5, <1>6

\* buildFriendRelationship: both lists grow, or the pair is half built.
LEMMA LinkInv == ASSUME IInv, NEW l \in Loops, Link(l) PROVE IInv'
<1> USE DEF IInv
<1> DEFINE p == PairIn(task[l])
           found == {p[1], p[2]} \cap Known
<1>1. TaskOK(task[l]) /\ task[l].pc = "link" /\ task[l].me # task[l].other
  BY DEF TypeOK, TaskOK, Link
<1>2. list' = [a \in Ids |-> [b \in Ids |->
        IF a \in found /\ a # b /\ PairOf(a, b) = p THEN list[a][b] + 1 ELSE list[a][b]]]
  BY DEF Link
<1>3. UNCHANGED <<order, unloaded, table, rows, baseUserId, baseGroupId, Known>>
  BY DEF Link, dbVars, Known
<1>4. list \in Lists /\ order \in Seq(Ids)
  BY DEF TypeOK
<1>5. ASSUME NEW a \in Ids, NEW b \in Ids
      PROVE  list'[a][b] = IF a \in found /\ a # b /\ PairOf(a, b) = p
                           THEN list[a][b] + 1 ELSE list[a][b]
  BY <1>2
<1>6. list' \in Lists
  BY <1>2, <1>4 DEF Lists
<1>7. TypeOK'
  <2>1. [task[l] EXCEPT !.pc = "linked", !.result = Answered(p, found)] \in Tasks
    BY <1>1 DEF TaskOK, Tasks, PCs, Answered
  <2> QED BY <1>1, <1>3, <1>6, <2>1 DEF Link, TypeOK, TaskOK, Tasks
<1>8. ListsOfKnown'
  <2> SUFFICES ASSUME NEW a \in Ids, NEW b \in Ids, list'[a][b] > 0 PROVE a \in Known /\ a # b
    BY <1>3 DEF ListsOfKnown
  <2> QED BY <1>5 DEF ListsOfKnown
<1>9. AsymmetricOnlyHalfBuilt'
  <2> SUFFICES ASSUME NEW a \in Ids, NEW b \in Ids, a \notin unloaded, b \notin unloaded,
                      list'[a][b] # list'[b][a]
               PROVE  PairOf(a, b) \in half'
    BY <1>3 DEF AsymmetricOnlyHalfBuilt
  <2>1. half \subseteq half'
    BY DEF Link
  <2>2. CASE list[a][b] # list[b][a]
    BY <2>1, <2>2 DEF AsymmetricOnlyHalfBuilt
  <2>3. CASE list[a][b] = list[b][a]
    <3>1. a # b /\ PairOf(a, b) = PairOf(b, a)
      BY PairOfSymmetric
    <3>2. PairOf(a, b) = p /\ ~(a \in found /\ b \in found)
      BY <1>5, <2>3, <3>1
    <3>3. found # {p[1], p[2]}
      BY <3>1, <3>2, PairOfSymmetric
    <3> QED BY <3>2, <3>3 DEF Link
  <2> QED BY <2>2, <2>3
<1> QED BY <1>7, <1>8, <1>9

\* releaseFriendRelationship: an entry leaves each list that has one.
LEMMA UnlinkInv == ASSUME IInv, NEW l \in Loops, Unlink(l) PROVE IInv'
<1> USE DEF IInv
<1> DEFINE p == PairIn(task[l])
           found == {a \in {p[1], p[2]} \cap Known : \E b \in {p[1], p[2]} : list[a][b] > 0}
<1>1. TaskOK(task[l]) /\ task[l].pc = "unlink" /\ task[l].me # task[l].other
  BY DEF TypeOK, TaskOK, Unlink
<1>2. list' = [a \in Ids |-> [b \in Ids |->
        IF a \in found /\ a # b /\ PairOf(a, b) = p THEN list[a][b] - 1 ELSE list[a][b]]]
  BY DEF Unlink
<1>3. UNCHANGED <<order, unloaded, half, table, rows, baseUserId, baseGroupId, Known>>
  BY DEF Unlink, dbVars, history, Known
<1>4. \A a, b \in Ids : list[a][b] \in Nat
  BY DEF TypeOK, Lists
<1>5. ASSUME NEW a \in Ids, NEW b \in Ids, a # b, PairOf(a, b) = p
      PROVE  a \in found <=> list[a][b] > 0
  <2>1. {p[1], p[2]} = {a, b}
    BY <1>5, PairOfSymmetric
  <2>2. list[a][b] > 0 => a \in Known
    BY DEF ListsOfKnown
  <2>3. ~(list[a][a] > 0)
    BY DEF ListsOfKnown
  <2> QED BY <2>1, <2>2, <2>3
<1>6. ASSUME NEW a \in Ids, NEW b \in Ids
      PROVE  list'[a][b] = IF list[a][b] > 0 /\ a # b /\ PairOf(a, b) = p
                           THEN list[a][b] - 1 ELSE list[a][b]
  BY <1>2, <1>5
<1>7. list' \in Lists
  <2>1. \A a, b \in Ids : list'[a][b] \in Nat
    BY <1>4, <1>6
  <2>2. list' = [a \in Ids |-> [b \in Ids |-> list'[a][b]]]
    BY <1>2
  <2> QED BY <2>1, <2>2 DEF Lists
<1>8. TypeOK'
  <2>1. [task[l] EXCEPT !.pc = "unlinked", !.result = Answered(p, found)] \in Tasks
    BY <1>1 DEF TaskOK, Tasks, PCs, Answered
  <2> QED BY <1>1, <1>3, <1>7, <2>1 DEF Unlink, TypeOK, TaskOK, Tasks
<1>9. ListsOfKnown'
  BY <1>3, <1>4, <1>6 DEF ListsOfKnown
<1>10. AsymmetricOnlyHalfBuilt'
  <2> SUFFICES ASSUME NEW a \in Ids, NEW b \in Ids, a \notin unloaded, b \notin unloaded,
                      list'[a][b] # list'[b][a]
               PROVE  PairOf(a, b) \in half
    BY <1>3 DEF AsymmetricOnlyHalfBuilt
  <2>1. a # b /\ PairOf(a, b) = PairOf(b, a)
    BY PairOfSymmetric
  <2>2. list[a][b] # list[b][a]
    BY <1>6, <2>1
  <2> QED BY <2>2 DEF AsymmetricOnlyHalfBuilt
<1> QED BY <1>8, <1>9, <1>10

----------------------------------------------------------------------------
\* The invariant holds in every reachable state.
THEOREM FriendsInvariance == Spec => []IInv
<1>1. Init => IInv
  BY InitInv
<1>2. IInv /\ [Next]_vars => IInv'
  <2> SUFFICES ASSUME IInv, [Next]_vars PROVE IInv'
    OBVIOUS
  <2>1. CASE Start
    BY <2>1, StartInv
  <2>2. CASE \E l \in Loops : Handler(l)
    <3>1. PICK l \in Loops : Handler(l)
      BY <2>2
    <3> QED BY <3>1, CommandInv, QuietInv, PushInv, LinkInv, UnlinkInv DEF Handler
  <2>3. CASE UNCHANGED vars
    <3>1. UNCHANGED quiet /\ UNCHANGED <<table, rows, task, baseUserId, baseGroupId>>
      BY <2>3 DEF vars, memoryVars, dbVars, history, quiet
    <3>2. TypeOK'
      BY <3>1 DEF IInv, TypeOK, quiet
    <3> QED BY <3>1, <3>2, QuietKeepsLists DEF IInv
  <2> QED BY <2>1, <2>2, <2>3 DEF Next
<1> QED BY <1>1, <1>2, PTL DEF Spec

\* Memory, tables and handlers have their types.
THEOREM FriendsTypeOK == Spec => []TypeOK
<1>1. IInv => TypeOK
  BY DEF IInv
<1> QED BY <1>1, FriendsInvariance, PTL

\* Friendship in memory is mutual, whatever handlers run at once and whenever the
\* server is restarted, but for the pairs that were half built.
THEOREM FriendsMutual == Spec => []AsymmetricOnlyHalfBuilt
<1>1. IInv => AsymmetricOnlyHalfBuilt
  BY DEF IInv
<1> QED BY <1>1, FriendsInvariance, PTL
----------------------------------------------------------------------------
(* The second layer: names, rows and fields, on top of IInv.               *)

\* The tables, and memory before the first start.
Texts == Values \cup {"default", "fresh", "empty", "name", "unset", "zero", "none"}
TablesOK == /\ names \in [Ids -> Names \cup {"none"}]
            /\ field \in [Ids -> [Fields -> Texts]] /\ column \in [Ids -> [Fields -> Texts]]
            /\ left \in [Pairs -> Nat] /\ restarts \in Nat
            /\ restarts = 0 => order = <<>> /\ \A l \in Loops : task[l] = Idle

\* An id is given out once, and a user in memory has a row.
IdsGiven == /\ Known \subseteq table
            /\ restarts > 0 => \A i \in table \ Groups : i <= baseUserId
            /\ \A l \in Loops : task[l].pc = "group" => task[l].other \in Groups

\* Between its insert and m_users.push_back a user belongs to one handler.
Newcomer(l) == task[l].pc = "push" /\ task[l].other \notin Groups
RowOf(i, v) == /\ <<i, "password">> \notin mixed => column[i]["password"] = v
               /\ <<i, "birthday">> \notin mixed => column[i]["birthday"] = "default"
NewcomersOwned == \A l \in Loops :
  /\ task[l].pc = "push" => task[l].other \in table
  /\ Newcomer(l) => /\ task[l].other \notin Known
                    /\ names[task[l].other] = task[l].name
                    /\ RowOf(task[l].other, task[l].value)
                    /\ \A k \in Loops : Newcomer(k) /\ task[k].other = task[l].other => k = l

\* A name is not in m_users while it is looked for, or two handlers look.
Registers(l) == task[l].pc = "register" \/ Newcomer(l)
NameSeen == restarts > 0 => \A i \in table \ Groups :
  i \in Known \/ \E l \in Loops : Newcomer(l) /\ task[l].other = i
NamesApart ==
  /\ \A l, k \in Loops : l # k /\ task[l].pc = "register" /\ Registers(k) /\ task[k].name = task[l].name
       => task[l].name \in twins
  /\ \A l \in Loops, i \in table \ Groups : task[l].pc = "register" /\ names[i] = task[l].name
       => task[l].name \in twins
NamesInv == NameSeen /\ NamesApart /\ NamesUniqueUnlessOverlap

\* What a list lacks of the rows is on its way to it.
Linking(p) == {l \in Loops : task[l].pc = "link" /\ PairIn(task[l]) = p}
Unlinking(p) == {l \in Loops : task[l].pc = "unlink" /\ PairIn(task[l]) = p}
Settled(p, n) == Unlinking(p) = {} /\ n + Cardinality(Linking(p)) = rows[p] + left[p]
Deleted(p, n) == /\ n = left[p] + 1 /\ rows[p] = 0 /\ Linking(p) = {}
                 /\ \E l \in Loops : Unlinking(p) = {l}
Odd == half \cup crossed
RowsInv == restarts > 0 => \A a, b \in Ids \ unloaded :
  a # b /\ PairOf(a, b) \notin Odd =>
    Settled(PairOf(a, b), list[a][b]) \/ Deleted(PairOf(a, b), list[a][b])

\* A field differs from its column while one handler is on its way to it, or as
\* long as nobody has changed it.
Agrees(a, k) == field[a][k] \in {column[a][k]} \cup Unwritten[k]
Keeps(l, a, k) == task[l].pc = "keep" /\ task[l].me = a /\ k \in FieldsOf(task[l].key)
Coming(a, k) == \E l \in Loops : Keeps(l, a, k)
Sole(a, k) == \A l \in Loops : Keeps(l, a, k) => /\ column[a][k] = task[l].value
                                                 /\ \A j \in Loops : Keeps(j, a, k) => j = l
FieldOK(a, k) == <<a, k>> \notin mixed =>
  Sole(a, k) /\ (a \in Known => Agrees(a, k) \/ Coming(a, k))
KeepersInTable == \A l \in Loops : task[l].pc = "keep" => task[l].me \in table
FieldsInv == KeepersInTable /\ \A a \in Ids, k \in Fields : FieldOK(a, k)

Agree == TablesOK /\ IdsGiven /\ NewcomersOwned /\ NamesInv /\ RowsInv /\ FieldsInv


\* How a handler's record changes.
Others(l) == \A k \in Loops \ {l} : task'[k] = task[k]
SameJob(l) == /\ task'[l].me = task[l].me /\ task'[l].other = task[l].other
              /\ task'[l].name = task[l].name /\ task'[l].key = task[l].key
              /\ task'[l].value = task[l].value

LEMMA GotoEffect ==
  ASSUME TypeOK, NEW l \in Loops, NEW pc, Goto(l, pc)
  PROVE  Others(l) /\ SameJob(l) /\ task'[l].pc = pc
<1>1. task \in [Loops -> Tasks] /\ task[l] \in Tasks
  BY DEF TypeOK
<1>2. task' = [task EXCEPT ![l] = [task[l] EXCEPT !.pc = pc]]
  BY DEF Goto
<1>3. Others(l) /\ task'[l] = [task[l] EXCEPT !.pc = pc]
  BY <1>1, <1>2 DEF Others
<1> QED BY <1>1, <1>3 DEF SameJob, Tasks

LEMMA ReturnEffect ==
  ASSUME TypeOK, NEW l \in Loops, Return(l)
  PROVE  Others(l) /\ task'[l] = Idle /\ task'[l].pc = "idle"
BY DEF TypeOK, Return, Others, Idle

\* A command begins: what it leaves alone, and what it knows.
Command(l) == Answer(l) \/ Join(l) \/ Delete(l) \/ Change(l) \/ Create(l) \/ Register(l)
Begun(l) == /\ task[l] = Idle /\ restarts > 0 /\ Others(l)
            /\ task'[l].pc \in {"insert", "delete", "update", "group", "register"}
            /\ task'[l].pc = "group" => task'[l].other \in Groups
            /\ task'[l].pc = "register" =>
                 /\ ~NameTaken(task'[l].name)
                 /\ \A k \in Loops \ {l} : task[k].name = task'[l].name => task'[l].name \in twins'
calm == <<order, list, field, baseUserId, dbVars, restarts, unloaded, half, crossed, mixed, left>>

LEMMA CommandEffect ==
  ASSUME IInv, NEW l \in Loops, Command(l)
  PROVE  Begun(l) /\ UNCHANGED calm /\ twins \subseteq twins'
<1>1. task \in [Loops -> Tasks]
  BY DEF IInv, TypeOK
<1>2. UNCHANGED calm /\ twins \subseteq twins'
  BY DEF Command, Answer, Join, Delete, Change, Create, Register, Begin, memoryVars, history, calm
<1>3. ASSUME NEW t, Begin(l, t)
      PROVE  task[l] = Idle /\ restarts > 0 /\ Others(l) /\ task'[l] = t
  BY <1>1, <1>3 DEF Begin, Others
<1>4. CASE Answer(l)
  <2>1. PICK me \in Callers, f \in Ids :
          Begin(l, [Idle EXCEPT !.pc = "insert", !.me = me, !.other = f])
    BY <1>4 DEF Answer
  <2>2. task'[l] = [Idle EXCEPT !.pc = "insert", !.me = me, !.other = f]
    BY <1>3, <2>1
  <2>3. task'[l].pc = "insert"
    BY <2>2 DEF Idle
  <2> QED BY <1>2, <1>3, <2>1, <2>3 DEF Begun
<1>5. CASE Join(l)
  <2>1. PICK me \in Callers, g \in Groups :
          Begin(l, [Idle EXCEPT !.pc = "insert", !.me = me, !.other = g])
    BY <1>5 DEF Join
  <2>2. task'[l] = [Idle EXCEPT !.pc = "insert", !.me = me, !.other = g]
    BY <1>3, <2>1
  <2>3. task'[l].pc = "insert"
    BY <2>2 DEF Idle
  <2> QED BY <1>2, <1>3, <2>1, <2>3 DEF Begun
<1>6. CASE Delete(l)
  <2>1. PICK me \in Callers, f \in Ids :
          Begin(l, [Idle EXCEPT !.pc = "delete", !.me = me, !.other = f])
    BY <1>6 DEF Delete
  <2>2. task'[l] = [Idle EXCEPT !.pc = "delete", !.me = me, !.other = f]
    BY <1>3, <2>1
  <2>3. task'[l].pc = "delete"
    BY <2>2 DEF Idle
  <2> QED BY <1>2, <1>3, <2>1, <2>3 DEF Begun
<1>7. CASE Change(l)
  <2>1. PICK me \in Callers, k \in Keys, v \in Values :
          Begin(l, [Idle EXCEPT !.pc = "update", !.me = me, !.key = k, !.value = v])
    BY <1>7 DEF Change
  <2>2. task'[l] = [Idle EXCEPT !.pc = "update", !.me = me, !.key = k, !.value = v]
    BY <1>3, <2>1
  <2>3. task'[l].pc = "update"
    BY <2>2 DEF Idle
  <2> QED BY <1>2, <1>3, <2>1, <2>3 DEF Begun
<1>8. CASE Create(l)
  <2>1. PICK me \in Callers :
          task' = [task EXCEPT ![l] = [Idle EXCEPT !.pc = "group", !.me = me, !.other = baseGroupId + 1]]
    BY <1>8 DEF Create
  <2>2. task'[l].pc = "group" /\ task'[l].other = baseGroupId + 1 /\ Others(l)
    BY <1>1, <2>1 DEF Idle, Others
  <2>3. baseGroupId + 1 \in Groups
    <3>1. baseGroupId \in Nat /\ baseGroupId >= BASE_GROUP_ID /\ baseGroupId < MaxGroupId
      BY <1>8 DEF Create, IInv, TypeOK
    <3>2. BASE_GROUP_ID \in Nat /\ MaxGroupId \in Nat
      BY FriendsAssumption
    <3>3. /\ baseGroupId + 1 \in Int /\ baseGroupId + 1 > BASE_GROUP_ID
          /\ baseGroupId + 1 <= MaxGroupId
      BY <3>1, <3>2
    <3> QED BY <3>3, UserIds
  <2>4. task[l] = Idle /\ restarts > 0
    BY <1>8 DEF Create
  <2> QED BY <1>2, <2>2, <2>3, <2>4 DEF Begun
<1>9. CASE Register(l)
  <2>1. PICK n \in Names, v \in Values :
          /\ ~NameTaken(n)
          /\ Begin(l, [Idle EXCEPT !.pc = "register", !.name = n, !.value = v])
          /\ twins' = IF \E k \in Loops \ {l} : task[k].name = n THEN twins \cup {n} ELSE twins
    BY <1>9 DEF Register, Meanwhile
  <2>2. task'[l] = [Idle EXCEPT !.pc = "register", !.name = n, !.value = v]
    BY <1>3, <2>1
  <2>3. task'[l].pc = "register" /\ task'[l].name = n
    BY <2>2 DEF Idle
  <2> QED BY <1>2, <1>3, <2>1, <2>3 DEF Begun
<1> QED BY <1>4, <1>5, <1>6, <1>7, <1>8, <1>9 DEF Command

\* The steps of a handler that has its ids: relationships and fields.
Later(l) == \/ Insert(l) \/ DeleteRows(l) \/ Link(l) \/ Unlink(l) \/ Finish(l) \/ Update(l)
            \/ Keep(l)
LEMMA LaterEffect ==
  ASSUME IInv, NEW l \in Loops, Later(l)
  PROVE  /\ Others(l)
         /\ UNCHANGED <<order, table, names, baseUserId, twins, restarts>>
         /\ task[l].pc \in {"insert", "delete", "link", "unlink", "linked", "unlinked", "update", "keep"}
         /\ task'[l].pc \in {"idle", "link", "unlink", "linked", "unlinked", "keep"}
         /\ task'[l].pc # "idle" => SameJob(l)
<1>1. TypeOK /\ task \in [Loops -> Tasks]
  BY DEF IInv, TypeOK
<1>2. /\ UNCHANGED <<order, table, names, baseUserId, twins, restarts>>
      /\ task[l].pc \in {"insert", "delete", "link", "unlink", "linked", "unlinked", "update", "keep"}
  BY DEF Later, Insert, DeleteRows, Link, Unlink, Finish, Update, Keep, memoryVars, dbVars, Bounds, history
<1>3. CASE Link(l) \/ Unlink(l)
  <2>1. PICK pc \in {"linked", "unlinked"}, r \in {0, 3} : task' = [task EXCEPT ![l].pc = pc, ![l].result = r]
    BY <1>3 DEF Link, Unlink, Answered
  <2> QED BY <1>1, <1>2, <2>1 DEF Others, SameJob, Tasks
<1>4. CASE ~(Link(l) \/ Unlink(l))
  <2>1. PICK pc \in {"link", "unlink", "keep"} : Return(l) \/ Goto(l, pc)
    BY <1>4 DEF Later, Insert, DeleteRows, Finish, Update, Keep
  <2> QED BY <1>1, <1>2, <2>1, GotoEffect, ReturnEffect
<1> QED BY <1>3, <1>4

\* Every step of a handler is a command, one of the four that make users, or a later one.
LEMMA HandlerCases ==
  ASSUME NEW l \in Loops, Handler(l)
  PROVE  Command(l) \/ InsertUser(l) \/ InsertGroup(l) \/ Push(l) \/ Later(l)
BY DEF Handler, Command, Later

\* Handlers run only after the first start.
LEMMA Started ==
  ASSUME IInv, TablesOK, NEW l \in Loops, Handler(l)
  PROVE  restarts > 0 /\ restarts' = restarts
<1>1. task \in [Loops -> Tasks] /\ task[l] \in Tasks /\ Idle.pc = "idle"
  BY DEF IInv, TypeOK, Idle
<1>2. restarts' = restarts /\ (task[l] # Idle \/ restarts > 0)
  BY <1>1 DEF Handler, Answer, Join, Delete, Change, Create, Register, Begin, InsertUser,
              InsertGroup, Push, Insert, DeleteRows, Link, Unlink, Finish, Update, Keep, Bounds
<1> QED BY <1>2 DEF TablesOK

\* What a change leaves alone.
LEMMA ChangedFields ==
  ASSUME NEW f \in [Fields -> Texts], NEW t, t.value \in Texts
  PROVE  /\ Changed(f, t) \in [Fields -> Texts]
         /\ \A k \in Fields : /\ k \in FieldsOf(t.key) => Changed(f, t)[k] = t.value
                              /\ k \notin FieldsOf(t.key) => Changed(f, t)[k] = f[k]
BY DEF Changed

\* The tables keep their types.
LEMMA TablesStep ==
  ASSUME IInv, TablesOK, NEW l \in Loops, Handler(l)
  PROVE  TablesOK'
<1>1. task \in [Loops -> Tasks] /\ task[l] \in Tasks /\ Idle.pc = "idle"
  BY DEF IInv, TypeOK, Idle
<1>2. restarts' = restarts /\ restarts > 0
  BY Started
<1>3. /\ task[l].me \in Ids /\ task[l].other \in Ids /\ task[l].name \in Names \cup {"none"}
      /\ task[l].value \in Texts
  BY <1>1 DEF Tasks, Texts
<1>4. CASE Command(l)
  BY <1>2, <1>4, CommandEffect DEF calm, dbVars, TablesOK
<1>5. CASE InsertUser(l)
  <2>1. field' = field /\ left' = left
    BY <1>5 DEF InsertUser, history
  <2>2. names' \in [Ids -> Names \cup {"none"}]
    BY <1>3, <1>5 DEF InsertUser, TablesOK
  <2>3. column' \in [Ids -> [Fields -> Texts]]
    <3>1. [password |-> task[l].value, profile |-> "default", birthday |-> "default"] \in [Fields -> Texts]
      BY <1>3 DEF Texts, Fields
    <3> QED BY <1>5, <3>1 DEF InsertUser, TablesOK
  <2> QED BY <1>2, <2>1, <2>2, <2>3 DEF TablesOK
<1>6. CASE InsertGroup(l)
  <2>1. field' = field /\ left' = left /\ names' = names
    BY <1>6 DEF InsertGroup, memoryVars, history
  <2>2. [password |-> "name", profile |-> "empty", birthday |-> "default"] \in [Fields -> Texts]
    BY DEF Texts, Fields
  <2>3. column' \in [Ids -> [Fields -> Texts]]
    BY <1>6, <2>2 DEF InsertGroup, TablesOK
  <2> QED BY <1>2, <2>1, <2>3 DEF TablesOK
<1>7. CASE Push(l)
  <2>1. names' = names /\ column' = column /\ left' = left
    BY <1>7 DEF Push, dbVars, history
  <2>2. [password |-> task[l].value, profile |-> "fresh", birthday |-> "default"] \in [Fields -> Texts]
    BY <1>3 DEF Texts, Fields
  <2>3. [password |-> "empty", profile |-> "name", birthday |-> "unset"] \in [Fields -> Texts]
    BY DEF Texts, Fields
  <2>4. field' \in [Ids -> [Fields -> Texts]]
    BY <1>7, <2>2, <2>3 DEF Push, TablesOK
  <2> QED BY <1>2, <2>1, <2>4 DEF TablesOK
<1>8. CASE Update(l)
  <2>1. names' = names /\ field' = field /\ left' = left
    BY <1>8 DEF Update, memoryVars
  <2>2. Changed(column[task[l].me], task[l]) \in [Fields -> Texts]
    BY <1>3, ChangedFields DEF TablesOK
  <2>3. column' \in [Ids -> [Fields -> Texts]]
    BY <1>8, <2>2 DEF Update, TablesOK
  <2> QED BY <1>2, <2>1, <2>3 DEF TablesOK
<1>9. CASE Keep(l)
  <2>1. names' = names /\ column' = column /\ left' = left
    BY <1>9 DEF Keep, dbVars, history
  <2>2. Changed(field[task[l].me], task[l]) \in [Fields -> Texts]
    BY <1>3, ChangedFields DEF TablesOK
  <2>3. field' \in [Ids -> [Fields -> Texts]]
    BY <1>9, <2>2 DEF Keep, TablesOK
  <2> QED BY <1>2, <2>1, <2>3 DEF TablesOK
<1>10. CASE DeleteRows(l)
  <2>1. names' = names /\ column' = column /\ field' = field
    BY <1>10 DEF DeleteRows, memoryVars
  <2>2. left' \in [Pairs -> Nat]
    <3>1. PairIn(task[l]) \in Pairs /\ rows[PairIn(task[l])] \in Nat
      <4>1. task[l].me # task[l].other
        BY <1>10 DEF DeleteRows, IInv, TypeOK
      <4>2. PairIn(task[l]) \in Pairs
        BY <1>3, <4>1, PairOfSymmetric DEF PairIn
      <4> QED BY <4>2 DEF IInv, TypeOK
    <3> QED BY <1>10, <3>1 DEF DeleteRows, TablesOK
  <2> QED BY <1>2, <2>1, <2>2 DEF TablesOK
<1>11. CASE Insert(l) \/ Link(l) \/ Unlink(l) \/ Finish(l)
  BY <1>2, <1>11 DEF Insert, Link, Unlink, Finish, memoryVars, dbVars, history, TablesOK
<1> QED BY <1>4, <1>5, <1>6, <1>7, <1>8, <1>9, <1>10, <1>11 DEF Handler, Command

\* What a step means for the ids: the new row, and who is in m_users.
LEMMA IdsStep ==
  ASSUME IInv, TablesOK, IdsGiven, NewcomersOwned, NEW l \in Loops, Handler(l)
  PROVE  IdsGiven' /\ table \subseteq table'
<1>1. task \in [Loops -> Tasks] /\ TypeOK /\ restarts > 0
  BY Started DEF IInv, TypeOK
<1>2. CASE Command(l)
  BY <1>2, CommandEffect DEF Begun, calm, dbVars, Others, IdsGiven, Known
<1>3. CASE InsertUser(l)
  <2>1. order' = order /\ Others(l) /\ task'[l].pc # "group"
    <3>1. CASE Return(l)
      BY <1>1, <1>3, <3>1, ReturnEffect DEF InsertUser
    <3>2. CASE task' = [task EXCEPT ![l].pc = "push", ![l].other = baseUserId + 1]
      BY <1>1, <1>3, <3>2 DEF InsertUser, Others, Tasks
    <3> QED BY <1>3, <3>1, <3>2 DEF InsertUser
  <2>2. /\ baseUserId' = baseUserId + 1 /\ baseUserId \in Int
        /\ table' = table \/ table' = table \cup {baseUserId + 1}
    BY <1>1, <1>3, FriendsAssumption DEF InsertUser, TypeOK
  <2>3. \A i \in table \ Groups : i \in Int /\ i <= baseUserId
    BY <1>1, UserIds, IdsFinite DEF IdsGiven, TypeOK
  <2>4. \A i \in table' \ Groups : i <= baseUserId'
    BY <2>2, <2>3
  <2> QED BY <2>1, <2>2, <2>4 DEF IdsGiven, Known, Others
<1>4. CASE InsertGroup(l)
  <2>1. task[l].other \in Groups
    BY <1>4 DEF InsertGroup, IdsGiven
  <2>2. Others(l) /\ task'[l].pc \in {"push", "insert"}
    BY <1>1, <1>4, GotoEffect DEF InsertGroup
  <2> QED BY <1>4, <2>1, <2>2 DEF InsertGroup, memoryVars, Bounds, IdsGiven, Known, Others
<1>5. CASE Push(l)
  <2>1. Known' = Known \cup {task[l].other} /\ task[l].other \in table
    <3>1. task[l].other \in Ids
      BY <1>1 DEF Tasks
    <3> QED BY <1>1, <1>5, <3>1, AppendKnown DEF Push, Known, TypeOK, NewcomersOwned
  <2>2. Others(l) /\ task'[l].pc \in {"insert", "idle"}
    BY <1>1, <1>5, GotoEffect, ReturnEffect DEF Push
  <2> QED BY <1>5, <2>1, <2>2 DEF Push, dbVars, Bounds, IdsGiven, Others
<1>6. CASE Later(l)
  BY <1>6, LaterEffect DEF IdsGiven, Known, Others
<1> QED BY <1>2, <1>3, <1>4, <1>5, <1>6, HandlerCases

\* The row of i is the same, but for what two handlers change at once.
RowStays(i) == \A k \in Fields : <<i, k>> \notin mixed' =>
                 <<i, k>> \notin mixed /\ column'[i][k] = column[i][k]

\* A step that makes no newcomer, and brings none of the others to m_users, leaves
\* them with their handlers.
LEMMA NewcomersFrame ==
  ASSUME NewcomersOwned, NEW l \in Loops, Others(l), table \subseteq table',
         task'[l].pc = "push" => task'[l].other \in table' \cap Groups,
         \A k \in Loops \ {l} : Newcomer(k) =>
           LET i == task[k].other
           IN  i \notin Known' /\ names'[i] = names[i] /\ RowStays(i)
  PROVE  NewcomersOwned'
<1>1. \A k \in Loops \ {l} : task'[k] = task[k]
  BY DEF Others
<1>2. ASSUME NEW k \in Loops, task'[k].pc = "push" PROVE task'[k].other \in table'
  BY <1>1, <1>2 DEF NewcomersOwned
<1>3. ASSUME NEW k \in Loops, task'[k].pc = "push", task'[k].other \notin Groups
      PROVE  k # l /\ task'[k] = task[k] /\ Newcomer(k)
  BY <1>1, <1>3 DEF Newcomer
<1>4. ASSUME NEW i, NEW v, RowOf(i, v), RowStays(i) PROVE RowOf(i, v)'
  BY <1>4 DEF RowOf, RowStays, Fields
<1>5. ASSUME NEW k \in Loops, Newcomer(k)' PROVE RowOf(task[k].other, task[k].value)'
  <2>1. k # l /\ task'[k] = task[k] /\ Newcomer(k)
    BY <1>3, <1>5 DEF Newcomer
  <2>2. PICK i, v : i = task[k].other /\ v = task[k].value
    OBVIOUS
  <2>3. RowOf(i, v) /\ RowStays(i)
    BY <2>1, <2>2 DEF NewcomersOwned
  <2>4. RowOf(i, v)'
    BY <1>4, <2>3
  <2> QED BY <2>1, <2>2, <2>4
<1>6. ASSUME NEW k \in Loops, Newcomer(k)'
      PROVE  /\ task'[k].other \notin Known' /\ names'[task'[k].other] = task'[k].name
             /\ \A j \in Loops : Newcomer(j)' /\ task'[j].other = task'[k].other => j = k
  BY <1>3, <1>6 DEF NewcomersOwned, Newcomer
<1> QED BY <1>2, <1>5, <1>6 DEF NewcomersOwned

\* A change of the row of a user another handler is adding makes its fields mixed.
LEMMA UpdateOfNewcomer ==
  ASSUME TablesOK, NEW l \in Loops, Update(l), NEW k \in Loops \ {l}, Newcomer(k),
         task[k].other \in Ids, task[l].me \in Ids
  PROVE  RowStays(task[k].other)
<1> DEFINE t == task[l]
           i == task[k].other
<1>1. \/ column' = column /\ mixed' = mixed
      \/ /\ column' = [column EXCEPT ![t.me] = Changed(column[t.me], t)]
         /\ mixed \subseteq mixed'
         /\ task[k].other = t.me => mixed' = mixed \cup ({t.me} \X FieldsOf(t.key))
  BY DEF Update, Meanwhile, Newcomer
<1>2. CASE column' = column /\ mixed' = mixed
  BY <1>2 DEF RowStays
<1>3. CASE /\ column' = [column EXCEPT ![t.me] = Changed(column[t.me], t)]
           /\ mixed \subseteq mixed'
           /\ task[k].other = t.me => mixed' = mixed \cup ({t.me} \X FieldsOf(t.key))
  <2> SUFFICES ASSUME NEW f \in Fields, <<i, f>> \notin mixed'
               PROVE  column'[i][f] = column[i][f]
    BY <1>3 DEF RowStays
  <2>1. CASE i # t.me
    BY <1>3, <2>1 DEF TablesOK
  <2>2. CASE i = t.me
    <3>1. f \notin FieldsOf(t.key)
      BY <1>3, <2>2
    <3>2. column'[i] = Changed(column[i], t)
      BY <1>3, <2>2 DEF TablesOK
    <3>3. Changed(column[i], t)[f] = column[i][f]
      BY <3>1 DEF Changed
    <3> QED BY <3>2, <3>3
  <2> QED BY <2>1, <2>2
<1> QED BY <1>1, <1>2, <1>3

LEMMA NewcomersStep ==
  ASSUME IInv, TablesOK, IdsGiven, NewcomersOwned, NEW l \in Loops, Handler(l)
  PROVE  NewcomersOwned'
<1>1. task \in [Loops -> Tasks] /\ TypeOK /\ restarts > 0 /\ table \subseteq table'
  BY Started, IdsStep DEF IInv, TypeOK
<1>2. \A k \in Loops : task[k].other \in Ids /\ task[k].me \in Ids
  BY <1>1 DEF Tasks
<1>3. CASE Command(l)
  BY <1>1, <1>3, CommandEffect, NewcomersFrame DEF Begun, calm, dbVars, NewcomersOwned, Known, RowStays
<1>4. CASE InsertUser(l)
  <2> DEFINE id == baseUserId + 1
  <2>1. id \in Ids \ Groups /\ id \notin table
    <3>1. baseUserId \in Int /\ id \in 0..MaxUserId
      BY <1>1, <1>4, FriendsAssumption DEF InsertUser, TypeOK
    <3>2. id \notin table \/ id \in Groups
      BY <1>1, <3>1 DEF IdsGiven
    <3> QED BY <3>1, <3>2, UserIds
  <2>2. order' = order /\ Known' = Known /\ mixed' = mixed
    BY <1>4 DEF InsertUser, Known, history
  <2>3. ASSUME NEW k \in Loops \ {l}, Newcomer(k)
        PROVE  task[k].other # id /\ task[k].other \notin Known
    BY <2>1, <2>3 DEF NewcomersOwned, Newcomer
  <2>4. CASE Return(l) /\ UNCHANGED <<table, names, column>>
    <3>1. Others(l) /\ task'[l].pc = "idle"
      BY <1>1, <2>4, ReturnEffect
    <3>2. \A i : RowStays(i)
      BY <2>2, <2>4 DEF RowStays
    <3> QED BY <1>1, <2>2, <2>3, <2>4, <3>1, <3>2, NewcomersFrame
  <2>5. CASE /\ table' = table \cup {id}
             /\ names' = [names EXCEPT ![id] = task[l].name]
             /\ column' = [column EXCEPT ![id] = [password |-> task[l].value, profile |-> "default",
                                                  birthday |-> "default"]]
             /\ task' = [task EXCEPT ![l].pc = "push", ![l].other = id]
    <3>1. /\ Others(l) /\ task'[l].pc = "push" /\ task'[l].other = id
          /\ task'[l].name = task[l].name /\ task'[l].value = task[l].value
      BY <1>1, <2>5 DEF Others, Tasks
    <3>2. names'[id] = task[l].name
      BY <2>1, <2>5 DEF TablesOK
    <3>3. column'[id] = [password |-> task[l].value, profile |-> "default", birthday |-> "default"]
      BY <2>1, <2>5 DEF TablesOK
    <3>4. column'[id]["password"] = task[l].value /\ column'[id]["birthday"] = "default"
      BY <3>3
    <3>5. ASSUME NEW i \in Ids, i # id PROVE names'[i] = names[i] /\ column'[i] = column[i]
      BY <2>5, <3>5 DEF TablesOK
    <3>6. ASSUME NEW k \in Loops \ {l}, Newcomer(k)'
          PROVE  task'[k] = task[k] /\ Newcomer(k) /\ task[k].other # id
      BY <2>3, <3>1, <3>6 DEF Others, Newcomer
    <3>7. ASSUME NEW k \in Loops, task'[k].pc = "push" PROVE task'[k].other \in table'
      <4>1. CASE k = l
        BY <2>5, <3>1, <4>1
      <4>2. CASE k # l
        BY <1>1, <3>1, <3>7, <4>2 DEF Others, NewcomersOwned
      <4> QED BY <4>1, <4>2
    <3>8. ASSUME NEW k \in Loops, Newcomer(k)'
          PROVE  /\ task'[k].other \notin Known' /\ names'[task'[k].other] = task'[k].name
                 /\ \A j \in Loops : Newcomer(j)' /\ task'[j].other = task'[k].other => j = k
      <4>1. CASE k = l
        BY <2>1, <2>2, <3>1, <3>2, <3>6, <4>1 DEF IdsGiven
      <4>2. CASE k # l
        <5>1. task'[k] = task[k] /\ Newcomer(k) /\ task[k].other # id /\ task[k].other \in Ids
          BY <1>2, <3>6, <3>8, <4>2
        <5>2. \A j \in Loops : Newcomer(j)' /\ task'[j].other = task'[k].other
                              => j # l /\ Newcomer(j) /\ task'[j] = task[j]
          BY <3>1, <3>6, <5>1
        <5> QED BY <2>2, <3>5, <5>1, <5>2 DEF NewcomersOwned
      <4> QED BY <4>1, <4>2
    <3>9. ASSUME NEW k \in Loops, Newcomer(k)' PROVE RowOf(task[k].other, task[k].value)'
      <4>1. PICK i, v : i = task'[k].other /\ v = task'[k].value
        OBVIOUS
      <4>2. CASE k = l
        <5>1. RowOf(i, v)'
          BY <3>1, <3>4, <4>1, <4>2 DEF RowOf
        <5> QED BY <4>1, <5>1
      <4>3. CASE k # l
        <5>1. task'[k] = task[k] /\ Newcomer(k) /\ i \in Ids /\ i # id
          BY <1>2, <3>6, <3>9, <4>1, <4>3
        <5>2. RowOf(i, v) /\ column'[i] = column[i]
          BY <3>5, <4>1, <5>1 DEF NewcomersOwned
        <5>3. RowOf(i, v)'
          BY <2>2, <5>2 DEF RowOf
        <5> QED BY <4>1, <5>3
      <4> QED BY <4>2, <4>3
    <3> QED BY <3>7, <3>8, <3>9 DEF NewcomersOwned
  <2> QED BY <1>4, <2>4, <2>5 DEF InsertUser
<1>5. CASE InsertGroup(l)
  <2> DEFINE g == task[l].other
  <2>1. /\ Others(l) /\ task'[l].other = g /\ g \in Groups
        /\ task'[l].pc = "push" => g \in table'
    <3>1. Goto(l, "push") \/ Goto(l, "insert")
      BY <1>5 DEF InsertGroup
    <3>2. Others(l) /\ SameJob(l)
      BY <1>1, <3>1, GotoEffect
    <3>3. Goto(l, "insert") => task'[l].pc = "insert"
      BY <1>1, GotoEffect
    <3> QED BY <1>5, <3>2, <3>3 DEF InsertGroup, SameJob, IdsGiven
  <2>2. Known' = Known /\ names' = names /\ mixed' = mixed
    BY <1>5 DEF InsertGroup, memoryVars, Known, history
  <2>3. ASSUME NEW i \in Ids, i \notin Groups PROVE RowStays(i)
    <3>1. column'[i] = column[i]
      BY <1>5, <2>1, <2>3 DEF InsertGroup, TablesOK
    <3> QED BY <2>2, <3>1 DEF RowStays
  <2>4. ASSUME NEW k \in Loops \ {l}, Newcomer(k)
        PROVE  /\ task[k].other \notin Known' /\ names'[task[k].other] = names[task[k].other]
               /\ RowStays(task[k].other)
    BY <1>2, <2>2, <2>3, <2>4 DEF NewcomersOwned, Newcomer
  <2> QED BY <1>1, <2>1, <2>4, NewcomersFrame
<1>6. CASE Push(l)
  <2>1. Others(l) /\ task'[l].pc \in {"insert", "idle"}
    BY <1>1, <1>6, GotoEffect, ReturnEffect DEF Push
  <2>2. Known' = Known \cup {task[l].other} /\ names' = names /\ column' = column /\ mixed' = mixed
    BY <1>1, <1>2, <1>6, AppendKnown DEF Push, Known, TypeOK, dbVars, history
  <2>3. ASSUME NEW k \in Loops \ {l}, Newcomer(k) PROVE task[k].other \notin Known'
    BY <1>6, <2>2, <2>3 DEF NewcomersOwned, Newcomer, Push
  <2>4. \A i : RowStays(i)
    BY <2>2 DEF RowStays
  <2> QED BY <1>1, <2>1, <2>2, <2>3, <2>4, NewcomersFrame
<1>7. CASE Later(l)
  <2>1. Known' = Known /\ names' = names /\ Others(l) /\ task'[l].pc # "push"
    BY <1>7, LaterEffect DEF Known
  <2>2. ASSUME NEW k \in Loops \ {l}, Newcomer(k) PROVE RowStays(task[k].other)
    <3>1. CASE Update(l)
      BY <1>1, <1>2, <2>2, <3>1, UpdateOfNewcomer
    <3>2. CASE ~Update(l)
      <4>1. column' = column /\ mixed' = mixed
        BY <1>7, <3>2 DEF Later, Insert, DeleteRows, Link, Unlink, Finish, Keep, dbVars, history
      <4> QED BY <4>1 DEF RowStays
    <3> QED BY <3>1, <3>2
  <2>3. ASSUME NEW k \in Loops \ {l}, Newcomer(k)
        PROVE  /\ task[k].other \notin Known' /\ names'[task[k].other] = names[task[k].other]
               /\ RowStays(task[k].other)
    BY <2>1, <2>2, <2>3 DEF NewcomersOwned
  <2> QED BY <1>1, <2>1, <2>3, NewcomersFrame
<1> QED BY <1>3, <1>4, <1>5, <1>6, <1>7, HandlerCases

\* A step that neither looks for a name nor makes a newcomer.
LEMMA NamesFrame ==
  ASSUME NamesInv, NEW l \in Loops, Others(l), restarts > 0,
         Known \subseteq Known', table' \ Groups = table \ Groups, names' = names, twins \subseteq twins',
         Newcomer(l) => task[l].other \in Known',
         task'[l].pc # "register", task'[l].pc = "push" => task'[l].other \in Groups
  PROVE  NamesInv'
<1>1. ASSUME NEW k \in Loops,
             \/ task'[k].pc = "register"
             \/ (task'[k].pc = "push" /\ task'[k].other \notin Groups)
      PROVE  k # l /\ task'[k] = task[k] /\ Registers(k)
  BY <1>1 DEF Others, Registers, Newcomer
<1>2. NameSeen'
  <2> SUFFICES ASSUME NEW i \in table \ Groups
               PROVE  i \in Known' \/ \E k \in Loops : task'[k].pc = "push" /\ task'[k].other \notin Groups
                                                       /\ task'[k].other = i
    BY DEF NameSeen, Newcomer
  <2>1. CASE i \in Known
    BY <2>1
  <2>2. CASE i \notin Known
    <3>1. PICK k \in Loops : Newcomer(k) /\ task[k].other = i
      BY <2>2 DEF NamesInv, NameSeen
    <3>2. CASE k = l
      BY <3>1, <3>2
    <3>3. CASE k # l
      BY <3>1, <3>3 DEF Others, Newcomer
    <3> QED BY <3>2, <3>3
  <2> QED BY <2>1, <2>2
<1>3. NamesApart'
  <2>1. ASSUME NEW j \in Loops, NEW k \in Loops, j # k, task'[j].pc = "register",
               task'[k].pc = "register" \/ (task'[k].pc = "push" /\ task'[k].other \notin Groups),
               task'[k].name = task'[j].name
        PROVE  task'[j].name \in twins'
    <3>1. task'[j] = task[j] /\ task'[k] = task[k] /\ Registers(k)
      BY <1>1, <2>1
    <3> QED BY <2>1, <3>1 DEF NamesInv, NamesApart
  <2>2. ASSUME NEW j \in Loops, NEW i \in table' \ Groups, task'[j].pc = "register",
               names'[i] = task'[j].name
        PROVE  task'[j].name \in twins'
    <3>1. task'[j] = task[j]
      BY <1>1, <2>2
    <3> QED BY <2>2, <3>1 DEF NamesInv, NamesApart
  <2> QED BY <2>1, <2>2 DEF NamesApart, Registers, Newcomer
<1>4. NamesUniqueUnlessOverlap'
  BY DEF NamesInv, NamesUniqueUnlessOverlap
<1> QED BY <1>2, <1>3, <1>4 DEF NamesInv

\* A registration begins: who has the name in the table already is a newcomer of
\* another handler, which the search saw.
LEMMA RegisterNames ==
  ASSUME IInv, NamesInv, NewcomersOwned, NEW l \in Loops, Command(l), task'[l].pc = "register"
  PROVE  NamesInv'
<1> DEFINE n == task'[l].name
<1>1. /\ task[l] = Idle /\ restarts > 0 /\ \A k \in Loops \ {l} : task'[k] = task[k]
      /\ ~NameTaken(n) /\ \A k \in Loops \ {l} : task[k].name = n => n \in twins'
      /\ UNCHANGED <<order, table, names>> /\ twins \subseteq twins'
  BY CommandEffect DEF Begun, calm, dbVars, Others
<1>2. ~Registers(l)
  BY <1>1 DEF Registers, Newcomer, Idle
<1>3. ASSUME NEW i \in table \ Groups, names[i] = n PROVE n \in twins'
  <2>1. i \notin Known
    BY <1>1, <1>3 DEF NameTaken
  <2>2. PICK k \in Loops : Newcomer(k) /\ task[k].other = i
    BY <1>1, <2>1 DEF NamesInv, NameSeen
  <2>3. k # l
    BY <1>2, <2>2 DEF Registers
  <2>4. task[k].name = n
    BY <1>3, <2>2 DEF NewcomersOwned
  <2> QED BY <1>1, <2>3, <2>4
<1>4. NameSeen'
  <2> SUFFICES ASSUME NEW i \in table \ Groups
               PROVE  i \in Known' \/ \E k \in Loops : task'[k].pc = "push" /\ task'[k].other \notin Groups
                                                       /\ task'[k].other = i
    BY <1>1 DEF NameSeen, Newcomer
  <2>1. Known' = Known
    BY <1>1 DEF Known
  <2>2. CASE i \notin Known
    <3>1. PICK k \in Loops : Newcomer(k) /\ task[k].other = i
      BY <1>1, <2>2 DEF NamesInv, NameSeen
    <3>2. k # l
      BY <1>2, <3>1 DEF Registers
    <3> QED BY <1>1, <3>1, <3>2 DEF Newcomer
  <2> QED BY <2>1, <2>2
<1>5. NamesApart'
  <2>1. ASSUME NEW j \in Loops, NEW k \in Loops, j # k, task'[j].pc = "register",
               task'[k].pc = "register" \/ (task'[k].pc = "push" /\ task'[k].other \notin Groups),
               task'[k].name = task'[j].name
        PROVE  task'[j].name \in twins'
    <3>1. CASE j = l \/ k = l
      BY <1>1, <2>1, <3>1
    <3>2. CASE j # l /\ k # l
      <4>1. task'[j] = task[j] /\ task'[k] = task[k] /\ Registers(k)
        BY <1>1, <2>1, <3>2 DEF Registers, Newcomer
      <4> QED BY <1>1, <2>1, <4>1 DEF NamesInv, NamesApart
    <3> QED BY <3>1, <3>2
  <2>2. ASSUME NEW j \in Loops, NEW i \in table \ Groups, task'[j].pc = "register",
               names[i] = task'[j].name
        PROVE  task'[j].name \in twins'
    <3>1. CASE j # l
      <4>1. task'[j] = task[j]
        BY <1>1, <3>1
      <4> QED BY <1>1, <2>2, <4>1 DEF NamesInv, NamesApart
    <3>2. CASE j = l
      BY <1>3, <2>2, <3>2
    <3> QED BY <3>1, <3>2
  <2> QED BY <1>1, <2>1, <2>2 DEF NamesApart, Registers, Newcomer
<1>6. NamesUniqueUnlessOverlap'
  BY <1>1 DEF NamesInv, NamesUniqueUnlessOverlap
<1> QED BY <1>4, <1>5, <1>6 DEF NamesInv

\* The new row has a name nobody else has, or two handlers looked for it.
LEMMA InsertUserNames ==
  ASSUME IInv, TablesOK, IdsGiven, NamesInv, NEW l \in Loops, InsertUser(l), ~Return(l)
  PROVE  NamesInv'
<1> DEFINE id == baseUserId + 1
           n == task[l].name
<1>1. /\ task[l].pc = "register" /\ table' = table \cup {id}
      /\ names' = [names EXCEPT ![id] = n]
      /\ task' = [task EXCEPT ![l].pc = "push", ![l].other = id]
      /\ UNCHANGED <<order, restarts, twins>>
  BY DEF InsertUser, Bounds, history
<1>2. task \in [Loops -> Tasks] /\ TypeOK /\ restarts > 0 /\ table \subseteq Ids /\ Known' = Known
  BY <1>1, Started DEF IInv, TypeOK, Handler, Known
<1>3. id \in Ids \ Groups /\ id \notin table
  <2>1. baseUserId \in Int /\ id \in 0..MaxUserId
    BY <1>2, FriendsAssumption DEF InsertUser, TypeOK
  <2>2. id \notin table \/ id \in Groups
    BY <1>2, <2>1 DEF IdsGiven
  <2> QED BY <2>1, <2>2, UserIds
<1>4. /\ \A k \in Loops \ {l} : task'[k] = task[k]
      /\ task'[l].pc = "push" /\ task'[l].other = id /\ task'[l].name = n
  BY <1>1, <1>2 DEF Tasks
<1>5. names'[id] = n /\ \A i \in table : names'[i] = names[i]
  BY <1>1, <1>2, <1>3 DEF TablesOK
<1>6. ASSUME NEW i \in table \ Groups, names[i] = n PROVE n \in twins
  BY <1>1, <1>6 DEF NamesInv, NamesApart
<1>7. NameSeen'
  <2> SUFFICES ASSUME NEW i \in table' \ Groups
               PROVE  i \in Known \/ \E k \in Loops : task'[k].pc = "push" /\ task'[k].other \notin Groups
                                                      /\ task'[k].other = i
    BY <1>2 DEF NameSeen, Newcomer
  <2>1. CASE i = id
    BY <1>3, <1>4, <2>1
  <2>2. CASE i \in table /\ i \notin Known
    <3>1. PICK k \in Loops : Newcomer(k) /\ task[k].other = i
      BY <1>2, <2>2 DEF NamesInv, NameSeen
    <3>2. k # l
      BY <1>1, <3>1 DEF Newcomer
    <3> QED BY <1>4, <3>1, <3>2 DEF Newcomer
  <2> QED BY <1>1, <2>1, <2>2
<1>8. ASSUME NEW j \in Loops, task'[j].pc = "register" PROVE j # l /\ task'[j] = task[j]
  BY <1>4, <1>8
<1>9. NamesApart'
  <2>1. ASSUME NEW j \in Loops, NEW k \in Loops, j # k, task'[j].pc = "register",
               task'[k].pc = "register" \/ (task'[k].pc = "push" /\ task'[k].other \notin Groups),
               task'[k].name = task'[j].name
        PROVE  task'[j].name \in twins
    <3>1. Registers(k) /\ task[k].name = task'[j].name /\ task[j] = task'[j]
      BY <1>1, <1>4, <1>8, <2>1 DEF Registers, Newcomer
    <3> QED BY <2>1, <3>1 DEF NamesInv, NamesApart
  <2>2. ASSUME NEW j \in Loops, NEW i \in table' \ Groups, task'[j].pc = "register",
               names'[i] = task'[j].name
        PROVE  task'[j].name \in twins
    <3>1. CASE i \in table
      BY <1>5, <1>8, <2>2, <3>1 DEF NamesInv, NamesApart
    <3>2. CASE i = id
      <4>1. j # l /\ task[j].pc = "register" /\ task[j].name = n /\ Registers(l)
        BY <1>1, <1>5, <1>8, <2>2, <3>2 DEF Registers
      <4> QED BY <1>8, <2>2, <4>1 DEF NamesInv, NamesApart
    <3> QED BY <1>1, <3>1, <3>2
  <2> QED BY <1>1, <2>1, <2>2 DEF NamesApart, Registers, Newcomer
<1>10. NamesUniqueUnlessOverlap'
  <2> SUFFICES ASSUME NEW i \in table' \ Groups, NEW j \in table' \ Groups, i # j, names'[i] = names'[j]
               PROVE  names'[i] \in twins
    BY <1>1 DEF NamesUniqueUnlessOverlap
  <2>1. CASE i \in table /\ j \in table
    BY <1>5, <2>1 DEF NamesInv, NamesUniqueUnlessOverlap
  <2>2. CASE i = id \/ j = id
    BY <1>1, <1>5, <1>6, <2>2
  <2> QED BY <1>1, <2>1, <2>2
<1> QED BY <1>7, <1>9, <1>10 DEF NamesInv

LEMMA NamesStep ==
  ASSUME IInv, TablesOK, IdsGiven, NewcomersOwned, NamesInv, NEW l \in Loops, Handler(l)
  PROVE  NamesInv'
<1>1. task \in [Loops -> Tasks] /\ TypeOK /\ restarts > 0
  BY Started DEF IInv, TypeOK
<1>2. CASE Command(l)
  <2>1. CASE task'[l].pc = "register"
    BY <1>2, <2>1, RegisterNames
  <2>2. CASE task'[l].pc # "register"
    <3>1. Known' = Known /\ table' = table /\ names' = names /\ twins \subseteq twins'
      BY <1>2, CommandEffect DEF calm, dbVars, Known
    <3>2. task[l] = Idle /\ Others(l) /\ task'[l].pc # "push"
      BY <1>2, CommandEffect DEF Begun
    <3>3. ~Newcomer(l)
      BY <3>2 DEF Newcomer, Idle
    <3> QED BY <1>1, <2>2, <3>1, <3>2, <3>3, NamesFrame
  <2> QED BY <2>1, <2>2
<1>3. CASE InsertUser(l)
  <2>1. CASE ~Return(l)
    BY <1>3, <2>1, InsertUserNames
  <2>2. CASE Return(l)
    <3>1. Others(l) /\ task'[l] = Idle /\ task'[l].pc = "idle"
      BY <1>1, <2>2, ReturnEffect
    <3>2. UNCHANGED <<table, names>>
      BY <1>1, <1>3, <3>1 DEF InsertUser, Idle, Tasks
    <3>3. Known' = Known /\ twins' = twins /\ ~Newcomer(l)
      BY <1>3 DEF InsertUser, Known, history, Newcomer
    <3> QED BY <1>1, <3>1, <3>2, <3>3, NamesFrame
  <2> QED BY <2>1, <2>2
<1>4. CASE InsertGroup(l)
  <2>1. task[l].other \in Groups /\ ~Newcomer(l)
    BY <1>4 DEF InsertGroup, IdsGiven, Newcomer
  <2>2. Others(l) /\ SameJob(l) /\ task'[l].pc # "register"
    BY <1>1, <1>4, GotoEffect DEF InsertGroup
  <2>3. Known' = Known /\ table' \ Groups = table \ Groups /\ names' = names /\ twins' = twins
    BY <1>4, <2>1 DEF InsertGroup, memoryVars, Known, history
  <2> QED BY <1>1, <2>1, <2>2, <2>3, NamesFrame DEF SameJob
<1>5. CASE Push(l)
  <2>1. Others(l) /\ task'[l].pc \in {"insert", "idle"}
    BY <1>1, <1>5, GotoEffect, ReturnEffect DEF Push
  <2>2. Known' = Known \cup {task[l].other} /\ UNCHANGED <<table, names, twins>>
    <3>1. task[l].other \in Ids
      BY <1>1 DEF Tasks
    <3> QED BY <1>1, <1>5, <3>1, AppendKnown DEF Push, Known, TypeOK, dbVars, history
  <2> QED BY <1>1, <2>1, <2>2, NamesFrame
<1>6. CASE Later(l)
  <2>1. ~Newcomer(l) /\ Known' = Known
    BY <1>6, LaterEffect DEF Newcomer, Known
  <2> QED BY <1>1, <1>6, <2>1, LaterEffect, NamesFrame
<1> QED BY <1>2, <1>3, <1>4, <1>5, <1>6, HandlerCases

\* Who is on the way to the lists of a pair changes with the handler that steps.
LEMMA WaysFrame ==
  ASSUME NEW l \in Loops, Others(l), NEW p
  PROVE  /\ Linking(p)' \ {l} = Linking(p) \ {l}
         /\ Unlinking(p)' \ {l} = Unlinking(p) \ {l}
         /\ l \in Linking(p) <=> task[l].pc = "link" /\ PairIn(task[l]) = p
         /\ l \in Unlinking(p) <=> task[l].pc = "unlink" /\ PairIn(task[l]) = p
         /\ l \in Linking(p)' <=> task'[l].pc = "link" /\ PairIn(task'[l]) = p
         /\ l \in Unlinking(p)' <=> task'[l].pc = "unlink" /\ PairIn(task'[l]) = p
BY DEF Others, Linking, Unlinking, PairIn

LEMMA LinkingFinite == ASSUME NEW p PROVE IsFiniteSet(Linking(p)) /\ Cardinality(Linking(p)) \in Nat
<1>1. IsFiniteSet(Loops) /\ Linking(p) \subseteq Loops
  BY FriendsAssumption DEF Linking
<1> QED BY <1>1, FS_Subset, FS_CardinalityType

\* A step that is not about the relationships.
LEMMA RowsFrame ==
  ASSUME RowsInv, NEW l \in Loops, Others(l), restarts > 0,
         list' = list, rows' = rows, left' = left, unloaded' = unloaded, Odd \subseteq Odd',
         task[l].pc \notin {"link", "unlink"}, task'[l].pc \notin {"link", "unlink"}
  PROVE  RowsInv'
<1> SUFFICES ASSUME NEW a \in Ids, NEW b \in Ids, a \notin unloaded, b \notin unloaded, a # b,
                    PairOf(a, b) \notin Odd'
             PROVE  Settled(PairOf(a, b), list[a][b])' \/ Deleted(PairOf(a, b), list[a][b])'
  BY DEF RowsInv
<1> DEFINE p == PairOf(a, b)
<1>1. Settled(p, list[a][b]) \/ Deleted(p, list[a][b])
  BY DEF RowsInv
<1>2. Linking(p)' = Linking(p) /\ Unlinking(p)' = Unlinking(p)
  BY WaysFrame
<1> QED BY <1>1, <1>2 DEF Settled, Deleted

\* The handlers that do not touch the relationships.
LEMMA RowsOther ==
  ASSUME IInv, TablesOK, RowsInv, NEW l \in Loops,
         Command(l) \/ InsertUser(l) \/ InsertGroup(l) \/ Push(l) \/ Finish(l) \/ Update(l) \/ Keep(l)
  PROVE  RowsInv'
<1>1. task \in [Loops -> Tasks] /\ TypeOK /\ restarts > 0
  BY Started DEF IInv, TypeOK, Handler, Command
<1>2. UNCHANGED <<list, rows, left, unloaded>> /\ Odd \subseteq Odd'
  BY CommandEffect DEF calm, InsertUser, InsertGroup, Push, Finish, Update, Keep, memoryVars, dbVars,
                       history, Odd
<1>3. Others(l) /\ task[l].pc \notin {"link", "unlink"} /\ task'[l].pc \notin {"link", "unlink"}
  <2>1. CASE Command(l)
    BY <2>1, CommandEffect DEF Begun, Idle
  <2>2. CASE InsertUser(l)
    <3>1. CASE Return(l)
      BY <1>1, <2>2, <3>1, ReturnEffect DEF InsertUser
    <3>2. CASE task' = [task EXCEPT ![l].pc = "push", ![l].other = baseUserId + 1]
      BY <1>1, <2>2, <3>2 DEF InsertUser, Others, Tasks
    <3> QED BY <2>2, <3>1, <3>2 DEF InsertUser
  <2>3. CASE InsertGroup(l)
    BY <1>1, <2>3, GotoEffect DEF InsertGroup
  <2>4. CASE Push(l)
    BY <1>1, <2>4, GotoEffect, ReturnEffect DEF Push
  <2>5. CASE Finish(l) \/ Keep(l)
    BY <1>1, <2>5, ReturnEffect DEF Finish, Keep
  <2>6. CASE Update(l)
    BY <1>1, <2>6, GotoEffect, ReturnEffect DEF Update
  <2> QED BY <2>1, <2>2, <2>3, <2>4, <2>5, <2>6
<1> QED BY <1>1, <1>2, <1>3, RowsFrame

\* The row of a pair is inserted; the lists follow.
LEMMA InsertRows ==
  ASSUME IInv, TablesOK, RowsInv, NEW l \in Loops, Insert(l)
  PROVE  RowsInv'
<1> DEFINE q == PairIn(task[l])
<1>1. /\ TypeOK /\ restarts > 0 /\ restarts' = restarts /\ task[l].pc = "insert"
      /\ task \in [Loops -> Tasks] /\ rows \in [Pairs -> Nat]
  BY Started DEF IInv, TypeOK, Handler, Insert
<1>2. task[l].me # task[l].other => q \in Pairs
  BY <1>1, PairOfSymmetric DEF TypeOK, Tasks, PairIn
<1>3. list' = list /\ unloaded' = unloaded /\ left' = left /\ Odd \subseteq Odd'
  BY DEF Insert, memoryVars, Odd
<1>4. CASE Return(l) /\ UNCHANGED rows
  BY <1>1, <1>3, <1>4, ReturnEffect, RowsFrame
<1>5. CASE /\ task[l].me # task[l].other
           /\ rows' = [rows EXCEPT ![q] = @ + 1] /\ Goto(l, "link")
           /\ crossed' = IF Crosses(l, "unlink") THEN crossed \cup {q} ELSE crossed
  <2>1. Others(l) /\ SameJob(l) /\ task'[l].pc = "link"
    BY <1>1, <1>5, GotoEffect
  <2>2. PairIn(task'[l]) = q
    BY <2>1 DEF SameJob, PairIn
  <2> SUFFICES ASSUME NEW a \in Ids, NEW b \in Ids, a \notin unloaded, b \notin unloaded, a # b,
                      PairOf(a, b) \notin Odd'
               PROVE  Settled(PairOf(a, b), list[a][b])' \/ Deleted(PairOf(a, b), list[a][b])'
    BY <1>3 DEF RowsInv
  <2> DEFINE p == PairOf(a, b)
  <2>3. Settled(p, list[a][b]) \/ Deleted(p, list[a][b])
    BY <1>1, <1>3 DEF RowsInv
  <2>4. list[a][b] \in Nat /\ p \in Pairs /\ q \in Pairs /\ rows[p] \in Nat /\ left[p] \in Nat
    <3>1. p \in Pairs /\ q \in Pairs
      BY <1>2, <1>5, PairOfSymmetric
    <3> QED BY <1>1, <3>1 DEF TypeOK, TablesOK, Lists
  <2>5. CASE p # q
    <3>1. Linking(p)' = Linking(p) /\ Unlinking(p)' = Unlinking(p)
      <4>1. l \notin Linking(p) /\ l \notin Unlinking(p) /\ l \notin Linking(p)' /\ l \notin Unlinking(p)'
        BY <1>1, <2>1, <2>2, <2>5, WaysFrame
      <4> QED BY <2>1, <4>1, WaysFrame
    <3>2. rows'[p] = rows[p]
      BY <1>1, <1>5, <2>4, <2>5
    <3> QED BY <1>3, <2>3, <3>1, <3>2 DEF Settled, Deleted
  <2>6. CASE p = q
    <3>1. ~Crosses(l, "unlink")
      BY <1>5, <2>6 DEF Odd
    <3>2. Unlinking(p) = {}
      BY <1>1, <2>6, <3>1 DEF Crosses, Meanwhile, Unlinking
    <3>3. l \notin Linking(p) /\ Linking(p)' = Linking(p) \cup {l} /\ Unlinking(p)' = {}
      BY <1>1, <2>1, <2>2, <2>6, <3>2, WaysFrame
    <3>4. Cardinality(Linking(p)') = Cardinality(Linking(p)) + 1
      BY <3>3, LinkingFinite, FS_AddElement
    <3>5. rows'[p] = rows[p] + 1 /\ list[a][b] + Cardinality(Linking(p)) = rows[p] + left[p]
      BY <1>1, <1>5, <2>3, <2>4, <2>6, <3>2 DEF Settled, Deleted
    <3>6. list'[a][b] + Cardinality(Linking(p)') = rows'[p] + left'[p]
      BY <1>3, <2>4, <3>4, <3>5, LinkingFinite
    <3> QED BY <3>3, <3>6 DEF Settled
  <2> QED BY <2>5, <2>6
<1> QED BY <1>4, <1>5 DEF Insert

\* The rows of a pair are deleted; the lists follow.
LEMMA DeleteRowsRows ==
  ASSUME IInv, TablesOK, RowsInv, NEW l \in Loops, DeleteRows(l)
  PROVE  RowsInv'
<1> DEFINE q == PairIn(task[l])
<1>1. /\ TypeOK /\ restarts > 0 /\ restarts' = restarts /\ task[l].pc = "delete"
      /\ task \in [Loops -> Tasks] /\ rows \in [Pairs -> Nat]
  BY Started DEF IInv, TypeOK, Handler, DeleteRows
<1>2. q \in Pairs
  BY <1>1, PairOfSymmetric DEF TypeOK, Tasks, PairIn
<1>3. list' = list /\ unloaded' = unloaded /\ Odd \subseteq Odd'
  BY DEF DeleteRows, memoryVars, Odd
<1>4. CASE Return(l) /\ UNCHANGED <<rows, left>>
  BY <1>1, <1>3, <1>4, ReturnEffect, RowsFrame
<1>5. CASE /\ rows[q] > 0 /\ rows' = [rows EXCEPT ![q] = 0] /\ Goto(l, "unlink")
           /\ crossed' = IF Crosses(l, "link") THEN crossed \cup {q} ELSE crossed
           /\ left' = [left EXCEPT ![q] = @ + rows[q] - 1]
  <2>1. Others(l) /\ SameJob(l) /\ task'[l].pc = "unlink"
    BY <1>1, <1>5, GotoEffect
  <2>2. PairIn(task'[l]) = q
    BY <2>1 DEF SameJob, PairIn
  <2> SUFFICES ASSUME NEW a \in Ids, NEW b \in Ids, a \notin unloaded, b \notin unloaded, a # b,
                      PairOf(a, b) \notin Odd'
               PROVE  Settled(PairOf(a, b), list[a][b])' \/ Deleted(PairOf(a, b), list[a][b])'
    BY <1>3 DEF RowsInv
  <2> DEFINE p == PairOf(a, b)
  <2>3. Settled(p, list[a][b]) \/ Deleted(p, list[a][b])
    BY <1>1, <1>3 DEF RowsInv
  <2>4. list[a][b] \in Nat /\ p \in Pairs /\ rows[p] \in Nat /\ left[p] \in Nat
        /\ left \in [Pairs -> Nat]
    <3>1. p \in Pairs
      BY PairOfSymmetric
    <3> QED BY <1>1, <3>1 DEF TypeOK, TablesOK, Lists
  <2>5. CASE p # q
    <3>1. Linking(p)' = Linking(p) /\ Unlinking(p)' = Unlinking(p)
      <4>1. l \notin Linking(p) /\ l \notin Unlinking(p) /\ l \notin Linking(p)' /\ l \notin Unlinking(p)'
        BY <1>1, <2>1, <2>2, <2>5, WaysFrame
      <4> QED BY <2>1, <4>1, WaysFrame
    <3>2. rows'[p] = rows[p] /\ left'[p] = left[p]
      BY <1>1, <1>5, <2>4, <2>5
    <3> QED BY <1>3, <2>3, <3>1, <3>2 DEF Settled, Deleted
  <2>6. CASE p = q
    <3>1. ~Crosses(l, "link") /\ rows[p] > 0 /\ rows'[p] = 0 /\ left'[p] = left[p] + rows[p] - 1
      BY <1>1, <1>5, <2>4, <2>6 DEF Odd
    <3>2. Linking(p) = {}
      BY <1>1, <2>6, <3>1 DEF Crosses, Meanwhile, Linking
    <3>3. Cardinality(Linking(p)) = 0
      BY <3>2, FS_EmptySet
    <3>4. Unlinking(p) = {} /\ list[a][b] = left'[p] + 1
      BY <2>3, <2>4, <3>1, <3>3 DEF Settled, Deleted
    <3>5. Linking(p)' = {} /\ Unlinking(p)' = {l}
      BY <1>1, <2>1, <2>2, <2>6, <3>2, <3>4, WaysFrame
    <3> QED BY <1>3, <3>1, <3>4, <3>5 DEF Deleted
  <2> QED BY <2>5, <2>6
<1> QED BY <1>4, <1>5 DEF DeleteRows

\* buildFriendRelationship: what the row was for is in the lists.
LEMMA LinkRows ==
  ASSUME IInv, TablesOK, RowsInv, NEW l \in Loops, Link(l)
  PROVE  RowsInv'
<1> DEFINE q == PairIn(task[l])
           found == {q[1], q[2]} \cap Known
<1>1. /\ TypeOK /\ restarts > 0 /\ restarts' = restarts /\ task[l].pc = "link"
      /\ task \in [Loops -> Tasks]
  BY Started DEF IInv, TypeOK, Handler, Link
<1>2. rows' = rows /\ left' = left /\ unloaded' = unloaded /\ Odd \subseteq Odd'
  BY DEF Link, dbVars, Odd
<1>3. Others(l) /\ task'[l].pc = "linked"
  BY <1>1 DEF Link, Others, Tasks
<1>4. list' = [x \in Ids |-> [y \in Ids |->
        IF x \in found /\ x # y /\ PairOf(x, y) = q THEN list[x][y] + 1 ELSE list[x][y]]]
  BY DEF Link
<1>5. found # {q[1], q[2]} => q \in half'
  BY DEF Link
<1> SUFFICES ASSUME NEW a \in Ids, NEW b \in Ids, a \notin unloaded, b \notin unloaded, a # b,
                    PairOf(a, b) \notin Odd'
             PROVE  Settled(PairOf(a, b), list[a][b])' \/ Deleted(PairOf(a, b), list[a][b])'
  BY <1>2 DEF RowsInv
<1> DEFINE p == PairOf(a, b)
<1>6. Settled(p, list[a][b]) \/ Deleted(p, list[a][b])
  BY <1>1, <1>2 DEF RowsInv
<1>7. /\ list[a][b] \in Nat /\ p \in Pairs /\ {p[1], p[2]} = {a, b}
      /\ rows[p] \in Nat /\ left[p] \in Nat
  <2>1. p \in Pairs /\ {p[1], p[2]} = {a, b}
    BY PairOfSymmetric
  <2>2. rows[p] \in Nat /\ left[p] \in Nat
    BY <1>1, <2>1 DEF TypeOK, TablesOK
  <2> QED BY <1>1, <2>1, <2>2 DEF TypeOK, Lists
<1>8. list'[a][b] = IF a \in found /\ p = q THEN list[a][b] + 1 ELSE list[a][b]
  BY <1>4
<1>9. CASE p # q
  <2>1. Linking(p)' = Linking(p) /\ Unlinking(p)' = Unlinking(p)
    <3>1. l \notin Linking(p) /\ l \notin Unlinking(p) /\ l \notin Linking(p)' /\ l \notin Unlinking(p)'
      BY <1>1, <1>3, <1>9, WaysFrame
    <3> QED BY <1>3, <3>1, WaysFrame
  <2> QED BY <1>2, <1>6, <1>8, <1>9, <2>1 DEF Settled, Deleted
<1>10. CASE p = q
  <2>1. l \in Linking(p)
    BY <1>1, <1>3, <1>10, WaysFrame
  <2>2. Unlinking(p) = {} /\ list[a][b] + Cardinality(Linking(p)) = rows[p] + left[p]
    BY <1>6, <2>1 DEF Settled, Deleted
  <2>3. Linking(p)' = Linking(p) \ {l} /\ Unlinking(p)' = {}
    BY <1>1, <1>3, <2>2, WaysFrame
  <2>4. Cardinality(Linking(p)') = Cardinality(Linking(p)) - 1
    BY <2>1, <2>3, LinkingFinite, FS_RemoveElement
  <2>5. a \in found
    BY <1>5, <1>7, <1>10 DEF Odd
  <2>6. list'[a][b] = list[a][b] + 1
    BY <1>8, <1>10, <2>5
  <2>7. list'[a][b] + Cardinality(Linking(p)') = rows'[p] + left'[p]
    BY <1>2, <1>7, <2>2, <2>4, <2>6, LinkingFinite
  <2> QED BY <2>3, <2>7 DEF Settled
<1> QED BY <1>9, <1>10

\* releaseFriendRelationship: the entry of the deleted row goes.
LEMMA UnlinkRows ==
  ASSUME IInv, TablesOK, RowsInv, NEW l \in Loops, Unlink(l)
  PROVE  RowsInv'
<1> DEFINE q == PairIn(task[l])
           found == {x \in {q[1], q[2]} \cap Known : \E y \in {q[1], q[2]} : list[x][y] > 0}
<1>1. /\ TypeOK /\ restarts > 0 /\ restarts' = restarts /\ task[l].pc = "unlink"
      /\ task \in [Loops -> Tasks]
  BY Started DEF IInv, TypeOK, Handler, Unlink
<1>2. rows' = rows /\ left' = left /\ unloaded' = unloaded /\ Odd \subseteq Odd'
  BY DEF Unlink, dbVars, history, Odd
<1>3. Others(l) /\ task'[l].pc = "unlinked"
  BY <1>1 DEF Unlink, Others, Tasks
<1>4. list' = [x \in Ids |-> [y \in Ids |->
        IF x \in found /\ x # y /\ PairOf(x, y) = q THEN list[x][y] - 1 ELSE list[x][y]]]
  BY DEF Unlink
<1> SUFFICES ASSUME NEW a \in Ids, NEW b \in Ids, a \notin unloaded, b \notin unloaded, a # b,
                    PairOf(a, b) \notin Odd'
             PROVE  Settled(PairOf(a, b), list[a][b])' \/ Deleted(PairOf(a, b), list[a][b])'
  BY <1>2 DEF RowsInv
<1> DEFINE p == PairOf(a, b)
<1>5. Settled(p, list[a][b]) \/ Deleted(p, list[a][b])
  BY <1>1, <1>2 DEF RowsInv
<1>6. p \in Pairs /\ {p[1], p[2]} = {a, b} /\ left[p] \in Nat
  BY PairOfSymmetric DEF TablesOK
<1>7. list'[a][b] = IF a \in found /\ p = q THEN list[a][b] - 1 ELSE list[a][b]
  BY <1>4
<1>8. CASE p # q
  <2>1. Linking(p)' = Linking(p) /\ Unlinking(p)' = Unlinking(p)
    <3>1. l \notin Linking(p) /\ l \notin Unlinking(p) /\ l \notin Linking(p)' /\ l \notin Unlinking(p)'
      BY <1>1, <1>3, <1>8, WaysFrame
    <3> QED BY <1>3, <3>1, WaysFrame
  <2> QED BY <1>2, <1>5, <1>7, <1>8, <2>1 DEF Settled, Deleted
<1>9. CASE p = q
  <2>1. l \in Unlinking(p)
    BY <1>1, <1>3, <1>9, WaysFrame
  <2>2. list[a][b] = left[p] + 1 /\ rows[p] = 0 /\ Linking(p) = {} /\ Unlinking(p) = {l}
    BY <1>5, <2>1 DEF Settled, Deleted
  <2>3. Linking(p)' = {} /\ Unlinking(p)' = {}
    BY <1>1, <1>3, <2>2, WaysFrame
  <2>4. a \in Known /\ a \in found
    BY <1>6, <1>9, <2>2 DEF IInv, ListsOfKnown
  <2>5. list'[a][b] = left[p]
    BY <1>6, <1>7, <1>9, <2>2, <2>4
  <2>6. Cardinality(Linking(p)') = 0
    BY <2>3, FS_EmptySet
  <2> QED BY <1>2, <1>6, <2>2, <2>3, <2>5, <2>6 DEF Settled
<1> QED BY <1>8, <1>9

LEMMA RowsStep ==
  ASSUME IInv, TablesOK, RowsInv, NEW l \in Loops, Handler(l)
  PROVE  RowsInv'
BY HandlerCases, RowsOther, InsertRows, DeleteRowsRows, LinkRows, UnlinkRows DEF Later

\* A field that a step leaves alone, with the handlers on their way to it.
LEMMA FieldStays ==
  ASSUME NEW a, NEW k, FieldOK(a, k),
         mixed \subseteq mixed', a \in Known' => a \in Known,
         field'[a][k] = field[a][k], column'[a][k] = column[a][k],
         \A l \in Loops : Keeps(l, a, k)' <=> Keeps(l, a, k),
         \A l \in Loops : Keeps(l, a, k) => task'[l].value = task[l].value
  PROVE  FieldOK(a, k)'
<1> SUFFICES ASSUME <<a, k>> \notin mixed' PROVE Sole(a, k)' /\ (a \in Known' => Agrees(a, k)' \/ Coming(a, k)')
  BY DEF FieldOK
<1>1. Sole(a, k) /\ (a \in Known => Agrees(a, k) \/ Coming(a, k))
  BY DEF FieldOK
<1>2. Sole(a, k)'
  <2> SUFFICES ASSUME NEW l \in Loops, Keeps(l, a, k)'
               PROVE  column'[a][k] = task'[l].value /\ \A j \in Loops : Keeps(j, a, k)' => j = l
    BY DEF Sole
  <2>1. Keeps(l, a, k)
    OBVIOUS
  <2>2. column[a][k] = task[l].value /\ \A j \in Loops : Keeps(j, a, k) => j = l
    BY <1>1, <2>1 DEF Sole
  <2> QED BY <2>1, <2>2
<1>3. Agrees(a, k) => Agrees(a, k)'
  BY DEF Agrees
<1>4. Coming(a, k) => Coming(a, k)'
  BY DEF Coming
<1> QED BY <1>1, <1>2, <1>3, <1>4

\* A step that brings nobody to m_users and changes no field or column of a row that was there.
LEMMA FieldsFrame ==
  ASSUME FieldsInv, NEW l \in Loops, Others(l), Known' = Known, mixed' = mixed, field' = field,
         Known \subseteq table, table \subseteq table', \A a \in table : column'[a] = column[a],
         task[l].pc # "keep", task'[l].pc # "keep"
  PROVE  FieldsInv'
<1>1. ASSUME NEW j \in Loops, NEW a, NEW k
      PROVE  (Keeps(j, a, k)' <=> Keeps(j, a, k)) /\ (Keeps(j, a, k) => task'[j] = task[j])
  BY DEF Others, Keeps
<1>2. KeepersInTable'
  BY DEF FieldsInv, KeepersInTable, Others
<1>3. ASSUME NEW a \in Ids, NEW k \in Fields PROVE FieldOK(a, k)'
  <2>1. FieldOK(a, k)
    BY DEF FieldsInv
  <2>2. CASE a \in table
    BY <1>1, <2>1, <2>2, FieldStays
  <2>3. CASE a \notin table
    <3>1. \A j \in Loops : ~Keeps(j, a, k)
      BY <2>3 DEF FieldsInv, KeepersInTable, Keeps
    <3>2. Sole(a, k)'
      BY <1>1, <3>1 DEF Sole
    <3> QED BY <2>3, <3>2 DEF FieldOK
  <2> QED BY <2>2, <2>3
<1> QED BY <1>2, <1>3 DEF FieldsInv

\* A user or group comes to m_users: what it has there is the row, or unwritten.
LEMMA PushFields ==
  ASSUME IInv, TablesOK, NewcomersOwned, FieldsInv, NEW l \in Loops, Push(l)
  PROVE  FieldsInv'
<1>0. PICK id, v : id = task[l].other /\ v = task[l].value
  OBVIOUS
<1>1. /\ TypeOK /\ task[l].pc = "push" /\ id \in Ids /\ column' = column /\ mixed' = mixed
      /\ table' = table /\ task \in [Loops -> Tasks]
  BY <1>0 DEF IInv, TypeOK, Tasks, Push, dbVars, history
<1>2. Known' = Known \cup {id}
  BY <1>0, <1>1, AppendKnown DEF Push, Known, TypeOK
<1>3. Others(l) /\ task'[l].pc \in {"insert", "idle"}
  BY <1>1, GotoEffect, ReturnEffect DEF Push
<1>4. \E f : field' = [field EXCEPT ![id] = f]
  BY <1>0 DEF Push
<1>5. ASSUME NEW j \in Loops, NEW a, NEW k
      PROVE  (Keeps(j, a, k)' <=> Keeps(j, a, k)) /\ (Keeps(j, a, k) => task'[j] = task[j])
  BY <1>1, <1>3 DEF Others, Keeps
<1>6. KeepersInTable'
  BY <1>1, <1>3 DEF FieldsInv, KeepersInTable, Others
<1>7. ASSUME NEW k \in Fields, <<id, k>> \notin mixed PROVE Agrees(id, k)'
  <2>1. CASE id \in Groups
    <3>1. field'[id] = [password |-> "empty", profile |-> "name", birthday |-> "unset"]
      BY <1>0, <1>1, <2>1 DEF Push, TablesOK
    <3>2. field'[id][k] \in Unwritten[k]
      BY <3>1 DEF Fields, Unwritten
    <3> QED BY <3>2 DEF Agrees
  <2>2. CASE id \notin Groups
    <3>1. field'[id] = [password |-> v, profile |-> "fresh", birthday |-> "default"]
      BY <1>0, <1>1, <2>2 DEF Push, TablesOK
    <3>2. RowOf(id, v)
      BY <1>0, <1>1, <2>2 DEF NewcomersOwned, Newcomer
    <3>3. CASE k = "profile"
      BY <3>1, <3>3 DEF Agrees, Unwritten
    <3>4. CASE k = "password"
      BY <1>1, <1>7, <3>1, <3>2, <3>4 DEF Agrees, RowOf
    <3>5. CASE k = "birthday"
      BY <1>1, <1>7, <3>1, <3>2, <3>5 DEF Agrees, RowOf
    <3> QED BY <3>3, <3>4, <3>5 DEF Fields
  <2> QED BY <2>1, <2>2
<1>8. ASSUME NEW a \in Ids, NEW k \in Fields PROVE FieldOK(a, k)'
  <2>1. FieldOK(a, k)
    BY DEF FieldsInv
  <2>2. CASE a = id
    <3>1. Sole(a, k) => Sole(a, k)'
      BY <1>1, <1>5 DEF Sole
    <3> QED BY <1>1, <1>7, <2>1, <2>2, <3>1 DEF FieldOK
  <2>3. CASE a # id
    <3>1. field'[a] = field[a]
      BY <1>4, <2>3 DEF TablesOK
    <3> QED BY <1>1, <1>2, <1>5, <2>1, <2>3, <3>1, FieldStays
  <2> QED BY <2>2, <2>3
<1> QED BY <1>6, <1>8 DEF FieldsInv

\* changePassword, updateUser: the columns are changed, the handler has the values for
\* the memory; a second one on the same way makes the fields mixed.
LEMMA UpdateFields ==
  ASSUME IInv, TablesOK, IdsGiven, FieldsInv, NEW l \in Loops, Update(l)
  PROVE  FieldsInv'
<1> DEFINE t == task[l]
<1>1. /\ TypeOK /\ t.pc = "update" /\ UNCHANGED <<order, field, table>>
      /\ t.me \in Ids /\ t.value \in Texts /\ task \in [Loops -> Tasks]
  BY DEF IInv, TypeOK, Tasks, Texts, Update, memoryVars
<1>2. Known' = Known /\ mixed \subseteq mixed' /\ Known \subseteq table
  BY <1>1 DEF Known, Update, IdsGiven
<1>3. CASE Return(l) /\ UNCHANGED <<column, mixed>>
  <2>1. Others(l) /\ task'[l].pc = "idle"
    BY <1>1, <1>3, ReturnEffect
  <2> QED BY <1>1, <1>2, <1>3, <2>1, FieldsFrame
<1>4. CASE ~(Return(l) /\ UNCHANGED <<column, mixed>>)
  <2>1. /\ t.me \in table /\ column' = [column EXCEPT ![t.me] = Changed(column[t.me], t)]
        /\ Goto(l, "keep")
    BY <1>4 DEF Update
  <2>2. ASSUME NEW j \in Loops \ {l}, task[j].pc = "keep", task[j].me = t.me,
               FieldsOf(task[j].key) = FieldsOf(t.key)
        PROVE  mixed' = mixed \cup ({t.me} \X FieldsOf(t.key))
    BY <1>4, <2>2 DEF Update, Meanwhile
  <2>3. Others(l) /\ SameJob(l) /\ task'[l].pc = "keep"
    BY <1>1, <2>1, GotoEffect
  <2>4. ASSUME NEW a, NEW k
        PROVE  /\ \A j \in Loops \ {l} : Keeps(j, a, k)' <=> Keeps(j, a, k)
               /\ Keeps(l, a, k)' <=> a = t.me /\ k \in FieldsOf(t.key)
               /\ ~Keeps(l, a, k)
    BY <1>1, <2>3 DEF Others, SameJob, Keeps
  <2>5. KeepersInTable'
    BY <1>1, <2>1, <2>3 DEF FieldsInv, KeepersInTable, Others, SameJob
  <2>6. column'[t.me] = Changed(column[t.me], t) /\ column[t.me] \in [Fields -> Texts]
    BY <1>1, <2>1 DEF TablesOK
  <2>7. ASSUME NEW a \in Ids, NEW k \in Fields PROVE FieldOK(a, k)'
    <3>1. FieldOK(a, k)
      BY DEF FieldsInv
    <3>2. CASE a = t.me /\ k \in FieldsOf(t.key)
      <4> SUFFICES ASSUME <<a, k>> \notin mixed' PROVE Sole(a, k)' /\ Coming(a, k)'
        BY DEF FieldOK
      <4>1. ASSUME NEW j \in Loops \ {l} PROVE ~Keeps(j, a, k)'
        <5> SUFFICES ASSUME Keeps(j, a, k) PROVE FALSE
          BY <2>4
        <5>1. FieldsOf(task[j].key) = FieldsOf(t.key)
          BY <3>2 DEF Keeps, FieldsOf
        <5>2. mixed' = mixed \cup ({t.me} \X FieldsOf(t.key))
          BY <2>2, <3>2, <5>1 DEF Keeps
        <5> QED BY <3>2, <5>2
      <4>2. column'[a][k] = t.value /\ task'[l].value = t.value
        <5>1. Changed(column[t.me], t)[k] = t.value
          BY <3>2 DEF Changed
        <5> QED BY <2>3, <2>6, <3>2, <5>1 DEF SameJob
      <4>3. Keeps(l, a, k)'
        BY <2>4, <3>2
      <4>4. ASSUME NEW j \in Loops, Keeps(j, a, k)' PROVE j = l
        BY <4>1, <4>4
      <4>5. Sole(a, k)'
        BY <4>2, <4>4 DEF Sole
      <4> QED BY <4>3, <4>5 DEF Coming
    <3>3. CASE ~(a = t.me /\ k \in FieldsOf(t.key))
      <4>1. column'[a][k] = column[a][k]
        <5>1. CASE a # t.me
          BY <2>1, <5>1 DEF TablesOK
        <5>2. CASE a = t.me
          BY <1>1, <2>6, <3>3, <5>2, ChangedFields
        <5> QED BY <5>1, <5>2
      <4>2. ASSUME NEW j \in Loops
            PROVE  (Keeps(j, a, k)' <=> Keeps(j, a, k)) /\ (Keeps(j, a, k) => task'[j] = task[j])
        BY <2>3, <2>4, <3>3 DEF Others
      <4> QED BY <1>1, <1>2, <3>1, <4>1, <4>2, FieldStays
    <3> QED BY <3>2, <3>3
  <2> QED BY <2>5, <2>7 DEF FieldsInv
<1> QED BY <1>3, <1>4

\* changePassword, updateUser: the memory gets the values of the columns.
LEMMA KeepFields ==
  ASSUME IInv, TablesOK, FieldsInv, NEW l \in Loops, Keep(l)
  PROVE  FieldsInv'
<1> DEFINE t == task[l]
<1>1. /\ TypeOK /\ t.pc = "keep" /\ t.me \in Ids /\ t.value \in Texts
      /\ UNCHANGED <<order, column, mixed, table>> /\ task \in [Loops -> Tasks]
      /\ field' = IF t.me \in Known THEN [field EXCEPT ![t.me] = Changed(field[t.me], t)] ELSE field
  BY DEF IInv, TypeOK, Tasks, Texts, Keep, dbVars, history
<1>2. Known' = Known
  BY <1>1 DEF Known
<1>3. Others(l) /\ task'[l].pc = "idle"
  BY <1>1, ReturnEffect DEF Keep
<1>4. KeepersInTable'
  BY <1>1, <1>3 DEF FieldsInv, KeepersInTable, Others
<1>5. ASSUME NEW a, NEW k
      PROVE  /\ \A j \in Loops \ {l} : Keeps(j, a, k)' <=> Keeps(j, a, k)
             /\ \A j \in Loops \ {l} : task'[j] = task[j]
             /\ ~Keeps(l, a, k)'
  BY <1>3 DEF Others, Keeps
<1>6. field[t.me] \in [Fields -> Texts]
  BY <1>1 DEF TablesOK
<1>7. ASSUME NEW a \in Ids, NEW k \in Fields PROVE FieldOK(a, k)'
  <2>1. FieldOK(a, k)
    BY DEF FieldsInv
  <2>2. CASE Keeps(l, a, k)
    <3> SUFFICES ASSUME <<a, k>> \notin mixed PROVE Sole(a, k)' /\ (a \in Known => Agrees(a, k)')
      BY <1>1, <1>2 DEF FieldOK
    <3>1. a = t.me /\ k \in FieldsOf(t.key)
      BY <2>2 DEF Keeps
    <3>2. column[a][k] = t.value /\ \A j \in Loops : Keeps(j, a, k) => j = l
      BY <2>1, <2>2 DEF FieldOK, Sole
    <3>3. \A j \in Loops : ~Keeps(j, a, k)'
      BY <1>5, <3>2
    <3>4. a \in Known => field'[a][k] = t.value
      <4> SUFFICES ASSUME a \in Known PROVE field'[a][k] = t.value
        OBVIOUS
      <4>1. field'[a] = Changed(field[a], t)
        BY <1>1, <3>1 DEF TablesOK
      <4>2. Changed(field[t.me], t)[k] = t.value
        BY <3>1 DEF Changed
      <4> QED BY <3>1, <4>1, <4>2
    <3>5. Sole(a, k)'
      BY <3>3 DEF Sole
    <3>6. a \in Known => Agrees(a, k)'
      BY <1>1, <3>2, <3>4 DEF Agrees
    <3> QED BY <3>5, <3>6
  <2>3. CASE ~Keeps(l, a, k)
    <3>1. field'[a][k] = field[a][k]
      <4>1. CASE a # t.me \/ t.me \notin Known
        BY <1>1, <4>1 DEF TablesOK
      <4>2. CASE a = t.me /\ t.me \in Known
        <5>1. k \notin FieldsOf(t.key)
          BY <1>1, <2>3, <4>2 DEF Keeps
        <5>2. field'[a] = Changed(field[a], t)
          BY <1>1, <4>2 DEF TablesOK
        <5> QED BY <1>1, <1>6, <4>2, <5>1, <5>2, ChangedFields
      <4> QED BY <4>1, <4>2
    <3>2. ASSUME NEW j \in Loops
          PROVE  (Keeps(j, a, k)' <=> Keeps(j, a, k)) /\ (Keeps(j, a, k) => task'[j] = task[j])
      BY <1>5, <2>3
    <3> QED BY <1>1, <1>2, <2>1, <3>1, <3>2, FieldStays
  <2> QED BY <2>2, <2>3
<1> QED BY <1>4, <1>7 DEF FieldsInv

LEMMA FieldsStep ==
  ASSUME IInv, TablesOK, IdsGiven, NewcomersOwned, FieldsInv, NEW l \in Loops, Handler(l)
  PROVE  FieldsInv'
<1>1. TypeOK /\ task \in [Loops -> Tasks] /\ table \subseteq Ids
      /\ Known \subseteq table /\ table \subseteq table'
  BY IdsStep DEF IInv, TypeOK, IdsGiven
<1>2. CASE Command(l)
  <2>1. Known' = Known /\ UNCHANGED <<mixed, field, column>>
    BY <1>2, CommandEffect DEF calm, dbVars, Known
  <2>2. Others(l) /\ task[l] = Idle /\ task'[l].pc # "keep"
    BY <1>2, CommandEffect DEF Begun
  <2>3. task[l].pc # "keep"
    BY <2>2 DEF Idle
  <2> QED BY <1>1, <2>1, <2>2, <2>3, FieldsFrame
<1>3. CASE InsertUser(l)
  <2> DEFINE id == baseUserId + 1
  <2>1. \A a \in table : column'[a] = column[a]
    BY <1>1, <1>3 DEF InsertUser, TablesOK
  <2>2. Others(l) /\ task'[l].pc \in {"push", "idle"}
    <3>1. CASE Return(l)
      BY <1>1, <3>1, ReturnEffect
    <3>2. CASE task' = [task EXCEPT ![l].pc = "push", ![l].other = id]
      BY <1>1, <3>2 DEF Others, Tasks
    <3> QED BY <1>3, <3>1, <3>2 DEF InsertUser
  <2>3. Known' = Known /\ mixed' = mixed /\ field' = field /\ task[l].pc # "keep"
    BY <1>3 DEF InsertUser, Known, history
  <2> QED BY <1>1, <2>1, <2>2, <2>3, FieldsFrame
<1>4. CASE InsertGroup(l)
  <2>1. Others(l) /\ task'[l].pc \in {"push", "insert"} /\ task[l].pc # "keep"
    BY <1>1, <1>4, GotoEffect DEF InsertGroup
  <2>2. Known' = Known /\ UNCHANGED <<mixed, field>>
    BY <1>4 DEF InsertGroup, memoryVars, Known, history
  <2>3. \A a \in table : column'[a] = column[a]
    BY <1>1, <1>4 DEF InsertGroup, TablesOK
  <2> QED BY <1>1, <2>1, <2>2, <2>3, FieldsFrame
<1>5. CASE Insert(l) \/ DeleteRows(l) \/ Link(l) \/ Unlink(l) \/ Finish(l)
  <2>1. Known' = Known /\ UNCHANGED <<mixed, field, column>>
    BY <1>5 DEF Insert, DeleteRows, Link, Unlink, Finish, memoryVars, dbVars, Known, history
  <2>2. task[l].pc # "keep" /\ Others(l)
    BY <1>5, LaterEffect DEF Later, Insert, DeleteRows, Link, Unlink, Finish
  <2>3. task'[l].pc \in {"idle", "link", "unlink", "linked", "unlinked"}
    <3>1. CASE Link(l) \/ Unlink(l)
      BY <1>1, <3>1 DEF Link, Unlink, Tasks
    <3>2. CASE Insert(l) \/ DeleteRows(l) \/ Finish(l)
      BY <1>1, <3>2, GotoEffect, ReturnEffect DEF Insert, DeleteRows, Finish
    <3> QED BY <1>5, <3>1, <3>2
  <2> QED BY <1>1, <2>1, <2>2, <2>3, FieldsFrame
<1> QED BY <1>2, <1>3, <1>4, <1>5, PushFields, UpdateFields, KeepFields, HandlerCases DEF Later

----------------------------------------------------------------------------
LEMMA InitAgree == Init => Agree
<1> SUFFICES ASSUME Init PROVE Agree
  OBVIOUS
<1>1. /\ order = <<>> /\ restarts = 0 /\ table = FirstUsers /\ twins = {}
      /\ task = [l \in Loops |-> Idle] /\ Idle.pc = "idle"
  BY DEF Init, Idle
<1>2. Known = {}
  BY <1>1 DEF Known, ToSet
<1>3. TablesOK
  <2>1. names \in [Ids -> Names \cup {"none"}]
    BY FriendsAssumption DEF Init
  <2> QED BY <1>1, <2>1 DEF Init, TablesOK, Texts
<1>4. IdsGiven /\ NewcomersOwned
  BY <1>1, <1>2 DEF IdsGiven, NewcomersOwned, Newcomer
<1>5. NamesInv
  <2>1. \A i \in FirstUsers : names[i] = NameOf[i]
    BY FriendsAssumption DEF Init
  <2>2. NamesUniqueUnlessOverlap
    BY <1>1, <2>1, FriendsAssumption DEF NamesUniqueUnlessOverlap
  <2> QED BY <1>1, <2>2 DEF NamesInv, NameSeen, NamesApart
<1>6. RowsInv
  BY <1>1 DEF RowsInv
<1>7. FieldsInv
  BY <1>1, <1>2 DEF FieldsInv, KeepersInTable, FieldOK, Sole, Keeps
<1> QED BY <1>3, <1>4, <1>5, <1>6, <1>7 DEF Agree

\* The start: what is in memory is what the tables say, and no handler runs.
LEMMA StartAgree == ASSUME IInv, Agree, Start PROVE Agree'
<1>1. PICK failed \in SUBSET table : Load(failed)
  BY DEF Start
<1>2. /\ TypeOK /\ restarts \in Nat /\ restarts' = restarts + 1 /\ UNCHANGED <<dbVars, twins>>
      /\ UNCHANGED <<table, names, rows, column>>
  BY DEF IInv, Agree, TablesOK, Start, dbVars
<1>3. \A l \in Loops : task'[l] = Idle /\ task'[l].pc = "idle"
  BY DEF Start, Idle
<1>4. Known' = table /\ restarts' > 0
  BY <1>1, <1>2, DescendingIsSeq DEF Load, Known, TypeOK
<1>5. TablesOK'
  <2>1. \A i \in Ids : [column[i] EXCEPT !["birthday"] = "zero"] \in [Fields -> Texts]
    BY DEF Agree, TablesOK, Texts
  <2>2. field' \in [Ids -> [Fields -> Texts]]
    BY <1>1, <2>1 DEF Load
  <2>3. left' \in [Pairs -> Nat]
    BY <1>1 DEF Load
  <2> QED BY <1>2, <2>2, <2>3 DEF Agree, TablesOK
<1>6. IdsGiven'
  <2>1. \A i \in table \ Groups : i <= baseUserId'
    BY <1>1 DEF Load, LargestOf
  <2> QED BY <1>2, <1>3, <1>4, <2>1 DEF IdsGiven
<1>7. NewcomersOwned'
  BY <1>3 DEF NewcomersOwned, Newcomer
<1>8. NamesInv'
  BY <1>2, <1>3, <1>4 DEF Agree, NamesInv, NameSeen, NamesApart, NamesUniqueUnlessOverlap
<1>9. RowsInv'
  <2>1. unloaded' = failed /\ Odd' = Dangling
    BY <1>1 DEF Load, Odd
  <2> SUFFICES ASSUME NEW a \in Ids, NEW b \in Ids, a \notin failed, b \notin failed, a # b,
                      PairOf(a, b) \notin Dangling
               PROVE  Settled(PairOf(a, b), list[a][b])'
    BY <2>1 DEF RowsInv
  <2> DEFINE p == PairOf(a, b)
  <2>2. p \in Pairs /\ {p[1], p[2]} = {a, b}
    BY PairOfSymmetric
  <2>3. rows[p] \in Nat /\ (rows[p] > 0 => a \in table /\ b \in table)
    <3>1. rows[p] \in Nat
      BY <1>2, <2>2 DEF TypeOK
    <3>2. rows[p] > 0 => {p[1], p[2]} \subseteq table
      BY <2>2 DEF Dangling
    <3> QED BY <2>2, <3>1, <3>2
  <2>4. list'[a][b] = IF a = b \/ a \notin table \/ a \in failed THEN 0 ELSE rows[p]
    BY <1>1 DEF Load
  <2>5. list'[a][b] = rows[p]
    BY <2>3, <2>4
  <2>6. Linking(p)' = {} /\ Unlinking(p)' = {}
    BY <1>3 DEF Linking, Unlinking
  <2>7. Cardinality(Linking(p)') = 0
    BY <2>6, FS_EmptySet
  <2>8. left'[p] = 0
    BY <1>1, <2>2 DEF Load
  <2> QED BY <1>2, <2>3, <2>5, <2>6, <2>7, <2>8 DEF Settled
<1>10. FieldsInv'
  <2>1. ASSUME NEW a \in Ids, NEW k \in Fields PROVE Agrees(a, k)'
    <3>1. field'[a] = [column[a] EXCEPT !["birthday"] = "zero"] /\ column[a] \in [Fields -> Texts]
      BY <1>1 DEF Load, Agree, TablesOK
    <3>2. CASE k = "birthday"
      BY <3>1, <3>2 DEF Agrees, Unwritten, Fields
    <3>3. CASE k # "birthday"
      BY <1>2, <3>1, <3>3 DEF Agrees
    <3> QED BY <3>2, <3>3
  <2>2. ASSUME NEW a, NEW k PROVE Sole(a, k)'
    BY <1>3 DEF Sole, Keeps
  <2> QED BY <1>3, <2>1, <2>2 DEF FieldsInv, KeepersInTable, FieldOK
<1> QED BY <1>5, <1>6, <1>7, <1>8, <1>9, <1>10 DEF Agree

LEMMA StutterAgree == ASSUME Agree, UNCHANGED vars PROVE Agree'
<1>1. /\ UNCHANGED <<order, list, field, baseUserId, table, names, rows, column, task, restarts>>
      /\ UNCHANGED <<unloaded, half, crossed, mixed, left, twins>>
  BY DEF vars, memoryVars, dbVars, history
<1>2. TablesOK' /\ IdsGiven' /\ NewcomersOwned' /\ NamesInv'
  BY <1>1 DEF Agree, TablesOK, IdsGiven, Known, NewcomersOwned, Newcomer, RowOf, NamesInv, NameSeen, NamesApart,
              Registers, NamesUniqueUnlessOverlap
<1>3. FieldsInv'
  BY <1>1 DEF Agree, FieldsInv, KeepersInTable, FieldOK, Sole, Coming, Agrees, Keeps, Known
<1>4. RowsInv'
  BY <1>1 DEF Agree, RowsInv, Settled, Deleted, Linking, Unlinking, Odd
<1> QED BY <1>2, <1>3, <1>4 DEF Agree

\* Names, rows and fields agree between memory, tables and the handlers on their way.
THEOREM FriendsAgreement == Spec => []Agree
<1>1. Init => Agree
  BY InitAgree
<1>2. IInv /\ Agree /\ [Next]_vars => Agree'
  <2> SUFFICES ASSUME IInv, Agree, [Next]_vars PROVE Agree'
    OBVIOUS
  <2>1. CASE Start
    BY <2>1, StartAgree
  <2>2. CASE \E l \in Loops : Handler(l)
    <3>1. PICK l \in Loops : Handler(l)
      BY <2>2
    <3>2. TablesOK /\ IdsGiven /\ NewcomersOwned /\ NamesInv /\ RowsInv /\ FieldsInv
      BY DEF Agree
    <3> QED BY <3>1, <3>2, TablesStep, IdsStep, NewcomersStep, NamesStep, RowsStep, FieldsStep DEF Agree
  <2>3. CASE UNCHANGED vars
    BY <2>3, StutterAgree
  <2> QED BY <2>1, <2>2, <2>3 DEF Next
<1> QED BY <1>1, <1>2, FriendsInvariance, PTL DEF Spec

\* When no handler runs, memory holds what the database holds, but for the pairs and
\* fields the definition names.
THEOREM FriendsMemoryMatches == Spec => []MemoryMatchesRows
<1>1. IInv /\ Agree => MemoryMatchesRows
  <2> SUFFICES ASSUME IInv, Agree, AtRest PROVE MemoryMatchesRows
    BY DEF MemoryMatchesRows
  <2>1. \A l \in Loops : task[l].pc = "idle"
    BY DEF AtRest, Idle
  <2>2. Known \subseteq Ids
    BY DEF IInv, TypeOK, Known, ToSet
  <2>3. ASSUME NEW a \in Known \ unloaded, NEW b \in Known \ unloaded, a # b,
               PairOf(a, b) \notin half \cup crossed
        PROVE  list[a][b] = rows[PairOf(a, b)] + left[PairOf(a, b)]
    <3> DEFINE p == PairOf(a, b)
    <3>1. restarts > 0
      <4>1. order # <<>>
        BY <2>3 DEF Known, ToSet
      <4> QED BY <4>1 DEF Agree, TablesOK
    <3>2. a \in Ids /\ b \in Ids
      BY <2>2
    <3>3. Linking(p) = {} /\ Unlinking(p) = {}
      BY <2>1 DEF Linking, Unlinking
    <3>4. Cardinality(Linking(p)) = 0
      BY <3>3, FS_EmptySet
    <3>5. Settled(p, list[a][b]) \/ Deleted(p, list[a][b])
      BY <2>3, <3>1, <3>2 DEF Agree, RowsInv, Odd
    <3>6. list[a][b] \in Nat
      BY <3>2 DEF IInv, TypeOK, Lists
    <3> QED BY <3>3, <3>4, <3>5, <3>6 DEF Settled, Deleted
  <2>4. ASSUME NEW a \in Known, NEW k \in Fields, <<a, k>> \notin mixed
        PROVE  field[a][k] \in {column[a][k]} \cup Unwritten[k]
    <3>1. FieldOK(a, k) /\ ~Coming(a, k)
      BY <2>1, <2>2 DEF Agree, FieldsInv, Coming, Keeps
    <3> QED BY <2>4, <3>1 DEF FieldOK, Agrees
  <2> QED BY <2>3, <2>4 DEF MemoryMatchesRows
<1> QED BY <1>1, FriendsInvariance, FriendsAgreement, PTL

\* Two users have one name only when two handlers looked for it at the same time.
THEOREM FriendsNamesUnique == Spec => []NamesUniqueUnlessOverlap
<1>1. Agree => NamesUniqueUnlessOverlap
  BY DEF Agree, NamesInv
<1> QED BY <1>1, FriendsAgreement, PTL
==============================================================================
