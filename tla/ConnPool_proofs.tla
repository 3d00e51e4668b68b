--------------------------- MODULE ConnPool_proofs ---------------------------
(***************************************************************************)
(* Proofs about ConnPool, for any number of threads, any pool size and any *)
(* mix of commands.  The inductive invariant is the conjunction of the     *)
(* type invariant, Ownership, WaitersMeanFull and NoLostWakeup: a waiter   *)
(* re-tests an empty list against the limit, so that NoLostWakeup needs to *)
(* know that the limit was reached before anyone could wait.               *)
(***************************************************************************)
EXTENDS ConnPool, FiniteSetTheorems, TLAPS

\* Nobody waits before MAX_CONN_COUNT connections have been opened.
WaitersMeanFull == At("wait") # {} => count = MaxCount

IInv == TypeOK /\ Ownership /\ WaitersMeanFull /\ NoLostWakeup

USE DEF NoConn

------------------------------------------------------------------------------
(* The handlings of the commands are records of three Booleans. *)

\* NoCommand is a handling: the initial value of cmd is type correct.
LEMMA NoCommandType ==
  NoCommand \in [checksNull : BOOLEAN, putsOnOk : BOOLEAN, putsOnFail : BOOLEAN]
  BY DEF NoCommand, Handling

\* What getMysqlConn leaves in the variables it writes is type correct.
LEMMA GetType ==
  ASSUME TypeOK, NEW t \in Threads,
         NEW c \in [checksNull : BOOLEAN, putsOnOk : BOOLEAN, putsOnFail : BOOLEAN],
         getMysqlConn(t, c)
  PROVE  /\ free' \in Seq(1..MaxCount) /\ count' \in 0..MaxCount
         /\ pc' \in [Threads -> Positions] /\ conn' \in [Threads -> 0..MaxCount]
         /\ crashed' \in BOOLEAN
<1> USE PoolAssumption DEF TypeOK, Positions
<1>1. CASE Take(t)
  <2>1. Head(free) \in 1..MaxCount /\ Tail(free) \in Seq(1..MaxCount)
    BY <1>1 DEF Take
  <2> QED BY <1>1, <2>1 DEF Take
<1>2. CASE Open(t)
  BY <1>2 DEF Open
<1>3. CASE OpenFails(t, c)
  BY <1>3 DEF OpenFails
<1>4. CASE Wait(t)
  BY <1>4 DEF Wait
<1> QED BY <1>1, <1>2, <1>3, <1>4 DEF getMysqlConn

\* A command that works on a connection works on one that was opened.
LEMMA HeldIsOpen ==
  ASSUME TypeOK, Ownership, NEW t \in Threads, pc[t] \in {"work", "put"}
  PROVE  conn[t] \in 1..count /\ conn[t] \in 1..MaxCount /\ conn[t] # NoConn
<1>1. conn[t] \in Held
  BY DEF Held, Holding, At
<1>2. conn[t] \in 1..count
  BY <1>1 DEF Ownership
<1> QED BY <1>2, PoolAssumption DEF TypeOK

\* The type invariant is preserved by every step of the pool.
LEMMA TypeStep == TypeOK /\ Ownership /\ [Next]_vars => TypeOK'
<1> SUFFICES ASSUME TypeOK, Ownership, [Next]_vars PROVE TypeOK'
  OBVIOUS
<1>1. ASSUME NEW t \in Threads, NEW c \in Commands, Call(t, c) PROVE TypeOK'
  <2>1. calls' \in [Threads -> 0..CallBudget]
    BY <1>1, PoolAssumption DEF Call, TypeOK
  <2>2. c \in [checksNull : BOOLEAN, putsOnOk : BOOLEAN, putsOnFail : BOOLEAN]
    BY CommandAssumption
  <2>3. getMysqlConn(t, c) /\ cmd' = [cmd EXCEPT ![t] = c] /\ lost' = lost
    BY <1>1 DEF Call
  <2> QED
    BY <2>1, <2>2, <2>3, GetType DEF TypeOK
<1>2. ASSUME NEW t \in Threads, Resume(t) PROVE TypeOK'
  <2>1. cmd[t] \in [checksNull : BOOLEAN, putsOnOk : BOOLEAN, putsOnFail : BOOLEAN]
    BY DEF TypeOK
  <2> QED
    BY <1>2, <2>1, GetType DEF Resume, TypeOK
<1>3. ASSUME NEW t \in Threads, NEW ok \in BOOLEAN, Execute(t, ok) PROVE TypeOK'
  <2>1. CASE PutsBack(t, ok)
    BY <1>3, <2>1 DEF Execute, TypeOK, Positions
  <2>2. CASE ~PutsBack(t, ok)
    <3>1. conn[t] \in 1..MaxCount
      BY <1>3, HeldIsOpen DEF Execute
    <3>2. lost' = lost \cup {conn[t]} /\ conn' = [conn EXCEPT ![t] = NoConn]
          /\ pc' = [pc EXCEPT ![t] = "idle"]
      BY <1>3, <2>2 DEF Execute
    <3>3. conn' \in [Threads -> 0..MaxCount]
      BY <3>2, PoolAssumption DEF TypeOK
    <3>4. lost' \subseteq 1..MaxCount
      BY <3>1, <3>2 DEF TypeOK
    <3>5. pc' \in [Threads -> Positions]
      BY <3>2 DEF TypeOK, Positions
    <3>6. UNCHANGED <<free, count, cmd, calls, crashed>>
      BY <1>3 DEF Execute
    <3> QED BY <3>3, <3>4, <3>5, <3>6 DEF TypeOK
  <2> QED BY <2>1, <2>2
<1>4. ASSUME NEW t \in Threads, putMysqlConn(t) PROVE TypeOK'
  <2>1. conn[t] \in 1..MaxCount
    BY <1>4, HeldIsOpen DEF putMysqlConn
  <2>2. free' \in Seq(1..MaxCount)
    <3>1. free \in Seq(1..MaxCount) /\ Append(free, conn[t]) \in Seq(1..MaxCount)
      BY <2>1 DEF TypeOK
    <3> QED BY <1>4, <3>1 DEF putMysqlConn
  <2>3. pc' \in [Threads -> Positions]
    <3> DEFINE parked == [pc EXCEPT ![t] = "idle"]
    <3>1. parked \in [Threads -> Positions]
      BY DEF TypeOK, Positions
    <3>2. NotifyOne(parked)
      BY <1>4 DEF putMysqlConn
    <3>3. ASSUME NEW w \in Threads, pc' = [parked EXCEPT ![w] = "awake"]
          PROVE  pc' \in [Threads -> Positions]
      BY <3>1, <3>3 DEF Positions
    <3> QED BY <3>1, <3>2, <3>3 DEF NotifyOne, At
  <2>4. conn' \in [Threads -> 0..MaxCount]
    BY <1>4, PoolAssumption DEF putMysqlConn, TypeOK
  <2>5. UNCHANGED <<count, cmd, calls, lost, crashed>>
    BY <1>4 DEF putMysqlConn
  <2> QED BY <2>2, <2>3, <2>4, <2>5 DEF TypeOK
<1>5. ASSUME NEW t \in Threads, SpuriousWake(t) PROVE TypeOK'
  BY <1>5 DEF SpuriousWake, TypeOK, Positions
<1>6. CASE UNCHANGED vars
  BY <1>6 DEF vars, TypeOK
<1> QED
  BY <1>1, <1>2, <1>3, <1>4, <1>5, <1>6 DEF Next, Step

------------------------------------------------------------------------------
(* Ownership. *)

\* Popping the front of a list without duplicates: the rest has none, and
\* holds what the list held but the front.
LEMMA TailOfDistinct ==
  ASSUME NEW S, NEW s \in Seq(S), s # <<>>, Distinct(s)
  PROVE  Distinct(Tail(s)) /\ Elems(Tail(s)) = Elems(s) \ {Head(s)} /\ Head(s) \in Elems(s)
<1>1. Len(s) \in Nat \ {0} /\ Len(Tail(s)) = Len(s) - 1 /\ Head(s) = s[1]
  OBVIOUS
<1>2. \A i \in 1..Len(Tail(s)) : Tail(s)[i] = s[i+1] /\ i+1 \in 1..Len(s)
  BY <1>1
<1>3. \A i \in 1..Len(s) : i # 1 => i-1 \in 1..Len(Tail(s)) /\ Tail(s)[i-1] = s[i]
  BY <1>1
<1>4. Distinct(Tail(s))
  BY <1>1, <1>2 DEF Distinct
<1>5. \A x : x \in Elems(Tail(s)) => x \in Elems(s) \ {Head(s)}
  BY <1>1, <1>2 DEF Elems, Distinct
<1>6. \A x : x \in Elems(s) \ {Head(s)} => x \in Elems(Tail(s))
  <2> TAKE x
  <2> HAVE x \in Elems(s) \ {Head(s)}
  <2>1. PICK i \in 1..Len(s) : x = s[i]
    BY DEF Elems
  <2>2. i # 1
    BY <1>1, <2>1
  <2>3. i-1 \in 1..Len(Tail(s)) /\ x = Tail(s)[i-1]
    BY <1>3, <2>1, <2>2
  <2> QED BY <2>3 DEF Elems
<1>7. Head(s) \in Elems(s)
  BY <1>1 DEF Elems
<1> QED BY <1>4, <1>5, <1>6, <1>7

\* Appending an element that a list without duplicates does not hold.
LEMMA AppendNew ==
  ASSUME NEW S, NEW s \in Seq(S), NEW x \in S, Distinct(s), x \notin Elems(s)
  PROVE  Distinct(Append(s, x)) /\ Elems(Append(s, x)) = Elems(s) \cup {x}
<1>1. Len(s) \in Nat /\ Len(Append(s, x)) = Len(s) + 1 /\ Append(s, x)[Len(s) + 1] = x
  OBVIOUS
<1>2. \A i \in 1..Len(s) : Append(s, x)[i] = s[i]
  OBVIOUS
<1>3. \A i \in 1..Len(Append(s, x)) : i \in 1..Len(s) \/ i = Len(s) + 1
  BY <1>1
<1>4. Distinct(Append(s, x))
  BY <1>1, <1>2, <1>3 DEF Distinct, Elems
<1>5. \A y : y \in Elems(Append(s, x)) => y \in Elems(s) \cup {x}
  BY <1>1, <1>2, <1>3 DEF Elems
<1>6. \A y : y \in Elems(s) \cup {x} => y \in Elems(Append(s, x))
  BY <1>1, <1>2 DEF Elems
<1> QED BY <1>4, <1>5, <1>6

\* Threads a step does not move keep their place in At(where).
LEMMA AtAfter ==
  ASSUME TypeOK, NEW t \in Threads, NEW p \in Positions, NEW where \in Positions,
         pc' = [pc EXCEPT ![t] = p]
  PROVE  At(where)' = IF p = where THEN At(where) \cup {t} ELSE At(where) \ {t}
<1>1. \A u \in Threads : pc'[u] = IF u = t THEN p ELSE pc[u]
  BY DEF TypeOK
<1> QED BY <1>1 DEF At

\* getMysqlConn preserves Ownership for a thread that holds nothing.
LEMMA GetOwnership ==
  ASSUME TypeOK, Ownership, NEW t \in Threads, t \notin Holding,
         NEW c \in [checksNull : BOOLEAN, putsOnOk : BOOLEAN, putsOnFail : BOOLEAN],
         getMysqlConn(t, c), lost' = lost
  PROVE  Ownership'
<1>0. conn[t] = NoConn
  BY DEF Ownership
<1>1. CASE Take(t)
  <2>1. /\ free # <<>> /\ free \in Seq(1..MaxCount) /\ free' = Tail(free)
        /\ conn' = [conn EXCEPT ![t] = Head(free)] /\ pc' = [pc EXCEPT ![t] = "work"]
        /\ count' = count
    BY <1>1 DEF Take, TypeOK
  <2>2. Distinct(free') /\ FreeSet' = FreeSet \ {Head(free)} /\ Head(free) \in FreeSet
    BY <2>1, TailOfDistinct DEF Ownership, FreeSet
  <2>3. Head(free) \in FreeSet
    BY <2>2
  <2>4. Holding' = Holding \cup {t}
    BY <2>1, AtAfter DEF Holding, Positions
  <2>5. \A u \in Threads : conn'[u] = IF u = t THEN Head(free) ELSE conn[u]
    BY <2>1 DEF TypeOK
  <2>6. Held' = Held \cup {Head(free)}
    BY <2>4, <2>5 DEF Held, Holding, At
  <2>7. Head(free) \notin Held /\ Head(free) \notin lost
    BY <2>3 DEF Ownership
  <2>8. \A u, v \in Holding' : conn'[u] = conn'[v] => u = v
    BY <2>4, <2>5, <2>7 DEF Ownership, Held, Holding, At
  <2>9. \A u \in Threads \ Holding' : conn'[u] = NoConn
    BY <2>4, <2>5 DEF Ownership
  <2>10. FreeSet' \cup Held' \cup lost' = 1..count'
    BY <2>1, <2>2, <2>3, <2>6 DEF Ownership
  <2>11. FreeSet' \cap Held' = {} /\ FreeSet' \cap lost' = {} /\ Held' \cap lost' = {}
    BY <2>2, <2>6, <2>7 DEF Ownership
  <2>12. Distinct(free')
    BY <2>2
  <2> QED BY <2>8, <2>9, <2>10, <2>11, <2>12 DEF Ownership
<1>2. CASE Open(t)
  <2>1. /\ free' = free /\ count' = count + 1 /\ count \in Nat /\ count < MaxCount
        /\ conn' = [conn EXCEPT ![t] = count + 1] /\ pc' = [pc EXCEPT ![t] = "work"]
    BY <1>2, PoolAssumption DEF Open, TypeOK
  <2>2. FreeSet' = FreeSet
    BY <2>1 DEF FreeSet
  <2>3. count + 1 \notin FreeSet /\ count + 1 \notin Held /\ count + 1 \notin lost
    BY <2>1 DEF Ownership
  <2>4. Holding' = Holding \cup {t}
    BY <2>1, AtAfter DEF Holding, Positions
  <2>5. \A u \in Threads : conn'[u] = IF u = t THEN count + 1 ELSE conn[u]
    BY <2>1 DEF TypeOK
  <2>6. Held' = Held \cup {count + 1}
    BY <2>4, <2>5 DEF Held, Holding, At
  <2>7. \A u, v \in Holding' : conn'[u] = conn'[v] => u = v
    BY <2>3, <2>4, <2>5 DEF Ownership, Held, Holding, At
  <2>8. \A u \in Threads \ Holding' : conn'[u] = NoConn
    BY <2>4, <2>5 DEF Ownership
  <2>9. 1..(count + 1) = (1..count) \cup {count + 1}
    BY <2>1
  <2>10. FreeSet' \cup Held' \cup lost' = 1..count'
    BY <2>1, <2>2, <2>6, <2>9 DEF Ownership
  <2>11. FreeSet' \cap Held' = {} /\ FreeSet' \cap lost' = {} /\ Held' \cap lost' = {}
    BY <2>2, <2>3, <2>6 DEF Ownership
  <2>12. Distinct(free')
    BY <2>1 DEF Ownership
  <2> QED BY <2>7, <2>8, <2>10, <2>11, <2>12 DEF Ownership
<1>3. CASE OpenFails(t, c) \/ Wait(t)
  <2>1. /\ free' = free /\ count' = count /\ conn' = conn
        /\ \E p \in {"idle", "wait"} : pc' = [pc EXCEPT ![t] = p]
    BY <1>3 DEF OpenFails, Wait
  <2>2. Holding' = Holding
    <3>1. PICK p \in {"idle", "wait"} : pc' = [pc EXCEPT ![t] = p]
      BY <2>1
    <3>2. At("work")' = At("work") \ {t} /\ At("put")' = At("put") \ {t}
      BY <3>1, AtAfter DEF Positions
    <3> QED BY <3>2 DEF Holding
  <2> QED BY <2>1, <2>2 DEF Ownership, FreeSet, Held
<1> QED BY <1>1, <1>2, <1>3 DEF getMysqlConn

\* Every step keeps each connection in exactly one place.
LEMMA OwnershipStep == TypeOK /\ Ownership /\ [Next]_vars => Ownership'
<1> SUFFICES ASSUME TypeOK, Ownership, [Next]_vars PROVE Ownership'
  OBVIOUS
<1>1. ASSUME NEW t \in Threads, NEW c \in Commands, Call(t, c) PROVE Ownership'
  <2>1. t \notin Holding /\ getMysqlConn(t, c) /\ lost' = lost
    BY <1>1 DEF Call, Holding, At
  <2> QED BY <2>1, GetOwnership, CommandAssumption
<1>2. ASSUME NEW t \in Threads, Resume(t) PROVE Ownership'
  <2>1. t \notin Holding /\ getMysqlConn(t, cmd[t]) /\ lost' = lost
    BY <1>2 DEF Resume, Holding, At
  <2>2. cmd[t] \in [checksNull : BOOLEAN, putsOnOk : BOOLEAN, putsOnFail : BOOLEAN]
    BY DEF TypeOK
  <2> QED BY <2>1, <2>2, GetOwnership
<1>3. ASSUME NEW t \in Threads, NEW ok \in BOOLEAN, Execute(t, ok) PROVE Ownership'
  <2>0. t \in Holding /\ free' = free /\ count' = count
    BY <1>3 DEF Execute, Holding, At
  <2>1. CASE PutsBack(t, ok)
    <3>1. pc' = [pc EXCEPT ![t] = "put"] /\ conn' = conn /\ lost' = lost
      BY <1>3, <2>1 DEF Execute
    <3>2. At("work")' = At("work") \ {t} /\ At("put")' = At("put") \cup {t}
      BY <3>1, AtAfter DEF Positions
    <3>3. Holding' = Holding
      BY <2>0, <3>2 DEF Holding
    <3> QED BY <2>0, <3>1, <3>3 DEF Ownership, Held, FreeSet
  <2>2. CASE ~PutsBack(t, ok)
    <3>1. /\ pc' = [pc EXCEPT ![t] = "idle"] /\ conn' = [conn EXCEPT ![t] = NoConn]
          /\ lost' = lost \cup {conn[t]}
      BY <1>3, <2>2 DEF Execute
    <3>2. At("work")' = At("work") \ {t} /\ At("put")' = At("put") \ {t}
      BY <3>1, AtAfter DEF Positions
    <3>3. Holding' = Holding \ {t}
      BY <3>2 DEF Holding
    <3>4. \A u \in Threads : conn'[u] = IF u = t THEN NoConn ELSE conn[u]
      BY <3>1 DEF TypeOK
    <3>5. Held' = Held \ {conn[t]}
      BY <2>0, <3>3, <3>4 DEF Held, Ownership, Holding, At
    <3>6. conn[t] \in Held
      BY <2>0 DEF Held
    <3>7. FreeSet' = FreeSet
      BY <2>0 DEF FreeSet
    <3>8. FreeSet' \cup Held' \cup lost' = 1..count'
      BY <2>0, <3>1, <3>5, <3>6, <3>7 DEF Ownership
    <3>9. FreeSet' \cap Held' = {} /\ FreeSet' \cap lost' = {} /\ Held' \cap lost' = {}
      BY <3>1, <3>5, <3>6, <3>7 DEF Ownership
    <3>10. \A u, v \in Holding' : conn'[u] = conn'[v] => u = v
      BY <3>3, <3>4 DEF Ownership, Holding, At
    <3>11. \A u \in Threads \ Holding' : conn'[u] = NoConn
      BY <3>3, <3>4 DEF Ownership
    <3>12. Distinct(free')
      BY <2>0 DEF Ownership
    <3> QED BY <3>8, <3>9, <3>10, <3>11, <3>12 DEF Ownership
  <2> QED BY <2>1, <2>2
<1>4. ASSUME NEW t \in Threads, putMysqlConn(t) PROVE Ownership'
  <2>0. t \in Holding /\ conn[t] \in Held /\ conn[t] \in 1..MaxCount
    BY <1>4, HeldIsOpen DEF putMysqlConn, Holding, Held, At
  <2>1. /\ conn' = [conn EXCEPT ![t] = NoConn] /\ count' = count /\ lost' = lost
        /\ NotifyOne([pc EXCEPT ![t] = "idle"])
    BY <1>4 DEF putMysqlConn
  <2>2. conn[t] \notin FreeSet
    BY <2>0 DEF Ownership
  <2>3. free' = Append(free, conn[t]) /\ free \in Seq(1..MaxCount)
    BY <1>4, <2>2 DEF putMysqlConn, TypeOK
  <2>4. Distinct(free') /\ FreeSet' = FreeSet \cup {conn[t]}
    <3>1. Distinct(free) /\ conn[t] \notin Elems(free)
      BY <2>2 DEF Ownership, FreeSet
    <3>2. /\ Distinct(Append(free, conn[t]))
          /\ Elems(Append(free, conn[t])) = Elems(free) \cup {conn[t]}
      <4> DEFINE S == 1..MaxCount
      <4>1. free \in Seq(S) /\ conn[t] \in S
        BY <2>0, <2>3
      <4> HIDE DEF S
      <4> QED BY <4>1, <3>1, AppendNew
    <3> QED BY <2>3, <3>2 DEF FreeSet
  <2>5. Holding' = Holding \ {t}
    BY <1>4, <2>1 DEF NotifyOne, Holding, At, TypeOK, putMysqlConn
  <2>6. \A u \in Threads : conn'[u] = IF u = t THEN NoConn ELSE conn[u]
    BY <2>1 DEF TypeOK
  <2>7. Held' = Held \ {conn[t]}
    BY <2>0, <2>5, <2>6 DEF Held, Ownership, Holding, At
  <2>8. FreeSet' \cup Held' \cup lost' = 1..count'
    BY <2>0, <2>1, <2>4, <2>7 DEF Ownership
  <2>9. FreeSet' \cap Held' = {} /\ FreeSet' \cap lost' = {} /\ Held' \cap lost' = {}
    BY <2>0, <2>1, <2>4, <2>7 DEF Ownership
  <2>10. \A u, v \in Holding' : conn'[u] = conn'[v] => u = v
    BY <2>5, <2>6 DEF Ownership, Holding, At
  <2>11. \A u \in Threads \ Holding' : conn'[u] = NoConn
    BY <2>5, <2>6 DEF Ownership
  <2> QED BY <2>4, <2>8, <2>9, <2>10, <2>11 DEF Ownership
<1>5. ASSUME NEW t \in Threads, SpuriousWake(t) PROVE Ownership'
  <2>1. At("work")' = At("work") /\ At("put")' = At("put")
    BY <1>5, AtAfter DEF SpuriousWake, Positions, At
  <2>2. Holding' = Holding /\ UNCHANGED <<free, count, conn, lost>>
    BY <1>5, <2>1 DEF SpuriousWake, Holding
  <2>3. FreeSet' = FreeSet /\ Held' = Held
    BY <2>2 DEF FreeSet, Held
  <2> QED BY <2>2, <2>3 DEF Ownership
<1>6. CASE UNCHANGED vars
  BY <1>6 DEF vars, Ownership, FreeSet, Held, Holding, At
<1> QED
  BY <1>1, <1>2, <1>3, <1>4, <1>5, <1>6 DEF Next, Step

------------------------------------------------------------------------------
(* The waiters. *)

\* Nobody starts to wait while the pool may still grow, and it never shrinks.
LEMMA WaitersStep == TypeOK /\ WaitersMeanFull /\ [Next]_vars => WaitersMeanFull'
<1> SUFFICES ASSUME TypeOK, WaitersMeanFull, [Next]_vars PROVE WaitersMeanFull'
  OBVIOUS
<1> USE PoolAssumption DEF TypeOK, WaitersMeanFull, At
<1>1. ASSUME NEW t \in Threads, NEW c, getMysqlConn(t, c), pc[t] # "wait" PROVE WaitersMeanFull'
  BY <1>1 DEF getMysqlConn, Take, Open, OpenFails, Wait
<1>2. ASSUME NEW t \in Threads, NEW ok \in BOOLEAN, Execute(t, ok) PROVE WaitersMeanFull'
  BY <1>2 DEF Execute
<1>3. ASSUME NEW t \in Threads, putMysqlConn(t) PROVE WaitersMeanFull'
  <2>1. At("wait")' \subseteq At("wait") /\ count' = count
    BY <1>3 DEF putMysqlConn, NotifyOne
  <2> QED BY <2>1
<1>4. ASSUME NEW t \in Threads, SpuriousWake(t) PROVE WaitersMeanFull'
  BY <1>4 DEF SpuriousWake
<1>5. CASE UNCHANGED vars
  BY <1>5 DEF vars
<1> QED
  BY <1>1, <1>2, <1>3, <1>4, <1>5 DEF Next, Step, Call, Resume

\* The awakened threads are finitely many, and one more or less of them counts
\* as one.
LEMMA AwakeCount ==
  ASSUME TypeOK, NEW t \in Threads, t \notin At("awake")
  PROVE  /\ IsFiniteSet(At("awake")) /\ Cardinality(At("awake")) \in Nat
         /\ Cardinality(At("awake") \cup {t}) = Cardinality(At("awake")) + 1
<1>1. IsFiniteSet(At("awake"))
  BY FS_Subset, PoolAssumption DEF At
<1>2. Cardinality(At("awake") \cup {t}) = Cardinality(At("awake")) + 1
  BY <1>1, FS_AddElement
<1> QED BY <1>1, <1>2, FS_CardinalityType

\* The same for a thread that leaves them.
LEMMA AwakeLess ==
  ASSUME TypeOK, NEW t \in Threads, t \in At("awake")
  PROVE  /\ Cardinality(At("awake")) \in Nat
         /\ Cardinality(At("awake") \ {t}) = Cardinality(At("awake")) - 1
<1>1. IsFiniteSet(At("awake"))
  BY FS_Subset, PoolAssumption DEF At
<1> QED BY <1>1, FS_RemoveElement, FS_CardinalityType

\* An idle connection always has an awakened thread on its way to it.
LEMMA WakeupStep ==
  TypeOK /\ Ownership /\ WaitersMeanFull /\ NoLostWakeup /\ [Next]_vars => NoLostWakeup'
<1> SUFFICES ASSUME TypeOK, Ownership, WaitersMeanFull, NoLostWakeup, [Next]_vars
             PROVE  NoLostWakeup'
  OBVIOUS
<1>0. Len(free) \in Nat /\ count \in Nat
  BY PoolAssumption DEF TypeOK
\* A thread that found the list empty and did not wait leaves no idle connection.
<1>1. ASSUME NEW t \in Threads, NEW c, pc[t] \in {"idle", "awake"}, getMysqlConn(t, c),
             free = <<>>
      PROVE  NoLostWakeup'
  <2>1. free' = <<>>
    BY <1>1 DEF getMysqlConn, Take, Open, OpenFails, Wait
  <2>2. IsFiniteSet(At("awake")')
    BY FS_Subset, PoolAssumption DEF At
  <2>3. Cardinality(At("awake")') \in Nat /\ Len(free') = 0
    BY <2>1, <2>2, FS_CardinalityType
  <2> QED BY <2>3 DEF NoLostWakeup, At
<1>2. ASSUME NEW t \in Threads, NEW c, pc[t] \in {"idle", "awake"}, getMysqlConn(t, c),
             free # <<>>
      PROVE  NoLostWakeup'
  <2>1. free' = Tail(free) /\ pc' = [pc EXCEPT ![t] = "work"]
    BY <1>2 DEF getMysqlConn, Take, Open, OpenFails, Wait
  <2>2. Len(free') = Len(free) - 1
    BY <1>2, <2>1 DEF TypeOK
  <2>3. At("awake")' = At("awake") \ {t} /\ At("wait")' = At("wait")
    BY <1>2, <2>1, AtAfter DEF Positions, At
  <2>4. CASE t \in At("awake")
    BY <1>0, <2>2, <2>3, <2>4, AwakeLess DEF NoLostWakeup
  <2>5. CASE t \notin At("awake")
    <3>1. At("awake")' = At("awake")
      BY <2>3, <2>5
    <3>2. Cardinality(At("awake")) \in Nat
      BY <2>5, AwakeCount
    <3> QED BY <1>0, <2>2, <2>3, <3>1, <3>2 DEF NoLostWakeup
  <2> QED BY <2>4, <2>5
<1>3. ASSUME NEW t \in Threads, NEW ok \in BOOLEAN, Execute(t, ok) PROVE NoLostWakeup'
  <2>1. At("awake")' = At("awake") /\ At("wait")' = At("wait") /\ free' = free
    BY <1>3, AtAfter DEF Execute, Positions, At
  <2> QED BY <2>1 DEF NoLostWakeup
<1>4. ASSUME NEW t \in Threads, putMysqlConn(t) PROVE NoLostWakeup'
  <2> DEFINE parked == [pc EXCEPT ![t] = "idle"]
  <2>0. parked \in [Threads -> Positions] /\ pc[t] = "put" /\ NotifyOne(parked)
    BY <1>4 DEF putMysqlConn, TypeOK, Positions
  <2>1. Len(free') \in Nat /\ Len(free') <= Len(free) + 1
    BY <1>0, <1>4 DEF putMysqlConn, TypeOK
  <2>2. ASSUME NEW w \in At("wait"), pc' = [parked EXCEPT ![w] = "awake"]
        PROVE  NoLostWakeup'
    <3>1. w \in Threads /\ w \notin At("awake") /\ w # t
      BY <2>0 DEF At
    <3>2. At("awake")' = At("awake") \cup {w}
      BY <2>0, <2>2, <3>1 DEF At, Positions
    <3>3. Cardinality(At("awake")') = Cardinality(At("awake")) + 1
          /\ Cardinality(At("awake")) \in Nat
      BY <3>1, <3>2, AwakeCount
    <3>4. At("wait") # {}
      OBVIOUS
    <3> QED BY <1>0, <2>1, <3>3, <3>4 DEF NoLostWakeup
  <2>3. ASSUME At("wait") = {}, pc' = parked PROVE NoLostWakeup'
    <3>1. At("wait")' = {}
      BY <2>0, <2>3 DEF At
    <3> QED BY <3>1 DEF NoLostWakeup
  <2> QED BY <2>0, <2>2, <2>3 DEF NotifyOne
<1>5. ASSUME NEW t \in Threads, SpuriousWake(t) PROVE NoLostWakeup'
  <2>1. t \notin At("awake") /\ t \in At("wait") /\ free' = free
        /\ pc' = [pc EXCEPT ![t] = "awake"]
    BY <1>5 DEF SpuriousWake, At
  <2>2. At("awake")' = At("awake") \cup {t}
    BY <2>1, AtAfter DEF Positions
  <2>3. Cardinality(At("awake")') = Cardinality(At("awake")) + 1
        /\ Cardinality(At("awake")) \in Nat
    BY <2>1, <2>2, AwakeCount
  <2> QED BY <1>0, <2>1, <2>3 DEF NoLostWakeup
<1>6. CASE UNCHANGED vars
  BY <1>6 DEF vars, NoLostWakeup, At
<1>7. ASSUME NEW t \in Threads, NEW c, pc[t] \in {"idle", "awake"}, getMysqlConn(t, c)
      PROVE  NoLostWakeup'
  BY <1>1, <1>2, <1>7
<1> QED
  BY <1>3, <1>4, <1>5, <1>6, <1>7 DEF Next, Step, Call, Resume

------------------------------------------------------------------------------
(* The theorems. *)

\* The initial pool: the connections of init are idle, nobody holds or waits.
LEMMA InitIInv == Init => IInv
<1> SUFFICES ASSUME Init PROVE IInv
  OBVIOUS
<1> USE PoolAssumption DEF Init
<1>1. free \in Seq(1..MaxCount) /\ Len(free) = InitCount
  OBVIOUS
<1>2. TypeOK
  <2>1. cmd \in [Threads -> [checksNull : BOOLEAN, putsOnOk : BOOLEAN, putsOnFail : BOOLEAN]]
    BY NoCommandType
  <2>2. pc \in [Threads -> Positions]
    BY DEF Positions
  <2>3. conn \in [Threads -> 0..MaxCount] /\ calls \in [Threads -> 0..CallBudget]
    OBVIOUS
  <2>4. count \in 0..MaxCount /\ lost \subseteq 1..MaxCount
    OBVIOUS
  <2>5. crashed \in BOOLEAN
    OBVIOUS
  <2> QED BY <1>1, <2>1, <2>2, <2>3, <2>4, <2>5 DEF TypeOK
<1>3. FreeSet = 1..InitCount /\ Distinct(free)
  BY <1>1 DEF FreeSet, Elems, Distinct
<1>4. Holding = {} /\ Held = {} /\ At("wait") = {}
  BY DEF Holding, Held, At
<1> QED
  BY <1>2, <1>3, <1>4 DEF IInv, Ownership, WaitersMeanFull, NoLostWakeup

\* The invariant is inductive.
LEMMA IInvStep == IInv /\ [Next]_vars => IInv'
  BY TypeStep, OwnershipStep, WaitersStep, WakeupStep DEF IInv

\* The inductive invariant holds in every reachable state.
THEOREM Invariance == Spec => []IInv
  BY InitIInv, IInvStep, PTL DEF Spec

\* The pool's variables keep their types, and m_initConnCount never passes
\* MAX_CONN_COUNT, however many threads race in getMysqlConn.
THEOREM PoolTypeOK == Spec => []TypeOK
<1>1. IInv => TypeOK
  BY DEF IInv
<1> QED BY <1>1, Invariance, PTL

\* No connection is handed to two commands, is handed out while it is idle in
\* the list, or is lost without a command having dropped it.
THEOREM PoolOwnership == Spec => []Ownership
<1>1. IInv => Ownership
  BY DEF IInv
<1> QED BY <1>1, Invariance, PTL

\* One notify_one per returned connection is enough: a thread never sleeps
\* beside an idle connection that no awakened thread is coming for.
THEOREM PoolNoLostWakeup == Spec => []NoLostWakeup
<1>1. IInv => NoLostWakeup
  BY DEF IInv
<1> QED BY <1>1, Invariance, PTL

\* The pool blocks for good only through the commands that leak connections.
THEOREM PoolStuckOnlyByLeak == Spec => []StuckOnlyByLeak
<1>1. ASSUME IInv, At("wait") # {}, At("awake") = {}, Holding = {}
      PROVE  lost = 1..MaxCount
  <2>1. Len(free) \in Nat
    BY <1>1 DEF IInv, TypeOK
  <2>4. Cardinality(At("awake")) = 0
    BY <1>1, FS_EmptySet
  <2>2. Len(free) = 0
    BY <1>1, <2>1, <2>4 DEF IInv, NoLostWakeup
  <2>3. FreeSet = {} /\ Held = {}
    BY <1>1, <2>2 DEF FreeSet, Elems, Held
  <2> QED BY <1>1, <2>3 DEF IInv, Ownership, WaitersMeanFull
<1>2. IInv => StuckOnlyByLeak
  BY <1>1 DEF StuckOnlyByLeak
<1> QED BY <1>2, Invariance, PTL

------------------------------------------------------------------------------
(* The pool implements ConnLease. *)

\* getMysqlConn hands a thread that holds nothing a connection nobody holds,
\* or changes neither who holds what nor what is lost.
LEMMA GetIsLease ==
  ASSUME IInv, NEW t \in Threads, t \notin Holding, NEW c, getMysqlConn(t, c), lost' = lost
  PROVE  Lease!Lease(t) \/ UNCHANGED <<conn, lost>>
<1>0. /\ TypeOK /\ Ownership /\ conn[t] = NoConn
      /\ count \in Nat /\ count <= MaxCount /\ MaxCount \in Nat
  BY PoolAssumption DEF IInv, Ownership, TypeOK
<1>1. \A d \in 1..count : d \notin Held => d \notin Lease!Leased
  BY <1>0 DEF Ownership, Held, Lease!Leased
<1>2. ASSUME NEW d \in 1..MaxCount, d \notin lost, d \notin Lease!Leased,
             conn' = [conn EXCEPT ![t] = d]
      PROVE  Lease!Lease(t)
  BY <1>0, <1>2 DEF Lease!Lease, Lease!NoConn
<1>3. CASE Take(t)
  <2>1. free # <<>> /\ free \in Seq(1..MaxCount) /\ conn' = [conn EXCEPT ![t] = Head(free)]
    BY <1>0, <1>3 DEF Take, TypeOK
  <2>2. Head(free) \in FreeSet
    BY <2>1 DEF FreeSet, Elems
  <2>3. Head(free) \in 1..count /\ Head(free) \notin lost /\ Head(free) \notin Held
    BY <1>0, <2>2 DEF Ownership
  <2>4. Head(free) \in 1..MaxCount
    BY <1>0, <2>3
  <2> QED BY <1>1, <1>2, <2>1, <2>3, <2>4
<1>4. CASE Open(t)
  <2>1. conn' = [conn EXCEPT ![t] = count + 1] /\ count < MaxCount
    BY <1>4 DEF Open
  <2>2. count + 1 \in 1..MaxCount /\ count + 1 \notin lost
    BY <1>0, <2>1 DEF Ownership
  <2>3. count + 1 \notin Lease!Leased
    BY <1>0, <2>1 DEF Ownership, Held, Lease!Leased
  <2> QED BY <1>2, <2>1, <2>2, <2>3
<1>5. CASE OpenFails(t, c) \/ Wait(t)
  BY <1>5 DEF OpenFails, Wait
<1> QED BY <1>3, <1>4, <1>5 DEF getMysqlConn

\* The pool lends each connection to one command at a time and never lends
\* again what a command dropped, as ConnLease says.
THEOREM PoolImplementsLease == Spec => ImplementsLease
<1>1. Init => Lease!Init
  BY DEF Init, Lease!Init, Lease!NoConn
<1>2. ASSUME IInv, [Next]_vars PROVE [Lease!Next]_(Lease!vars)
  <2>1. ASSUME NEW t \in Threads, NEW c \in Commands, Call(t, c)
        PROVE  [Lease!Next]_(Lease!vars)
    <3>1. t \notin Holding /\ getMysqlConn(t, c) /\ lost' = lost
      BY <2>1 DEF Call, Holding, At
    <3> QED BY <1>2, <3>1, GetIsLease DEF Lease!Next, Lease!vars
  <2>2. ASSUME NEW t \in Threads, Resume(t) PROVE [Lease!Next]_(Lease!vars)
    <3>1. t \notin Holding /\ getMysqlConn(t, cmd[t]) /\ lost' = lost
      BY <2>2 DEF Resume, Holding, At
    <3> QED BY <1>2, <3>1, GetIsLease DEF Lease!Next, Lease!vars
  <2>3. ASSUME NEW t \in Threads, NEW ok \in BOOLEAN, Execute(t, ok)
        PROVE  [Lease!Next]_(Lease!vars)
    <3>1. conn[t] # NoConn
      BY <1>2, <2>3, HeldIsOpen DEF IInv, Execute
    <3>2. (conn' = conn /\ lost' = lost)
          \/ (conn' = [conn EXCEPT ![t] = NoConn] /\ lost' = lost \cup {conn[t]})
      BY <2>3 DEF Execute
    <3> QED BY <3>1, <3>2 DEF Lease!Next, Lease!vars, Lease!Forget, Lease!NoConn
  <2>4. ASSUME NEW t \in Threads, putMysqlConn(t) PROVE [Lease!Next]_(Lease!vars)
    <3>1. conn[t] # NoConn
      BY <1>2, <2>4, HeldIsOpen DEF IInv, putMysqlConn
    <3>2. conn' = [conn EXCEPT ![t] = NoConn] /\ lost' = lost
      BY <2>4 DEF putMysqlConn
    <3> QED BY <3>1, <3>2 DEF Lease!Next, Lease!vars, Lease!Release, Lease!NoConn
  <2>5. ASSUME NEW t \in Threads, SpuriousWake(t) PROVE [Lease!Next]_(Lease!vars)
    BY <2>5 DEF SpuriousWake, Lease!vars
  <2>6. CASE UNCHANGED vars
    BY <2>6 DEF vars, Lease!vars
  <2> QED
    BY <1>2, <2>1, <2>2, <2>3, <2>4, <2>5, <2>6 DEF Next, Step
<1> QED
  BY <1>1, <1>2, Invariance, PTL DEF Spec, ImplementsLease, Lease!Spec
==============================================================================
