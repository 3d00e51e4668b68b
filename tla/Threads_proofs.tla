--------------------------- MODULE Threads_proofs ---------------------------
(***************************************************************************)
(* Proofs about two components that own one thread each: LogService, for   *)
(* any number of records, and EventLoopThread, for any set of producers    *)
(* and any number of functors.                                             *)
(*                                                                         *)
(* LogService.  What is written, in the hand of the writer and in the list *)
(* is every record in order as long as no FATAL record has come; from then *)
(* on each earlier record is written, still to be drained, or the one the  *)
(* writer had in hand.                                                     *)
(*                                                                         *)
(* EventLoopThread.  The inductive invariant adds to the type invariant    *)
(* that nothing is left of a batch once it has been called (needed for the *)
(* order), and follows a functor from the moment it is queued to the       *)
(* moment the loop decides to sleep (needed for the wakeup): outside the   *)
(* window between reading the eventfd and taking the functors, a functor   *)
(* that waits has a wakeup that waits with it.                             *)
(***************************************************************************)
EXTENDS LogService, EventLoopThread, SequenceTheorems, TLAPS

\* The writer has one record in hand while it writes, and none at other times.
HandInWrite == /\ writer = "writing" => Len(hand) = 1
               /\ writer # "writing" => hand = <<>>

\* No notify lies around for a writer that does not wait.
NotifiedWaits == notified => writer = "waiting"

\* stop sets m_isExited before anything else.
StopSetsExited == isExited <=> stopper # "running"

\* While a FATAL record drains the list.
DrainLoses == fatal = "draining" =>
                /\ logged >= 1
                /\ \A n \in 1..logged :
                     n < logged => Has(written, n) \/ Has(buffer, n) \/ late = <<n>>

\* When it has written itself.
EndLoses == fatal \in {"crashing", "crashed"} =>
              \A n \in 1..logged : Has(written, n) \/ late = <<n>>

\* A writer that waits, or is about to, found the list empty and m_isExited not
\* set: only a record or stop can have changed that, and each notifies.
Sleeps == /\ writer \in {"sleepy", "waiting"} /\ ~notified => buffer = <<>>
          /\ writer = "sleepy" /\ isExited => stopper = "notifying" \/ missed
          /\ writer = "waiting" /\ ~notified /\ isExited => stopper = "notifying" \/ missed

IInv == /\ TypeOK /\ HandInWrite /\ NotifiedWaits /\ StopSetsExited
        /\ WrittenOnceInOrder /\ DrainLoses /\ EndLoses /\ Sleeps

Records == Seq(1..MaxRecords)

------------------------------------------------------------------------------
(* Sequences. *)

\* Moving the head of one part to the end of the part before it changes nothing.
LEMMA MoveHead ==
  ASSUME NEW S, NEW r \in Seq(S), NEW q \in Seq(S), q # <<>>
  PROVE  (r \o <<Head(q)>>) \o Tail(q) = r \o q
<1>1. Head(q) \in S /\ Tail(q) \in Seq(S)
  BY HeadTailProperties
<1> DEFINE s == (r \o <<Head(q)>>) \o Tail(q)
           t == r \o q
<1>2. s \in Seq(S) /\ t \in Seq(S)
  BY <1>1
<1>3. Len(s) = Len(t)
  BY <1>1
<1>4. \A i \in 1..Len(s) : s[i] = t[i]
  BY <1>1
<1> HIDE DEF s, t
<1>5. s = t
  BY <1>2, <1>3, <1>4, SeqEqual
<1> QED BY <1>5 DEF s, t

\* Appending to the last part of a concatenation appends to the whole.
LEMMA AppendLast ==
  ASSUME NEW S, NEW s \in Seq(S), NEW t \in Seq(S), NEW e \in S
  PROVE  s \o Append(t, e) = Append(s \o t, e)
<1>1. Append(t, e) = t \o <<e>> /\ Append(s \o t, e) = (s \o t) \o <<e>>
  BY AppendIsConcat, ConcatProperties
<1>2. <<e>> \in Seq(S)
  OBVIOUS
<1> QED BY <1>1, <1>2, ConcatAssociative

\* A sequence of one.
LEMMA Single == ASSUME NEW S, NEW e \in S PROVE <<e>> \in Seq(S) /\ Len(<<e>>) = 1
OBVIOUS

\* What is in a concatenation is in one of its parts.
LEMMA HasConcat ==
  ASSUME NEW S, NEW s \in Seq(S), NEW t \in Seq(S), NEW n, Has(s \o t, n)
  PROVE  Has(s, n) \/ Has(t, n)
<1>1. PICK i \in 1..Len(s \o t) : (s \o t)[i] = n
  BY DEF Has
<1>2. CASE i <= Len(s)
  BY <1>1, <1>2, ConcatProperties DEF Has
<1>3. CASE i > Len(s)
  <2>1. i - Len(s) \in 1..Len(t) /\ (s \o t)[i] = t[i - Len(s)]
    BY <1>1, <1>3, ConcatProperties
  <2> QED BY <1>1, <2>1 DEF Has
<1> QED BY <1>1, <1>2, <1>3

\* What is in a sequence stays in it when something is added behind.
LEMMA HasMore ==
  ASSUME NEW S, NEW s \in Seq(S), NEW t \in Seq(S), NEW n, Has(s, n)
  PROVE  Has(s \o t, n)
<1>1. PICK i \in 1..Len(s) : s[i] = n
  BY DEF Has
<1>2. i \in 1..Len(s \o t) /\ (s \o t)[i] = s[i]
  BY <1>1, ConcatProperties
<1> QED BY <1>1, <1>2 DEF Has

\* Every record so far is in the sequence of all.
LEMMA HasLogged ==
  ASSUME TypeOK, NEW n \in 1..logged
  PROVE  Has(Logged, n)
BY DEF Has, Logged, TypeOK

\* One more record.
LEMMA LoggedGrows ==
  ASSUME TypeOK, logged < MaxRecords, logged' = logged + 1
  PROVE  /\ logged' \in 1..MaxRecords
         /\ Logged \in Records
         /\ Logged' = Append(Logged, logged')
<1>1. logged \in Nat /\ logged' \in 1..MaxRecords
  BY LogAssumption DEF TypeOK
<1>2. Logged \in Records /\ Len(Logged) = logged
  BY <1>1, LogAssumption DEF Logged, Records
<1>3. Append(Logged, logged') \in Seq(1..MaxRecords) /\ Logged' \in Seq(1..MaxRecords)
  BY <1>1, <1>2, LogAssumption DEF Logged, Records
<1>4. Len(Append(Logged, logged')) = logged' /\ Len(Logged') = logged'
  BY <1>1, <1>2 DEF Logged, Records
<1>5. \A i \in 1..logged' : Append(Logged, logged')[i] = Logged'[i]
  BY <1>1, <1>2 DEF Logged, Records
<1> QED BY <1>1, <1>2, <1>3, <1>4, <1>5, SeqEqual

------------------------------------------------------------------------------
(* The inductive invariant. *)

\* The initial states satisfy it.
LEMMA InitInv == Init => IInv
<1> SUFFICES ASSUME Init PROVE IInv
  OBVIOUS
<1>1. TypeOK
  <2>1. <<>> \in Seq(1..MaxRecords)
    BY EmptySeq
  <2>2. logged \in 0..MaxRecords
    BY LogAssumption DEF Init
  <2> QED BY <2>1, <2>2 DEF Init, TypeOK
<1>2. WrittenOnceInOrder
  <2>1. Logged = <<>>
    BY DEF Init, Logged
  <2> QED BY <2>1 DEF Init, WrittenOnceInOrder
<1> QED BY <1>1, <1>2 DEF Init, IInv, HandInWrite, NotifiedWaits, StopSetsExited, DrainLoses,
                          EndLoses, Sleeps

\* The type invariant is preserved by every step.
LEMMA TypeStep == TypeOK /\ DrainLoses /\ [Next]_vars => TypeOK'
<1> SUFFICES ASSUME TypeOK, DrainLoses, [Next]_vars PROVE TypeOK'
  OBVIOUS
<1> USE DEF TypeOK, writerVars, stopVars, fatalVars
<1>1. CASE Output
  BY <1>1, LogAssumption, AppendProperties DEF Output, Push
<1>2. CASE Fatal
  BY <1>2, LogAssumption DEF Fatal
<1>3. CASE Drain
  BY <1>3, HeadTailProperties, AppendProperties DEF Drain
<1>4. CASE WriteFatal
  <2>1. logged \in 1..MaxRecords /\ written' = Append(written, logged)
    BY <1>4, LogAssumption DEF WriteFatal, DrainLoses
  <2> QED BY <1>4, <2>1, AppendProperties DEF WriteFatal
<1>5. CASE Pop
  BY <1>5, HeadTailProperties, Single DEF Pop
<1>6. CASE write
  BY <1>6, ConcatProperties, EmptySeq DEF write
<1>7. CASE crash \/ init \/ End \/ Look \/ Wait \/ Resume \/ SpuriousWake
  BY <1>7 DEF crash, init, End, Look, Wait, Resume, SpuriousWake
<1>8. CASE stop \/ NotifyOne \/ Join
  BY <1>8 DEF stop, NotifyOne, Join
<1>9. CASE UNCHANGED vars
  BY <1>9 DEF vars
<1> QED BY <1>1, <1>2, <1>3, <1>4, <1>5, <1>6, <1>7, <1>8, <1>9 DEF Next, Writer

\* The writer has a record in hand exactly while it writes one, whatever happens.
LEMMA HandStep ==
  ASSUME TypeOK, HandInWrite, NotifiedWaits, StopSetsExited, [Next]_vars
  PROVE  HandInWrite' /\ NotifiedWaits' /\ StopSetsExited'
<1> USE DEF HandInWrite, NotifiedWaits, StopSetsExited, writerVars, stopVars
<1>1. CASE Output \/ Fatal \/ Drain \/ WriteFatal \/ crash \/ UNCHANGED vars
  <2>1. UNCHANGED <<writer, hand, isExited, stopper>>
    BY <1>1 DEF Output, Push, Fatal, Drain, WriteFatal, crash, vars
  <2>2. notified' => notified \/ writer = "waiting"
    BY <1>1 DEF Output, Push, Fatal, Drain, WriteFatal, crash, vars
  <2> QED BY <2>1, <2>2
<1>2. CASE Pop
  BY <1>2, Single DEF Pop
<1>3. CASE init \/ End \/ Look \/ Wait \/ Resume \/ write \/ SpuriousWake
  BY <1>3 DEF init, End, Look, Wait, Resume, write, SpuriousWake
<1>4. CASE stop \/ NotifyOne \/ Join
  <2>1. UNCHANGED <<writer, hand>>
    BY <1>4 DEF stop, NotifyOne, Join
  <2>2. notified' => notified \/ writer = "waiting"
    BY <1>4 DEF stop, NotifyOne, Join
  <2>3. (isExited' <=> isExited \/ stop) /\ (stopper' = "running" <=> stopper = "running" /\ ~stop)
    BY <1>4 DEF stop, NotifyOne, Join, TypeOK
  <2> QED BY <2>1, <2>2, <2>3
<1> QED BY <1>1, <1>2, <1>3, <1>4 DEF Next, Writer

\* No step loses, repeats or reorders a record as long as no FATAL record comes.
LEMMA OrderStep ==
  ASSUME TypeOK, HandInWrite, WrittenOnceInOrder, [Next]_vars
  PROVE  WrittenOnceInOrder'
<1> SUFFICES ASSUME fatal' = "none" PROVE written' \o hand' \o buffer' = Logged'
  BY DEF WrittenOnceInOrder
<1>1. fatal = "none"
  BY DEF Next, Writer, Output, Push, Fatal, Drain, WriteFatal, crash, init, Pop, End, Look, Wait,
         Resume, write, SpuriousWake, stop, NotifyOne, Join, vars, writerVars, stopVars, fatalVars
<1>2. written \o hand \o buffer = Logged
  BY <1>1 DEF WrittenOnceInOrder
<1>3. written \in Records /\ hand \in Records /\ buffer \in Records /\ written \o hand \in Records
  BY ConcatProperties DEF TypeOK, Records
<1>4. CASE Output
  <2>1. /\ buffer' = Append(buffer, logged') /\ UNCHANGED <<written, hand>>
        /\ logged' = logged + 1 /\ logged < MaxRecords
    BY <1>4 DEF Output, Push, writerVars
  <2>2. (written \o hand) \o Append(buffer, logged') = Append(written \o hand \o buffer, logged')
    BY <1>3, <2>1, LoggedGrows, AppendLast DEF Records
  <2> QED BY <1>2, <2>1, <2>2, LoggedGrows
<1>5. CASE Pop
  <2>1. hand = <<>> /\ hand' = <<Head(buffer)>> /\ buffer' = Tail(buffer) /\ buffer # <<>>
        /\ UNCHANGED <<written, logged>>
    BY <1>5 DEF Pop, HandInWrite
  <2>2. (written \o <<Head(buffer)>>) \o Tail(buffer) = written \o buffer
    BY <1>3, <2>1, MoveHead DEF Records
  <2>3. written \o hand = written
    BY <1>3, <2>1, ConcatEmptySeq DEF Records
  <2> QED BY <1>2, <2>1, <2>2, <2>3 DEF Logged
<1>6. CASE write
  <2>1. written' = written \o hand /\ hand' = <<>> /\ UNCHANGED <<buffer, logged>>
    BY <1>6 DEF write
  <2>2. (written \o hand) \o <<>> = written \o hand
    BY <1>3, ConcatEmptySeq DEF Records
  <2> QED BY <1>2, <2>1, <2>2 DEF Logged
<1>7. ASSUME UNCHANGED <<written, hand, buffer, logged>> PROVE written' \o hand' \o buffer' = Logged'
  BY <1>2, <1>7 DEF Logged
<1>8. CASE Fatal \/ Drain \/ WriteFatal \/ crash
  BY <1>1, <1>8 DEF Fatal, Drain, WriteFatal, crash
<1>9. CASE init \/ End \/ Look \/ Wait \/ Resume \/ SpuriousWake
  BY <1>7, <1>9 DEF init, End, Look, Wait, Resume, SpuriousWake
<1>10. CASE stop \/ NotifyOne \/ Join \/ UNCHANGED vars
  BY <1>7, <1>10 DEF stop, NotifyOne, Join, vars, writerVars
<1> QED BY <1>4, <1>5, <1>6, <1>8, <1>9, <1>10 DEF Next, Writer

\* Once a FATAL record has the mutex, what was put out before it is written or
\* drained, or was in the hand of the writer.
LEMMA LossStep ==
  ASSUME TypeOK, HandInWrite, WrittenOnceInOrder, DrainLoses, EndLoses, [Next]_vars
  PROVE  DrainLoses' /\ EndLoses'
<1> USE DEF DrainLoses, EndLoses
<1>1. written \in Records /\ hand \in Records /\ buffer \in Records
  BY DEF TypeOK, Records
<1>2. CASE Fatal
  <2>1. /\ fatal = "none" /\ fatal' = "draining" /\ logged' = logged + 1 /\ late' = hand
        /\ UNCHANGED <<written, buffer>>
    BY <1>2 DEF Fatal, Free
  <2>2. ASSUME NEW n \in 1..logged', n < logged'
        PROVE  Has(written, n) \/ Has(buffer, n) \/ hand = <<n>>
    <3>1. n \in 1..logged
      BY <2>1, <2>2 DEF TypeOK
    <3>2. Has(written \o hand \o buffer, n)
      BY <2>1, <3>1, HasLogged DEF WrittenOnceInOrder
    <3>3. Has(written, n) \/ Has(hand, n) \/ Has(buffer, n)
      <4>1. written \o hand \in Seq(1..MaxRecords)
        BY <1>1, ConcatProperties DEF Records
      <4>2. Has(written \o hand, n) \/ Has(buffer, n)
        BY <1>1, <3>2, <4>1, HasConcat DEF Records
      <4> QED BY <1>1, <4>2, HasConcat DEF Records
    <3>4. Has(hand, n) => hand = <<n>>
      <4>1. SUFFICES ASSUME Has(hand, n) PROVE hand = <<n>>
        OBVIOUS
      <4>2. Len(hand) = 1 /\ hand[1] = n
        BY <1>1, <4>1, EmptySeq DEF Has, HandInWrite, Records
      <4>3. n \in 1..MaxRecords
        BY <3>1, LogAssumption DEF TypeOK
      <4> QED BY <1>1, <4>2, <4>3, Single, SeqEqual DEF Records
    <3> QED BY <3>3, <3>4
  <2> QED BY <2>1, <2>2 DEF TypeOK
<1>3. CASE Drain
  <2>1. /\ fatal = "draining" /\ buffer # <<>> /\ UNCHANGED <<fatal, late, logged>>
        /\ written' = Append(written, Head(buffer)) /\ buffer' = Tail(buffer)
    BY <1>3 DEF Drain, fatalVars
  <2>2. written' = written \o <<Head(buffer)>>
    BY <1>1, <2>1, AppendIsConcat, HeadTailProperties DEF Records
  <2>3. ASSUME NEW n, Has(written, n) PROVE Has(written', n)
    <3>1. <<Head(buffer)>> \in Seq(1..MaxRecords)
      BY <1>1, <2>1, HeadTailProperties, Single DEF Records
    <3> QED BY <1>1, <2>2, <2>3, <3>1, HasMore DEF Records
  <2>4. ASSUME NEW n, Has(buffer, n) PROVE Has(written', n) \/ Has(buffer', n)
    <3>1. PICK i \in 1..Len(buffer) : buffer[i] = n
      BY <2>4 DEF Has
    <3>2. CASE i = 1
      <4>1. Len(written') = Len(written) + 1 /\ written'[Len(written) + 1] = Head(buffer)
        BY <1>1, <2>1, HeadTailProperties, AppendProperties DEF Records
      <4>2. Head(buffer) = n
        BY <3>1, <3>2
      <4> QED BY <1>1, <4>1, <4>2, LenProperties DEF Has, Records
    <3>3. CASE i # 1
      <4>1. i - 1 \in 1..Len(Tail(buffer)) /\ Tail(buffer)[i - 1] = buffer[i]
        BY <1>1, <2>1, <3>1, <3>3, HeadTailProperties, LenProperties DEF Records
      <4> QED BY <2>1, <3>1, <4>1 DEF Has
    <3> QED BY <3>2, <3>3
  <2> QED BY <2>1, <2>3, <2>4
<1>4. CASE WriteFatal
  <2>1. /\ fatal = "draining" /\ fatal' = "crashing" /\ buffer = <<>> /\ UNCHANGED <<late, logged>>
        /\ written' = Append(written, logged) /\ logged \in 1..MaxRecords
    BY <1>4 DEF WriteFatal, TypeOK
  <2>2. \A n : ~Has(buffer, n)
    BY <2>1 DEF Has
  <2>3. written' = written \o <<logged>> /\ <<logged>> \in Seq(1..MaxRecords)
    BY <1>1, <2>1, AppendIsConcat DEF Records
  <2>4. \A n : Has(written, n) => Has(written', n)
    BY <1>1, <2>3, HasMore DEF Records
  <2>5. Has(written', logged)
    BY <1>1, <2>1, AppendProperties, LenProperties DEF Has, Records
  <2> QED BY <2>1, <2>2, <2>4, <2>5
<1>5. CASE crash
  BY <1>5 DEF crash
<1>6. CASE write
  <2>1. written' = written \o hand /\ UNCHANGED <<fatal, late, logged, buffer>>
    BY <1>6 DEF write, fatalVars
  <2>2. \A n : Has(written, n) => Has(written', n)
    BY <1>1, <2>1, HasMore DEF Records
  <2> QED BY <2>1, <2>2
<1>7. CASE Output \/ Pop
  BY <1>7 DEF Output, Push, Pop, Free, fatalVars
<1>8. CASE init \/ End \/ Look \/ Wait \/ Resume \/ SpuriousWake
  BY <1>8 DEF init, End, Look, Wait, Resume, SpuriousWake, fatalVars
<1>9. CASE stop \/ NotifyOne \/ Join \/ UNCHANGED vars
  BY <1>9 DEF stop, NotifyOne, Join, vars, fatalVars
<1> QED BY <1>2, <1>3, <1>4, <1>5, <1>6, <1>7, <1>8, <1>9 DEF Next, Writer

\* No step puts the writer to sleep over a record, or over m_isExited but where
\* stop notifies too early.
LEMMA SleepStep ==
  ASSUME TypeOK, NotifiedWaits, StopSetsExited, Sleeps, [Next]_vars
  PROVE  Sleeps'
<1> USE DEF Sleeps, writerVars, stopVars
<1>1. CASE Output
  BY <1>1 DEF Output, Push, Free
<1>2. CASE Fatal \/ WriteFatal \/ crash \/ UNCHANGED vars
  BY <1>2 DEF Fatal, WriteFatal, crash, vars
<1>3. CASE Drain
  BY <1>3 DEF Drain
<1>4. CASE init \/ Pop \/ End \/ Resume \/ write \/ SpuriousWake
  BY <1>4 DEF init, Pop, End, Resume, write, SpuriousWake
<1>5. CASE Look \/ Wait
  BY <1>5 DEF Look, Wait, NotifiedWaits
<1>6. CASE stop \/ NotifyOne
  BY <1>6 DEF stop, NotifyOne, TypeOK
<1>7. CASE Join
  BY <1>7 DEF Join
<1> QED BY <1>1, <1>2, <1>3, <1>4, <1>5, <1>6, <1>7 DEF Next, Writer

\* The inductive invariant holds in every state of every behaviour.
THEOREM LogInvariance == Spec => []IInv
<1>1. IInv /\ [Next]_vars => IInv'
  BY TypeStep, HandStep, OrderStep, LossStep, SleepStep DEF IInv
<1> QED BY InitInv, <1>1, PTL DEF Spec

\* The state of the logger is well formed.
THEOREM LogTypeOK == Spec => []TypeOK
<1>1. IInv => TypeOK
  BY DEF IInv
<1> QED BY LogInvariance, <1>1, PTL

\* Until a FATAL record comes the logger writes every record once and in the order
\* the threads got the mutex.
THEOREM LogWrittenOnceInOrder == Spec => []WrittenOnceInOrder
<1>1. IInv => WrittenOnceInOrder
  BY DEF IInv
<1> QED BY LogInvariance, <1>1, PTL

\* A FATAL record loses nothing but what the writer had in hand.
THEOREM LogCrashLosesOnlyHand == Spec => []CrashLosesOnlyHand
<1>1. IInv => CrashLosesOnlyHand
  BY DEF IInv, EndLoses, CrashLosesOnlyHand
<1> QED BY LogInvariance, <1>1, PTL

\* The writer sleeps on work only after a notify of stop that came too early.
THEOREM LogSleepsOnlyByMissed == Spec => []SleepsOnlyByMissed
<1>1. IInv => SleepsOnlyByMissed
  BY DEF IInv, Sleeps, SleepsOnlyByMissed
<1> QED BY LogInvariance, <1>1, PTL

------------------------------------------------------------------------------
(* EventLoopThread.  The inductive invariant. *)

\* Only while the functors are called is there a batch.
BatchInCall == loopPc # "functors" => running = <<>>

\* A queued functor has its wakeup, except where the loop is about to take it or
\* to leave.
WakeupPending ==
  loopPc \in {"created", "entering", "check", "poll", "functors"} /\ pending # <<>> =>
    eventFd \/ \E p \in Producers : producer[p] = "queued"

\* A sleeping loop that is told to quit has its wakeup.
QuitPending == loopPc = "poll" /\ isQuited => eventFd \/ owner = "quitting"

LoopInv == LoopTypeOK /\ BatchInCall /\ RunOnceInOrder /\ WakeupPending /\ QuitPending

\* Calling the first functor of a batch moves it from one sequence to the other.
LEMMA AppendHead ==
  ASSUME NEW S, NEW r \in Seq(S), NEW q \in Seq(S), q # <<>>
  PROVE  Append(r, Head(q)) \o Tail(q) = r \o q
<1>1. Head(q) \in S /\ Tail(q) \in Seq(S) /\ Append(r, Head(q)) \in Seq(S)
  BY HeadTailProperties, AppendProperties
<1> DEFINE s == Append(r, Head(q)) \o Tail(q)
           t == r \o q
<1>2. s \in Seq(S) /\ t \in Seq(S)
  BY <1>1
<1>3. Len(s) = Len(t)
  BY <1>1
<1>4. \A i \in 1..Len(s) : s[i] = t[i]
  BY <1>1
<1> HIDE DEF s, t
<1>5. s = t
  BY <1>2, <1>3, <1>4, SeqEqual
<1> QED BY <1>5 DEF s, t

------------------------------------------------------------------------------
(* What the parts of the actions do to the sequences. *)

\* A new functor keeps the types of the queue and the order of everything.
LEMMA PushKeeps ==
  ASSUME LoopTypeOK, PushFunctor
  PROVE  /\ pending' \in Seq(1..MaxJobs) /\ queued' \in Seq(1..MaxJobs)
         /\ Len(queued') <= MaxJobs
         /\ \A s \in Seq(1..MaxJobs) : s \o pending = queued => s \o pending' = queued'
<1> DEFINE n == Len(queued) + 1
<1>1. n \in 1..MaxJobs
  BY LoopAssumption DEF PushFunctor, LoopTypeOK
<1>2. pending' = Append(pending, n) /\ queued' = Append(queued, n)
  BY DEF PushFunctor
<1>3. pending \in Seq(1..MaxJobs) /\ queued \in Seq(1..MaxJobs)
  BY DEF LoopTypeOK
<1>4. Len(queued') <= MaxJobs
  BY <1>1, <1>2, <1>3
<1> HIDE DEF n
<1>5. ASSUME NEW s \in Seq(1..MaxJobs), s \o pending = queued
      PROVE  s \o pending' = queued'
  BY <1>1, <1>2, <1>3, <1>5, AppendLast
<1> QED BY <1>1, <1>2, <1>3, <1>4, <1>5, AppendProperties

\* Calling a functor keeps the types and the order of what was taken.
LEMMA CallKeeps ==
  ASSUME LoopTypeOK, Call
  PROVE  /\ ran' \in Seq(1..MaxJobs) /\ running' \in Seq(1..MaxJobs)
         /\ ran' \o running' = ran \o running
<1>1. ran \in Seq(1..MaxJobs) /\ running \in Seq(1..MaxJobs) /\ running # <<>>
  BY DEF LoopTypeOK, Call
<1>2. ran' = Append(ran, Head(running)) /\ running' = Tail(running)
  BY DEF Call
<1> QED BY <1>1, <1>2, AppendHead, HeadTailProperties, AppendProperties

------------------------------------------------------------------------------
(* The inductive invariant. *)

\* The initial states satisfy it.
LEMMA LoopInitInv == LoopInit => LoopInv
<1> SUFFICES ASSUME LoopInit PROVE LoopInv
  OBVIOUS
<1>1. LoopTypeOK
  <2>1. <<>> \in Seq(1..MaxJobs) /\ Len(<<>>) = 0
    BY EmptySeq
  <2>2. /\ pending \in Seq(1..MaxJobs) /\ running \in Seq(1..MaxJobs)
        /\ ran \in Seq(1..MaxJobs) /\ queued \in Seq(1..MaxJobs) /\ Len(queued) <= MaxJobs
    BY <2>1, LoopAssumption DEF LoopInit
  <2>3. producer \in [Producers -> {"idle", "queued"}]
    BY DEF LoopInit
  <2> QED BY <2>2, <2>3 DEF LoopInit, LoopTypeOK, LoopPcs
<1>2. RunOnceInOrder
  BY DEF LoopInit, RunOnceInOrder
<1> QED BY <1>1, <1>2 DEF LoopInit, LoopInv, BatchInCall, WakeupPending, QuitPending

\* The type invariant is preserved by every step.
LEMMA LoopTypeStep == LoopTypeOK /\ [LoopNext]_loopVars => LoopTypeOK'
<1> SUFFICES ASSUME LoopTypeOK, [LoopNext]_loopVars PROVE LoopTypeOK'
  OBVIOUS
<1> USE DEF LoopTypeOK, LoopPcs, threadVars, queueVars, At
<1>1. ASSUME NEW p \in Producers, Queue(p) PROVE LoopTypeOK'
  BY <1>1, PushKeeps DEF Queue
<1>2. ASSUME NEW p \in Producers, Wakeup(p) PROVE LoopTypeOK'
  BY <1>2 DEF Wakeup
<1>3. CASE Publish \/ Enter \/ Check \/ Woken \/ Returns \/ handleRead
  BY <1>3 DEF Publish, Enter, Check, Woken, Returns, handleRead
<1>4. CASE Callback
  BY <1>4, PushKeeps DEF Callback
<1>5. CASE Take
  BY <1>5, EmptySeq DEF Take
<1>6. CASE RunFunctor
  BY <1>6, CallKeeps DEF RunFunctor, Call
<1>7. CASE RunAndQueue
  <2>1. Call /\ PushFunctor
    BY <1>7 DEF RunAndQueue
  <2>2. /\ ran' \in Seq(1..MaxJobs) /\ running' \in Seq(1..MaxJobs)
        /\ pending' \in Seq(1..MaxJobs) /\ queued' \in Seq(1..MaxJobs) /\ Len(queued') <= MaxJobs
    BY <2>1, CallKeeps, PushKeeps
  <2>3. UNCHANGED <<loopPc, isQuited, loopPtr, calling, producer, owner, early>>
    BY <2>1 DEF Call
  <2>4. eventFd' \in BOOLEAN
    BY <1>7 DEF RunAndQueue
  <2> QED BY <2>2, <2>3, <2>4
<1>8. CASE Done \/ Leave
  BY <1>8 DEF Done, Leave
<1>9. CASE startLoop \/ Quit \/ QuitWakes \/ JoinThread
  BY <1>9 DEF startLoop, Quit, QuitWakes, JoinThread
<1>10. CASE UNCHANGED loopVars
  BY <1>10 DEF loopVars
<1> QED
  BY <1>1, <1>2, <1>3, <1>4, <1>5, <1>6, <1>7, <1>8, <1>9, <1>10 DEF LoopNext, LoopThread, Owner

\* No functor is lost, called twice or called out of turn by any step.
LEMMA LoopOrderStep ==
  LoopTypeOK /\ BatchInCall /\ RunOnceInOrder /\ [LoopNext]_loopVars
    => BatchInCall' /\ RunOnceInOrder'
<1> SUFFICES ASSUME LoopTypeOK, BatchInCall, RunOnceInOrder, [LoopNext]_loopVars
             PROVE  BatchInCall' /\ RunOnceInOrder'
  OBVIOUS
<1> DEFINE taken == ran \o running
<1>1. taken \in Seq(1..MaxJobs) /\ pending \in Seq(1..MaxJobs) /\ taken \o pending = queued
  BY ConcatProperties DEF LoopTypeOK, RunOnceInOrder
<1>2. ASSUME NEW p \in Producers, Queue(p) PROVE BatchInCall' /\ RunOnceInOrder'
  <2>1. taken' = taken /\ UNCHANGED <<running, loopPc>> /\ PushFunctor
    BY <1>2 DEF Queue, threadVars
  <2> QED BY <1>1, <2>1, PushKeeps DEF RunOnceInOrder, BatchInCall
<1>3. CASE Callback
  <2>1. taken' = taken /\ UNCHANGED <<running, loopPc>> /\ PushFunctor
    BY <1>3 DEF Callback, threadVars
  <2> QED BY <1>1, <2>1, PushKeeps DEF RunOnceInOrder, BatchInCall
<1>4. CASE Take
  <2>1. running = <<>> /\ running' = pending /\ pending' = <<>> /\ UNCHANGED <<ran, queued>>
    BY <1>4 DEF Take, At, BatchInCall
  <2>2. ran \in Seq(1..MaxJobs) /\ ran \o running = ran
    BY <2>1, ConcatEmptySeq DEF LoopTypeOK
  <2>3. ran' \o running' = queued
    BY <1>1, <2>1, <2>2
  <2>4. (ran' \o running') \o <<>> = ran' \o running'
    BY <1>1, <2>1, <2>2, ConcatEmptySeq, ConcatProperties
  <2>5. loopPc' = "functors"
    BY <1>4 DEF Take, At
  <2> QED BY <2>1, <2>3, <2>4, <2>5 DEF RunOnceInOrder, BatchInCall
<1>5. CASE RunFunctor
  <2>1. taken' = taken /\ UNCHANGED <<pending, queued>>
    BY <1>5, CallKeeps DEF RunFunctor, queueVars
  <2>2. BatchInCall'
    BY <1>5 DEF RunFunctor, Call, BatchInCall
  <2> QED BY <1>1, <2>1, <2>2 DEF RunOnceInOrder
<1>6. CASE RunAndQueue
  <2>1. taken' = taken /\ PushFunctor
    BY <1>6, CallKeeps DEF RunAndQueue
  <2>2. BatchInCall'
    BY <1>6 DEF RunAndQueue, Call, BatchInCall
  <2>3. taken \o pending' = queued'
    BY <1>1, <2>1, PushKeeps
  <2> QED BY <2>1, <2>2, <2>3 DEF RunOnceInOrder
<1>7. ASSUME UNCHANGED <<ran, running, pending, queued>>,
             loopPc' # "functors" => loopPc # "functors" \/ running = <<>>
      PROVE  BatchInCall' /\ RunOnceInOrder'
  BY <1>7 DEF BatchInCall, RunOnceInOrder
<1>8. ASSUME NEW p \in Producers, Wakeup(p)
      PROVE  UNCHANGED <<ran, running, pending, queued, loopPc>>
  BY <1>8 DEF Wakeup, threadVars, queueVars
<1>9. ASSUME Publish \/ Enter \/ Check \/ Woken \/ Returns \/ handleRead \/ Done \/ Leave
      PROVE  /\ UNCHANGED <<ran, running, pending, queued>>
             /\ loopPc # "functors" \/ running = <<>>
  BY <1>9 DEF Publish, Enter, Check, Woken, Returns, handleRead, Done, Leave, At, queueVars
<1>10. ASSUME Owner \/ UNCHANGED loopVars
       PROVE  UNCHANGED <<ran, running, pending, queued, loopPc>>
  BY <1>10 DEF Owner, startLoop, Quit, QuitWakes, JoinThread, loopVars, threadVars, queueVars
<1> QED
  BY <1>2, <1>3, <1>4, <1>5, <1>6, <1>7, <1>8, <1>9, <1>10 DEF LoopNext, LoopThread

\* No step separates a waiting functor or a quit from its wakeup.
LEMMA WakeupStep ==
  LoopTypeOK /\ WakeupPending /\ QuitPending /\ [LoopNext]_loopVars
    => WakeupPending' /\ QuitPending'
<1> SUFFICES ASSUME LoopTypeOK, WakeupPending, QuitPending, [LoopNext]_loopVars
             PROVE  WakeupPending' /\ QuitPending'
  OBVIOUS
<1> USE DEF WakeupPending, QuitPending, threadVars, queueVars, At
<1>1. ASSUME NEW p \in Producers, Queue(p) PROVE WakeupPending' /\ QuitPending'
  <2>1. producer'[p] = "queued"
    BY <1>1 DEF Queue, LoopTypeOK
  <2>2. UNCHANGED <<loopPc, isQuited, eventFd, owner>>
    BY <1>1 DEF Queue
  <2> QED BY <2>1, <2>2
<1>2. ASSUME NEW p \in Producers, Wakeup(p) PROVE WakeupPending' /\ QuitPending'
  BY <1>2 DEF Wakeup
<1>3. CASE Publish \/ Enter \/ Leave
  BY <1>3 DEF Publish, Enter, Leave
<1>4. CASE Check
  BY <1>4 DEF Check
<1>5. CASE Woken \/ Returns \/ handleRead
  BY <1>5 DEF Woken, Returns, handleRead
<1>6. CASE Callback
  BY <1>6 DEF Callback
<1>7. CASE Take
  BY <1>7 DEF Take
<1>8. CASE RunFunctor
  BY <1>8 DEF RunFunctor, Call
<1>9. CASE RunAndQueue
  <2>1. loopPc = "functors" /\ loopPc' = "functors"
    BY <1>9 DEF RunAndQueue, Call
  <2>2. eventFd'
    BY <1>9, <2>1 DEF RunAndQueue, LoopTypeOK
  <2> QED BY <2>1, <2>2
<1>10. CASE Done
  BY <1>10 DEF Done
<1>11. CASE Owner
  BY <1>11 DEF Owner, startLoop, Quit, QuitWakes, JoinThread
<1>12. CASE UNCHANGED loopVars
  BY <1>12 DEF loopVars
<1> QED
  BY <1>1, <1>2, <1>3, <1>4, <1>5, <1>6, <1>7, <1>8, <1>9, <1>10, <1>11, <1>12
     DEF LoopNext, LoopThread

\* The inductive invariant holds in every state of every behaviour.
THEOREM LoopInvariance == LoopSpec => []LoopInv
<1>1. LoopInv /\ [LoopNext]_loopVars => LoopInv'
  BY LoopTypeStep, LoopOrderStep, WakeupStep DEF LoopInv
<1> QED BY LoopInitInv, <1>1, PTL DEF LoopSpec

\* The worker loop is type correct: in particular m_callingPendingFunctors is set
\* exactly while doPendingFunctors calls functors.
THEOREM LoopTypeCorrect == LoopSpec => []LoopTypeOK
<1>1. LoopInv => LoopTypeOK
  BY DEF LoopInv
<1> QED BY LoopInvariance, <1>1, PTL

\* Functors queued to a loop, by whomever, are called once each and in the order
\* queueInLoop put them in.
THEOREM LoopRunOnceInOrder == LoopSpec => []RunOnceInOrder
<1>1. LoopInv => RunOnceInOrder
  BY DEF LoopInv
<1> QED BY LoopInvariance, <1>1, PTL

\* The loop never waits in epoll_wait with work or a quit that nobody will wake
\* it up for.
THEOREM LoopNoLostWakeup == LoopSpec => []NoLostWakeup
<1>1. LoopInv => NoLostWakeup
  BY DEF LoopInv, WakeupPending, QuitPending, NoLostWakeup
<1> QED BY LoopInvariance, <1>1, PTL
==============================================================================
