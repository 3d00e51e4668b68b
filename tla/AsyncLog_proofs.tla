--------------------------- MODULE AsyncLog_proofs ---------------------------
(***************************************************************************)
(* Theorems about AsyncLog, for any size of the buffers, number of files   *)
(* and bounds: its types; that the writer never runs out of buffers; that  *)
(* records are written once and in the order of the calls, also over the   *)
(* renaming of files, crashes and restarts; and what stop can lose.        *)
(***************************************************************************)
EXTENDS AsyncLog, SequenceTheorems, TLAPS

Records == 1..MaxRecords

\* The part of the types that is LogFile's.
FileOK == /\ disk \in [0..logFileCount - 1 -> Seq(Records)]
          /\ fileCount \in 0..logFileCount - 1 /\ hadWritten \in Nat
          /\ flushed \in 0..Len(disk[0])

\* The rest of them.
OwnOK == /\ working \in BOOLEAN /\ nex \in BOOLEAN /\ new1 \in BOOLEAN /\ new2 \in BOOLEAN
         /\ thread \in {"testing", "entering", "waiting", "writing", "leaving", "ended"}
         /\ stopper \in {"running", "joining", "stopped", "crashed"}
         /\ cur \in Seq(Records) /\ written \in Seq(Records)
         /\ buffers \in Seq(Seq(Records)) /\ toWrite \in Seq(Seq(Records))
         /\ done \in 0..Len(toWrite)
         /\ appended \in 0..MaxRecords /\ gone \in 0..appended /\ atStop \in 0..appended

\* The next buffer is missing only if one was put aside since the last exchange.
NextGoneOnlyIfAside == ~nex => Len(buffers) >= 1

IInv == FileOK /\ OwnOK /\ NextGoneOnlyIfAside /\ BuffersSuffice

LEMMA TypeSplit == TypeOK <=> FileOK /\ OwnOK
BY DEF TypeOK, FileOK, OwnOK, Records

LEMMA InitInv == Init => IInv
<1> SUFFICES ASSUME Init PROVE IInv
  OBVIOUS
<1>1. FileOK
  BY FileAssumption DEF Init, FileInit, FileOK
<1>2. OwnOK /\ NextGoneOnlyIfAside /\ BuffersSuffice
  BY AsyncAssumption DEF Init, OwnOK, NextGoneOnlyIfAside, BuffersSuffice
<1> QED BY <1>1, <1>2 DEF IInv

----------------------------------------------------------------------------
\* LogFile keeps its types whatever records it is given.
LEMMA FileAppendOK == ASSUME FileOK, NEW b \in Seq(Records), FileAppend(b) PROVE FileOK'
<1> DEFINE d == [disk EXCEPT ![0] = disk[0] \o b]
           n == IF fileCount + 1 > logFileCount - 1 THEN fileCount ELSE fileCount + 1
<1>1. 0 \in 0..logFileCount - 1 /\ Len(b) \in Nat
  BY FileAssumption, LenProperties
<1>2. disk[0] \o b \in Seq(Records) /\ Len(disk[0] \o b) = Len(disk[0]) + Len(b)
  BY <1>1, ConcatProperties DEF FileOK
<1>3. d \in [0..logFileCount - 1 -> Seq(Records)] /\ d[0] = disk[0] \o b
  BY <1>1, <1>2 DEF FileOK
<1>4. n \in 0..logFileCount - 1
  BY FileAssumption DEF FileOK
<1>5. hadWritten' = hadWritten + Len(b) /\ hadWritten' \in Nat
  BY <1>1 DEF FileAppend, FileOK
<1>6. CASE hadWritten' >= RollSize
  <2>1. fileCount' = n /\ disk' = Renamed(d, n) /\ flushed' = 0
    BY <1>6 DEF FileAppend
  <2>2. Renamed(d, n) \in [0..logFileCount - 1 -> Seq(Records)]
    <3> SUFFICES ASSUME NEW k \in 0..logFileCount - 1
                 PROVE  (IF k = 0 THEN <<>> ELSE IF k <= n THEN d[k - 1] ELSE d[k]) \in Seq(Records)
      BY DEF Renamed
    <3>1. k # 0 => k - 1 \in 0..logFileCount - 1
      BY FileAssumption
    <3> QED BY <1>3, <3>1, EmptySeq
  <2>3. Renamed(d, n)[0] = <<>>
    BY <1>1 DEF Renamed
  <2>4. flushed' \in 0..Len(disk'[0])
    BY <2>1, <2>3
  <2>5. disk' \in [0..logFileCount - 1 -> Seq(Records)] /\ fileCount' \in 0..logFileCount - 1
    BY <1>4, <2>1, <2>2
  <2> QED BY <1>5, <2>4, <2>5 DEF FileOK
<1>7. CASE ~(hadWritten' >= RollSize)
  <2>1. disk' = d /\ UNCHANGED <<fileCount, flushed>>
    BY <1>7 DEF FileAppend
  <2>2. Len(disk[0]) \in Nat
    BY <1>1, LenProperties DEF FileOK
  <2> QED BY <1>1, <1>2, <1>3, <1>5, <2>1, <2>2 DEF FileOK
<1> QED BY <1>6, <1>7

LEMMA FlushOK == ASSUME FileOK, flush PROVE FileOK'
<1>1. disk[0] \in Seq(Records)
  BY FileAssumption DEF FileOK
<1> QED BY <1>1, LenProperties DEF FileOK, flush

LEMMA FileCutOK == ASSUME FileOK, FileCut PROVE FileOK'
<1>1. PICK n \in flushed..Len(disk[0]) : disk' = [disk EXCEPT ![0] = SubSeq(disk[0], 1, n)]
  BY DEF FileCut
<1>2. 0 \in 0..logFileCount - 1 /\ disk[0] \in Seq(Records) /\ Len(disk[0]) \in Nat
  BY FileAssumption, LenProperties DEF FileOK
<1>3. n \in 0..Len(disk[0]) /\ flushed \in 0..n
  BY <1>2 DEF FileOK
<1>4. SubSeq(disk[0], 1, n) \in Seq(Records) /\ Len(SubSeq(disk[0], 1, n)) = n
  BY <1>2, <1>3
<1>5. disk' \in [0..logFileCount - 1 -> Seq(Records)] /\ disk'[0] = SubSeq(disk[0], 1, n)
  BY <1>1, <1>2, <1>4 DEF FileOK
<1> QED BY <1>3, <1>4, <1>5 DEF FileOK, FileCut

LEMMA FileOpenOK == ASSUME FileOK, FileOpen PROVE FileOK'
<1>1. disk[0] \in Seq(Records)
  BY FileAssumption DEF FileOK
<1> QED BY <1>1, FileAssumption, LenProperties DEF FileOK, FileOpen

----------------------------------------------------------------------------
\* append.
LEMMA IntoOK == ASSUME NEW b \in Seq(Records), NEW len, NEW r \in Records
                PROVE  Into(b, len, r) \in Seq(Records)
BY AppendProperties DEF Into

LEMMA AppendInv == ASSUME IInv, NEW len \in {1, Size}, append(len) PROVE IInv'
<1> USE DEF IInv
<1> DEFINE r == appended + 1
<1>1. r \in Records /\ appended' = r
  BY AsyncAssumption DEF append, OwnOK, Records
<1>2. FileOK'
  BY DEF append, fileVars, FileOK
<1>3. UNCHANGED <<thread, new1, new2, toWrite, done, written, working, stopper, atStop, gone>>
  BY DEF append, threadVars, stopVars, countVars
<1>4. CASE vaild(cur) > len
  <2>1. cur' = Into(cur, len, r) /\ UNCHANGED <<nex, buffers>>
    BY <1>4 DEF append
  <2>2. cur' \in Seq(Records)
    BY <1>1, <2>1, IntoOK DEF OwnOK
  <2>3. OwnOK'
    BY <1>1, <1>3, <2>1, <2>2 DEF OwnOK, Records
  <2> QED BY <1>2, <1>3, <2>1, <2>3 DEF NextGoneOnlyIfAside, BuffersSuffice
<1>5. CASE ~(vaild(cur) > len)
  <2>1. buffers' = Append(buffers, cur) /\ nex' = FALSE /\ cur' = Into(<<>>, len, r)
    BY <1>5 DEF append, Rotate
  <2>2. cur' \in Seq(Records)
    BY <1>1, <2>1, IntoOK, EmptySeq
  <2>3. buffers' \in Seq(Seq(Records)) /\ Len(buffers') >= 1
    BY <2>1, AppendProperties, LenProperties DEF OwnOK
  <2>4. OwnOK'
    <3>1. nex' \in BOOLEAN
      BY <2>1
    <3>2. appended' \in 0..MaxRecords /\ gone' \in 0..appended' /\ atStop' \in 0..appended'
      BY <1>1, <1>3 DEF OwnOK, Records
    <3> QED BY <1>3, <2>2, <2>3, <3>1, <3>2 DEF OwnOK
  <2> QED BY <1>2, <1>3, <2>3, <2>4 DEF NextGoneOnlyIfAside, BuffersSuffice
<1> QED BY <1>4, <1>5

----------------------------------------------------------------------------
\* asyncLogThread.  After an exchange there are as many buffers to write as the
\* thread has to replace.
LEMMA SwapInv == ASSUME IInv, Swap PROVE IInv'
<1> USE DEF IInv
<1>1. FileOK'
  BY DEF Swap, fileVars, FileOK
<1>2. thread \in {"waiting", "entering"} /\ new1 /\ new2
  BY DEF Swap, BuffersSuffice
<1>3. toWrite' \in Seq(Seq(Records)) /\ Len(toWrite') = Len(buffers) + 1 /\ Len(buffers) \in Nat
  BY AppendProperties, LenProperties DEF Swap, OwnOK
<1>4. /\ thread' = "writing" /\ buffers' = <<>> /\ cur' = <<>> /\ done' = 0 /\ new1' = FALSE
      /\ nex' = TRUE /\ new2' \in BOOLEAN /\ (nex => new2')
  BY <1>2 DEF Swap
<1>5. UNCHANGED <<working, stopper, written, appended, gone, atStop>>
  BY DEF Swap, stopVars, countVars
<1>6. <<>> \in Seq(Records) /\ <<>> \in Seq(Seq(Records)) /\ 0 \in 0..Len(toWrite')
  BY <1>3, EmptySeq
<1>7. OwnOK'
  BY <1>3, <1>4, <1>5, <1>6 DEF OwnOK
<1>8. BuffersSuffice'
  BY <1>3, <1>4 DEF BuffersSuffice, NextGoneOnlyIfAside
<1>9. NextGoneOnlyIfAside'
  BY <1>4 DEF NextGoneOnlyIfAside
<1> QED BY <1>1, <1>7, <1>8, <1>9

LEMMA WriteInv == ASSUME IInv, Write PROVE IInv'
<1> USE DEF IInv
<1> DEFINE b == toWrite[done + 1]
<1>1. done + 1 \in 1..Len(toWrite) /\ Len(toWrite) \in Nat
  BY LenProperties DEF Write, OwnOK
<1>2. b \in Seq(Records)
  BY <1>1, ElementOfSeq DEF OwnOK
<1>3. FileOK'
  BY <1>2, FileAppendOK DEF Write, fileVars, FileOK
<1>4. written' \in Seq(Records)
  BY <1>2, ConcatProperties DEF Write, OwnOK
<1>5. OwnOK'
  BY <1>1, <1>4 DEF Write, OwnOK, bufferVars, stopVars, countVars
<1> QED BY <1>3, <1>5 DEF Write, bufferVars, BuffersSuffice, NextGoneOnlyIfAside

LEMMA RefillInv == ASSUME IInv, Refill PROVE IInv'
<1> USE DEF IInv
<1>1. Len(toWrite) \in Nat /\ thread = "writing" /\ thread' = "testing"
  BY LenProperties DEF Refill, At, OwnOK
<1>2. new1' /\ new2'
  <2> DEFINE spare == IF Len(toWrite) > 2 THEN 2 ELSE Len(toWrite)
  <2>1. spare > 0 /\ (new2 \/ spare > 1)
    BY <1>1 DEF BuffersSuffice
  <2>2. new1' = (new1 \/ spare > 0) /\ new2' = (new2 \/ spare > (IF new1 THEN 0 ELSE 1))
    BY DEF Refill
  <2> HIDE DEF spare
  <2>3. CASE new1
    BY <2>1, <2>2, <2>3
  <2>4. CASE ~new1
    BY <2>1, <2>2, <2>4
  <2> QED BY <2>3, <2>4
<1>3. FileOK'
  BY FlushOK DEF Refill
<1>4. OwnOK'
  BY <1>1, <1>2, EmptySeq DEF Refill, OwnOK, bufferVars, stopVars, countVars
<1> QED BY <1>1, <1>2, <1>3, <1>4 DEF Refill, bufferVars, BuffersSuffice, NextGoneOnlyIfAside

\* Test, Wait and Leave keep all buffers.
LEMMA MovesInv == ASSUME IInv, Test \/ Wait \/ Leave PROVE IInv'
<1> USE DEF IInv
<1>1. FileOK'
  BY FlushOK DEF Test, Wait, Leave, fileVars, FileOK
<1>2. OwnOK'
  BY DEF Test, Wait, Leave, At, OwnOK, bufferVars, stopVars, countVars
<1>3. BuffersSuffice' /\ NextGoneOnlyIfAside'
  BY DEF Test, Wait, Leave, At, bufferVars, BuffersSuffice, NextGoneOnlyIfAside
<1> QED BY <1>1, <1>2, <1>3

\* The caller of stop, crashes, and stuttering.
LEMMA StopsInv == ASSUME IInv, stop \/ Join \/ Crash \/ UNCHANGED vars PROVE IInv'
<1> USE DEF IInv
<1>1. FileOK'
  BY FileCutOK DEF stop, Join, Crash, vars, fileVars, FileOK
<1>2. OwnOK'
  <2>1. UNCHANGED <<bufferVars, threadVars, appended, gone>>
        /\ working' \in {working, FALSE}
        /\ stopper' \in {stopper, "joining", "stopped", "crashed"}
        /\ atStop' \in {atStop, appended}
    BY DEF stop, Join, Crash, vars, bufferVars, threadVars, countVars, stopVars
  <2>2. atStop' \in 0..appended'
    BY <2>1 DEF OwnOK
  <2> QED BY <2>1, <2>2 DEF OwnOK, bufferVars, threadVars
<1>3. BuffersSuffice' /\ NextGoneOnlyIfAside'
  BY DEF stop, Join, Crash, vars, bufferVars, threadVars, BuffersSuffice, NextGoneOnlyIfAside
<1> QED BY <1>1, <1>2, <1>3

LEMMA RestartInv == ASSUME IInv, Restart PROVE IInv'
<1> USE DEF IInv
<1>1. FileOK'
  BY FileOpenOK DEF Restart
<1>2. OwnOK'
  BY EmptySeq DEF Restart, OwnOK
<1>3. BuffersSuffice' /\ NextGoneOnlyIfAside'
  BY DEF Restart, BuffersSuffice, NextGoneOnlyIfAside
<1> QED BY <1>1, <1>2, <1>3

----------------------------------------------------------------------------
(* Buffers, and sequences of buffers.                                      *)
Sorted(b) == \A i, j \in 1..Len(b) : i < j => b[i] < b[j]
Less(S, T) == \A x \in S, y \in T : x < y

\* Buffers each of which is sorted, and older than those after it.
Chained(Q) == \A i \in 1..Len(Q) :
  /\ Sorted(Q[i])
  /\ \A j \in 1..Len(Q) : i < j => Less(InBuffer(Q[i]), InBuffer(Q[j]))

LEMMA InBufferRecords == ASSUME NEW b \in Seq(Records) PROVE InBuffer(b) \subseteq Records
BY ElementOfSeq DEF InBuffer

LEMMA EmptyBuffer == /\ <<>> \in Seq(Records) /\ InBuffer(<<>>) = {} /\ Sorted(<<>>)
                     /\ InBuffers(<<>>) = {} /\ Chained(<<>>)
BY EmptySeq DEF InBuffer, InBuffers, Sorted, Chained

LEMMA AppendBuffer ==
  ASSUME NEW b \in Seq(Records), NEW r \in Records
  PROVE  /\ Append(b, r) \in Seq(Records)
         /\ InBuffer(Append(b, r)) = InBuffer(b) \cup {r}
         /\ Sorted(b) /\ Less(InBuffer(b), {r}) => Sorted(Append(b, r))
<1> DEFINE c == Append(b, r)
<1>1. /\ c \in Seq(Records) /\ Len(b) \in Nat /\ Len(c) = Len(b) + 1
      /\ \A i \in 1..Len(b) : c[i] = b[i]
      /\ c[Len(b) + 1] = r
  BY AppendProperties, LenProperties
<1> HIDE DEF c
<1>2. InBuffer(c) = InBuffer(b) \cup {r}
  <2>1. \A i : i \in 1..Len(c) <=> (i \in 1..Len(b) \/ i = Len(b) + 1)
    BY <1>1
  <2> QED BY <1>1, <2>1 DEF InBuffer
<1>3. ASSUME Sorted(b), Less(InBuffer(b), {r}), NEW i \in 1..Len(c), NEW j \in 1..Len(c), i < j
      PROVE  c[i] < c[j]
  <2>1. i \in 1..Len(b) /\ (j \in 1..Len(b) \/ j = Len(b) + 1)
    BY <1>1, <1>3
  <2>2. b[i] \in InBuffer(b)
    BY <2>1 DEF InBuffer
  <2>3. b[i] < r
    BY <2>2, <1>3 DEF Less
  <2> QED BY <1>1, <1>3, <2>1, <2>3 DEF Sorted
<1> QED BY <1>1, <1>2, <1>3 DEF Sorted, c

LEMMA ConcatBuffer ==
  ASSUME NEW b \in Seq(Records), NEW c \in Seq(Records)
  PROVE  /\ b \o c \in Seq(Records)
         /\ InBuffer(b \o c) = InBuffer(b) \cup InBuffer(c)
         /\ Sorted(b) /\ Sorted(c) /\ Less(InBuffer(b), InBuffer(c)) => Sorted(b \o c)
<1> DEFINE d == b \o c
<1>1. /\ d \in Seq(Records) /\ Len(b) \in Nat /\ Len(c) \in Nat /\ Len(d) = Len(b) + Len(c)
      /\ \A i \in 1..Len(b) + Len(c) : d[i] = IF i <= Len(b) THEN b[i] ELSE c[i - Len(b)]
  BY ConcatProperties, LenProperties
<1> HIDE DEF d
<1>2. ASSUME NEW i \in 1..Len(d)
      PROVE  \/ i \in 1..Len(b) /\ d[i] = b[i]
             \/ i - Len(b) \in 1..Len(c) /\ d[i] = c[i - Len(b)]
  BY <1>1
<1>3. ASSUME NEW i \in 1..Len(c) PROVE Len(b) + i \in 1..Len(d) /\ d[Len(b) + i] = c[i]
  BY <1>1
<1>4. ASSUME NEW i \in 1..Len(b) PROVE i \in 1..Len(d) /\ d[i] = b[i]
  BY <1>1
<1>5. InBuffer(d) \subseteq InBuffer(b) \cup InBuffer(c)
  BY <1>2 DEF InBuffer
<1>6. InBuffer(b) \cup InBuffer(c) \subseteq InBuffer(d)
  BY <1>3, <1>4 DEF InBuffer
<1>7. ASSUME Sorted(b), Sorted(c), Less(InBuffer(b), InBuffer(c)),
             NEW i \in 1..Len(d), NEW j \in 1..Len(d), i < j
      PROVE  d[i] < d[j]
  <2>1. CASE i \in 1..Len(b) /\ j \in 1..Len(b)
    BY <1>4, <1>7, <2>1 DEF Sorted
  <2>2. CASE i \in 1..Len(b) /\ j \notin 1..Len(b)
    <3>1. d[i] \in InBuffer(b) /\ d[j] \in InBuffer(c)
      BY <1>2, <1>4, <2>2 DEF InBuffer
    <3> QED BY <1>7, <3>1 DEF Less
  <2>3. CASE i \notin 1..Len(b)
    <3>1. j \notin 1..Len(b)
      BY <1>1, <1>7, <2>3
    <3>2. /\ i - Len(b) \in 1..Len(c) /\ d[i] = c[i - Len(b)]
          /\ j - Len(b) \in 1..Len(c) /\ d[j] = c[j - Len(b)]
      BY <1>2, <2>3, <3>1
    <3>3. i - Len(b) < j - Len(b)
      BY <1>1, <1>7
    <3> QED BY <1>7, <3>2, <3>3 DEF Sorted
  <2> QED BY <2>1, <2>2, <2>3
<1> QED BY <1>1, <1>5, <1>6, <1>7 DEF Sorted, d

LEMMA PrefixBuffer ==
  ASSUME NEW b \in Seq(Records), NEW n \in 0..Len(b)
  PROVE  /\ InBuffer(SubSeq(b, 1, n)) \subseteq InBuffer(b)
         /\ Sorted(b) => Sorted(SubSeq(b, 1, n))
<1> DEFINE c == SubSeq(b, 1, n)
<1>1. Len(b) \in Nat
  BY LenProperties
<1>2. \A i \in 1..n : b[i] \in Records
  BY <1>1, ElementOfSeq
<1>3. /\ Len(c) = IF 1 <= n THEN n - 1 + 1 ELSE 0
      /\ \A i \in 1..n - 1 + 1 : c[i] = b[1 + i - 1]
  BY <1>1, <1>2, SubSeqProperties
<1> HIDE DEF c
<1>4. Len(c) = n /\ \A i \in 1..n : i \in 1..Len(b) /\ c[i] = b[i]
  BY <1>1, <1>3
<1> QED BY <1>4 DEF InBuffer, Sorted, c

\* A buffer behind a sequence of buffers.
LEMMA AppendQueue ==
  ASSUME NEW Q \in Seq(Seq(Records)), NEW c \in Seq(Records)
  PROVE  /\ Append(Q, c) \in Seq(Seq(Records))
         /\ InBuffers(Append(Q, c)) = InBuffers(Q) \cup InBuffer(c)
         /\ Chained(Append(Q, c)) <=> Chained(Q) /\ Sorted(c) /\ Less(InBuffers(Q), InBuffer(c))
<1> DEFINE R == Append(Q, c)
<1>1. /\ R \in Seq(Seq(Records)) /\ Len(Q) \in Nat /\ Len(R) = Len(Q) + 1
      /\ \A i \in 1..Len(Q) : R[i] = Q[i]
      /\ R[Len(Q) + 1] = c
  BY AppendProperties, LenProperties
<1> HIDE DEF R
<1>2. \A i : i \in 1..Len(R) <=> (i \in 1..Len(Q) \/ i = Len(Q) + 1)
  BY <1>1
<1>3. InBuffers(R) = InBuffers(Q) \cup InBuffer(c)
  <2>1. \A x : x \in InBuffers(R) <=> \E i \in 1..Len(R) : x \in InBuffer(R[i])
    BY DEF InBuffers
  <2>2. \A x : x \in InBuffers(Q) <=> \E i \in 1..Len(Q) : x \in InBuffer(Q[i])
    BY DEF InBuffers
  <2> QED BY <1>1, <1>2, <2>1, <2>2
<1>4. ASSUME Chained(R) PROVE Chained(Q) /\ Sorted(c) /\ Less(InBuffers(Q), InBuffer(c))
  <2>1. Chained(Q) /\ Sorted(c)
    BY <1>1, <1>2, <1>4 DEF Chained
  <2>2. ASSUME NEW i \in 1..Len(Q) PROVE Less(InBuffer(Q[i]), InBuffer(c))
    <3>1. i \in 1..Len(R) /\ Len(Q) + 1 \in 1..Len(R) /\ i < Len(Q) + 1
      BY <1>1, <1>2
    <3> QED BY <1>1, <1>4, <3>1 DEF Chained
  <2> QED BY <2>1, <2>2 DEF Less, InBuffers
<1>5. ASSUME Chained(Q), Sorted(c), Less(InBuffers(Q), InBuffer(c)) PROVE Chained(R)
  <2>1. ASSUME NEW i \in 1..Len(R) PROVE Sorted(R[i])
    BY <1>1, <1>2, <1>5 DEF Chained
  <2>2. ASSUME NEW i \in 1..Len(R), NEW j \in 1..Len(R), i < j
        PROVE  Less(InBuffer(R[i]), InBuffer(R[j]))
    <3>1. i \in 1..Len(Q) /\ R[i] = Q[i]
      BY <1>1, <1>2, <2>2
    <3>2. CASE j \in 1..Len(Q)
      BY <1>1, <1>5, <2>2, <3>1, <3>2 DEF Chained
    <3>3. CASE j = Len(Q) + 1
      <4>1. InBuffer(R[i]) \subseteq InBuffers(Q)
        BY <3>1 DEF InBuffers
      <4> QED BY <1>1, <1>5, <3>3, <4>1 DEF Less
    <3> QED BY <1>2, <3>2, <3>3
  <2> QED BY <2>1, <2>2 DEF Chained
<1> QED BY <1>1, <1>3, <1>4, <1>5 DEF R

\* A buffer in front of one.
LEMMA QueueAfter ==
  ASSUME NEW Q \in Seq(Seq(Records)), NEW b \in Seq(Records)
  PROVE  /\ <<b>> \o Q \in Seq(Seq(Records))
         /\ InBuffers(<<b>> \o Q) = InBuffer(b) \cup InBuffers(Q)
         /\ Chained(<<b>> \o Q) <=> Sorted(b) /\ Less(InBuffer(b), InBuffers(Q)) /\ Chained(Q)
<1> DEFINE R == <<b>> \o Q
<1>1. <<b>> \in Seq(Seq(Records)) /\ Len(<<b>>) = 1
  OBVIOUS
<1>2. /\ R \in Seq(Seq(Records)) /\ Len(Q) \in Nat /\ Len(R) = 1 + Len(Q)
      /\ \A i \in 1..1 + Len(Q) : R[i] = IF i <= 1 THEN <<b>>[i] ELSE Q[i - 1]
  BY <1>1, ConcatProperties, LenProperties
<1> HIDE DEF R
<1>3. R[1] = b /\ 1 \in 1..Len(R)
  BY <1>2
<1>4. ASSUME NEW i \in 1..Len(Q) PROVE i + 1 \in 1..Len(R) /\ R[i + 1] = Q[i] /\ 1 < i + 1
  BY <1>2
<1>5. ASSUME NEW i \in 1..Len(R)
      PROVE  i = 1 \/ (i - 1 \in 1..Len(Q) /\ R[i] = Q[i - 1])
  BY <1>2
<1>6. InBuffers(R) = InBuffer(b) \cup InBuffers(Q)
  <2>1. \A x : x \in InBuffers(R) <=> \E i \in 1..Len(R) : x \in InBuffer(R[i])
    BY DEF InBuffers
  <2>2. \A x : x \in InBuffers(Q) <=> \E i \in 1..Len(Q) : x \in InBuffer(Q[i])
    BY DEF InBuffers
  <2> QED BY <1>3, <1>4, <1>5, <2>1, <2>2
<1>7. ASSUME Chained(R) PROVE Sorted(b) /\ Less(InBuffer(b), InBuffers(Q)) /\ Chained(Q)
  <2>1. Sorted(b) /\ \A i \in 1..Len(Q) : Sorted(Q[i])
    BY <1>3, <1>4, <1>7 DEF Chained
  <2>2. ASSUME NEW i \in 1..Len(Q) PROVE Less(InBuffer(b), InBuffer(Q[i]))
    BY <1>3, <1>4, <1>7 DEF Chained
  <2>3. ASSUME NEW i \in 1..Len(Q), NEW j \in 1..Len(Q), i < j
        PROVE  Less(InBuffer(Q[i]), InBuffer(Q[j]))
    <3>1. i + 1 < j + 1
      BY <1>2, <2>3
    <3>2. i + 1 \in 1..Len(R) /\ R[i + 1] = Q[i] /\ j + 1 \in 1..Len(R) /\ R[j + 1] = Q[j]
      BY <1>4
    <3>3. Less(InBuffer(R[i + 1]), InBuffer(R[j + 1]))
      BY <1>7, <3>1, <3>2 DEF Chained
    <3> QED BY <3>2, <3>3
  <2>4. Less(InBuffer(b), InBuffers(Q))
    BY <2>2 DEF Less, InBuffers
  <2> QED BY <2>1, <2>3, <2>4 DEF Chained
<1>8. ASSUME Sorted(b), Less(InBuffer(b), InBuffers(Q)), Chained(Q) PROVE Chained(R)
  <2>1. ASSUME NEW i \in 1..Len(R) PROVE Sorted(R[i])
    BY <1>3, <1>5, <1>8 DEF Chained
  <2>2. ASSUME NEW i \in 1..Len(R), NEW j \in 1..Len(R), i < j
        PROVE  Less(InBuffer(R[i]), InBuffer(R[j]))
    <3>1. j - 1 \in 1..Len(Q) /\ R[j] = Q[j - 1]
      BY <1>2, <1>5, <2>2
    <3>2. CASE i = 1
      <4>1. InBuffer(R[j]) \subseteq InBuffers(Q)
        BY <3>1 DEF InBuffers
      <4> QED BY <1>3, <1>8, <3>2, <4>1 DEF Less
    <3>3. CASE i # 1
      <4>1. i - 1 \in 1..Len(Q) /\ R[i] = Q[i - 1] /\ i - 1 < j - 1
        BY <1>2, <1>5, <2>2, <3>3
      <4>2. Less(InBuffer(Q[i - 1]), InBuffer(Q[j - 1]))
        BY <1>8, <3>1, <4>1 DEF Chained
      <4> QED BY <3>1, <4>1, <4>2
    <3> QED BY <3>2, <3>3
  <2> QED BY <2>1, <2>2 DEF Chained
<1> QED BY <1>2, <1>6, <1>7, <1>8 DEF R

LEMMA ConcatQueues ==
  ASSUME NEW Q \in Seq(Seq(Records)), NEW P \in Seq(Seq(Records))
  PROVE  Q \o P \in Seq(Seq(Records)) /\ InBuffers(Q \o P) = InBuffers(Q) \cup InBuffers(P)
<1> DEFINE R == Q \o P
<1>1. /\ R \in Seq(Seq(Records)) /\ Len(Q) \in Nat /\ Len(P) \in Nat /\ Len(R) = Len(Q) + Len(P)
      /\ \A i \in 1..Len(Q) + Len(P) : R[i] = IF i <= Len(Q) THEN Q[i] ELSE P[i - Len(Q)]
  BY ConcatProperties, LenProperties
<1> HIDE DEF R
<1>2. ASSUME NEW i \in 1..Len(R)
      PROVE  \/ i \in 1..Len(Q) /\ R[i] = Q[i]
             \/ i - Len(Q) \in 1..Len(P) /\ R[i] = P[i - Len(Q)]
  <2>1. i \in 1..Len(Q) + Len(P) /\ (i <= Len(Q) \/ i - Len(Q) \in 1..Len(P))
    BY <1>1
  <2>2. R[i] = IF i <= Len(Q) THEN Q[i] ELSE P[i - Len(Q)]
    BY <1>1, <2>1
  <2>3. CASE i <= Len(Q)
    BY <2>1, <2>2, <2>3
  <2>4. CASE ~(i <= Len(Q))
    BY <2>1, <2>2, <2>4
  <2> QED BY <2>3, <2>4
<1>3. ASSUME NEW i \in 1..Len(P) PROVE Len(Q) + i \in 1..Len(R) /\ R[Len(Q) + i] = P[i]
  <2>1. Len(Q) + i \in 1..Len(Q) + Len(P) /\ ~(Len(Q) + i <= Len(Q)) /\ Len(Q) + i - Len(Q) = i
    BY <1>1
  <2> QED BY <1>1, <2>1
<1>4. ASSUME NEW i \in 1..Len(Q) PROVE i \in 1..Len(R) /\ R[i] = Q[i]
  BY <1>1
<1>5. InBuffers(R) \subseteq InBuffers(Q) \cup InBuffers(P)
  BY <1>2 DEF InBuffers
<1>6. InBuffers(Q) \cup InBuffers(P) \subseteq InBuffers(R)
  BY <1>3, <1>4 DEF InBuffers
<1> QED BY <1>1, <1>5, <1>6 DEF R

LEMMA QueuesAssociate ==
  ASSUME NEW P \in Seq(Seq(Records)), NEW Q \in Seq(Seq(Records)), NEW R \in Seq(Seq(Records))
  PROVE  (P \o Q) \o R = P \o (Q \o R)
BY ConcatAssociative

\* Chained says of numbers what InOrder says.
LEMMA ChainedInOrder ==
  ASSUME NEW Q \in Seq(Seq(Records)), Chained(Q) PROVE InOrder(Q)
<1> SUFFICES ASSUME NEW i \in DOMAIN Q, NEW j \in DOMAIN Q,
                    NEW x \in DOMAIN Q[i], NEW y \in DOMAIN Q[j], i < j \/ (i = j /\ x < y)
             PROVE  Q[i][x] < Q[j][y]
  BY DEF InOrder
<1>1. i \in 1..Len(Q) /\ j \in 1..Len(Q)
  BY LenProperties
<1>2. Q[i] \in Seq(Records) /\ Q[j] \in Seq(Records)
  BY <1>1, ElementOfSeq
<1>3. x \in 1..Len(Q[i]) /\ y \in 1..Len(Q[j])
  BY <1>2, LenProperties
<1>4. CASE i = j /\ x < y
  BY <1>1, <1>3, <1>4 DEF Chained, Sorted
<1>5. CASE i < j
  <2>1. Less(InBuffer(Q[i]), InBuffer(Q[j]))
    BY <1>1, <1>5 DEF Chained
  <2> QED BY <1>3, <2>1 DEF Less, InBuffer
<1> QED BY <1>4, <1>5

----------------------------------------------------------------------------
(* The second layer: where each record is, and in which order, on top of   *)
(* IInv.                                                                   *)
Files == 0..logFileCount - 1

\* What a process wrote is older than what it has yet to write, and together they are
\* what it was asked to append.
FlowOK(Q, w, lo, hi, dr) ==
  /\ Chained(Q) /\ Sorted(w) /\ Less(InBuffer(w), InBuffers(Q))
  /\ InBuffer(w) \cup InBuffers(Q) = (lo + 1..hi) \ dr

\* Every file is older than those with a lower number, and than the records S.
FilesOK(S, d, hi) == \A k \in Files :
  /\ Sorted(d[k]) /\ InBuffer(d[k]) \subseteq 1..hi /\ Less(InBuffer(d[k]), S)
  /\ \A m \in Files : m < k => Less(InBuffer(d[k]), InBuffer(d[m]))

OrderInv == /\ FlowOK(Queue, written, gone, appended, dropped)
            /\ FilesOK(InBuffers(Queue), disk, appended)
            /\ dropped \subseteq 1..appended

\* The thread has something to write only while it writes.
Emptied == thread # "writing" => toWrite = <<>> /\ done = 0

\* Of what was appended before stop, the rest is still on its way.
OnTheWay(r) == \/ r \in InBuffer(written) \cup dropped \cup exposed \cup InBuffers(Left)
               \/ thread \in {"entering", "waiting"} /\ r \in Waiting
StopInv ==
  /\ stopper = "running" => working
  /\ stopper = "joining" => ~working
  /\ thread \in {"leaving", "ended"} => stopper # "running"
  /\ stopper = "stopped" => thread = "ended"
  /\ stopper \in {"joining", "stopped"} => \A r \in gone + 1..atStop : OnTheWay(r)

Agree == OrderInv /\ Emptied /\ StopInv

\* OrderInv in the next state, from what the variables are there.
LEMMA OrderNext ==
  ASSUME NEW Q, NEW w, NEW d, NEW lo, NEW hi, NEW dr,
         Q = Queue', w = written', d = disk', lo = gone', hi = appended', dr = dropped',
         FlowOK(Q, w, lo, hi, dr), FilesOK(InBuffers(Q), d, hi), dr \subseteq 1..hi
  PROVE  OrderInv'
BY DEF OrderInv

LEMMA OrderSame ==
  ASSUME OrderInv, Queue' = Queue, UNCHANGED <<written, disk, gone, appended, dropped>>
  PROVE  OrderInv'
BY DEF OrderInv

----------------------------------------------------------------------------
\* The types of what is queued; the records of the queue are those left over by the
\* last exchange and those that wait for the next.
LEMMA QueueOK ==
  ASSUME IInv
  PROVE  /\ Left \in Seq(Seq(Records)) /\ Left \o buffers \in Seq(Seq(Records))
         /\ Queue \in Seq(Seq(Records))
         /\ InBuffers(Queue) = InBuffers(Left) \cup Waiting
<1>1. /\ toWrite \in Seq(Seq(Records)) /\ buffers \in Seq(Seq(Records)) /\ cur \in Seq(Records)
      /\ done \in 0..Len(toWrite) /\ Len(toWrite) \in Nat
  BY LenProperties DEF IInv, OwnOK
<1>2. \A i \in done + 1..Len(toWrite) : toWrite[i] \in Seq(Records)
  <2> SUFFICES ASSUME NEW i \in done + 1..Len(toWrite) PROVE toWrite[i] \in Seq(Records)
    OBVIOUS
  <2>1. i \in 1..Len(toWrite)
    BY <1>1
  <2> QED BY <1>1, <2>1, ElementOfSeq
<1>3. Left \in Seq(Seq(Records))
  BY <1>1, <1>2, SubSeqProperties DEF Left
<1>4. /\ Left \o buffers \in Seq(Seq(Records))
      /\ InBuffers(Left \o buffers) = InBuffers(Left) \cup InBuffers(buffers)
  BY <1>1, <1>3, ConcatQueues
<1>5. /\ Queue \in Seq(Seq(Records))
      /\ InBuffers(Queue) = InBuffers(Left \o buffers) \cup InBuffer(cur)
  BY <1>1, <1>4, AppendQueue DEF Queue
<1> QED BY <1>3, <1>4, <1>5 DEF Waiting

\* The queue is what waits when nothing is left.
LEMMA NothingLeft ==
  ASSUME IInv, done = Len(toWrite) PROVE Left = <<>> /\ Left \o buffers = buffers
<1>1. done \in Nat /\ done + 1 \in Int /\ Len(toWrite) \in Int /\ Len(toWrite) < done + 1
  BY LenProperties DEF IInv, OwnOK
<1>2. Left = <<>>
  BY <1>1, SubSeqEmpty DEF Left
<1> QED BY <1>2, ConcatEmptySeq DEF IInv, OwnOK

\* The first buffer left is written, or the queue is the same without it.
LEMMA FirstOfQueue ==
  ASSUME IInv, thread = "writing", done < Len(toWrite),
         NEW rest, rest = SubSeq(toWrite, done + 2, Len(toWrite))
  PROVE  /\ toWrite[done + 1] \in Seq(Records) /\ rest \in Seq(Seq(Records))
         /\ Left = <<toWrite[done + 1]>> \o rest
         /\ Append(rest \o buffers, cur) \in Seq(Seq(Records))
         /\ Queue = <<toWrite[done + 1]>> \o Append(rest \o buffers, cur)
<1> DEFINE b == toWrite[done + 1]
<1>1. /\ toWrite \in Seq(Seq(Records)) /\ buffers \in Seq(Seq(Records)) /\ cur \in Seq(Records)
      /\ done \in 0..Len(toWrite) /\ Len(toWrite) \in Nat
  BY LenProperties DEF IInv, OwnOK
<1>2. /\ done + 1 \in 1..Len(toWrite) /\ Len(toWrite) \in done + 1..Len(toWrite)
      /\ done + 1 + 1 = done + 2 /\ done + 2 \in Int
  BY <1>1
<1>3. b \in Seq(Records) /\ <<b>> \in Seq(Seq(Records))
  BY <1>1, <1>2, ElementOfSeq
<1>4. Left = <<b>> \o rest
  BY <1>1, <1>2, SubSeqRecursiveFirst DEF Left
<1>5. \A i \in done + 2..Len(toWrite) : toWrite[i] \in Seq(Records)
  <2> SUFFICES ASSUME NEW i \in done + 2..Len(toWrite) PROVE toWrite[i] \in Seq(Records)
    OBVIOUS
  <2>1. i \in 1..Len(toWrite)
    BY <1>1
  <2> QED BY <1>1, <2>1, ElementOfSeq
<1>6. rest \in Seq(Seq(Records))
  BY <1>1, <1>2, <1>5, SubSeqProperties
<1> HIDE DEF b
<1>7. rest \o buffers \in Seq(Seq(Records)) /\ <<cur>> \in Seq(Seq(Records))
  BY <1>1, <1>6, ConcatProperties
<1>8. Append(rest \o buffers, cur) = (rest \o buffers) \o <<cur>>
      /\ Append(rest \o buffers, cur) \in Seq(Seq(Records))
  BY <1>1, <1>7, AppendIsConcat, AppendProperties
<1>9. Left \o buffers = <<b>> \o (rest \o buffers)
  BY <1>1, <1>3, <1>4, <1>6, QueuesAssociate
<1>10. Left \o buffers \in Seq(Seq(Records))
  BY QueueOK
<1>11. Queue = (Left \o buffers) \o <<cur>>
  BY <1>1, <1>10, AppendIsConcat DEF Queue
<1>12. Queue = <<b>> \o ((rest \o buffers) \o <<cur>>)
  <2>1. (<<b>> \o (rest \o buffers)) \o <<cur>> = <<b>> \o ((rest \o buffers) \o <<cur>>)
    BY <1>3, <1>7, QueuesAssociate
  <2> QED BY <1>9, <1>11, <2>1
<1> QED BY <1>3, <1>4, <1>6, <1>8, <1>12 DEF b

----------------------------------------------------------------------------
\* A file that gets the next records is still younger than those with higher numbers, and
\* renaming moves every file one up.
LEMMA FileAppendInOrder ==
  ASSUME FileOK, NEW b \in Seq(Records), FileAppend(b), NEW S, NEW hi \in Nat,
         FilesOK(InBuffer(b) \cup S, disk, hi),
         Sorted(b), InBuffer(b) \subseteq 1..hi, Less(InBuffer(b), S)
  PROVE  FilesOK(S, disk', hi)
<1> DEFINE d == [disk EXCEPT ![0] = disk[0] \o b]
           n == IF fileCount + 1 > logFileCount - 1 THEN fileCount ELSE fileCount + 1
<1>1. 0 \in Files /\ disk[0] \in Seq(Records) /\ logFileCount \in Nat /\ n \in Files /\ n \in Nat
  BY FileAssumption DEF Files, FileOK
<1>2. DOMAIN disk = Files /\ d \in [Files -> Seq(Records)]
  BY <1>1, ConcatBuffer DEF FileOK, Files
<1>3. d[0] = disk[0] \o b /\ \A k \in Files : k # 0 => d[k] = disk[k]
  BY <1>1, <1>2
<1> HIDE DEF d, n
<1>4. Less(InBuffer(disk[0]), InBuffer(b)) /\ InBuffer(disk[0]) \subseteq 1..hi /\ Sorted(disk[0])
      /\ Less(InBuffer(disk[0]), S)
  BY <1>1 DEF FilesOK, Less
<1>5. /\ InBuffer(d[0]) = InBuffer(disk[0]) \cup InBuffer(b) /\ Sorted(d[0])
      /\ InBuffer(d[0]) \subseteq 1..hi /\ Less(InBuffer(d[0]), S)
  <2>1. InBuffer(d[0]) = InBuffer(disk[0]) \cup InBuffer(b) /\ Sorted(d[0])
    BY <1>1, <1>3, <1>4, ConcatBuffer
  <2> QED BY <1>4, <2>1 DEF Less
<1>6. FilesOK(S, d, hi)
  <2> SUFFICES ASSUME NEW k \in Files
               PROVE  /\ Sorted(d[k]) /\ InBuffer(d[k]) \subseteq 1..hi /\ Less(InBuffer(d[k]), S)
                      /\ \A m \in Files : m < k => Less(InBuffer(d[k]), InBuffer(d[m]))
    BY DEF FilesOK
  <2>1. CASE k = 0
    <3>1. \A m \in Files : ~(m < k)
      BY <2>1, FileAssumption DEF Files
    <3> QED BY <1>5, <2>1, <3>1
  <2>2. CASE k # 0
    <3>1. d[k] = disk[k] /\ Less(InBuffer(disk[k]), InBuffer(b)) /\ Less(InBuffer(disk[k]), S)
      BY <1>3, <2>2 DEF FilesOK, Less
    <3>2. ASSUME NEW m \in Files, m < k PROVE Less(InBuffer(d[k]), InBuffer(d[m]))
      <4>1. Less(InBuffer(disk[k]), InBuffer(disk[m]))
        BY <3>2 DEF FilesOK
      <4>2. CASE m = 0
        BY <1>5, <3>1, <4>1, <4>2 DEF Less
      <4>3. CASE m # 0
        BY <1>3, <3>1, <4>1, <4>3
      <4> QED BY <4>2, <4>3
    <3>3. Sorted(d[k]) /\ InBuffer(d[k]) \subseteq 1..hi
      BY <3>1 DEF FilesOK
    <3> QED BY <3>1, <3>2, <3>3
  <2> QED BY <2>1, <2>2
<1>7. CASE hadWritten' >= RollSize
  <2> DEFINE e == Renamed(d, n)
  <2>1. disk' = e
    BY <1>7 DEF FileAppend, d, n
  <2>2. \A k \in Files : e[k] = IF k = 0 THEN <<>> ELSE IF k <= n THEN d[k - 1] ELSE d[k]
    BY DEF Renamed, Files
  <2>3. \A k \in Files : k # 0 => k - 1 \in Files
    BY FileAssumption DEF Files
  <2> HIDE DEF e
  <2> SUFFICES ASSUME NEW k \in Files
               PROVE  /\ Sorted(e[k]) /\ InBuffer(e[k]) \subseteq 1..hi /\ Less(InBuffer(e[k]), S)
                      /\ \A m \in Files : m < k => Less(InBuffer(e[k]), InBuffer(e[m]))
    BY <2>1 DEF FilesOK
  <2>4. CASE k = 0
    <3>1. e[k] = <<>>
      BY <2>2, <2>4
    <3>2. \A m \in Files : ~(m < k)
      BY <2>4, FileAssumption DEF Files
    <3> QED BY <3>1, <3>2, EmptyBuffer DEF Less
  <2>5. CASE k # 0
    <3>1. PICK i \in Files : e[k] = d[i] /\ i = IF k <= n THEN k - 1 ELSE k
      BY <2>2, <2>3, <2>5
    <3>2. Sorted(e[k]) /\ InBuffer(e[k]) \subseteq 1..hi /\ Less(InBuffer(e[k]), S)
      BY <1>6, <3>1 DEF FilesOK
    <3>3. ASSUME NEW m \in Files, m < k PROVE Less(InBuffer(e[k]), InBuffer(e[m]))
      <4>1. CASE m = 0
        <5>1. e[m] = <<>>
          BY <2>2, <4>1
        <5> QED BY <5>1, EmptyBuffer DEF Less
      <4>2. CASE m # 0
        <5>1. PICK j \in Files : e[m] = d[j] /\ j = IF m <= n THEN m - 1 ELSE m
          BY <2>2, <2>3, <4>2
        <5>2. j < i
          BY <1>1, <3>1, <3>3, <5>1 DEF Files
        <5>3. Less(InBuffer(d[i]), InBuffer(d[j]))
          BY <1>6, <5>2 DEF FilesOK
        <5> QED BY <3>1, <5>1, <5>3
      <4> QED BY <4>1, <4>2
    <3> QED BY <3>2, <3>3
  <2> QED BY <2>4, <2>5
<1>8. CASE ~(hadWritten' >= RollSize)
  <2>1. disk' = d
    BY <1>8 DEF FileAppend, d
  <2> QED BY <1>6, <2>1
<1> QED BY <1>7, <1>8

\* A crash cuts off the end of the current file.
LEMMA FileCutInOrder ==
  ASSUME FileOK, FileCut, NEW S, NEW hi, FilesOK(S, disk, hi) PROVE FilesOK(S, disk', hi)
<1>1. PICK n \in flushed..Len(disk[0]) : disk' = [disk EXCEPT ![0] = SubSeq(disk[0], 1, n)]
  BY DEF FileCut
<1>2. 0 \in Files /\ disk[0] \in Seq(Records) /\ Len(disk[0]) \in Nat
  BY FileAssumption, LenProperties DEF FileOK, Files
<1>3. n \in 0..Len(disk[0])
  BY <1>2 DEF FileOK
<1>4. DOMAIN disk = Files
  BY DEF FileOK, Files
<1>5. disk'[0] = SubSeq(disk[0], 1, n) /\ \A k \in Files : k # 0 => disk'[k] = disk[k]
  BY <1>1, <1>2, <1>4
<1>6. \A k \in Files : InBuffer(disk'[k]) \subseteq InBuffer(disk[k]) /\ Sorted(disk'[k])
  <2> SUFFICES ASSUME NEW k \in Files
               PROVE  InBuffer(disk'[k]) \subseteq InBuffer(disk[k]) /\ Sorted(disk'[k])
    OBVIOUS
  <2>1. Sorted(disk[k])
    BY DEF FilesOK
  <2>2. CASE k = 0
    BY <1>2, <1>3, <1>5, <2>1, <2>2, PrefixBuffer
  <2>3. CASE k # 0
    BY <1>5, <2>1, <2>3
  <2> QED BY <2>2, <2>3
<1> QED BY <1>6 DEF FilesOK, Less

----------------------------------------------------------------------------
\* The record that append numbers is younger than all others; it goes to the end of the
\* queue, or is dropped.
LEMMA RecordAppended ==
  ASSUME IInv, OrderInv, NEW r \in Nat, r = appended + 1, appended' = r,
         UNCHANGED <<written, disk, gone>>, NEW Q, Q = Queue', Chained(Q),
         \/ InBuffers(Q) = InBuffers(Queue) \cup {r} /\ dropped' = dropped
         \/ InBuffers(Q) = InBuffers(Queue) /\ dropped' = dropped \cup {r}
  PROVE  OrderInv'
<1>1. appended \in Nat /\ gone \in 0..appended
  BY AsyncAssumption DEF IInv, OwnOK
<1>2. InBuffers(Queue) \subseteq gone + 1..appended /\ InBuffer(written) \subseteq gone + 1..appended
  BY DEF OrderInv, FlowOK
<1>3. \A x \in 1..appended : x < r /\ x \in 1..r
  BY <1>1
<1>4. gone + 1..appended \subseteq 1..appended /\ r \notin 1..appended
  BY <1>1
<1>5. Less(InBuffer(written), InBuffers(Q))
  BY <1>2, <1>3, <1>4 DEF OrderInv, FlowOK, Less
<1>6. InBuffer(written) \cup InBuffers(Q) = (gone + 1..r) \ dropped'
  <2>1. gone + 1..r = (gone + 1..appended) \cup {r}
    BY <1>1
  <2>2. r \notin dropped /\ r \notin gone + 1..appended
    BY <1>4 DEF OrderInv
  <2>3. InBuffer(written) \cup InBuffers(Queue) = (gone + 1..appended) \ dropped
    BY DEF OrderInv, FlowOK
  <2> QED BY <2>1, <2>2, <2>3
<1>7. FlowOK(Q, written, gone, r, dropped')
  BY <1>5, <1>6 DEF FlowOK, OrderInv
<1>8. FilesOK(InBuffers(Q), disk, r)
  <2> SUFFICES ASSUME NEW k \in Files
               PROVE  /\ InBuffer(disk[k]) \subseteq 1..r
                      /\ Less(InBuffer(disk[k]), InBuffers(Q))
    BY DEF OrderInv, FilesOK
  <2>1. InBuffer(disk[k]) \subseteq 1..appended /\ Less(InBuffer(disk[k]), InBuffers(Queue))
    BY DEF OrderInv, FilesOK
  <2> QED BY <1>3, <2>1 DEF Less
<1>9. dropped' \subseteq 1..r
  <2>1. dropped \subseteq 1..appended /\ 1..appended \subseteq 1..r /\ r \in 1..r
    BY <1>1, <1>3 DEF OrderInv
  <2> QED BY <2>1
<1> QED BY <1>7, <1>8, <1>9, OrderNext

\* What stop left on its way stays there as long as nothing of it is taken.
LEMMA StopKept ==
  ASSUME StopInv, UNCHANGED <<stopper, working, thread, gone, atStop, written, exposed>>,
         dropped \subseteq dropped', NEW S, S = Waiting', Waiting \subseteq S, Left' = Left
  PROVE  StopInv'
BY DEF StopInv, OnTheWay

LEMMA AppendAgree == ASSUME IInv, Agree, NEW len \in {1, Size}, append(len) PROVE Agree'
<1> DEFINE r == appended + 1
           L == Left \o buffers
<1>1. r \in Records /\ r \in Nat /\ appended' = r /\ Size \in Nat /\ len \in Nat
  BY AsyncAssumption DEF append, IInv, OwnOK, Records
<1>2. /\ UNCHANGED <<thread, toWrite, done, written, working, stopper, atStop, gone, exposed, disk>>
      /\ dropped' = IF Size > len THEN dropped ELSE dropped \cup {r}
  BY DEF append, threadVars, stopVars, countVars, fileVars
<1>3. Left' = Left
  BY <1>2 DEF Left
<1>4. cur \in Seq(Records) /\ buffers \in Seq(Seq(Records)) /\ L \in Seq(Seq(Records))
      /\ Left \in Seq(Seq(Records)) /\ Queue \in Seq(Seq(Records)) /\ Queue = Append(L, cur)
  BY QueueOK DEF IInv, OwnOK, Queue
<1>5. /\ Chained(L) /\ Sorted(cur) /\ Less(InBuffers(L), InBuffer(cur))
      /\ InBuffers(Queue) = InBuffers(L) \cup InBuffer(cur)
      /\ Chained(Queue) /\ InBuffers(Queue) \subseteq gone + 1..appended
  BY <1>4, AppendQueue DEF Agree, OrderInv, FlowOK
<1>6. Less(InBuffers(Queue), {r})
  BY <1>5, AsyncAssumption DEF Less, IInv, OwnOK
<1>7. Len(cur) \in Nat
  BY <1>4, LenProperties
<1>8. CASE vaild(cur) > len
  <2> DEFINE c == Append(cur, r)
  <2>1. cur' = c /\ buffers' = buffers
    BY <1>8 DEF append, Into
  <2>2. Size > len
    BY <1>1, <1>7, <1>8 DEF vaild
  <2>3. Queue' = Append(L, c) /\ dropped' = dropped
    BY <1>2, <1>3, <2>1, <2>2 DEF Queue
  <2>4. c \in Seq(Records) /\ InBuffer(c) = InBuffer(cur) \cup {r} /\ Sorted(c)
        /\ Less(InBuffers(L), InBuffer(c))
    <3>1. Less(InBuffer(cur), {r})
      BY <1>5, <1>6 DEF Less
    <3>2. c \in Seq(Records) /\ InBuffer(c) = InBuffer(cur) \cup {r} /\ Sorted(c)
      BY <1>1, <1>4, <1>5, <3>1, AppendBuffer
    <3> QED BY <1>5, <1>6, <3>2 DEF Less
  <2> HIDE DEF c, r, L
  <2>5. Chained(Append(L, c)) /\ InBuffers(Append(L, c)) = InBuffers(Queue) \cup {r}
    <3>1. InBuffers(Append(L, c)) = InBuffers(L) \cup InBuffer(c)
      BY <1>4, <2>4, AppendQueue
    <3>2. Chained(Append(L, c))
      BY <1>4, <1>5, <2>4, AppendQueue
    <3> QED BY <1>5, <2>4, <3>1, <3>2
  <2>6. OrderInv'
    BY <1>1, <1>2, <2>3, <2>5, RecordAppended DEF Agree, r
  <2>7. Waiting' = InBuffer(c) \cup InBuffers(buffers)
    BY <2>1 DEF Waiting
  <2>8. StopInv'
    BY <1>2, <1>3, <2>3, <2>4, <2>7, StopKept DEF Agree, Waiting
  <2> QED BY <1>2, <2>6, <2>8 DEF Agree, Emptied
<1>9. CASE ~(vaild(cur) > len)
  <2> DEFINE c == Into(<<>>, len, r)
             B == Append(buffers, cur)
  <2>1. cur' = c /\ buffers' = B
    BY <1>9 DEF append, Rotate
  <2>2. B \in Seq(Seq(Records)) /\ InBuffers(B) = InBuffers(buffers) \cup InBuffer(cur)
    BY <1>4, AppendQueue
  <2>3. Left \o B = Queue
    <3>1. B = buffers \o <<cur>> /\ Queue = L \o <<cur>>
      BY <1>4, AppendIsConcat
    <3>2. <<cur>> \in Seq(Seq(Records))
      BY <1>4
    <3>3. L \o <<cur>> = Left \o (buffers \o <<cur>>)
      BY <1>4, <3>2, QueuesAssociate
    <3> QED BY <3>1, <3>3
  <2>4. Queue' = Append(Queue, c)
    BY <1>3, <2>1, <2>3 DEF Queue
  <2>5. \/ Size > len /\ c \in Seq(Records) /\ Sorted(c) /\ InBuffer(c) = {r} /\ dropped' = dropped
        \/ /\ ~(Size > len) /\ c \in Seq(Records) /\ Sorted(c) /\ InBuffer(c) = {}
           /\ dropped' = dropped \cup {r}
    <3>1. vaild(<<>>) = Size
      BY <1>1 DEF vaild
    <3>2. CASE Size > len
      <4>1. c = Append(<<>>, r) /\ dropped' = dropped
        BY <1>2, <3>1, <3>2 DEF Into
      <4>2. Less(InBuffer(<<>>), {r})
        BY EmptyBuffer DEF Less
      <4> QED BY <1>1, <3>2, <4>1, <4>2, EmptyBuffer, AppendBuffer
    <3>3. CASE ~(Size > len)
      <4>1. c = <<>> /\ dropped' = dropped \cup {r}
        BY <1>2, <3>1, <3>3 DEF Into
      <4> QED BY <3>3, <4>1, EmptyBuffer
    <3> QED BY <3>2, <3>3
  <2> HIDE DEF c, r, L, B
  <2>6. Less(InBuffers(Queue), InBuffer(c))
    BY <1>6, <2>5 DEF Less
  <2>7. Chained(Append(Queue, c)) /\ InBuffers(Append(Queue, c)) = InBuffers(Queue) \cup InBuffer(c)
    BY <1>4, <1>5, <2>5, <2>6, AppendQueue
  <2>8. OrderInv'
    BY <1>1, <1>2, <2>4, <2>5, <2>7, RecordAppended DEF Agree, r
  <2>9. Waiting' = InBuffer(c) \cup InBuffers(B)
    BY <2>1 DEF Waiting
  <2>10. Waiting \subseteq InBuffer(c) \cup InBuffers(B) /\ dropped \subseteq dropped'
    BY <2>2, <2>5 DEF Waiting
  <2>11. StopInv'
    BY <1>2, <1>3, <2>9, <2>10, StopKept DEF Agree
  <2> QED BY <1>2, <2>8, <2>11 DEF Agree, Emptied
<1> QED BY <1>8, <1>9

----------------------------------------------------------------------------
\* The exchange: all that waits is left to be written, behind it a new current buffer.
LEMMA SwapAgree == ASSUME IInv, Agree, Swap PROVE Agree'
<1>1. /\ thread \in {"waiting", "entering"} /\ thread' = "writing"
      /\ toWrite' = Append(buffers, cur) /\ buffers' = <<>> /\ cur' = <<>> /\ done' = 0
      /\ UNCHANGED <<written, disk, gone, appended, dropped, stopper, working, atStop, exposed>>
  BY DEF Swap, fileVars, stopVars, countVars
<1>2. done = Len(toWrite) /\ done = 0
  <2>1. toWrite = <<>> /\ done = 0
    BY <1>1 DEF Agree, Emptied
  <2> QED BY <2>1, EmptySeq
<1>3. Queue = Append(buffers, cur)
  BY <1>2, NothingLeft DEF Queue
<1>4. Queue \in Seq(Seq(Records)) /\ toWrite' = Queue
  BY <1>1, <1>3, QueueOK
<1>5. Left' = Queue
  <2>1. Left' = SubSeq(Queue, 1, Len(Queue))
    BY <1>1, <1>4 DEF Left
  <2> QED BY <1>4, <2>1, SubSeqFull
<1>6. Queue' = Append(Queue, <<>>)
  <2>1. Queue \o <<>> = Queue
    BY <1>4, ConcatEmptySeq
  <2> QED BY <1>1, <1>5, <2>1 DEF Queue
<1>7. InBuffers(Append(Queue, <<>>)) = InBuffers(Queue) /\ Chained(Append(Queue, <<>>))
  <2>1. Less(InBuffers(Queue), InBuffer(<<>>))
    BY EmptyBuffer DEF Less
  <2>2. Chained(Queue)
    BY DEF Agree, OrderInv, FlowOK
  <2> QED BY <1>4, <2>1, <2>2, EmptyBuffer, AppendQueue
<1>8. OrderInv'
  BY <1>1, <1>6, <1>7, OrderNext DEF Agree, OrderInv, FlowOK
<1>9. ASSUME NEW r, OnTheWay(r) PROVE OnTheWay(r)'
  <2>1. InBuffers(Queue) = InBuffers(Left) \cup Waiting
    BY QueueOK
  <2> QED BY <1>1, <1>5, <1>9, <2>1 DEF OnTheWay
<1>10. StopInv'
  BY <1>1, <1>9 DEF Agree, StopInv
<1> QED BY <1>1, <1>8, <1>10 DEF Agree, Emptied

\* The oldest buffer goes to the file.
LEMMA WriteAgree == ASSUME IInv, Agree, Write PROVE Agree'
<1> DEFINE b == toWrite[done + 1]
<1>1. PICK rest : rest = SubSeq(toWrite, done + 2, Len(toWrite))
  OBVIOUS
<1> DEFINE Q == Append(rest \o buffers, cur)
<1>2. /\ thread = "writing" /\ done < Len(toWrite) /\ done' = done + 1 /\ written' = written \o b
      /\ (b = <<>> => UNCHANGED disk) /\ (b # <<>> => FileAppend(b))
      /\ UNCHANGED <<thread, toWrite, buffers, cur, gone, appended, dropped, stopper, working,
                     atStop, exposed>>
  BY DEF Write, fileVars, bufferVars, stopVars, countVars
<1>3. /\ b \in Seq(Records) /\ rest \in Seq(Seq(Records)) /\ Left = <<b>> \o rest
      /\ Q \in Seq(Seq(Records)) /\ Queue = <<b>> \o Q
  BY <1>1, <1>2, FirstOfQueue
<1>4. Left' = rest
  <2>1. done + 1 + 1 = done + 2
    BY DEF IInv, OwnOK
  <2> QED BY <1>1, <1>2, <2>1 DEF Left
<1>5. Queue' = Q
  BY <1>2, <1>4 DEF Queue
<1> HIDE DEF b, Q
<1>6. /\ InBuffers(Queue) = InBuffer(b) \cup InBuffers(Q)
      /\ Sorted(b) /\ Less(InBuffer(b), InBuffers(Q)) /\ Chained(Q)
  BY <1>3, QueueAfter DEF Agree, OrderInv, FlowOK
<1>7. appended \in Nat /\ written \in Seq(Records) /\ FileOK /\ gone \in 0..appended
  BY DEF IInv, OwnOK
<1>8. InBuffer(b) \subseteq 1..appended
  <2>1. InBuffer(b) \subseteq gone + 1..appended
    BY <1>6 DEF Agree, OrderInv, FlowOK
  <2>2. gone + 1..appended \subseteq 1..appended
    BY <1>7
  <2> QED BY <2>1, <2>2
<1>9. InBuffer(written \o b) = InBuffer(written) \cup InBuffer(b) /\ Sorted(written \o b)
  <2>1. Sorted(written) /\ Less(InBuffer(written), InBuffer(b))
    BY <1>6 DEF Agree, OrderInv, FlowOK, Less
  <2> QED BY <1>3, <1>6, <1>7, <2>1, ConcatBuffer
<1>10. FlowOK(Q, written \o b, gone, appended, dropped)
  <2>1. Less(InBuffer(written \o b), InBuffers(Q))
    BY <1>6, <1>9 DEF Agree, OrderInv, FlowOK, Less
  <2>2. InBuffer(written \o b) \cup InBuffers(Q) = (gone + 1..appended) \ dropped
    <3>1. InBuffer(written) \cup InBuffers(Queue) = (gone + 1..appended) \ dropped
      BY DEF Agree, OrderInv, FlowOK
    <3> QED BY <1>6, <1>9, <3>1
  <2> QED BY <1>6, <1>9, <2>1, <2>2 DEF FlowOK
<1>11. FilesOK(InBuffers(Q), disk', appended)
  <2>1. FilesOK(InBuffer(b) \cup InBuffers(Q), disk, appended)
    BY <1>6 DEF Agree, OrderInv
  <2>2. CASE b = <<>>
    <3>1. FilesOK(InBuffers(Q), disk, appended)
      BY <2>1 DEF FilesOK, Less
    <3> QED BY <1>2, <2>2, <3>1
  <2>3. CASE b # <<>>
    BY <1>2, <1>3, <1>6, <1>7, <1>8, <2>1, <2>3, FileAppendInOrder
  <2> QED BY <2>2, <2>3
<1>12. OrderInv'
  BY <1>2, <1>5, <1>10, <1>11, OrderNext DEF Agree, OrderInv
<1>13. InBuffers(Left) = InBuffer(b) \cup InBuffers(rest)
  BY <1>3, QueueAfter
<1>14. ASSUME NEW r, OnTheWay(r) PROVE OnTheWay(r)'
  BY <1>2, <1>4, <1>9, <1>13, <1>14 DEF OnTheWay
<1>15. StopInv'
  BY <1>2, <1>14 DEF Agree, StopInv
<1> QED BY <1>2, <1>12, <1>15 DEF Agree, Emptied

\* After the last buffer there is nothing left, and nothing changes its place.
LEMMA RefillAgree == ASSUME IInv, Agree, Refill PROVE Agree'
<1>1. /\ thread = "writing" /\ thread' = "testing" /\ done = Len(toWrite)
      /\ toWrite' = <<>> /\ done' = 0
      /\ UNCHANGED <<written, disk, buffers, cur, gone, appended, dropped, stopper, working,
                     atStop, exposed>>
  BY DEF Refill, At, flush, bufferVars, stopVars, countVars
<1>2. Left = <<>> /\ Left' = <<>>
  BY <1>1, NothingLeft, SubSeqEmpty, EmptySeq DEF Left
<1>3. Queue' = Queue
  BY <1>1, <1>2 DEF Queue
<1>4. OrderInv'
  BY <1>1, <1>3, OrderSame DEF Agree
<1>5. ASSUME NEW r, OnTheWay(r) PROVE OnTheWay(r)'
  BY <1>1, <1>2, <1>5 DEF OnTheWay
<1>6. StopInv'
  BY <1>1, <1>5 DEF Agree, StopInv
<1> QED BY <1>1, <1>4, <1>6 DEF Agree, Emptied

\* Nothing is left when the thread moves on without writing.
LEMMA MovesAgree == ASSUME IInv, Agree, Test \/ Wait \/ Leave PROVE Agree'
<1>1. /\ UNCHANGED <<toWrite, done, written, disk, buffers, cur, gone, appended, dropped, stopper,
                     working, atStop, exposed>>
      /\ thread \in {"testing", "entering", "leaving"} /\ thread' # "writing"
      /\ thread = "testing" => thread' = IF working THEN "entering" ELSE "leaving"
      /\ thread = "entering" => thread' = "waiting"
      /\ thread = "leaving" => thread' = "ended"
  BY DEF Test, Wait, Leave, At, flush, fileVars, bufferVars, stopVars, countVars
<1>2. Left' = Left /\ Waiting' = Waiting
  BY <1>1 DEF Left, Waiting
<1>3. Queue' = Queue
  BY <1>1, <1>2 DEF Queue
<1>4. OrderInv'
  BY <1>1, <1>3, OrderSame DEF Agree
<1>5. ASSUME NEW r, OnTheWay(r) PROVE OnTheWay(r)'
  BY <1>1, <1>2, <1>5 DEF OnTheWay
<1>6. StopInv'
  BY <1>1, <1>5 DEF Agree, StopInv
<1> QED BY <1>1, <1>4, <1>6 DEF Agree, Emptied

----------------------------------------------------------------------------
\* stop: what waits is exposed, or the thread will come for it.
LEMMA StopAgree == ASSUME IInv, Agree, stop PROVE Agree'
<1>1. /\ UNCHANGED <<toWrite, done, written, disk, buffers, cur, gone, appended, dropped, thread>>
      /\ stopper = "running" /\ stopper' = "joining" /\ working' = FALSE /\ atStop' = appended
      /\ exposed' = IF thread \in {"writing", "testing"} THEN Waiting ELSE {}
  BY DEF stop, fileVars, bufferVars, threadVars, countVars
<1>2. Left' = Left /\ Waiting' = Waiting
  BY <1>1 DEF Left, Waiting
<1>3. Queue' = Queue
  BY <1>1, <1>2 DEF Queue
<1>4. OrderInv'
  BY <1>1, <1>3, OrderSame DEF Agree
<1>5. thread \in {"testing", "entering", "waiting", "writing"}
  BY <1>1 DEF Agree, StopInv, IInv, OwnOK
<1>6. ASSUME NEW r \in gone + 1..appended PROVE OnTheWay(r)'
  <2>1. r \in InBuffer(written) \cup InBuffers(Left) \cup Waiting \cup dropped
    BY QueueOK DEF Agree, OrderInv, FlowOK
  <2> QED BY <1>1, <1>2, <1>5, <2>1 DEF OnTheWay
<1>7. StopInv'
  BY <1>1, <1>5, <1>6 DEF StopInv
<1> QED BY <1>1, <1>4, <1>7 DEF Agree, Emptied

\* The thread is joined, or crashes, or nothing happens.
LEMMA EndsAgree == ASSUME IInv, Agree, Join \/ Crash \/ UNCHANGED vars PROVE Agree'
<1>1. /\ UNCHANGED <<toWrite, done, written, buffers, cur, gone, appended, dropped, thread,
                     working, atStop, exposed>>
      /\ \/ stopper = "joining" /\ stopper' = "stopped" /\ thread = "ended" /\ UNCHANGED disk
         \/ stopper' = "crashed" /\ FileCut
         \/ UNCHANGED <<stopper, disk>>
  BY DEF Join, Crash, vars, fileVars, bufferVars, threadVars, countVars, stopVars
<1>2. Left' = Left /\ Waiting' = Waiting
  BY <1>1 DEF Left, Waiting
<1>3. Queue' = Queue
  BY <1>1, <1>2 DEF Queue
<1>4. FilesOK(InBuffers(Queue), disk', appended)
  <2>1. FilesOK(InBuffers(Queue), disk, appended) /\ FileOK
    BY DEF Agree, OrderInv, IInv
  <2>2. CASE UNCHANGED disk
    BY <2>1, <2>2
  <2>3. CASE FileCut
    BY <2>1, <2>3, FileCutInOrder
  <2> QED BY <1>1, <2>2, <2>3
<1>5. OrderInv'
  BY <1>1, <1>3, <1>4, OrderNext DEF Agree, OrderInv
<1>6. ASSUME NEW r, OnTheWay(r) PROVE OnTheWay(r)'
  BY <1>1, <1>2, <1>6 DEF OnTheWay
<1>7. thread = "ended" => stopper # "running"
  BY DEF Agree, StopInv
<1>8. StopInv'
  BY <1>1, <1>6 DEF Agree, StopInv
<1> QED BY <1>1, <1>5, <1>8 DEF Agree, Emptied

\* A new process has nothing in its buffers.
LEMMA RestartAgree == ASSUME IInv, Agree, Restart PROVE Agree'
<1>1. /\ gone' = appended /\ UNCHANGED <<disk, appended, dropped>>
      /\ working' = TRUE /\ stopper' = "running" /\ thread' = "testing"
      /\ toWrite' = <<>> /\ done' = 0 /\ written' = <<>> /\ cur' = <<>> /\ buffers' = <<>>
  BY DEF Restart, FileOpen
<1>2. Queue' = Append(<<>>, <<>>)
  <2>1. SubSeq(<<>>, 0 + 1, Len(<<>>)) = <<>>
    BY SubSeqEmpty, EmptySeq
  <2>2. Left' = <<>>
    BY <1>1, <2>1 DEF Left
  <2> QED BY <1>1, <2>2, ConcatEmptySeq, EmptySeq DEF Queue
<1>3. InBuffers(Append(<<>>, <<>>)) = {} /\ Chained(Append(<<>>, <<>>))
  <2>1. Less(InBuffers(<<>>), InBuffer(<<>>))
    BY EmptyBuffer DEF Less
  <2> QED BY <2>1, EmptyBuffer, EmptySeq, AppendQueue
<1>4. FlowOK(Append(<<>>, <<>>), <<>>, appended, appended, dropped)
  <2>1. appended + 1..appended = {}
    BY DEF IInv, OwnOK
  <2> QED BY <1>3, <2>1, EmptyBuffer DEF FlowOK, Less
<1>5. FilesOK({}, disk, appended)
  BY DEF Agree, OrderInv, FilesOK, Less
<1>6. OrderInv'
  BY <1>1, <1>2, <1>3, <1>4, <1>5, OrderNext DEF Agree, OrderInv
<1> QED BY <1>1, <1>6 DEF Agree, Emptied, StopInv

LEMMA InitAgree == ASSUME Init PROVE Agree
<1>1. /\ Queue = Append(<<>>, <<>>) /\ Left = <<>>
  <2>1. SubSeq(<<>>, 0 + 1, Len(<<>>)) = <<>>
    BY SubSeqEmpty, EmptySeq
  <2>2. Left = <<>>
    BY <2>1 DEF Left, Init
  <2> QED BY <2>2, ConcatEmptySeq, EmptySeq DEF Queue, Init
<1>2. InBuffers(Queue) = {} /\ Chained(Queue)
  <2>1. Less(InBuffers(<<>>), InBuffer(<<>>))
    BY EmptyBuffer DEF Less
  <2> QED BY <1>1, <2>1, EmptyBuffer, EmptySeq, AppendQueue
<1>3. FlowOK(Queue, written, gone, appended, dropped)
  <2>1. gone + 1..appended = {} /\ written = <<>>
    BY DEF Init
  <2> QED BY <1>2, <2>1, EmptyBuffer DEF FlowOK, Less
<1>4. FilesOK(InBuffers(Queue), disk, appended)
  <2>1. \A k \in Files : disk[k] = <<>>
    BY DEF Init, FileInit, Files
  <2> QED BY <2>1, EmptyBuffer DEF FilesOK, Less
<1>5. OrderInv
  BY <1>3, <1>4 DEF OrderInv, Init
<1> QED BY <1>5 DEF Agree, Emptied, StopInv, Init

----------------------------------------------------------------------------
\* The inductive invariant holds in every state.
THEOREM AsyncInvariance == Spec => []IInv
<1>1. IInv /\ [Next]_vars => IInv'
  BY AppendInv, SwapInv, WriteInv, RefillInv, MovesInv, StopsInv, RestartInv DEF Next, Thread
<1> QED BY <1>1, InitInv, PTL DEF Spec

\* The types of AsyncLog and of its LogFile.
THEOREM AsyncTypeOK == Spec => []TypeOK
BY AsyncInvariance, TypeSplit, PTL DEF IInv

\* The assertions of asyncLogThread (AsyncLog.cpp:106-145): the writer always has two
\* empty buffers for the next exchange, whatever append put aside meanwhile.
THEOREM AsyncBuffersSuffice == Spec => []BuffersSuffice
BY AsyncInvariance, PTL DEF IInv
----------------------------------------------------------------------------
\* The order of the records, in the buffers and in the files.
THEOREM AsyncAgreement == Spec => []Agree
<1>1. IInv /\ Agree /\ [Next]_vars => Agree'
  BY AppendAgree, SwapAgree, WriteAgree, RefillAgree, MovesAgree, StopAgree, EndsAgree,
     RestartAgree DEF Next, Thread
<1>2. Init => Agree
  BY InitAgree
<1> QED BY <1>1, <1>2, AsyncInvariance, PTL DEF Spec

\* Until a process ends, what it was asked to append is in what it wrote and in its buffers,
\* once and in the order of the calls, whatever is exchanged meanwhile.
THEOREM AsyncWrittenOnceInOrder == Spec => []WrittenOnceInOrder
<1>1. ASSUME IInv, Agree PROVE WrittenOnceInOrder
  <2>1. Queue \in Seq(Seq(Records)) /\ written \in Seq(Records)
    BY <1>1, QueueOK DEF IInv, OwnOK
  <2>2. <<written>> \o Queue \in Seq(Seq(Records)) /\ Chained(<<written>> \o Queue)
    BY <1>1, <2>1, QueueAfter DEF Agree, OrderInv, FlowOK
  <2>3. InOrder(<<written>> \o Queue)
    BY <2>2, ChainedInOrder
  <2> QED BY <1>1, <2>3 DEF WrittenOnceInOrder, Agree, OrderInv, FlowOK
<1> QED BY <1>1, AsyncInvariance, AsyncAgreement, PTL

\* stop loses of what was appended before it only what waited while the thread was
\* between its exchange and its test of _working.
THEOREM AsyncStopLosesOnlyExposed == Spec => []StopLosesOnlyExposed
<1>1. ASSUME IInv, Agree PROVE StopLosesOnlyExposed
  <2> SUFFICES ASSUME stopper = "stopped", NEW r \in gone + 1..atStop
               PROVE  r \in InBuffer(written) \cup dropped \cup exposed
    BY DEF StopLosesOnlyExposed
  <2>1. thread = "ended" /\ OnTheWay(r)
    BY <1>1 DEF Agree, StopInv
  <2>2. toWrite = <<>> /\ done = 0
    BY <1>1, <2>1 DEF Agree, Emptied
  <2>3. Left = <<>>
    BY <1>1, <2>2, NothingLeft, EmptySeq
  <2>4. InBuffers(Left) = {}
    BY <2>3, EmptyBuffer
  <2> QED BY <2>1, <2>4 DEF OnTheWay
<1> QED BY <1>1, AsyncInvariance, AsyncAgreement, PTL

\* The files hold the records once and in order, over renames, stops, crashes and restarts.
THEOREM AsyncFilesInOrder == Spec => []FilesInOrder
<1>1. ASSUME IInv, Agree PROVE FilesInOrder
  <2> DEFINE F == [n \in 1..logFileCount |-> disk[logFileCount - n]]
  <2>1. ASSUME NEW i \in 1..logFileCount PROVE logFileCount - i \in Files /\ F[i] = disk[logFileCount - i]
    BY FileAssumption DEF Files
  <2>2. DOMAIN F = 1..logFileCount
    OBVIOUS
  <2> HIDE DEF F
  <2> SUFFICES ASSUME NEW i \in 1..logFileCount, NEW j \in 1..logFileCount,
                      NEW x \in DOMAIN F[i], NEW y \in DOMAIN F[j], i < j \/ (i = j /\ x < y)
               PROVE  F[i][x] < F[j][y]
    BY <2>2 DEF FilesInOrder, InOrder, F
  <2>3. F[i] \in Seq(Records) /\ F[j] \in Seq(Records)
    BY <1>1, <2>1 DEF IInv, FileOK, Files
  <2>4. x \in 1..Len(F[i]) /\ y \in 1..Len(F[j])
    BY <2>3, LenProperties
  <2>5. CASE i = j /\ x < y
    <3>1. Sorted(F[i])
      BY <1>1, <2>1 DEF Agree, OrderInv, FilesOK
    <3> QED BY <2>4, <2>5, <3>1 DEF Sorted
  <2>6. CASE i < j
    <3>1. logFileCount - j < logFileCount - i
      BY <2>6, FileAssumption
    <3>2. Less(InBuffer(F[i]), InBuffer(F[j]))
      BY <1>1, <2>1, <3>1 DEF Agree, OrderInv, FilesOK
    <3> QED BY <2>4, <3>2 DEF Less, InBuffer
  <2> QED BY <2>5, <2>6
<1> QED BY <1>1, AsyncInvariance, AsyncAgreement, PTL
=============================================================================
