------------------------------ MODULE AsyncLog -------------------------------
(***************************************************************************)
(* The asynchronous logger of the brpc servers (server/base/AsyncLog.cpp): *)
(* append fills _curBuffer under _mutex and puts full buffers aside; a     *)
(* background thread exchanges what there is for empty buffers, writes it  *)
(* to a LogFile outside the mutex, and keeps two of the buffers for the    *)
(* next exchange.  stop() clears _working, notifies and joins.             *)
(*                                                                         *)
(* Records are numbered in the order of append and count one each; huge    *)
(* ones are as long as a buffer.  A process may stop or crash and be       *)
(* started again on the same files.                                        *)
(***************************************************************************)
EXTENDS LogFile

CONSTANTS Size,         \* of a buffer: a record fits while more than its length is free
          MaxRecords,   \* bound: records appended
          MaxRestarts   \* bound: starts after the first

VARIABLES working,      \* _working
          thread,       \* where asyncLogThread is
          cur,          \* _curBuffer
          nex,          \* there is a _nexBuffer
          buffers,      \* _buffers
          new1, new2,   \* the thread has a newBuffer1, a newBuffer2: empty ones
          toWrite,      \* buffersToWrite
          done,         \* how many of them have been written
          stopper,      \* where the thread is that calls stop
          \* history, read by no action but for the numbering and the bounds:
          appended,     \* records appended
          dropped,      \* records that are nowhere: too long for any buffer
          exposed,      \* records not taken yet when stop found the thread busy
          atStop,       \* records appended when stop was called
          written,      \* what this process gave to LogFile
          gone,         \* records appended by earlier processes
          restarts

bufferVars == <<cur, nex, buffers>>
threadVars == <<thread, new1, new2, toWrite, done, written>>
stopVars == <<working, stopper, exposed, atStop>>
countVars == <<gone, restarts>>
vars == <<fileVars, bufferVars, threadVars, stopVars, countVars, appended, dropped>>

ASSUME AsyncAssumption == /\ Size \in Nat \ {0, 1}
                          /\ MaxRecords \in Nat \ {0} /\ MaxRestarts \in Nat

\* The constructor, and start: the thread signals when it has its buffers.
Init == /\ FileInit
        /\ working = TRUE /\ stopper = "running"
        /\ thread = "testing" /\ new1 = TRUE /\ new2 = TRUE
        /\ toWrite = <<>> /\ done = 0 /\ written = <<>>
        /\ cur = <<>> /\ nex = TRUE /\ buffers = <<>>
        /\ exposed = {} /\ atStop = 0
        /\ appended = 0 /\ dropped = {} /\ gone = 0 /\ restarts = 0

Up == stopper \in {"running", "joining"}

InBuffer(b) == {b[i] : i \in 1..Len(b)}
InBuffers(bs) == UNION {InBuffer(bs[i]) : i \in 1..Len(bs)}

\* Records that wait for the thread to take them.
Waiting == InBuffer(cur) \cup InBuffers(buffers)

------------------------------------------------------------------------------
(* append.                                                                 *)

vaild(b) == Size - Len(b)

\* LogBuffer::append: what does not fit is dropped without a word.
Into(b, len, r) == IF vaild(b) > len THEN Append(b, r) ELSE b

\* Mutation: the full buffer is not put aside.
RotateDrops(len, r) == /\ buffers' = buffers
                       /\ nex' = FALSE
                       /\ cur' = Into(<<>>, len, r)

\* The current buffer is put aside, and the next one or a new one taken.
Rotate(len, r) == /\ buffers' = Append(buffers, cur)
                  /\ nex' = FALSE
                  /\ cur' = Into(<<>>, len, r)

append(len) ==
  LET r == appended + 1
  IN  /\ Up /\ appended < MaxRecords
      /\ appended' = r
      /\ IF vaild(cur) > len
         THEN cur' = Into(cur, len, r) /\ UNCHANGED <<nex, buffers>>
         ELSE Rotate(len, r)
      /\ dropped' = IF Size > len THEN dropped ELSE dropped \cup {r}
      /\ UNCHANGED <<fileVars, threadVars, stopVars, countVars>>

------------------------------------------------------------------------------
(* asyncLogThread.                                                         *)

At(from, to) == Up /\ thread = from /\ thread' = to

Test == /\ Up /\ thread = "testing"
        /\ thread' = IF working THEN "entering" ELSE "leaving"
        /\ UNCHANGED <<fileVars, bufferVars, new1, new2, toWrite, done, written, stopVars,
                       countVars, appended, dropped>>

\* Nothing was put aside: wait, once, to be notified or for _flushInterval.
Wait == /\ At("entering", "waiting")
        /\ buffers = <<>>
        /\ UNCHANGED <<fileVars, bufferVars, new1, new2, toWrite, done, written, stopVars,
                       countVars, appended, dropped>>

\* Mutation: the current buffer is taken only if nothing was put aside.
SwapFullOnes == /\ \/ thread = "waiting"
                   \/ thread = "entering" /\ buffers # <<>>
                /\ Up
                /\ thread' = "writing"
                /\ toWrite' = IF buffers = <<>> THEN <<cur>> ELSE buffers
                /\ buffers' = <<>>
                /\ cur' = IF buffers = <<>> THEN <<>> ELSE cur
                /\ new1' = FALSE
                /\ nex' = TRUE
                /\ new2' = (new2 /\ nex)
                /\ done' = 0
                /\ UNCHANGED <<fileVars, written, stopVars, countVars, appended, dropped>>

\* Mutation: the wait has no end but a notify.
SwapIfFull == /\ thread \in {"entering", "waiting"} /\ buffers # <<>>
              /\ Up
              /\ thread' = "writing"
              /\ toWrite' = Append(buffers, cur)
              /\ buffers' = <<>>
              /\ cur' = <<>>
              /\ new1' = FALSE
              /\ nex' = TRUE
              /\ new2' = (new2 /\ nex)
              /\ done' = 0
              /\ UNCHANGED <<fileVars, written, stopVars, countVars, appended, dropped>>

\* With the mutex: take the full buffers and the current one, leave newBuffer1 as
\* the current one and newBuffer2 as the next if that is gone.
Swap == /\ \/ thread = "waiting"
           \/ thread = "entering" /\ buffers # <<>>
        /\ Up
        /\ thread' = "writing"
        /\ toWrite' = Append(buffers, cur)
        /\ buffers' = <<>>
        /\ cur' = <<>>
        /\ new1' = FALSE
        /\ nex' = TRUE
        /\ new2' = (new2 /\ nex)
        /\ done' = 0
        /\ UNCHANGED <<fileVars, written, stopVars, countVars, appended, dropped>>

\* Outside the mutex, one buffer; an empty one is left out.
Write == /\ Up /\ thread = "writing" /\ done < Len(toWrite)
         /\ done' = done + 1
         /\ LET b == toWrite[done + 1]
            IN  /\ IF b = <<>> THEN UNCHANGED fileVars ELSE FileAppend(b)
                /\ written' = written \o b
         /\ UNCHANGED <<bufferVars, thread, new1, new2, toWrite, stopVars, countVars, appended,
                        dropped>>

\* Mutation: one buffer is kept of those written, not two.
RefillOne == /\ At("writing", "testing")
             /\ done = Len(toWrite)
             /\ LET spare == Len(toWrite)
                IN  /\ new1' = TRUE
                    /\ new2' = (new2 \/ spare > 2)
             /\ toWrite' = <<>> /\ done' = 0
             /\ flush
             /\ UNCHANGED <<bufferVars, written, stopVars, countVars, appended, dropped>>

\* Two of the buffers written become newBuffer1 and newBuffer2 where they are
\* missing; the file is flushed.
Refill == /\ At("writing", "testing")
          /\ done = Len(toWrite)
          /\ LET spare == IF Len(toWrite) > 2 THEN 2 ELSE Len(toWrite)
             IN  /\ new1' = (new1 \/ spare > 0)
                 /\ new2' = (new2 \/ spare > (IF new1 THEN 0 ELSE 1))
          /\ toWrite' = <<>> /\ done' = 0
          /\ flush
          /\ UNCHANGED <<bufferVars, written, stopVars, countVars, appended, dropped>>

\* The last flush, and the destructor of the LogFile.
Leave == /\ At("leaving", "ended")
         /\ flush
         /\ UNCHANGED <<bufferVars, new1, new2, toWrite, done, written, stopVars, countVars,
                        appended, dropped>>

------------------------------------------------------------------------------
(* stop, crashes and restarts.                                             *)

\* What is appended once the thread has swapped, and before it tests _working
\* again, is not taken any more.
stop == /\ stopper = "running"
        /\ working' = FALSE
        /\ stopper' = "joining"
        /\ exposed' = IF thread \in {"writing", "testing"} THEN Waiting ELSE {}
        /\ atStop' = appended
        /\ UNCHANGED <<fileVars, bufferVars, threadVars, countVars, appended, dropped>>

Join == /\ stopper = "joining" /\ thread = "ended"
        /\ stopper' = "stopped"
        /\ UNCHANGED <<fileVars, bufferVars, threadVars, working, exposed, atStop, countVars,
                       appended, dropped>>

Crash == /\ Up /\ thread # "ended"
         /\ stopper' = "crashed"
         /\ FileCut
         /\ UNCHANGED <<bufferVars, threadVars, working, exposed, atStop, countVars, appended,
                        dropped>>

Restart == /\ stopper \in {"stopped", "crashed"} /\ restarts < MaxRestarts
           /\ restarts' = restarts + 1
           /\ gone' = appended
           /\ FileOpen
           /\ working' = TRUE /\ stopper' = "running"
           /\ thread' = "testing" /\ new1' = TRUE /\ new2' = TRUE
           /\ toWrite' = <<>> /\ done' = 0 /\ written' = <<>>
           /\ cur' = <<>> /\ nex' = TRUE /\ buffers' = <<>>
           /\ exposed' = {} /\ atStop' = 0
           /\ UNCHANGED <<appended, dropped>>

------------------------------------------------------------------------------
Thread == Test \/ Wait \/ Swap \/ Write \/ Refill \/ Leave

Next == \/ \E len \in {1, Size} : append(len)
        \/ Thread \/ stop \/ Join \/ Crash \/ Restart

Spec == Init /\ [][Next]_vars

\* The thread runs: its wait ends after _flushInterval at the latest.
FairSpec == Spec /\ WF_vars(Thread) /\ WF_vars(Join)

------------------------------------------------------------------------------
TypeOK ==
  /\ working \in BOOLEAN /\ nex \in BOOLEAN /\ new1 \in BOOLEAN /\ new2 \in BOOLEAN
  /\ thread \in {"testing", "entering", "waiting", "writing", "leaving", "ended"}
  /\ stopper \in {"running", "joining", "stopped", "crashed"}
  /\ cur \in Seq(1..MaxRecords) /\ written \in Seq(1..MaxRecords)
  /\ buffers \in Seq(Seq(1..MaxRecords)) /\ toWrite \in Seq(Seq(1..MaxRecords))
  /\ done \in 0..Len(toWrite)
  /\ appended \in 0..MaxRecords /\ gone \in 0..appended /\ atStop \in 0..appended
  /\ disk \in [0..logFileCount - 1 -> Seq(1..MaxRecords)]
  /\ fileCount \in 0..logFileCount - 1 /\ hadWritten \in Nat /\ flushed \in 0..Len(disk[0])

\* The assertions of asyncLogThread: at the top of the loop there are two empty
\* buffers, and after every exchange enough buffers come back to replace them,
\* however many append put aside meanwhile.
BuffersSuffice ==
  /\ thread \in {"testing", "entering", "waiting"} => new1 /\ new2
  /\ thread = "writing" => Len(toWrite) >= (IF new2 THEN 1 ELSE 2)

\* Sequences of records that are one increasing sequence when read one after the other.
InOrder(bs) == \A i, j \in DOMAIN bs : \A x \in DOMAIN bs[i], y \in DOMAIN bs[j] :
                 i < j \/ (i = j /\ x < y) => bs[i][x] < bs[j][y]

\* The buffers this process has yet to write, the first one first.
Left == SubSeq(toWrite, done + 1, Len(toWrite))
Queue == Append(Left \o buffers, cur)

\* What a process is asked to append reaches the file once and in order, by way of
\* three sets of buffers, unless it is too long for a buffer.
WrittenOnceInOrder ==
  Up => /\ InOrder(<<written>> \o Queue)
        /\ InBuffer(written) \cup InBuffers(Queue) = (gone + 1..appended) \ dropped

\* stop() is there "so that the thread can write all records" (AsyncLog.cpp:53):
\* of those appended before it, it loses only those that waited while the thread
\* was between its exchange and its test of _working.
StopLosesOnlyExposed ==
  stopper = "stopped" =>
    \A r \in gone + 1..atStop : r \in InBuffer(written) \cup dropped \cup exposed

\* However often the files are renamed, over stops, crashes and restarts, reading
\* them from the highest number to the current one gives every record once and in
\* the order of the calls.
FilesInOrder == InOrder([n \in 1..logFileCount |-> disk[logFileCount - n]])

\* What was appended is written without waiting for a buffer to fill, unless the
\* process stops or crashes.
AppendedIsWritten ==
  \A r \in 1..MaxRecords :
    appended >= r ~> r \in InBuffer(written) \cup dropped \/ stopper # "running" \/ gone >= r
==============================================================================
