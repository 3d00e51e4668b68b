----------------------------- MODULE LogService -----------------------------
(***************************************************************************)
(* The logger of server1 (base/LogService.cpp): threads append records to  *)
(* a list, one writer thread takes and writes them, stop() ends the        *)
(* writer, and a FATAL record empties the list and ends the process.       *)
(*                                                                         *)
(* The list is under m_mutext.  The writer writes outside it, and stop()   *)
(* sets m_isExited and notifies without it.  Records are numbered in the   *)
(* order they get the mutex; those below the level in force are dropped    *)
(* before anything else and not modelled.  LogService.cpp:59 sends         *)
(* everything to stdout: a write never fails, no file is ever rolled.      *)
(***************************************************************************)
EXTENDS Naturals, Sequences

CONSTANT MaxRecords   \* bound: records put out

VARIABLES writer,     \* where threadProc is
          buffer,     \* m_logBuffer
          hand,       \* the record the writer has popped and not yet written
          written,    \* what has been written, in order
          isExited,   \* m_isExited
          notified,   \* a notify has reached the waiting writer
          stopper,    \* where the thread is that calls stop
          fatal,      \* where the thread is that puts out a FATAL record
          \* history, read by no action:
          logged,     \* records put out so far: the numbers 1..logged
          missed,     \* stop notified while the writer was about to wait
          late        \* what the writer had in hand when FATAL took the mutex

writerVars == <<writer, hand>>
stopVars == <<isExited, stopper, missed>>
fatalVars == <<fatal, late>>
vars == <<writerVars, buffer, written, notified, stopVars, fatalVars, logged>>

ASSUME LogAssumption == MaxRecords \in Nat \ {0}

Init == /\ writer = "none" /\ hand = <<>>
        /\ buffer = <<>> /\ written = <<>>
        /\ isExited = FALSE /\ notified = FALSE
        /\ stopper = "running" /\ missed = FALSE
        /\ fatal = "none" /\ late = <<>>
        /\ logged = 0

\* m_mutext is held across steps by a writer between its tests and its wait, and
\* by a FATAL record until the end of the process.
Free == writer # "sleepy" /\ fatal = "none"

Alive == fatal # "crashed"

------------------------------------------------------------------------------
(* output.                                                                 *)

Push == /\ Alive /\ Free /\ logged < MaxRecords
        /\ logged' = logged + 1
        /\ buffer' = Append(buffer, logged + 1)
        /\ UNCHANGED <<writerVars, written, stopVars, fatalVars>>

\* A record below FATAL: push_back and notify_one under the mutex.
Output == Push /\ notified' = (notified \/ writer = "waiting")

\* A FATAL record takes the mutex ...
Fatal == /\ Alive /\ Free /\ logged < MaxRecords
         /\ logged' = logged + 1
         /\ fatal' = "draining"
         /\ late' = hand
         /\ UNCHANGED <<writerVars, buffer, written, notified, stopVars>>

\* ... writes what is in the list, all of it ...
Drain == /\ fatal = "draining" /\ buffer # <<>>
         /\ written' = Append(written, Head(buffer))
         /\ buffer' = Tail(buffer)
         /\ UNCHANGED <<writerVars, notified, stopVars, fatalVars, logged>>

\* Mutation: ... and its own record, whatever is in the list.
WriteFatalNow == /\ fatal = "draining"
                 /\ written' = Append(written, logged)
                 /\ fatal' = "crashing"
                 /\ UNCHANGED <<writerVars, buffer, notified, stopVars, late, logged>>

\* ... and its own record ...
WriteFatal == /\ fatal = "draining" /\ buffer = <<>>
              /\ written' = Append(written, logged)
              /\ fatal' = "crashing"
              /\ UNCHANGED <<writerVars, buffer, notified, stopVars, late, logged>>

\* ... and ends the process.
crash == /\ fatal = "crashing"
         /\ fatal' = "crashed"
         /\ UNCHANGED <<writerVars, buffer, written, notified, stopVars, late, logged>>

------------------------------------------------------------------------------
(* threadProc.                                                             *)

init == /\ Alive /\ writer = "none"
        /\ writer' = "looking"
        /\ UNCHANGED <<hand, buffer, written, notified, stopVars, fatalVars, logged>>

\* Mutation: the list is emptied from the back.
PopBack == /\ Free /\ writer = "looking" /\ buffer # <<>>
           /\ writer' = "writing"
           /\ hand' = <<buffer[Len(buffer)]>>
           /\ buffer' = SubSeq(buffer, 1, Len(buffer) - 1)
           /\ UNCHANGED <<written, notified, stopVars, fatalVars, logged>>

\* The list is not empty: one record is popped under the mutex.
Pop == /\ Free /\ writer = "looking" /\ buffer # <<>>
       /\ writer' = "writing"
       /\ hand' = <<Head(buffer)>>
       /\ buffer' = Tail(buffer)
       /\ UNCHANGED <<written, notified, stopVars, fatalVars, logged>>

\* Mutation: m_isExited is tested before the list.
EndAtOnce == /\ Free /\ writer = "looking" /\ isExited
             /\ writer' = "ended"
             /\ UNCHANGED <<hand, buffer, written, notified, stopVars, fatalVars, logged>>

\* The list is empty and m_isExited is set.
End == /\ Free /\ writer = "looking" /\ buffer = <<>> /\ isExited
       /\ writer' = "ended"
       /\ UNCHANGED <<hand, buffer, written, notified, stopVars, fatalVars, logged>>

\* The list is empty and m_isExited is not set: with the mutex in hand ...
Look == /\ Free /\ writer = "looking" /\ buffer = <<>> /\ ~isExited
        /\ writer' = "sleepy"
        /\ UNCHANGED <<hand, buffer, written, notified, stopVars, fatalVars, logged>>

\* ... the writer goes to wait.
Wait == /\ Alive /\ writer = "sleepy"
        /\ writer' = "waiting"
        /\ UNCHANGED <<hand, buffer, written, notified, stopVars, fatalVars, logged>>

Resume == /\ Free /\ writer = "waiting" /\ notified
          /\ writer' = "looking"
          /\ notified' = FALSE
          /\ UNCHANGED <<hand, buffer, written, stopVars, fatalVars, logged>>

SpuriousWake == /\ Free /\ writer = "waiting" /\ ~notified
                /\ writer' = "looking"
                /\ UNCHANGED <<hand, buffer, written, notified, stopVars, fatalVars, logged>>

\* The record is written outside the mutex: a FATAL record does not wait for it.
write == /\ Alive /\ writer = "writing"
         /\ writer' = "looking"
         /\ hand' = <<>>
         /\ written' = written \o hand
         /\ UNCHANGED <<buffer, notified, stopVars, fatalVars, logged>>

------------------------------------------------------------------------------
(* stop, without the mutex.                                                *)

stop == /\ Alive /\ stopper = "running" /\ writer # "none"
        /\ isExited' = TRUE
        /\ stopper' = "notifying"
        /\ UNCHANGED <<writerVars, buffer, written, notified, missed, fatalVars, logged>>

\* Mutation: nobody is notified.
NotifyNobody == /\ Alive /\ stopper = "notifying"
                /\ stopper' = "joining"
                /\ missed' = (writer = "sleepy")
                /\ UNCHANGED <<writerVars, buffer, written, notified, isExited, fatalVars,
                               logged>>

NotifyOne == /\ Alive /\ stopper = "notifying"
             /\ stopper' = "joining"
             /\ notified' = (notified \/ writer = "waiting")
             /\ missed' = (writer = "sleepy")
             /\ UNCHANGED <<writerVars, buffer, written, isExited, fatalVars, logged>>

\* m_fpPtr is null: fclose is called with it, which need not return.
Join == /\ Alive /\ stopper = "joining" /\ writer = "ended"
        /\ stopper' \in {"returned", "closing"}
        /\ UNCHANGED <<writerVars, buffer, written, notified, isExited, missed, fatalVars,
                       logged>>

------------------------------------------------------------------------------
Writer == Pop \/ End \/ Look \/ Wait \/ Resume \/ write

Next == \/ Output \/ Fatal \/ Drain \/ WriteFatal \/ crash
        \/ init \/ Writer \/ SpuriousWake
        \/ stop \/ NotifyOne \/ Join

Spec == Init /\ [][Next]_vars

\* Threads that can go on do, and Main starts the writer.  No spurious wakeup is
\* relied on, and nobody need put out a record or stop the logger.
FairSpec == /\ Spec
            /\ WF_vars(init) /\ WF_vars(Writer)
            /\ WF_vars(Drain \/ WriteFatal \/ crash)
            /\ WF_vars(NotifyOne) /\ WF_vars(Join)

------------------------------------------------------------------------------
TypeOK ==
  /\ writer \in {"none", "looking", "sleepy", "waiting", "writing", "ended"}
  /\ logged \in 0..MaxRecords
  /\ buffer \in Seq(1..MaxRecords) /\ written \in Seq(1..MaxRecords)
  /\ hand \in Seq(1..MaxRecords) /\ late \in Seq(1..MaxRecords)
  /\ isExited \in BOOLEAN /\ notified \in BOOLEAN /\ missed \in BOOLEAN
  /\ stopper \in {"running", "notifying", "joining", "returned", "closing"}
  /\ fatal \in {"none", "draining", "crashing", "crashed"}

Logged == [n \in 1..logged |-> n]

Has(seq, n) == \E i \in 1..Len(seq) : seq[i] = n

\* Until a FATAL record comes, every record is written once, in the order the
\* threads got the mutex, whichever of them notified whom.
WrittenOnceInOrder == fatal = "none" => written \o hand \o buffer = Logged

\* A FATAL record ends the process when everything put out before it has been
\* written, but for the one record the writer had popped at that moment.
CrashLosesOnlyHand ==
  fatal = "crashed" =>
    \A n \in 1..logged : Has(written, n) \/ late = <<n>>

\* The writer sleeps on records only while a notify is on its way, and on
\* m_isExited only while stop has still to notify, or has notified between the
\* test of m_isExited and the wait.
SleepsOnlyByMissed ==
  writer = "waiting" /\ fatal = "none" /\ ~notified =>
    /\ buffer = <<>>
    /\ isExited => stopper = "notifying" \/ missed

\* A record in the list is written in the end, unless the writer has ended: also
\* a record that comes while stop has set m_isExited already, and one that comes
\* after a missed notify.
LoggedIsWritten ==
  \A n \in 1..MaxRecords :
    logged >= n /\ writer # "ended" ~> Has(written, n) \/ late = <<n>>

\* stop() joins the writer, unless its notify fell between the test of m_isExited
\* and the wait, or the process crashes.
StopReturnsUnlessMissed ==
  stopper = "joining" /\ ~missed ~> stopper \in {"returned", "closing"} \/ ~Alive
==============================================================================
