------------------------------- MODULE LogFile -------------------------------
(***************************************************************************)
(* The log file of the brpc servers (server/base/LogFile.cpp): the file    *)
(* written to and those it was renamed to, ".1" the youngest.  The file    *)
(* rolls when _rollSize has been written, and from then on with every      *)
(* append, since _hadWrittenBytes is never reset.  Sizes count records.    *)
(***************************************************************************)
EXTENDS Naturals, Sequences

CONSTANTS RollSize,      \* _rollSize
          logFileCount   \* files there may be

VARIABLES disk,          \* what each file holds: 0 the current one, k the one named ".k"
          hadWritten,    \* _hadWrittenBytes
          fileCount,     \* _logFileCount
          flushed        \* how much of the current file has been flushed

fileVars == <<disk, hadWritten, fileCount, flushed>>

ASSUME FileAssumption == RollSize \in Nat /\ logFileCount \in Nat \ {0, 1}

FileInit == /\ disk = [k \in 0..logFileCount - 1 |-> <<>>]
            /\ hadWritten = 0 /\ fileCount = 0 /\ flushed = 0

\* Mutation: the younger files are renamed first.
RenamedUp(d, n) == [k \in 0..logFileCount - 1 |-> IF k = 0 THEN <<>>
                                                  ELSE IF k <= n THEN d[0] ELSE d[k]]

\* changeLogFileName: ".2" becomes ".3" and takes its place, then ".1" becomes
\* ".2", and the current file ".1"; a new one is opened.  The file that remove is
\* called with ("logcat.log3", without the dot) does not exist.
Renamed(d, n) == [k \in 0..logFileCount - 1 |-> IF k = 0 THEN <<>>
                                                ELSE IF k <= n THEN d[k - 1] ELSE d[k]]

\* append: the buffer goes to the current file, which then rolls if enough was
\* written since the start of the process.
FileAppend(b) ==
  LET written == [disk EXCEPT ![0] = @ \o b]
      n == IF fileCount + 1 > logFileCount - 1 THEN fileCount ELSE fileCount + 1
  IN  /\ hadWritten' = hadWritten + Len(b)
      /\ IF hadWritten' >= RollSize
         THEN /\ fileCount' = n
              /\ disk' = Renamed(written, n)
              /\ flushed' = 0
         ELSE /\ disk' = written
              /\ UNCHANGED <<fileCount, flushed>>

flush == /\ flushed' = Len(disk[0])
         /\ UNCHANGED <<disk, hadWritten, fileCount>>

\* The process dies: of the current file there is left what was flushed, and as
\* much of the rest as the library or the check of every ninth append had flushed.
FileCut == /\ \E n \in flushed..Len(disk[0]) : disk' = [disk EXCEPT ![0] = SubSeq(@, 1, n)]
           /\ UNCHANGED <<hadWritten, fileCount, flushed>>

\* A new process opens the file for appending, and counts from zero.
FileOpen == /\ hadWritten' = 0 /\ fileCount' = 0
            /\ flushed' = Len(disk[0])
            /\ UNCHANGED disk
==============================================================================
