\* Two processes, one after the other, on the same three files.
SPECIFICATION FairSpec
CONSTANTS
  RollSize = 2
  logFileCount = 3
  Size = 3
  MaxRecords = 5
  MaxRestarts = 1
INVARIANTS BuffersSuffice WrittenOnceInOrder StopLosesOnlyExposed FilesInOrder
PROPERTIES AppendedIsWritten
\* the last process was stopped or crashed
CHECK_DEADLOCK FALSE
