\* Threads that log, the writer, a stop and a FATAL record.
SPECIFICATION FairSpec
CONSTANTS
  MaxRecords = 4
INVARIANTS WrittenOnceInOrder CrashLosesOnlyHand
PROPERTIES LoggedIsWritten StopReturnsUnlessMissed
\* the process crashed or was stopped, or the writer waits for more records
CHECK_DEADLOCK FALSE
