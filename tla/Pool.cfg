\* The pool under every command, leaks included.
SPECIFICATION FairSpec
CONSTANTS
  t1 = t1
  t2 = t2
  t3 = t3
  Threads <- MCThreads
  Commands <- AllCommands
  InitCount = 1
  MaxCount = 2
  CallBudget = 2
INVARIANTS NoLostWakeup
PROPERTIES ImplementsLease EveryCallReturns
\* every budget spent, or every connection leaked: the threads really stop
CHECK_DEADLOCK FALSE
