\* The server is told to end while two connections on two loops are at work.
SPECIFICATION FairSpec
CONSTANTS
  c1 = c1
  c2 = c2
  w1 = w1
  w2 = w2
  Conns <- MCConns
  Workers <- MCWorkers
  MaxSends = 1
INVARIANTS EndedLoopsUnreachable SilentOnlyIfTardy
PROPERTIES SignalEnds
\* the process has ended, or waits for itself
CHECK_DEADLOCK FALSE
