\* Two connections on two worker loops.
SPECIFICATION FairSpec
CONSTANTS
  c1 = c1
  c2 = c2
  c3 = c3
  base = base
  w1 = w1
  w2 = w2
  Conns <- TwoConns
  Base <- base
  Workers <- TwoWorkers
  Fds <- TwoFds
  Reactions = {"reply", "forward", "close", "shutdown"}
  MaxRequests = 2
INVARIANTS TargetsAlive OrphansOnlyByReset CutOnlyIfOvertaken
PROPERTIES GoneIsReleased
\* everyone has left: the server waits for clients
CHECK_DEADLOCK FALSE
