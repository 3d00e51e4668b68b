\* Three connections, two descriptors: the third is refused or takes the loop, and
\* often the descriptor, of the first.
SPECIFICATION Spec
CONSTANTS
  c1 = c1
  c2 = c2
  c3 = c3
  base = base
  w1 = w1
  w2 = w2
  Conns <- ThreeConns
  Base <- base
  Workers <- TwoWorkers
  Fds <- TwoFds
  Reactions = {"reply", "forward", "close", "shutdown"}
  MaxRequests = 1
INVARIANTS UnwatchedOnlyByReuse
PROPERTIES ImplementsLife
CHECK_DEADLOCK FALSE
