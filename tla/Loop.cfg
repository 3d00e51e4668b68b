\* A worker loop from its start to its join.
SPECIFICATION LoopFairSpec
CONSTANTS
  p1 = p1
  p2 = p2
  Producers <- MCProducers
  MaxJobs = 4
INVARIANTS RunOnceInOrder
PROPERTIES QueuedIsCalled JoinReturnsUnlessEarly
\* the thread is joined, or waits for functors nobody queues any more
CHECK_DEADLOCK FALSE
