CONSTANTS
  Requests = {r1, r2}
  Users = {"ann"}
  Gates = {g1, g2}
  MaxNow = 1
  MaxStarts = 2
  MaxExpiries = 1
SYMMETRY MCSymmetry
SPECIFICATION Spec
CHECK_DEADLOCK FALSE
INVARIANTS
  GateIsCurrent
  FreedOnlyInBetween
  TokenIsStored
  OnlineUnlessUndone
