SPECIFICATION MCFairSpec
CONSTANTS
  c1 = c1
  c2 = c2
  c3 = c3
  l1 = l1
  l2 = l2
  l3 = l3
  Conns <- Pair
  Loops <- PairLoops
  LoopOf <- PairOwnLoops
  Users <- MCUsers
  Groups <- MCGroups
  Friends <- Acquainted
  Types <- Android
  Credentials <- PairClients
  Refusals = {c2}
  Offenders = {c2}
  Ops = {"status", "apply", "join", "answer", "delete"}
  MaxCommands = 1
  MaxLogins = 2
CHECK_DEADLOCK FALSE
PROPERTIES SeenGetsIt
