SPECIFICATION MCSpec
CONSTANTS
  c1 = c1
  c2 = c2
  c3 = c3
  l1 = l1
  l2 = l2
  l3 = l3
  Conns <- MCConns
  Loops <- MCLoops
  LoopOf <- OwnLoops
  Users <- MCUsers
  Groups <- MCGroups
  Friends <- Strangers
  Types <- Android
  Credentials <- SameClient
  Refusals = {}
  Offenders = {}
  Ops = {"chat", "group"}
  MaxCommands = 2
  MaxLogins = 2
INVARIANTS OfflineConserved PushedToSeen LoginAnsweredFirst SenderOrder
  StrandedOnlyByRace UniqueUnlessOverlap
PROPERTIES OnlyKickedActAsNobody
CHECK_DEADLOCK FALSE
