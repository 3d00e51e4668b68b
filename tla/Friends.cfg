CONSTANTS
  Loops = {l1, l2}
  BASE_GROUP_ID = 2
  FirstUsers <- MCFirstUsers
  FirstRows <- MCFirstRows
  Names = {"ann", "bob"}
  NameOf <- MCNameOf
  Values = {"v1", "v2"}
  Stray = {2}
  MaxUserId = 2
  MaxGroupId = 3
  MaxCommands = 3
  MaxRestarts = 1
SYMMETRY LoopSymmetry
SPECIFICATION Spec
CHECK_DEADLOCK FALSE
INVARIANTS
  AsymmetricOnlyHalfBuilt
  MemoryMatchesRows
  NamesUniqueUnlessOverlap
