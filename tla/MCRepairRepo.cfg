SPECIFICATION Spec
CONSTANTS
  d1 = d1
  d2 = d2
  TreeDepth = 1
  MaxRuns = 2
  MaxCrashes = 1
  PackNum <- MCPackNum
  Repositories <- MCRepositories
INVARIANTS NothingLost RepairedOk RepairIndexComplete CheckSound SubsetsCover
CHECK_DEADLOCK FALSE
