SPECIFICATION Spec
CONSTANTS
  Obj = {2, 3, 4, 5, 6, 7, 8, 9}
  Dir = {2, 3, 4, 5}
  Thread = {1, 2}
  Tag = {"a"}
  MaxTxg = 16
  Workloads <- MCWorkloads
INVARIANTS
  BlocksExact
  SpaceExact
  DeferredIsPinned
  AssertsHold
  NoCircularWait
CHECK_DEADLOCK FALSE
