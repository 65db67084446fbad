SPECIFICATION FairSpec
CONSTANTS
  Backends = {"lru", "lfu"}
  Keys = {k1, k2}
  Capacity = 1
  TTLs = {1}
  Removers = {r1, r2}
  MaxTime = 2
  MaxOps = 3
  Ops = {"Set", "Delete", "Clear", "Cleanup", "Close"}
  EmptyKey = EmptyKey
  Absent = Absent
  Idle = Idle
CHECK_DEADLOCK FALSE
INVARIANTS TypeOK WithinCapacity LossesCounted KeyCountNotBehind InvalidationsCounted
PROPERTIES LiveEntriesStay ExpiredCollected
