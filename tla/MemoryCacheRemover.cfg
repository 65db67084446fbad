SPECIFICATION Spec
CONSTANTS
  Backends = {"lru"}
  Keys = {k1}
  Capacity = 1
  TTLs = {1}
  Removers = {r1}
  MaxTime = 2
  MaxOps = 2
  Ops = {"Set"}
  EmptyKey = EmptyKey
  Absent = Absent
  Idle = Idle
CHECK_DEADLOCK FALSE
PROPERTY RemoversSpareLive
