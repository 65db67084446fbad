SPECIFICATION FairSpec
CONSTANTS
  Processes = {{t1, t2}}
  Keys = {k1}
  TTLs = {2}
  MaxTime = 0
  MaxOps = 3
  Ops = {"Set", "Stats"}
  MayFail = FALSE
  Absent = Absent
  Idle = Idle
  Nobody = Nobody
CHECK_DEADLOCK FALSE
PROPERTY EveryCallReturns
