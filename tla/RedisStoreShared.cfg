SPECIFICATION FairSpec
CONSTANTS
  Processes = {{t1}, {t2}}
  Keys = {k1}
  TTLs = {2}
  MaxTime = 0
  MaxOps = 3
  Ops = {"Get", "Set", "Delete"}
  MayFail = FALSE
  Absent = Absent
  Idle = Idle
  Nobody = Nobody
CHECK_DEADLOCK FALSE
INVARIANT LastWriteStands
