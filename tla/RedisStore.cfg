SPECIFICATION FairSpec
CONSTANTS
  Processes = {{t1, t2}}
  Keys = {k1, k2}
  TTLs = {1, 2}
  MaxTime = 1
  MaxOps = 3
  Ops = {"Get", "Set", "Delete", "Clear", "Close", "Len", "Stats"}
  MayFail = TRUE
  Absent = Absent
  Idle = Idle
  Nobody = Nobody
CHECK_DEADLOCK FALSE
INVARIANTS TypeOK LastWriteStands
PROPERTY ReturnsUnlessOvertaken
