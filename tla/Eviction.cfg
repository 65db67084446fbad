SPECIFICATION Spec
CONSTANTS
  Keys = {k1, k2, k3, k4}
  Entries = {e1, e2}
  Capacity = 3
  Absent = Absent
  NoKey = NoKey
  EmptyKey = EmptyKey
  MaxFreq = 3
INVARIANTS TypeOK StructuresAgree OrderIsArrival WithinCapacity
PROPERTIES VictimLeastUsed VictimLeastRecent EntriesKept ImplementsStrategy
