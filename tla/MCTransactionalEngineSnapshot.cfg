CONSTANTS
  Key = {k1, k2}
  Value = {a, b}
  Empty = Empty
  Absent = Absent
  MaxTxn = 3
  MaxPuts = 3
  MaxCrashes = 0
SPECIFICATION Spec
INVARIANT SnapshotExact
CHECK_DEADLOCK FALSE
