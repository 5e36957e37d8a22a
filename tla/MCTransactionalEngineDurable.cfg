CONSTANTS
  Key = {k1, k2}
  Value = {a, b}
  Empty = Empty
  Absent = Absent
  MaxTxn = 3
  MaxPuts = 3
  MaxCrashes = 2
SPECIFICATION Spec
INVARIANT Durability
CHECK_DEADLOCK FALSE
