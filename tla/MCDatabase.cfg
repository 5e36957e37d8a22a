CONSTANTS
  Client = {c1, c2}
  Frame = {f1, f2}
  NoFrame = NoFrame
  K = 2
  MaxPages = 3
  MaxAccess = 5
  MaxWrites = 1
  MaxFails = 1
  PageSize = 8
  HeaderSize = 1
  SlotSize = 2
  Payloads <- MCPayloads
  Key = {k1, k2}
  Value = {a, b}
  Empty = Empty
  Absent = Absent
  MaxTxn = 3
  MaxPuts = 3
  MaxCrashes = 2
SPECIFICATION DatabaseSpec
INVARIANTS
  PointersValid
  NoLostChange
  FramesAccounted
  VictimIsLruK
  TuplesIntact
  
  SnapshotStable
  IdsFresh
SYMMETRY Symmetry
\* a closed pool, a full page, and transactions that have ended do nothing more
CHECK_DEADLOCK FALSE
