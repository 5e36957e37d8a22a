CONSTANTS
  MinBlock = 2
  MaxOrder = 3
  ObjectsPerSlab = 2
  MaxSlabs = 3
  Keys = {k1, k2}
  Vals = {1, 2}
  MaxWrites = 3
  MaxLosses = 1
  Threads = {t1, t2}
  BKeys = {1, 2, 3, 4}
  BVals = {1, 2}
  MaxKeys = 2
  MaxInserts = 4
  RecordsPerBlock = 2
  NumBits = 3
  NumHashes = 2
  NotFound = NotFound
  MaxKey = 2
  Value = {a, b}
  MaxLevel = 2
  NodeBytes = 2
  Threshold = 12
  MaxFlushes = 2
  Hashes <- HashesVal
SPECIFICATION StoresSpec
INVARIANTS
  BuddyPartition
  SlabChain
  WalRecovers
  IndexSound
  LevelsNested
  ReadsLatest
  TableLookup
SYMMETRY ValueSymmetry
CHECK_DEADLOCK FALSE
