CONSTANTS
  Msgs <- BookEvents
  Capacity = 2
  Word = 4
  MaxStarts = 2
  MaxAttaches = 2
  MaxMsgs = 4
  MaxDepth = 2
  Key = {k1, k2}
  FlushKeys = 2
  MaxPuts = 3
  MaxLives = 2
  MaxTables = 1
  MaxRecovers = 2
SPECIFICATION CapstoneSpec
INVARIANTS RingSafe BookIsFeed NoStaleRead RecoveryNotOlder
PROPERTIES Consumed CloseReturns
\* an exchange that is done and a database that was closed stay so
CHECK_DEADLOCK FALSE
