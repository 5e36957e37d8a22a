CONSTANTS
  Keys = {k1, k2}
  Vals = {1, 2}
  MaxWrites = 3
  MaxLosses = 0
SPECIFICATION WalSpec
INVARIANT AcknowledgedSurvive
CHECK_DEADLOCK FALSE
