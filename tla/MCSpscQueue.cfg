SPECIFICATION FairSpec
CONSTANTS
  Capacity = 2
  Width = 8
  Item = {a, b}
  Raw = Raw
INVARIANTS
  NoSlotRace
  ObjectLifetime
PROPERTIES
  ImplementsFifo
  Delivered
\* the queue stops for good once it has been destroyed
CHECK_DEADLOCK FALSE
