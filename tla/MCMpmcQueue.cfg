SPECIFICATION Spec
CONSTANTS
  Producer = {p1, p2}
  Consumer = {c1, c2}
  Capacity = 2
  Pushes = 2
INVARIANTS
  NoCellRace
  DeliveredInOrder
  QuiescentReady
PROPERTIES
  ImplementsFifo
