CONSTANTS
  Clients = {c1}
  MaxBytes = 2
  SndBuf = 1
  BufferSize = 2
  MaxFaults = 0
  SqSizes = {2}
SPECIFICATION EchoSpec
INVARIANT FullyDrained
CHECK_DEADLOCK FALSE
