CONSTANTS
  Proc = {p1, p2, p3}
  Rounds = 2
  Clients = {c1, c2}
  MaxBytes = 2
  SndBuf = 1
  BufferSize = 2
  MaxFaults = 1
  SqSizes = {2}
SPECIFICATION KernelSpec
INVARIANTS MutualExclusion NoLostWakeup CounterExact EchoFaithful OneOperation
PROPERTIES AllTerminate EveryByteEchoed
\* an echo server that was stopped does nothing more
CHECK_DEADLOCK FALSE
