CONSTANTS
  Fiber = {f1, f2, f3, f4}
  NoFiber = NoFiber
  Capacity = 2
  MaxOps = 4
SYMMETRY FiberSymmetry
SPECIFICATION Spec
INVARIANTS MutualExclusion OnePlace NothingForgotten
CHECK_DEADLOCK FALSE
