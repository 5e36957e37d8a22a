--------------------------- MODULE MCFiberRuntime ---------------------------
(* Four fibers with four calls  each, on a channel of two values: several  *)
(* senders, or several receivers, wait at once and others barge in.        *)
EXTENDS FiberRuntime, TLC
FiberSymmetry == Permutations(Fiber)
=============================================================================
