----------------------------- MODULE MCSpscQueue -----------------------------
(* SpscQueue for TLC: two slots and an eight-valued index, so that the ring *)
(* wraps four times before the index does, and the index wraps too.         *)
EXTENDS SpscQueue
=============================================================================
