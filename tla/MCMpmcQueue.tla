----------------------------- MODULE MCMpmcQueue -----------------------------
(* Four items through two cells: every cell is used twice, so both the     *)
(* full and the empty queue occur and positions run a lap apart.           *)
EXTENDS MpmcQueue
=============================================================================
