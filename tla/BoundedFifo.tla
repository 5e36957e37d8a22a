----------------------------- MODULE BoundedFifo -----------------------------
(***************************************************************************)
(* What the rings of the repository promise the threads that share them:   *)
(* a FIFO of at most Capacity items in which an accepted item is handed    *)
(* out exactly once, unchanged and in order.                               *)
(***************************************************************************)
EXTENDS Naturals, Sequences

CONSTANTS Item,      \* what can be pushed
          Capacity   \* how many items may be stored at once

VARIABLES items,     \* accepted and not yet handed out, oldest first
          out        \* the item the last successful pop handed out

vars == <<items, out>>

Init == items = << >>

(* A push that returned true. *)
Push(v) ==
  /\ Len(items) < Capacity
  /\ items' = Append(items, v)
  /\ out' = out

(* A pop that returned true. *)
Pop ==
  /\ items # << >>
  /\ out' = Head(items)
  /\ items' = Tail(items)

Next == Pop \/ \E v \in Item : Push(v)

Spec == Init /\ [][Next]_vars
=============================================================================
