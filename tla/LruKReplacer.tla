---------------------------- MODULE LruKReplacer ----------------------------
(***************************************************************************)
(* LRUKReplacer (concurrent_buffer_pool_manager/lru_k_replacer.hpp): which *)
(* frame to evict.  Its only user is the buffer pool manager, under whose  *)
(* latch every call runs, so the replacer is a record and its methods are  *)
(* functions on that record.  entries_ holds a node for a frame exactly    *)
(* when the frame's history is not empty: record_access, the only method   *)
(* that makes a node, puts a timestamp in it.                              *)
(***************************************************************************)
EXTENDS Integers, Sequences, SequencesExt

CONSTANTS Frame,  \* frame ids
          K       \* k_

ASSUME KAssumption == K \in Nat \ {0}

(* history: the last K access times of a frame; evictable: is_evictable;   *)
(* curr_size and now: curr_size_ and current_timestamp_.                   *)
Replacer == [history : [Frame -> Seq(Nat)], evictable : SUBSET Frame,
             curr_size : Int, now : Nat]

EmptyReplacer ==
  [history |-> [f \in Frame |-> << >>], evictable |-> {},
   curr_size |-> 0, now |-> 0]

(* The last K access times of a frame, oldest first.                       *)
record_access(r, f) ==
  LET longer == Append(r.history[f], r.now + 1)
  IN  [r EXCEPT !.now = r.now + 1,
                !.history[f] = IF Len(longer) > K THEN Tail(longer) ELSE longer]

(* curr_size_ is adjusted although is_evictable does not change.           *)
set_evictable_again(r, f, b) ==
  IF r.history[f] = << >> THEN r
  ELSE [r EXCEPT !.evictable = IF b THEN @ \cup {f} ELSE @ \ {f},
                 !.curr_size = IF b THEN @ + 1 ELSE @ - 1]
set_evictable(r, f, b) ==
  IF r.history[f] = << >> \/ (f \in r.evictable) = b
  THEN r
  ELSE [r EXCEPT !.evictable = IF b THEN @ \cup {f} ELSE @ \ {f},
                 !.curr_size = IF b THEN @ + 1 ELSE @ - 1]

(* Frames with fewer than K accesses are treated as the others.            *)
ScanStepLru(r, best, f) ==
  IF best.victim_id = {} \/ r.now - r.history[f][1] > best.max_k
  THEN [best EXCEPT !.max_k = r.now - r.history[f][1], !.victim_id = {f}]
  ELSE best

(* One iteration of the loop of victim(), at the node of an evictable      *)
(* frame; the loop skips the other nodes of entries_.                      *)
ScanStep(r, best, f) ==
  LET front == r.history[f][1]
  IN  IF Len(r.history[f]) < K
      THEN IF ~best.found_inf \/ front < best.earliest
           THEN [best EXCEPT !.found_inf = TRUE, !.earliest = front,
                             !.victim_id = {f}]
           ELSE best
      ELSE IF ~best.found_inf /\ (best.victim_id = {} \/ r.now - front > best.max_k)
           THEN [best EXCEPT !.max_k = r.now - front, !.victim_id = {f}]
           ELSE best

(* What the loop finds when it meets the evictable frames in this order:   *)
(* best[i] holds the local variables of victim() after i frames.           *)
Scan(r, order) ==
  LET best[i \in 0 .. Len(order)] ==
        IF i = 0
        THEN [found_inf |-> FALSE, earliest |-> 0, max_k |-> 0, victim_id |-> {}]
        ELSE ScanStep(r, best[i - 1], order[i])
  IN  best[Len(order)].victim_id

(* The iteration order of an unordered_map is not specified.               *)
Orders(r) == SetToSeqs(r.evictable)

(* The frames victim() may return; none when it returns false.             *)
Victims(r) ==
  IF r.curr_size = 0 THEN {}
  ELSE {f \in r.evictable : \E order \in Orders(r) : Scan(r, order) = {f}}

(* What victim() does to the replacer when it returns f.                   *)
erase_victim(r, f) ==
  [r EXCEPT !.history[f] = << >>, !.evictable = @ \ {f}, !.curr_size = @ - 1]

-----------------------------------------------------------------------------
(* The policy in the words of the class comment: frames with fewer than K  *)
(* accesses first, by earliest access, then the largest backward           *)
(* k-distance.                                                             *)
Young(r) == {f \in r.evictable : Len(r.history[f]) < K}

Oldest(r, S) == {f \in S : \A g \in S : r.history[f][1] <= r.history[g][1]}

LruK(r) == Oldest(r, IF Young(r) # {} THEN Young(r) ELSE r.evictable)

=============================================================================
