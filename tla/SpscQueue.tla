------------------------------ MODULE SpscQueue ------------------------------
(***************************************************************************)
(* SPSCQueue<T, Capacity> (lockfree_ring_buffers/spsc_queue.hpp): one      *)
(* producer thread calls emplace, one consumer thread calls pop, and each  *)
(* keeps a private cached copy of the other's index.                       *)
(*                                                                         *)
(* One action performs at most one access to shared memory.  A load of the *)
(* other thread's index may return any value the index has had since the   *)
(* loading thread last saw it (what C++ coherence allows); the plain write *)
(* and the plain read of a slot take a step of their own, so two threads   *)
(* are in the same slot exactly when they race.  Indices are size_t: they  *)
(* wrap at Width (2^64 in the program), which Capacity divides.            *)
(***************************************************************************)
EXTENDS Integers, Sequences

CONSTANTS Capacity,  \* template argument, a power of two
          Width,     \* number of values of size_t
          Item,      \* values of T
          Raw        \* a slot that holds no constructed T

ASSUME CapacityAssumption == Capacity \in Nat \ {0}
ASSUME WidthAssumption ==
  Width \in Nat /\ Width > Capacity /\ Width % Capacity = 0
ASSUME RawAssumption == Raw \notin Item

VARIABLES
  tail,         \* tail_, written by the producer only
  cached_head,  \* cached_head_, the producer's
  head,         \* head_, written by the consumer only
  cached_tail,  \* cached_tail_, the consumer's
  storage,      \* storage_
  ppc, arg,     \* where the producer is in emplace, and its argument
  cpc, out,     \* where the consumer is in pop, and its out parameter
  life          \* "alive", "dtor" while ~SPSCQueue drains, "dead"

pvars == <<tail, cached_head, ppc, arg>>
cvars == <<head, cached_tail, cpc, out>>
vars == <<pvars, cvars, storage, life>>

Pos == 0 .. Width - 1
Slots == 0 .. Capacity - 1

(* size_t subtraction, size_t increment and the index into storage_. *)
Dist(a, b) == (a - b) % Width
Inc(p) == (p + 1) % Width
Slot(p) == p % Capacity

(* The test of emplace that the ring has no room left. *)
IsFullOffByOne(t, h) == Dist(t, h) > Capacity
IsFull(t, h) == Dist(t, h) >= Capacity

(* What a load of an index can return to a thread that last saw it at lo. *)
Loadable(lo, hi) == {p \in Pos : Dist(p, lo) <= Dist(hi, lo)}

TypeOK ==
  /\ tail \in Pos /\ cached_head \in Pos
  /\ head \in Pos /\ cached_tail \in Pos
  /\ storage \in [Slots -> Item \cup {Raw}]
  /\ ppc \in {"idle", "construct", "publish"}
  /\ cpc \in {"idle", "read", "publish"}
  /\ arg \in Item \cup {Raw} /\ out \in Item \cup {Raw}
  /\ life \in {"alive", "dtor", "dead"}

Init ==
  /\ tail = 0 /\ cached_head = 0 /\ head = 0 /\ cached_tail = 0
  /\ storage = [s \in Slots |-> Raw]
  /\ ppc = "idle" /\ arg = Raw
  /\ cpc = "idle" /\ out = Raw
  /\ life = "alive"

-----------------------------------------------------------------------------
(* emplace(v), the cached index says that there is room. *)
EmplaceCached(v) ==
  /\ life = "alive" /\ ppc = "idle"
  /\ ~IsFull(tail, cached_head)
  /\ ppc' = "construct" /\ arg' = v
  /\ UNCHANGED <<tail, cached_head, cvars, storage, life>>

(* emplace(v), the cached index says full: head_ is loaded again, and the  *)
(* call returns false if the ring still looks full.                        *)
EmplaceReload(v) ==
  /\ life = "alive" /\ ppc = "idle"
  /\ IsFull(tail, cached_head)
  /\ cached_head' \in Loadable(cached_head, head)
  /\ IF IsFull(tail, cached_head')
       THEN UNCHANGED <<ppc, arg>>
       ELSE ppc' = "construct" /\ arg' = v
  /\ UNCHANGED <<tail, cvars, storage, life>>

(* A form in which the index is published before the item is constructed. *)
ConstructAfterPublish ==
  /\ ppc = "construct"
  /\ tail' = Inc(tail)
  /\ ppc' = "publish"
  /\ UNCHANGED <<cached_head, arg, cvars, storage, life>>

(* Placement new into storage_[tail & MASK]. *)
Construct ==
  /\ ppc = "construct"
  /\ storage' = [storage EXCEPT ![Slot(tail)] = arg]
  /\ ppc' = "publish"
  /\ UNCHANGED <<tail, cached_head, arg, cvars, life>>

(* The release store of tail_; emplace returns true. *)
PublishTail ==
  /\ ppc = "publish"
  /\ tail' = Inc(tail)
  /\ ppc' = "idle" /\ arg' = Raw
  /\ UNCHANGED <<cached_head, cvars, storage, life>>

-----------------------------------------------------------------------------
(* pop, the cached index says that there is an item. *)
PopCached ==
  /\ life # "dead" /\ cpc = "idle"
  /\ head # cached_tail
  /\ cpc' = "read"
  /\ UNCHANGED <<head, cached_tail, out, pvars, storage, life>>

(* A form in which pop never looks at tail_ again. *)
PopNoReload ==
  /\ life # "dead" /\ cpc = "idle"
  /\ head = cached_tail
  /\ UNCHANGED vars

(* pop, the cached index says empty: tail_ is loaded again, and the call   *)
(* returns false if the ring still looks empty.  ~SPSCQueue runs after the *)
(* threads are joined, so its loads return the current value; it ends with *)
(* the first pop that returns false.                                       *)
PopReload ==
  /\ life # "dead" /\ cpc = "idle"
  /\ head = cached_tail
  /\ cached_tail' \in IF life = "dtor" THEN {tail}
                                       ELSE Loadable(cached_tail, tail)
  /\ IF head = cached_tail'
       THEN /\ life' = IF life = "dtor" THEN "dead" ELSE life
            /\ UNCHANGED cpc
       ELSE cpc' = "read" /\ UNCHANGED life
  /\ UNCHANGED <<head, out, pvars, storage>>

(* A form in which the popped object is not destroyed. *)
ReadNoDestroy ==
  /\ cpc = "read"
  /\ out' = storage[Slot(head)]
  /\ cpc' = "publish"
  /\ UNCHANGED <<storage, head, cached_tail, pvars, life>>

(* The object is moved into out and destroyed in place. *)
Read ==
  /\ cpc = "read"
  /\ out' = storage[Slot(head)]
  /\ storage' = [storage EXCEPT ![Slot(head)] = Raw]
  /\ cpc' = "publish"
  /\ UNCHANGED <<head, cached_tail, pvars, life>>

(* The release store of head_; pop returns true. *)
PublishHead ==
  /\ cpc = "publish"
  /\ head' = Inc(head)
  /\ cpc' = "idle"
  /\ UNCHANGED <<cached_tail, out, pvars, storage, life>>

(* ~SPSCQueue, called when neither thread is inside a call: pops until     *)
(* empty.                                                                  *)
Destroy ==
  /\ life = "alive" /\ ppc = "idle" /\ cpc = "idle"
  /\ life' = "dtor"
  /\ UNCHANGED <<pvars, cvars, storage>>

Producer == Construct \/ PublishTail
              \/ \E v \in Item : EmplaceCached(v) \/ EmplaceReload(v)
Consumer == PopCached \/ PopReload \/ Read \/ PublishHead
Next == Producer \/ Consumer \/ Destroy

Spec == Init /\ [][Next]_vars

(* The consumer keeps polling, and a store becomes visible to a thread     *)
(* that keeps loading: a reload does not return the old value for ever.    *)
Fairness ==
  /\ WF_vars(Construct \/ PublishTail)
  /\ WF_vars(Consumer)
  /\ SF_vars(PopReload /\ cached_tail' = tail)

FairSpec == Spec /\ Fairness

-----------------------------------------------------------------------------
(* The producer constructs and the consumer reads or destroys an object in *)
(* the same slot only one after the other: the plain accesses of lines 61  *)
(* and 91-92 never race, however stale the cached indices are.             *)
NoSlotRace ==
  ~(ppc = "construct" /\ cpc = "read" /\ Slot(tail) = Slot(head))

(* Every T is constructed in raw storage, read only while it exists, and   *)
(* destroyed exactly once; the destructor leaves none behind.              *)
ObjectLifetime ==
  /\ ppc = "construct" => storage[Slot(tail)] = Raw
  /\ cpc = "read" => storage[Slot(head)] # Raw
  /\ life = "dead" => \A s \in Slots : storage[s] = Raw

(* The items between the two indices; the one that pop has read out of its *)
(* slot is no longer there.                                                *)
First == IF cpc = "publish" THEN Inc(head) ELSE head
Items == [i \in 1 .. Dist(tail, First) |-> storage[Slot((First + i - 1) % Width)]]

Fifo == INSTANCE BoundedFifo WITH items <- Items

(* Seen through Items, the queue is the bounded FIFO: nothing is lost,     *)
(* duplicated, reordered or overwritten, and at most Capacity are stored.  *)
ImplementsFifo == Fifo!Spec

(* Whatever has been published is popped, by the consumer or by the        *)
(* destructor: the consumer's index reaches every value of tail_.          *)
Delivered == \A p \in Pos : (tail = p) ~> (head = p)
=============================================================================
