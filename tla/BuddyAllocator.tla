---------------------------- MODULE BuddyAllocator ----------------------------
(***************************************************************************)
(* buddy_allocator.hpp: power-of-two blocks of one pool, split on demand   *)
(* and merged with their buddy when both are free.  Addresses are offsets  *)
(* from raw_memory_; every operation runs under mutex_, hence is atomic.   *)
(***************************************************************************)
EXTENDS Integers, Sequences, FiniteSets, SequencesExt

CONSTANTS MinBlock,  \* MIN_BLOCK_SIZE in bytes
          MaxOrder

ASSUME BuddyAssumption == MinBlock \in Nat \ {0} /\ MaxOrder \in Nat

VARIABLES free_lists,      \* order -> addresses, pushed and popped at the end
          allocated_bytes,
          held             \* what callers hold: address -> bytes asked for, 0 none
buddyVars == <<free_lists, allocated_bytes, held>>

Orders == 0..MaxOrder
order_to_size[k \in Orders] ==   \* MIN_BLOCK_SIZE << k
  IF k = 0 THEN MinBlock ELSE 2 * order_to_size[k - 1]
PoolSize == order_to_size[MaxOrder]
Addresses == {a \in 0..PoolSize - 1 : a % MinBlock = 0}

\* size_to_order(): the smallest order whose blocks hold bytes, at most MaxOrder.
size_to_order(bytes) ==
  CHOOSE k \in Orders : /\ order_to_size[k] >= bytes \/ k = MaxOrder
                        /\ \A j \in 0..k - 1 : order_to_size[j] < bytes

\* The constructor: one free block, the pool.
BuddyInit ==
  /\ free_lists = [k \in Orders |-> IF k = MaxOrder THEN <<0>> ELSE <<>>]
  /\ allocated_bytes = 0
  /\ held = [a \in Addresses |-> 0]

\* allocate(): the smallest order with a free block; its last block is split down,
\* the upper halves becoming free.  nullptr, and no change, if there is none.
BuddyAllocate(bytes) ==
  LET order == size_to_order(bytes)
      enough == {k \in order..MaxOrder : free_lists[k] # <<>>}
      from == CHOOSE k \in enough : \A j \in enough : k <= j
      block == Last(free_lists[from]) IN
  /\ enough # {}
  /\ free_lists' = [k \in Orders |->
       IF k = from THEN Front(free_lists[k])
       ELSE IF k \in order..from - 1
            THEN Append(free_lists[k], block + order_to_size[k])
            ELSE free_lists[k]]
  /\ allocated_bytes' = allocated_bytes + order_to_size[order]
  /\ held' = [held EXCEPT ![block] = bytes]

\* offset ^ block_size, for an offset that is a multiple of it.
Buddy(block, order) ==
  LET size == order_to_size[order] IN
  IF (block \div size) % 2 = 0 THEN block + size ELSE block - size

MergedOnce(lists, block, order) ==   \* mutant: `if` for `while`
  LET b == Buddy(block, order) IN
  IF order < MaxOrder /\ Contains(lists[order], b)
  THEN [lists |-> [lists EXCEPT ![order] = RemoveFirst(@, b)],
        block |-> IF block < b THEN block ELSE b, order |-> order + 1]
  ELSE [lists |-> lists, block |-> block, order |-> order]

\* deallocate()'s loop: from a block freed at an order, [lists, block, order] after
\* every merge that is possible.
Merged(lists, block, order) ==
  LET up[k \in order..MaxOrder] ==
        IF k = order THEN [lists |-> lists, block |-> block, order |-> order]
        ELSE LET m == up[k - 1]  b == Buddy(m.block, m.order) IN
             IF m.order = k - 1 /\ Contains(m.lists[k - 1], b)
             THEN [lists |-> [m.lists EXCEPT ![k - 1] = RemoveFirst(@, b)],
                   block |-> IF m.block < b THEN m.block ELSE b,
                   order |-> k]
             ELSE m
  IN up[MaxOrder]

\* deallocate(), called with the size that was asked for.
BuddyDeallocate(block) ==
  LET order == size_to_order(held[block])
      m == Merged(free_lists, block, order) IN
  /\ held[block] # 0
  /\ free_lists' = [m.lists EXCEPT ![m.order] = Append(@, m.block)]
  /\ allocated_bytes' = allocated_bytes - order_to_size[order]
  /\ held' = [held EXCEPT ![block] = 0]

BuddyNext ==
  \/ \E bytes \in 1..PoolSize : BuddyAllocate(bytes)
  \/ \E block \in Addresses : BuddyDeallocate(block)
BuddySpec == BuddyInit /\ [][BuddyNext]_buddyVars

-----------------------------------------------------------------------------
Span(block, order) == block..block + order_to_size[order] - 1
Aligned == {x \in Addresses \X Orders : x[1] % order_to_size[x[2]] = 0}
BlocksIn(lists) == UNION {{<<lists[k][i], k>> : i \in DOMAIN lists[k]} : k \in Orders}
FreeBlocks == BlocksIn(free_lists)
UsedBlocks == {<<a, size_to_order(held[a])>> : a \in {x \in Addresses : held[x] # 0}}
Covered(blocks) == UNION {Span(x[1], x[2]) : x \in blocks}

(***************************************************************************)
(* BuddyPartition: the blocks callers hold and the free blocks are disjoint *)
(* and fill the pool, allocated_bytes_ is what callers hold, and a wholly   *)
(* free aligned block of any order lies in one free block, so a request is  *)
(* never refused for fragments that could have been merged (allocate and    *)
(* deallocate, buddy_allocator.hpp:61-138).                                 *)
(***************************************************************************)
BuddyPartition ==
  /\ \A k \in Orders : IsInjective(free_lists[k])
  /\ FreeBlocks \cap UsedBlocks = {}
  /\ \A x, y \in FreeBlocks \cup UsedBlocks :
       x # y => Span(x[1], x[2]) \cap Span(y[1], y[2]) = {}
  /\ Covered(FreeBlocks \cup UsedBlocks) = 0..PoolSize - 1
  /\ allocated_bytes = Cardinality(Covered(UsedBlocks))
  /\ \A x \in Aligned : Span(x[1], x[2]) \subseteq Covered(FreeBlocks) =>
       \E y \in FreeBlocks : Span(x[1], x[2]) \subseteq Span(y[1], y[2])
=============================================================================
