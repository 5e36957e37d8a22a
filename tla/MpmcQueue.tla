------------------------------ MODULE MpmcQueue ------------------------------
(***************************************************************************)
(* MPMCQueue<T> (lockfree_ring_buffers/mpmc_queue.hpp): every cell has a   *)
(* sequence number that says whose turn it is; threads claim positions     *)
(* with a weak compare-exchange on enqueue_pos_ or dequeue_pos_.           *)
(*                                                                         *)
(* The threads are those of test_lockfree_queues.cpp: a producer retries   *)
(* each push until it succeeds, a consumer pops until everything has been  *)
(* consumed.  One action performs one access to shared memory.  A relaxed  *)
(* load of a position returns any value it has had since this thread last  *)
(* saw it, an acquire load of a sequence number any value it has had, and  *)
(* compare_exchange_weak may fail for no reason.                           *)
(***************************************************************************)
EXTENDS Integers, Sequences, FiniteSets

CONSTANTS Producer, Consumer,  \* threads
          Capacity,            \* capacity_: a power of two, at least 2
          Pushes               \* items each producer pushes

ASSUME CapacityAssumption == Capacity \in Nat /\ Capacity >= 2
ASSUME PushesAssumption == Pushes \in Nat
ASSUME ThreadAssumption ==
  Producer \cap Consumer = {} /\ IsFiniteSet(Producer) /\ IsFiniteSet(Consumer)

VARIABLES
  enqueue_pos, dequeue_pos,  \* enqueue_pos_, dequeue_pos_
  sequence, data,            \* the two fields of each cell of buffer_
  pc, pos,                   \* where a thread is, and its local variable pos
  sent, got,                 \* pushes done by a producer, items of a consumer
  claims, out                \* history: items in order of their claims, and
                             \* the item of the last claimed pop

cells == <<sequence, data>>
history == <<claims, out>>
vars == <<enqueue_pos, dequeue_pos, cells, pc, pos, sent, got, history>>

Thread == Producer \cup Consumer
Slots == 0 .. Capacity - 1
Item == Producer \X (1 .. Pushes)
NoItem == <<>>
Total == Cardinality(Producer) * Pushes

(* pos & mask_, and the item a producer pushes next. *)
Slot(p) == p % Capacity
ItemOf(t) == <<t, sent[t] + 1>>

TypeOK ==
  /\ enqueue_pos \in 0 .. Total /\ dequeue_pos \in 0 .. enqueue_pos
  /\ sequence \in [Slots -> 0 .. Total + Capacity]
  /\ data \in [Slots -> Item \cup {NoItem}]
  /\ pc \in [Thread -> {"idle", "seq", "reload", "cas", "access", "publish"}]
  /\ pos \in [Thread -> 0 .. Total]
  /\ sent \in [Producer -> 0 .. Pushes]
  /\ got \in [Consumer -> Seq(Item)]
  /\ claims \in Seq(Item) /\ out \in Item \cup {NoItem}

(* The constructor: cell i carries sequence number i. *)
Init ==
  /\ enqueue_pos = 0 /\ dequeue_pos = 0
  /\ sequence = [s \in Slots |-> s]
  /\ data = [s \in Slots |-> NoItem]
  /\ pc = [t \in Thread |-> "idle"]
  /\ pos = [t \in Thread |-> 0]
  /\ sent = [t \in Producer |-> 0]
  /\ got = [t \in Consumer |-> << >>]
  /\ claims = << >> /\ out = NoItem

Goto(t, label) == pc' = [pc EXCEPT ![t] = label]

(* The values that the sequence number of cell s has had so far. *)
Observable(s) == {v \in s .. sequence[s] : (v - s) % Capacity \in {0, 1}}

(* Where the comparison of a sequence number with the awaited one leads:   *)
(* claim the position, give up, or look where the others are.              *)
Branch(diff) ==
  IF diff = 0 THEN "cas" ELSE IF diff < 0 THEN "idle" ELSE "reload"

(* A load of a shared position, at the start of a call or after diff > 0.  *)
LoadPos(t, shared) ==
  /\ \E p \in pos[t] .. shared : pos' = [pos EXCEPT ![t] = p]
  /\ Goto(t, "seq")

-----------------------------------------------------------------------------
PushLoad(t) ==
  /\ pc[t] = "reload" \/ (pc[t] = "idle" /\ sent[t] < Pushes)
  /\ LoadPos(t, enqueue_pos)
  /\ UNCHANGED <<enqueue_pos, dequeue_pos, cells, sent, got, history>>

(* The sequence number is compared with pos; a negative difference returns *)
(* false and the caller tries again.                                       *)
PushSeq(t) ==
  /\ pc[t] = "seq"
  /\ \E v \in Observable(Slot(pos[t])) : Goto(t, Branch(v - pos[t]))
  /\ UNCHANGED <<enqueue_pos, dequeue_pos, cells, pos, sent, got, history>>

(* A form that claims the position with a load and a store. *)
PushClaimPlain(t) ==
  /\ pc[t] = "cas"
  /\ enqueue_pos' = pos[t] + 1
  /\ Goto(t, "access")
  /\ claims' = Append(claims, ItemOf(t))
  /\ UNCHANGED <<dequeue_pos, cells, pos, sent, got, out>>

(* compare_exchange_weak on enqueue_pos_ succeeds. *)
PushClaim(t) ==
  /\ pc[t] = "cas" /\ enqueue_pos = pos[t]
  /\ enqueue_pos' = pos[t] + 1
  /\ Goto(t, "access")
  /\ claims' = Append(claims, ItemOf(t))
  /\ UNCHANGED <<dequeue_pos, cells, pos, sent, got, out>>

(* It fails, truly or spuriously, and stores what it saw in pos. *)
PushClaimFails(t) ==
  /\ pc[t] = "cas"
  /\ LoadPos(t, enqueue_pos)
  /\ UNCHANGED <<enqueue_pos, dequeue_pos, cells, sent, got, history>>

(* cell.data = T(...), a plain write. *)
PushWrite(t) ==
  /\ pc[t] = "access"
  /\ data' = [data EXCEPT ![Slot(pos[t])] = ItemOf(t)]
  /\ Goto(t, "publish")
  /\ UNCHANGED <<enqueue_pos, dequeue_pos, sequence, pos, sent, got, history>>

(* cell.sequence = pos + 1; emplace returns true. *)
PushPublish(t) ==
  /\ pc[t] = "publish"
  /\ sequence' = [sequence EXCEPT ![Slot(pos[t])] = pos[t] + 1]
  /\ sent' = [sent EXCEPT ![t] = @ + 1]
  /\ Goto(t, "idle")
  /\ UNCHANGED <<enqueue_pos, dequeue_pos, data, pos, got, history>>

-----------------------------------------------------------------------------
(* total_consumed_count has reached the number of items. *)
AllConsumed ==
  Cardinality({ti \in Consumer \X (1 .. Total) : ti[2] <= Len(got[ti[1]])}) = Total

PopLoad(t) ==
  /\ pc[t] = "reload" \/ (pc[t] = "idle" /\ ~AllConsumed)
  /\ LoadPos(t, dequeue_pos)
  /\ UNCHANGED <<enqueue_pos, dequeue_pos, cells, sent, got, history>>

(* The sequence number says whether the cell holds the item of pos. *)
PopSeq(t) ==
  /\ pc[t] = "seq"
  /\ \E v \in Observable(Slot(pos[t])) : Goto(t, Branch(v - (pos[t] + 1)))
  /\ UNCHANGED <<enqueue_pos, dequeue_pos, cells, pos, sent, got, history>>

(* A form that claims the position with a load and a store. *)
PopClaimPlain(t) ==
  /\ pc[t] = "cas"
  /\ dequeue_pos' = pos[t] + 1
  /\ Goto(t, "access")
  /\ out' = data[Slot(pos[t])]
  /\ UNCHANGED <<enqueue_pos, cells, pos, sent, got, claims>>

(* compare_exchange_weak on dequeue_pos_ succeeds: the cell is this        *)
(* thread's, and out is the item it will find there.                       *)
PopClaim(t) ==
  /\ pc[t] = "cas" /\ dequeue_pos = pos[t]
  /\ dequeue_pos' = pos[t] + 1
  /\ Goto(t, "access")
  /\ out' = data[Slot(pos[t])]
  /\ UNCHANGED <<enqueue_pos, cells, pos, sent, got, claims>>

PopClaimFails(t) ==
  /\ pc[t] = "cas"
  /\ LoadPos(t, dequeue_pos)
  /\ UNCHANGED <<enqueue_pos, dequeue_pos, cells, sent, got, history>>

(* out = move(cell.data), a plain read. *)
PopRead(t) ==
  /\ pc[t] = "access"
  /\ got' = [got EXCEPT ![t] = Append(@, data[Slot(pos[t])])]
  /\ Goto(t, "publish")
  /\ UNCHANGED <<enqueue_pos, dequeue_pos, cells, pos, sent, history>>

(* A form that hands the cell to the producer one turn too early. *)
PopPublishEarly(t) ==
  /\ pc[t] = "publish"
  /\ sequence' = [sequence EXCEPT ![Slot(pos[t])] = pos[t] + Capacity - 1]
  /\ Goto(t, "idle")
  /\ UNCHANGED <<enqueue_pos, dequeue_pos, data, pos, sent, got, history>>

(* cell.sequence = pos + mask_ + 1; pop returns true. *)
PopPublish(t) ==
  /\ pc[t] = "publish"
  /\ sequence' = [sequence EXCEPT ![Slot(pos[t])] = pos[t] + Capacity]
  /\ Goto(t, "idle")
  /\ UNCHANGED <<enqueue_pos, dequeue_pos, data, pos, sent, got, history>>

Push(t) == PushLoad(t) \/ PushSeq(t) \/ PushClaim(t) \/ PushClaimFails(t)
             \/ PushWrite(t) \/ PushPublish(t)
Pop(t) == PopLoad(t) \/ PopSeq(t) \/ PopClaim(t) \/ PopClaimFails(t)
            \/ PopRead(t) \/ PopPublish(t)
(* All threads have returned from their loops. *)
Done == AllConsumed /\ (\A t \in Thread : pc[t] = "idle") /\ UNCHANGED vars
Next == Done \/ (\E t \in Producer : Push(t)) \/ (\E t \in Consumer : Pop(t))

Spec == Init /\ [][Next]_vars

-----------------------------------------------------------------------------
(* No thread writes or reads the data of a cell while another one accesses *)
(* the same cell (lines 57 and 94): the sequence numbers hand a cell over. *)
NoCellRace ==
  \A t, u \in Thread :
    t # u /\ pc[t] = "access" /\ pc[u] = "access" => Slot(pos[t]) # Slot(pos[u])

(* Every item is delivered at most once, and a consumer sees the items of  *)
(* one producer in the order in which they were pushed.                    *)
DeliveredInOrder ==
  \A t, u \in Consumer : \A i \in DOMAIN got[t], j \in DOMAIN got[u] :
    got[t][i][1] = got[u][j][1] =>
      /\ got[t][i] = got[u][j] => t = u /\ i = j
      /\ t = u /\ i < j => got[t][i][2] < got[u][j][2]

(* The queue is a bounded FIFO that all threads share: a push takes effect *)
(* when it claims its position and a pop when it claims its own, and what  *)
(* it then reads is the oldest item, already written.                      *)
Fifo == INSTANCE BoundedFifo
          WITH items <- SubSeq(claims, dequeue_pos + 1, enqueue_pos)
ImplementsFifo == Fifo!Spec

(* When no call is in progress the cells are ready for the next ones: each *)
(* stored item can be popped and each free cell can be claimed, so a call  *)
(* that then returns false finds the queue really full or really empty.    *)
QuiescentReady ==
  (\A t \in Thread : pc[t] = "idle") =>
    \A k \in dequeue_pos .. dequeue_pos + Capacity - 1 :
      sequence[Slot(k)] = IF k < enqueue_pos THEN k + 1 ELSE k
=============================================================================
