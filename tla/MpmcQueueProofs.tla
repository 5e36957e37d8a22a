--------------------------- MODULE MpmcQueueProofs ---------------------------
(***************************************************************************)
(* Proofs about MpmcQueue for every capacity, all finite sets of producers *)
(* and consumers and any number of pushes: race freedom of the cells, what *)
(* a queue at rest looks like, the implementation of the bounded FIFO, and *)
(* the order of delivery.                                                  *)
(***************************************************************************)
EXTENDS MpmcQueue, SequenceTheorems, FiniteSetTheorems, TLAPS

-----------------------------------------------------------------------------
(* Arithmetic of the positions.                                            *)

(* Quotient and remainder by the capacity. *)
LEMMA Division ==
  ASSUME NEW a \in Nat
  PROVE  \E q \in Nat : a = Capacity * q + Slot(a) /\ Slot(a) \in Slots
  <1>1. a % Capacity \in Slots
    BY CapacityAssumption DEF Slots
  <1>2. a \div Capacity \in Nat
    BY CapacityAssumption
  <1>3. a = Capacity * (a \div Capacity) + (a % Capacity)
    BY CapacityAssumption
  <1>4. QED
    BY <1>1, <1>2, <1>3 DEF Slot

(* No multiple of the capacity lies strictly between 0 and it. *)
LEMMA NoMultipleBelow ==
  ASSUME NEW k \in Int, Capacity * k > 0, Capacity * k < Capacity
  PROVE  FALSE
  BY CapacityAssumption

(* A position has a slot. *)
LEMMA SlotType ==
  ASSUME NEW a \in Nat
  PROVE  Slot(a) \in Slots
  BY Division

(* Two positions that share a slot are equal or a capacity apart. *)
LEMMA SameSlot ==
  ASSUME NEW a \in Nat, NEW b \in Nat, Slot(a) = Slot(b), a < b
  PROVE  a + Capacity <= b
  <1> SUFFICES ASSUME b - a < Capacity PROVE FALSE
    BY CapacityAssumption
  <1>1. PICK p \in Nat : a = Capacity * p + Slot(a) /\ Slot(a) \in Slots
    BY Division
  <1>2. PICK q \in Nat : b = Capacity * q + Slot(b) /\ Slot(b) \in Slots
    BY Division
  <1>3. b - a = Capacity * (q - p)
    BY <1>1, <1>2, CapacityAssumption DEF Slots
  <1>4. q - p \in Int
    OBVIOUS
  <1>5. QED
    BY <1>3, <1>4, NoMultipleBelow

(* The successor of a position is in another slot. *)
LEMMA NextSlot ==
  ASSUME NEW a \in Nat, NEW b \in Nat, Slot(a) = Slot(b)
  PROVE  b # a + 1
  BY SameSlot, CapacityAssumption

(* The positions of the first lap are their own slots. *)
LEMMA FirstLap ==
  ASSUME NEW s \in Slots
  PROVE  s \in Nat /\ s < Capacity /\ Slot(s) = s
  <1>1. s \in Nat /\ s < Capacity
    BY CapacityAssumption DEF Slots
  <1>2. PICK q \in Nat : s = Capacity * q + Slot(s) /\ Slot(s) \in Slots
    BY <1>1, Division
  <1>3. Slot(s) \in Nat /\ Capacity * q = s - Slot(s)
    BY <1>1, <1>2, CapacityAssumption DEF Slots
  <1>4. Capacity * q < Capacity
    BY <1>1, <1>3, CapacityAssumption
  <1>5. ~(Capacity * q > 0)
    BY <1>4, NoMultipleBelow
  <1>6. Capacity * q >= 0
    BY CapacityAssumption
  <1>7. QED
    BY <1>1, <1>3, <1>5, <1>6

(* A position and the one a capacity later share their slot. *)
LEMMA LapSlot ==
  ASSUME NEW a \in Nat
  PROVE  Slot(a + Capacity) = Slot(a)
  <1>0. a + Capacity \in Nat
    BY CapacityAssumption
  <1>1. PICK p \in Nat : a = Capacity * p + Slot(a) /\ Slot(a) \in Slots
    BY Division
  <1>2. PICK q \in Nat : a + Capacity = Capacity * q + Slot(a + Capacity)
                         /\ Slot(a + Capacity) \in Slots
    BY <1>0, Division
  <1>3. /\ Slot(a + Capacity) - Slot(a) = Capacity * (p + 1 - q)
        /\ Slot(a) - Slot(a + Capacity) = Capacity * (q - p - 1)
    BY <1>1, <1>2, CapacityAssumption DEF Slots
  <1>4. p + 1 - q \in Int /\ q - p - 1 \in Int
    OBVIOUS
  <1>5. ~(Slot(a + Capacity) > Slot(a))
    <2> SUFFICES ASSUME Slot(a + Capacity) > Slot(a) PROVE FALSE
      OBVIOUS
    <2>1. Capacity * (p + 1 - q) > 0 /\ Capacity * (p + 1 - q) < Capacity
      <3>1. /\ Slot(a + Capacity) - Slot(a) > 0
            /\ Slot(a + Capacity) - Slot(a) < Capacity
        BY <1>1, <1>2, CapacityAssumption DEF Slots
      <3>2. QED
        BY <1>3, <3>1
    <2>2. QED
      BY <1>4, <2>1, NoMultipleBelow
  <1>6. ~(Slot(a + Capacity) < Slot(a))
    <2> SUFFICES ASSUME Slot(a + Capacity) < Slot(a) PROVE FALSE
      OBVIOUS
    <2>1. Capacity * (q - p - 1) > 0 /\ Capacity * (q - p - 1) < Capacity
      <3>1. /\ Slot(a) - Slot(a + Capacity) > 0
            /\ Slot(a) - Slot(a + Capacity) < Capacity
        BY <1>1, <1>2, CapacityAssumption DEF Slots
      <3>2. QED
        BY <1>3, <3>1
    <2>2. QED
      BY <1>4, <2>1, NoMultipleBelow
  <1>7. QED
    BY <1>1, <1>2, <1>5, <1>6, CapacityAssumption DEF Slots

-----------------------------------------------------------------------------
(* The inductive invariant.                                                *)

(* A thread owns the cell of its position from its claim to its release.   *)
Owner(t) == pc[t] \in {"access", "publish"}

(* What the steps need of the types; TypeOK bounds the numbers as well.    *)
Types ==
  /\ enqueue_pos \in Nat /\ dequeue_pos \in Nat
  /\ sequence \in [Slots -> Nat]
  /\ data \in [Slots -> Item \cup {NoItem}]
  /\ pc \in [Thread -> {"idle", "seq", "reload", "cas", "access", "publish"}]
  /\ pos \in [Thread -> Nat]
  /\ sent \in [Producer -> 0 .. Pushes]
  /\ got \in [Consumer -> Seq(Item)]
  /\ claims \in Seq(Item) /\ out \in Item \cup {NoItem}

(* A cell whose sequence number is k waits for the push of position k: no  *)
(* producer has claimed it, or one has and is not done.                    *)
AwaitsPush(s) ==
  /\ Slot(sequence[s]) = s
  /\ sequence[s] < dequeue_pos + Capacity
  /\ \/ sequence[s] >= enqueue_pos
     \/ \E t \in Producer : Owner(t) /\ pos[t] = sequence[s]

(* A cell whose sequence number is k + 1 holds the item of position k: no  *)
(* consumer has claimed it, or one has and is not done.                    *)
AwaitsPop(s) ==
  /\ sequence[s] >= 1 /\ Slot(sequence[s] - 1) = s
  /\ sequence[s] <= enqueue_pos
  /\ \/ sequence[s] > dequeue_pos
     \/ \E t \in Consumer : Owner(t) /\ pos[t] + 1 = sequence[s]

Cells ==
  /\ dequeue_pos <= enqueue_pos /\ enqueue_pos <= dequeue_pos + Capacity
  /\ \A s \in Slots : AwaitsPush(s) \/ AwaitsPop(s)

(* The cell of an owner is in the state its owner claimed it in, within    *)
(* the window of positions, and no other thread of its kind has it.        *)
Owners ==
  /\ \A t \in Producer : Owner(t) =>
       /\ dequeue_pos <= pos[t] /\ pos[t] < enqueue_pos
       /\ sequence[Slot(pos[t])] = pos[t]
  /\ \A t \in Consumer : Owner(t) =>
       /\ pos[t] < dequeue_pos /\ enqueue_pos <= pos[t] + Capacity
       /\ sequence[Slot(pos[t])] = pos[t] + 1
  /\ \A t, u \in Producer : t # u /\ Owner(t) /\ Owner(u) => pos[t] # pos[u]
  /\ \A t, u \in Consumer : t # u /\ Owner(t) /\ Owner(u) => pos[t] # pos[u]

(* A thread about to claim a position saw the cell's turn come, and        *)
(* sequence numbers only grow.                                             *)
Seen ==
  /\ \A t \in Producer :
       /\ pos[t] <= enqueue_pos
       /\ pc[t] = "cas" => sequence[Slot(pos[t])] >= pos[t]
       /\ pc[t] # "idle" => sent[t] < Pushes
  /\ \A t \in Consumer :
       /\ pos[t] <= dequeue_pos
       /\ pc[t] = "cas" => sequence[Slot(pos[t])] >= pos[t] + 1

(* A cell that awaits its pop holds the item claimed for its position.     *)
Contents ==
  /\ Len(claims) = enqueue_pos
  /\ \A k \in 0 .. enqueue_pos - 1 :
       sequence[Slot(k)] = k + 1 => data[Slot(k)] = claims[k + 1]
  /\ \A t \in Producer : Owner(t) =>
       /\ claims[pos[t] + 1] = ItemOf(t)
       /\ pc[t] = "publish" => data[Slot(pos[t])] = ItemOf(t)

(* The claims of one producer are numbered in order, up to the push that   *)
(* it is at.                                                               *)
ClaimsInOrder ==
  /\ \A i, j \in 1 .. enqueue_pos :
       i < j /\ claims[i][1] = claims[j][1] => claims[i][2] < claims[j][2]
  /\ \A i \in 1 .. enqueue_pos :
       LET p == claims[i][1]
       IN claims[i][2] <= sent[p] + 1 /\ (~Owner(p) => claims[i][2] <= sent[p])

(* What a consumer has got are claimed items below dequeue_pos,            *)
GotClaimed ==
  \A t \in Consumer : \A i \in 1 .. Len(got[t]) :
    \E k \in 1 .. dequeue_pos : got[t][i] = claims[k]

(* in increasing order of their positions,                                 *)
GotInOrder ==
  \A t \in Consumer : \A i, j \in 1 .. Len(got[t]) : \A k, l \in 1 .. dequeue_pos :
    i < j /\ got[t][i] = claims[k] /\ got[t][j] = claims[l] => k < l

(* that no other consumer has got;                                         *)
GotOnce ==
  \A t, u \in Consumer : \A i \in 1 .. Len(got[t]), j \in 1 .. Len(got[u]) :
    t # u => got[t][i] # got[u][j]

(* and the item that a consumer has claimed and not read nobody has got,   *)
(* and it comes after all that this consumer has got.                      *)
UnreadFresh ==
  \A t, u \in Consumer : \A i \in 1 .. Len(got[t]) :
    pc[u] = "access" => got[t][i] # claims[pos[u] + 1]
UnreadLast ==
  \A t \in Consumer : \A i \in 1 .. Len(got[t]) : \A k \in 1 .. dequeue_pos :
    pc[t] = "access" /\ got[t][i] = claims[k] => k <= pos[t]

Deliveries == GotClaimed /\ GotInOrder /\ GotOnce /\ UnreadFresh /\ UnreadLast

IndInv == Types /\ Cells /\ Owners /\ Seen /\ Contents /\ ClaimsInOrder /\ Deliveries

-----------------------------------------------------------------------------
(* Steps that neither claim nor release a cell.                            *)

NoClaim ==
  /\ UNCHANGED <<enqueue_pos, dequeue_pos, sequence, data, sent, got, claims, out>>
  /\ \A u \in Thread : Owner(u)' = Owner(u)
  /\ \A u \in Thread : Owner(u) => pos'[u] = pos[u] /\ pc'[u] = pc[u]

(* They leave every part of the invariant alone but what threads have seen. *)
LEMMA NoClaimKeeps ==
  ASSUME IndInv, NoClaim
  PROVE  Cells' /\ Owners' /\ Contents' /\ ClaimsInOrder' /\ Deliveries'
  <1> USE DEF Thread
  <1>1. Cells'
    BY DEF IndInv, NoClaim, Cells, AwaitsPush, AwaitsPop, Slot
  <1>2. Owners'
    BY DEF IndInv, NoClaim, Owners, Slot
  <1>3. Contents'
    BY DEF IndInv, NoClaim, Contents, Slot, ItemOf, Owner
  <1>4. ClaimsInOrder'
    <2>1. \A i \in 1 .. enqueue_pos : claims[i][1] \in Producer
      BY DEF IndInv, Types, Contents, Item
    <2>2. QED
      BY <2>1 DEF IndInv, NoClaim, ClaimsInOrder
  <1>5. Deliveries'
    <2>1. \A u \in Consumer : pc'[u] = "access" => pc[u] = "access" /\ pos'[u] = pos[u]
      BY DEF NoClaim, Owner
    <2>2. QED
      BY <2>1 DEF IndInv, NoClaim, Deliveries, GotClaimed, GotInOrder, GotOnce,
                  UnreadFresh, UnreadLast
  <1>6. QED
    BY <1>1, <1>2, <1>3, <1>4, <1>5

(* A load of a shared position by a thread that owns nothing. *)
LEMMA LoadKeeps ==
  ASSUME IndInv, NEW t \in Thread, NEW shared \in Nat, LoadPos(t, shared), ~Owner(t),
         t \in Producer => shared = enqueue_pos /\ sent[t] < Pushes,
         t \in Consumer => shared = dequeue_pos,
         UNCHANGED <<enqueue_pos, dequeue_pos, cells, sent, got, history>>
  PROVE  IndInv'
  <1>1. PICK p \in pos[t] .. shared : pos' = [pos EXCEPT ![t] = p]
    BY DEF LoadPos
  <1>2. p \in Nat /\ p <= shared
    BY <1>1 DEF IndInv, Types
  <1>3. pc' = [pc EXCEPT ![t] = "seq"]
    BY DEF LoadPos, Goto
  <1>4. NoClaim
    BY <1>1, <1>3 DEF IndInv, Types, NoClaim, Owner, cells, history
  <1>5. Types'
    BY <1>1, <1>2, <1>3 DEF IndInv, Types, cells, history
  <1>6. Seen'
    <2>1. /\ \A u \in Thread \ {t} : pc'[u] = pc[u] /\ pos'[u] = pos[u]
          /\ pc'[t] = "seq" /\ pos'[t] = p
      BY <1>1, <1>2, <1>3 DEF IndInv, Types
    <2>2. QED
      BY <1>2, <2>1 DEF IndInv, Seen, cells, Slot, Thread
  <1>7. QED
    BY <1>4, <1>5, <1>6, NoClaimKeeps DEF IndInv

(* A load of the sequence number of the cell at its position.  The value   *)
(* may be old, but it is not above the present one.                        *)
LEMMA SeqKeeps ==
  ASSUME IndInv, NEW t \in Thread, NEW awaited \in Nat, pc[t] = "seq",
         \E v \in Observable(Slot(pos[t])) : Goto(t, Branch(v - awaited)),
         t \in Producer => awaited = pos[t],
         t \in Consumer => awaited = pos[t] + 1,
         UNCHANGED <<enqueue_pos, dequeue_pos, cells, pos, sent, got, history>>
  PROVE  IndInv'
  <1>1. PICK v \in Observable(Slot(pos[t])) : pc' = [pc EXCEPT ![t] = Branch(v - awaited)]
    BY DEF Goto
  <1>2. pos[t] \in Nat /\ Slot(pos[t]) \in Slots
    BY SlotType DEF IndInv, Types
  <1>3. v \in Int /\ v <= sequence[Slot(pos[t])]
    BY <1>1, <1>2, CapacityAssumption DEF Observable, IndInv, Types, Slots
  <1>4. /\ Branch(v - awaited) \in {"idle", "cas", "reload"}
        /\ Branch(v - awaited) = "cas" => v = awaited
    BY <1>3 DEF Branch
  <1>5. NoClaim
    BY <1>1, <1>4 DEF IndInv, Types, NoClaim, Owner, cells, history
  <1>6. Types'
    BY <1>1, <1>4 DEF IndInv, Types, cells, history
  <1>7. Seen'
    <2>1. /\ \A u \in Thread \ {t} : pc'[u] = pc[u]
          /\ pc'[t] = Branch(v - awaited)
          /\ \A u \in Thread : pos'[u] = pos[u]
      BY <1>1 DEF IndInv, Types
    <2>2. pc'[t] = "cas" => awaited <= sequence[Slot(pos[t])]
      BY <1>3, <1>4, <2>1
    <2>3. QED
      BY <1>2, <2>1, <2>2 DEF IndInv, Seen, cells, Slot, Thread
  <1>8. QED
    BY <1>5, <1>6, <1>7, NoClaimKeeps DEF IndInv

-----------------------------------------------------------------------------
(* Claims.                                                                 *)

(* A compare-exchange on enqueue_pos_ that succeeds finds the cell free:   *)
(* the queue is not full and the sequence number is still the position.    *)
LEMMA PushFindsRoom ==
  ASSUME IndInv, NEW t \in Producer, pc[t] = "cas", enqueue_pos = pos[t]
  PROVE  sequence[Slot(enqueue_pos)] = enqueue_pos /\ enqueue_pos < dequeue_pos + Capacity
  <1> DEFINE s == Slot(enqueue_pos)
  <1>1. /\ s \in Slots /\ enqueue_pos \in Nat /\ dequeue_pos \in Nat
        /\ sequence[s] \in Nat /\ sequence[s] >= enqueue_pos
    BY SlotType DEF IndInv, Types, Seen
  <1>2. ~AwaitsPop(s)
    <2> SUFFICES ASSUME AwaitsPop(s) PROVE FALSE
      OBVIOUS
    <2>1. sequence[s] = enqueue_pos /\ sequence[s] - 1 \in Nat
          /\ Slot(sequence[s] - 1) = Slot(enqueue_pos)
      BY <1>1 DEF AwaitsPop
    <2>2. enqueue_pos # (sequence[s] - 1) + 1
      BY <1>1, <2>1, NextSlot, Zenon
    <2>3. QED
      BY <1>1, <2>1, <2>2
  <1>3. Slot(sequence[s]) = s /\ sequence[s] < dequeue_pos + Capacity
    BY <1>1, <1>2 DEF IndInv, Cells, AwaitsPush
  <1>4. ~(sequence[s] > enqueue_pos)
    <2> SUFFICES ASSUME sequence[s] > enqueue_pos PROVE FALSE
      OBVIOUS
    <2>1. enqueue_pos + Capacity <= sequence[s]
      BY <1>1, <1>3, SameSlot
    <2>2. QED
      BY <1>1, <1>3, <2>1, CapacityAssumption DEF IndInv, Cells
  <1>5. QED
    BY <1>1, <1>3, <1>4

(* A compare-exchange on dequeue_pos_ that succeeds finds the item there.  *)
LEMMA PopFindsItem ==
  ASSUME IndInv, NEW t \in Consumer, pc[t] = "cas", dequeue_pos = pos[t]
  PROVE  sequence[Slot(dequeue_pos)] = dequeue_pos + 1 /\ dequeue_pos < enqueue_pos
  <1> DEFINE s == Slot(dequeue_pos)
  <1>1. /\ s \in Slots /\ enqueue_pos \in Nat /\ dequeue_pos \in Nat
        /\ sequence[s] \in Nat /\ sequence[s] >= dequeue_pos + 1
    BY SlotType DEF IndInv, Types, Seen
  <1>2. ~AwaitsPush(s)
    <2> SUFFICES ASSUME AwaitsPush(s) PROVE FALSE
      OBVIOUS
    <2>1. Slot(sequence[s]) = Slot(dequeue_pos) /\ sequence[s] < dequeue_pos + Capacity
      BY DEF AwaitsPush
    <2>2. dequeue_pos + Capacity <= sequence[s]
      BY <1>1, <2>1, SameSlot
    <2>3. QED
      BY <1>1, <2>1, <2>2, CapacityAssumption
  <1>3. sequence[s] - 1 \in Nat /\ Slot(sequence[s] - 1) = s /\ sequence[s] <= enqueue_pos
    BY <1>1, <1>2 DEF IndInv, Cells, AwaitsPop
  <1>4. ~(sequence[s] - 1 > dequeue_pos)
    <2> SUFFICES ASSUME sequence[s] - 1 > dequeue_pos PROVE FALSE
      OBVIOUS
    <2>1. dequeue_pos + Capacity <= sequence[s] - 1
      BY <1>1, <1>3, SameSlot
    <2>2. QED
      BY <1>1, <1>3, <2>1, CapacityAssumption DEF IndInv, Cells
  <1>5. QED
    BY <1>1, <1>3, <1>4

(* A new claim is put after the others. *)
LEMMA ClaimAppended ==
  ASSUME IndInv, NEW x \in Item, claims' = Append(claims, x)
  PROVE  /\ claims' \in Seq(Item) /\ Len(claims') = enqueue_pos + 1
         /\ \A k \in 1 .. enqueue_pos : claims'[k] = claims[k]
         /\ claims'[enqueue_pos + 1] = x
  <1>1. claims \in Seq(Item) /\ Len(claims) = enqueue_pos
    BY DEF IndInv, Types, Contents
  <1>2. QED
    BY <1>1, AppendProperties

(* The item of a producer that is not done. *)
LEMMA ClaimItem ==
  ASSUME IndInv, NEW t \in Producer, pc[t] # "idle"
  PROVE  ItemOf(t) \in Item /\ sent[t] \in Nat
  <1>1. sent[t] \in 0 .. Pushes /\ sent[t] < Pushes
    BY DEF IndInv, Types, Seen
  <1>2. sent[t] \in Nat /\ sent[t] + 1 \in 1 .. Pushes
    BY <1>1, PushesAssumption
  <1>3. QED
    BY <1>2 DEF ItemOf, Item

LEMMA PushClaimKeeps ==
  ASSUME IndInv, NEW t \in Producer, PushClaim(t)
  PROVE  IndInv'
  <1> USE DEF Thread
  <1> DEFINE E == enqueue_pos
             D == dequeue_pos
  <1>1. /\ pc[t] = "cas" /\ E = pos[t] /\ enqueue_pos' = E + 1
        /\ pc' = [pc EXCEPT ![t] = "access"] /\ claims' = Append(claims, ItemOf(t))
        /\ UNCHANGED <<dequeue_pos, sequence, data, pos, sent, got, out>>
    BY DEF PushClaim, Goto, cells
  <1>2. sequence[Slot(E)] = E /\ E < D + Capacity /\ D <= E
    BY <1>1, PushFindsRoom DEF IndInv, Cells
  <1>3. E \in Nat /\ D \in Nat /\ Slot(E) \in Slots
    BY SlotType DEF IndInv, Types
  <1>4. ItemOf(t) \in Item /\ sent[t] \in Nat
    BY <1>1, ClaimItem
  <1>5. /\ claims' \in Seq(Item) /\ Len(claims') = E + 1
        /\ \A k \in 1 .. E : claims'[k] = claims[k]
        /\ claims'[E + 1] = ItemOf(t)
    BY <1>1, <1>4, ClaimAppended
  <1>6. /\ \A u \in Thread : u # t => pc'[u] = pc[u]
        /\ pc'[t] = "access"
        /\ ~Owner(t) /\ Owner(t)'
        /\ \A u \in Thread : u # t => Owner(u)' = Owner(u)
    BY <1>1 DEF IndInv, Types, Owner
  <1> HIDE DEF E, D
  <1>7. Types'
    <2>1. pc' \in [Thread -> {"idle", "seq", "reload", "cas", "access", "publish"}]
      BY <1>1 DEF IndInv, Types
    <2>2. enqueue_pos' \in Nat
      BY <1>1, <1>3
    <2>3. QED
      BY <1>1, <1>5, <2>1, <2>2 DEF IndInv, Types
  <1>8. Cells'
    <2>1. dequeue_pos' <= enqueue_pos' /\ enqueue_pos' <= dequeue_pos' + Capacity
      BY <1>1, <1>2, <1>3, CapacityAssumption DEF E, D
    <2>2. ASSUME NEW s \in Slots, AwaitsPush(s) PROVE AwaitsPush(s)'
      <3>1. sequence[s] \in Nat
        BY DEF IndInv, Types
      <3>2. sequence[s] = E \/ sequence[s] >= E + 1
            \/ \E u \in Producer : Owner(u) /\ pos[u] = sequence[s]
        BY <1>3, <2>2, <3>1 DEF AwaitsPush, E
      <3>3. sequence'[s] >= enqueue_pos' \/ \E u \in Producer : Owner(u)' /\ pos'[u] = sequence'[s]
        BY <1>1, <1>6, <3>2
      <3>4. QED
        BY <1>1, <2>2, <3>3 DEF AwaitsPush, Slot
    <2>3. ASSUME NEW s \in Slots, AwaitsPop(s) PROVE AwaitsPop(s)'
      <3>1. \A u \in Consumer : Owner(u) => Owner(u)'
        BY <1>6 DEF Owner
      <3>2. sequence'[s] <= enqueue_pos'
        BY <1>1, <1>3, <2>3 DEF AwaitsPop, E, IndInv, Types
      <3>3. QED
        BY <1>1, <2>3, <3>1, <3>2 DEF AwaitsPop, Slot
    <2>4. QED
      BY <2>1, <2>2, <2>3 DEF IndInv, Cells
  <1>9. Owners'
    <2>1. ASSUME NEW u \in Producer, Owner(u)'
          PROVE  /\ dequeue_pos' <= pos'[u] /\ pos'[u] < enqueue_pos'
                 /\ sequence'[Slot(pos[u])] = pos'[u]
      <3>1. CASE u = t
        BY <1>1, <1>2, <1>3, <3>1 DEF D
      <3>2. CASE u # t
        BY <1>1, <1>3, <1>6, <2>1, <3>2 DEF IndInv, Owners, Types, D, E
      <3>3. QED
        BY <3>1, <3>2
    <2>2. ASSUME NEW u \in Consumer, Owner(u)'
          PROVE  /\ pos'[u] < dequeue_pos' /\ enqueue_pos' <= pos'[u] + Capacity
                 /\ sequence'[Slot(pos[u])] = pos'[u] + 1
      <3>1. Owner(u)
        BY <1>6, <2>2, ThreadAssumption
      <3>2. /\ pos[u] \in Nat /\ pos[u] < D /\ E <= pos[u] + Capacity
            /\ sequence[Slot(pos[u])] = pos[u] + 1
        BY <3>1 DEF IndInv, Owners, Types, D, E
      <3>3. E # pos[u] + Capacity
        <4> SUFFICES ASSUME E = pos[u] + Capacity PROVE FALSE
          OBVIOUS
        <4>1. Slot(E) = Slot(pos[u])
          BY <3>2, LapSlot
        <4>2. QED
          BY <1>2, <3>2, <4>1, CapacityAssumption
      <3>4. QED
        BY <1>1, <1>3, <3>2, <3>3, CapacityAssumption, SMTT(30) DEF D
    <2>3. ASSUME NEW u \in Producer, NEW w \in Producer, u # w, Owner(u)', Owner(w)'
          PROVE  pos'[u] # pos'[w]
      <3>1. \A v \in Producer : v # t /\ Owner(v)' => Owner(v) /\ pos[v] \in Nat /\ pos[v] < E
        BY <1>6 DEF IndInv, Owners, Types, E
      <3>2. QED
        BY <1>1, <1>3, <2>3, <3>1 DEF IndInv, Owners
    <2>4. ASSUME NEW u \in Consumer, NEW w \in Consumer, u # w, Owner(u)', Owner(w)'
          PROVE  pos'[u] # pos'[w]
      <3>1. Owner(u) /\ Owner(w)
        BY <1>6, <2>4, ThreadAssumption
      <3>2. QED
        BY <1>1, <2>4, <3>1 DEF IndInv, Owners
    <2>5. pos' = pos
      BY <1>1
    <2>6. QED
      BY <2>1, <2>2, <2>3, <2>4, <2>5 DEF Owners, Slot
  <1>10. Seen'
    <2>1. \A u \in Thread : /\ pos'[u] = pos[u] /\ Slot(pos[u])' = Slot(pos[u])
                            /\ pc'[u] = "cas" => pc[u] = "cas"
                            /\ pc'[u] # "idle" => pc[u] # "idle"
      BY <1>1, <1>6 DEF Slot
    <2>2. \A u \in Producer : pos[u] \in Nat /\ pos[u] <= E + 1
      BY <1>3 DEF IndInv, Types, Seen, E
    <2>3. QED
      BY <1>1, <2>1, <2>2 DEF IndInv, Seen
  <1>11. Contents'
    <2>1. ASSUME NEW k \in 0 .. E, sequence'[Slot(k)] = k + 1
          PROVE  data'[Slot(k)] = claims'[k + 1]
      <3>1. k # E
        BY <1>1, <1>2, <1>3, <2>1
      <3>2. k \in 0 .. E - 1 /\ k + 1 \in 1 .. E
        BY <1>3, <3>1
      <3>3. QED
        BY <1>1, <1>5, <2>1, <3>2 DEF IndInv, Contents, E
    <2>2. ASSUME NEW u \in Producer, Owner(u)'
          PROVE  /\ claims'[pos[u] + 1] = ItemOf(u)'
                 /\ pc'[u] = "publish" => data'[Slot(pos[u])] = ItemOf(u)'
      <3>0. ItemOf(u)' = ItemOf(u)
        BY <1>1 DEF ItemOf
      <3>1. CASE u = t
        BY <1>1, <1>5, <1>6, <3>0, <3>1
      <3>2. CASE u # t
        <4>1. Owner(u) /\ pos[u] + 1 \in 1 .. E /\ pc'[u] = pc[u]
          BY <1>6, <2>2, <3>2 DEF IndInv, Owners, Types, E
        <4>2. QED
          BY <1>1, <1>5, <3>0, <4>1 DEF IndInv, Contents
      <3>3. QED
        BY <3>1, <3>2
    <2>3. enqueue_pos' - 1 = E
      BY <1>1, <1>3
    <2>4. QED
      BY <1>1, <1>5, <2>1, <2>2, <2>3 DEF Contents, Slot
  <1>12. ClaimsInOrder'
    <2>1. \A i \in 1 .. E : /\ claims[i] \in Item /\ claims[i][1] \in Producer
                            /\ claims[i][2] \in Nat
      BY PushesAssumption DEF IndInv, Types, Contents, Item, E
    <2>2. ItemOf(t)[1] = t /\ ItemOf(t)[2] = sent[t] + 1
      BY DEF ItemOf
    <2>3. \A i \in 1 .. E : claims[i][1] = t => claims[i][2] <= sent[t]
      BY <1>4, <1>6, <2>1 DEF IndInv, ClaimsInOrder, E
    <2>4. ASSUME NEW i \in 1 .. E + 1, NEW j \in 1 .. E + 1, i < j,
                 claims'[i][1] = claims'[j][1]
          PROVE  claims'[i][2] < claims'[j][2]
      <3>1. i \in 1 .. E
        BY <1>3, <2>4
      <3>2. CASE j = E + 1
        BY <1>4, <1>5, <2>1, <2>2, <2>3, <2>4, <3>1, <3>2
      <3>3. CASE j # E + 1
        <4>1. j \in 1 .. E
          BY <1>3, <3>3
        <4>2. QED
          BY <1>5, <2>4, <3>1, <4>1 DEF IndInv, ClaimsInOrder, E
      <3>4. QED
        BY <3>2, <3>3
    <2>5. ASSUME NEW i \in 1 .. E + 1
          PROVE  /\ claims'[i][2] <= sent'[claims'[i][1]] + 1
                 /\ \A p \in Producer : p = claims'[i][1] /\ ~Owner(p)'
                                         => claims'[i][2] <= sent'[p]
      <3>1. CASE i = E + 1
        BY <1>1, <1>4, <1>5, <1>6, <2>2, <3>1
      <3>2. CASE i # E + 1
        <4>1. i \in 1 .. E
          BY <1>3, <3>2
        <4>2. claims'[i] = claims[i]
          BY <1>5, <4>1
        <4>3. CASE claims[i][1] = t
          BY <1>1, <1>4, <1>6, <2>1, <2>3, <4>1, <4>2, <4>3
        <4>4. CASE claims[i][1] # t
          BY <1>1, <1>6, <2>1, <4>1, <4>2, <4>4 DEF IndInv, ClaimsInOrder, E
        <4>5. QED
          BY <4>3, <4>4
      <3>3. QED
        BY <3>1, <3>2
    <2>6. \A i \in 1 .. E + 1 : claims'[i][1] \in Producer
      BY <1>5 DEF Item
    <2>7. \A p \in Producer : Owner(p)' <=> pc'[p] \in {"access", "publish"}
      BY DEF Owner
    <2>8. QED
      BY <1>1, <2>4, <2>5, <2>6, <2>7 DEF ClaimsInOrder, Owner
  <1>13. Deliveries'
    <2>1. \A k \in 1 .. D : claims'[k] = claims[k]
      BY <1>2, <1>3, <1>5
    <2>2. \A u \in Consumer : pc'[u] = "access" =>
             /\ pc[u] = "access" /\ pos'[u] = pos[u]
             /\ claims'[pos[u] + 1] = claims[pos[u] + 1]
      <3> SUFFICES ASSUME NEW u \in Consumer, pc'[u] = "access"
                   PROVE  /\ pc[u] = "access" /\ pos'[u] = pos[u]
                          /\ claims'[pos[u] + 1] = claims[pos[u] + 1]
        OBVIOUS
      <3>1. pc[u] = "access" /\ Owner(u)
        BY <1>6, ThreadAssumption DEF Owner
      <3>2. pos[u] + 1 \in 1 .. D
        BY <1>3, <3>1 DEF IndInv, Owners, Types, D
      <3>3. QED
        BY <1>1, <2>1, <3>1, <3>2
    <2>3. got' = got /\ dequeue_pos' = D /\ dequeue_pos = D
      BY <1>1 DEF D
    <2>4. Deliveries
      BY DEF IndInv
    <2>5. GotClaimed'
      BY <2>1, <2>3, <2>4 DEF Deliveries, GotClaimed
    <2>6. GotInOrder'
      BY <2>1, <2>3, <2>4 DEF Deliveries, GotInOrder
    <2>7. GotOnce'
      BY <2>3, <2>4 DEF Deliveries, GotOnce
    <2>8. UnreadFresh'
      BY <2>2, <2>3, <2>4 DEF Deliveries, UnreadFresh
    <2>9. UnreadLast'
      BY <2>1, <2>2, <2>3, <2>4 DEF Deliveries, UnreadLast
    <2>10. QED
      BY <2>5, <2>6, <2>7, <2>8, <2>9 DEF Deliveries
  <1>14. QED
    BY <1>7, <1>8, <1>9, <1>10, <1>11, <1>12, <1>13 DEF IndInv

(* No item is claimed twice. *)
LEMMA ClaimsDistinct ==
  ASSUME IndInv, NEW i \in 1 .. enqueue_pos, NEW j \in 1 .. enqueue_pos,
         claims[i] = claims[j]
  PROVE  i = j
  <1>1. claims[i][2] \in Nat
    BY PushesAssumption DEF IndInv, Types, Contents, Item
  <1>2. enqueue_pos \in Nat
    BY DEF IndInv, Types
  <1>3. QED
    BY <1>1, <1>2 DEF IndInv, ClaimsInOrder

(* What a consumer that owns a cell finds in it. *)
LEMMA OwnedItem ==
  ASSUME IndInv, NEW t \in Consumer, Owner(t)
  PROVE  /\ pos[t] \in Nat /\ pos[t] + 1 \in 1 .. dequeue_pos
         /\ pos[t] + 1 \in 1 .. enqueue_pos
         /\ data[Slot(pos[t])] = claims[pos[t] + 1] /\ claims[pos[t] + 1] \in Item
  <1>1. /\ pos[t] \in Nat /\ dequeue_pos \in Nat /\ enqueue_pos \in Nat
        /\ dequeue_pos <= enqueue_pos /\ pos[t] < dequeue_pos
        /\ sequence[Slot(pos[t])] = pos[t] + 1
    BY DEF IndInv, Types, Cells, Owners, Thread
  <1>2. pos[t] \in 0 .. enqueue_pos - 1
    BY <1>1
  <1>3. pos[t] + 1 \in 1 .. dequeue_pos /\ pos[t] + 1 \in 1 .. enqueue_pos
    BY <1>1
  <1>4. data[Slot(pos[t])] = claims[pos[t] + 1]
    BY <1>1, <1>2 DEF IndInv, Contents
  <1>5. claims[pos[t] + 1] \in Item
    BY <1>3 DEF IndInv, Types, Contents
  <1>6. QED
    BY <1>1, <1>3, <1>4, <1>5

LEMMA PopClaimKeeps ==
  ASSUME IndInv, NEW t \in Consumer, PopClaim(t)
  PROVE  IndInv'
  <1> USE DEF Thread
  <1> DEFINE E == enqueue_pos
             D == dequeue_pos
  <1>1. /\ pc[t] = "cas" /\ D = pos[t] /\ dequeue_pos' = D + 1
        /\ pc' = [pc EXCEPT ![t] = "access"] /\ out' = data[Slot(D)]
        /\ UNCHANGED <<enqueue_pos, sequence, data, pos, sent, got, claims>>
    BY DEF PopClaim, Goto, cells
  <1>2. sequence[Slot(D)] = D + 1 /\ D < E /\ E <= D + Capacity
    BY <1>1, PopFindsItem DEF IndInv, Cells
  <1>3. E \in Nat /\ D \in Nat /\ Slot(D) \in Slots
    BY SlotType DEF IndInv, Types
  <1>4. /\ \A u \in Thread : u # t => pc'[u] = pc[u]
        /\ pc'[t] = "access"
        /\ ~Owner(t) /\ Owner(t)'
        /\ \A u \in Thread : u # t => Owner(u)' = Owner(u)
        /\ \A u \in Producer : Owner(u)' = Owner(u)
    BY <1>1, ThreadAssumption DEF IndInv, Types, Owner
  <1> HIDE DEF E, D
  <1>5. Types'
    <2>1. pc' \in [Thread -> {"idle", "seq", "reload", "cas", "access", "publish"}]
      BY <1>1 DEF IndInv, Types
    <2>2. dequeue_pos' \in Nat /\ out' \in Item \cup {NoItem}
      BY <1>1, <1>3 DEF IndInv, Types
    <2>3. QED
      BY <1>1, <2>1, <2>2 DEF IndInv, Types
  <1>6. Cells'
    <2>1. dequeue_pos' <= enqueue_pos' /\ enqueue_pos' <= dequeue_pos' + Capacity
      BY <1>1, <1>2, <1>3, CapacityAssumption DEF E, D
    <2>2. ASSUME NEW s \in Slots, AwaitsPush(s) PROVE AwaitsPush(s)'
      <3>1. sequence'[s] < dequeue_pos' + Capacity
        BY <1>1, <1>3, <2>2, CapacityAssumption DEF AwaitsPush, D, IndInv, Types
      <3>2. QED
        BY <1>1, <1>4, <2>2, <3>1 DEF AwaitsPush, Slot
    <2>3. ASSUME NEW s \in Slots, AwaitsPop(s) PROVE AwaitsPop(s)'
      <3>1. sequence[s] \in Nat
        BY DEF IndInv, Types
      <3>2. sequence[s] = D + 1 \/ sequence[s] > D + 1
            \/ \E u \in Consumer : Owner(u) /\ pos[u] + 1 = sequence[s]
        BY <1>3, <2>3, <3>1 DEF AwaitsPop, D
      <3>3. sequence'[s] > dequeue_pos'
            \/ \E u \in Consumer : Owner(u)' /\ pos'[u] + 1 = sequence'[s]
        BY <1>1, <1>4, <3>2
      <3>4. QED
        BY <1>1, <2>3, <3>3 DEF AwaitsPop, Slot
    <2>4. QED
      BY <2>1, <2>2, <2>3 DEF IndInv, Cells
  <1>7. Owners'
    <2>1. ASSUME NEW u \in Producer, Owner(u)'
          PROVE  /\ dequeue_pos' <= pos'[u] /\ pos'[u] < enqueue_pos'
                 /\ sequence'[Slot(pos[u])] = pos'[u]
      <3>1. /\ pos[u] \in Nat /\ D <= pos[u] /\ pos[u] < E
            /\ sequence[Slot(pos[u])] = pos[u]
        BY <1>4, <2>1 DEF IndInv, Types, Owners, D, E
      <3>2. pos[u] # D
        BY <1>2, <1>3, <3>1
      <3>3. QED
        BY <1>1, <1>3, <3>1, <3>2 DEF E
    <2>2. ASSUME NEW u \in Consumer, Owner(u)'
          PROVE  /\ pos'[u] < dequeue_pos' /\ enqueue_pos' <= pos'[u] + Capacity
                 /\ sequence'[Slot(pos[u])] = pos'[u] + 1
      <3>1. CASE u = t
        BY <1>1, <1>2, <1>3, <3>1 DEF E
      <3>2. CASE u # t
        BY <1>1, <1>3, <1>4, <2>2, <3>2 DEF IndInv, Owners, Types, D, E
      <3>3. QED
        BY <3>1, <3>2
    <2>3. ASSUME NEW u \in Consumer, NEW w \in Consumer, u # w, Owner(u)', Owner(w)'
          PROVE  pos'[u] # pos'[w]
      <3>1. \A v \in Consumer : v # t /\ Owner(v)' => Owner(v) /\ pos[v] \in Nat /\ pos[v] < D
        BY <1>4 DEF IndInv, Owners, Types, D
      <3>2. QED
        BY <1>1, <1>3, <2>3, <3>1 DEF IndInv, Owners
    <2>4. ASSUME NEW u \in Producer, NEW w \in Producer, u # w, Owner(u)', Owner(w)'
          PROVE  pos'[u] # pos'[w]
      BY <1>1, <1>4, <2>4 DEF IndInv, Owners
    <2>5. pos' = pos
      BY <1>1
    <2>6. QED
      BY <2>1, <2>2, <2>3, <2>4, <2>5 DEF Owners, Slot
  <1>8. Seen'
    <2>1. \A u \in Thread : /\ pos'[u] = pos[u] /\ Slot(pos[u])' = Slot(pos[u])
                            /\ pc'[u] = "cas" => pc[u] = "cas"
                            /\ pc'[u] # "idle" => pc[u] # "idle"
      BY <1>1, <1>4 DEF Slot
    <2>2. \A u \in Consumer : pos[u] \in Nat /\ pos[u] <= D + 1
      BY <1>3 DEF IndInv, Types, Seen, D
    <2>3. QED
      BY <1>1, <2>1, <2>2 DEF IndInv, Seen
  <1>9. Contents'
    <2>1. \A u \in Producer : /\ pos'[u] = pos[u] /\ ItemOf(u)' = ItemOf(u)
                              /\ pc'[u] = pc[u]
      BY <1>1, <1>4, ThreadAssumption DEF ItemOf
    <2>2. QED
      BY <1>1, <1>4, <2>1 DEF IndInv, Contents, Slot
  <1>10. ClaimsInOrder'
    <2>1. \A i \in 1 .. E : claims[i][1] \in Producer
      BY DEF IndInv, Types, Contents, Item, E
    <2>2. QED
      BY <1>1, <1>4, <2>1 DEF IndInv, ClaimsInOrder, E
  <1>11. Deliveries'
    <2>1. got' = got /\ dequeue_pos' = D + 1 /\ dequeue_pos = D /\ claims' = claims /\ pos' = pos
      BY <1>1 DEF D
    <2>2. Deliveries
      BY DEF IndInv
    <2>3. D + 1 \in 1 .. E /\ \A k \in 1 .. D : k \in 1 .. E /\ k # D + 1
      BY <1>2, <1>3
    <2>4. \A u \in Consumer : \A i \in 1 .. Len(got[u]) : got[u][i] # claims[D + 1]
      BY <2>1, <2>2, <2>3, ClaimsDistinct DEF Deliveries, GotClaimed, E
    <2>5. \A k \in 1 .. D + 1 : k \in 1 .. D \/ k = D + 1
      BY <1>3
    <2>6. \A u \in Consumer : pc'[u] = "access" => u = t \/ pc[u] = "access"
      BY <1>4
    <2>7. GotClaimed'
      <3>1. \A k \in 1 .. D : k \in 1 .. D + 1
        BY <1>3
      <3>2. QED
        BY <2>1, <2>2, <3>1 DEF Deliveries, GotClaimed
    <2>8. GotInOrder'
      BY <2>1, <2>2, <2>4, <2>5 DEF Deliveries, GotInOrder
    <2>9. GotOnce'
      BY <2>1, <2>2 DEF Deliveries, GotOnce
    <2>10. UnreadFresh'
      BY <1>1, <2>1, <2>2, <2>4, <2>6 DEF Deliveries, UnreadFresh
    <2>11. UnreadLast'
      <3>1. \A k \in 1 .. D : k <= pos[t]
        BY <1>1, <1>3
      <3>2. QED
        BY <2>1, <2>2, <2>4, <2>5, <2>6, <3>1 DEF Deliveries, UnreadLast
    <2>12. QED
      BY <2>7, <2>8, <2>9, <2>10, <2>11 DEF Deliveries
  <1>12. QED
    BY <1>5, <1>6, <1>7, <1>8, <1>9, <1>10, <1>11 DEF IndInv

-----------------------------------------------------------------------------
(* Accesses to the data of an owned cell.                                  *)

LEMMA PushWriteKeeps ==
  ASSUME IndInv, NEW t \in Producer, PushWrite(t)
  PROVE  IndInv'
  <1> USE DEF Thread
  <1>1. /\ pc[t] = "access" /\ pc' = [pc EXCEPT ![t] = "publish"]
        /\ data' = [data EXCEPT ![Slot(pos[t])] = ItemOf(t)]
        /\ UNCHANGED <<enqueue_pos, dequeue_pos, sequence, pos, sent, got, claims, out>>
    BY DEF PushWrite, Goto, history
  <1>2. /\ \A u \in Thread : u # t => pc'[u] = pc[u]
        /\ pc'[t] = "publish" /\ Owner(t)
        /\ \A u \in Thread : Owner(u)' = Owner(u)
    BY <1>1 DEF IndInv, Types, Owner
  <1>3. /\ pos[t] \in Nat /\ Slot(pos[t]) \in Slots /\ enqueue_pos \in Nat
        /\ sequence[Slot(pos[t])] = pos[t]
        /\ claims[pos[t] + 1] = ItemOf(t) /\ pos[t] + 1 \in 1 .. enqueue_pos
    BY <1>2, SlotType, SMTT(30) DEF IndInv, Types, Owners, Contents
  <1>4. ItemOf(t) \in Item
    BY <1>3 DEF IndInv, Types, Contents
  <1>5. Types'
    BY <1>1, <1>4 DEF IndInv, Types
  <1>6. Cells'
    BY <1>1, <1>2 DEF IndInv, Cells, AwaitsPush, AwaitsPop, Slot
  <1>7. Owners'
    BY <1>1, <1>2 DEF IndInv, Owners, Slot
  <1>8. Seen'
    <2>1. \A u \in Thread : /\ pc'[u] = "cas" => pc[u] = "cas"
                            /\ pc'[u] # "idle" => pc[u] # "idle"
      BY <1>1, <1>2
    <2>2. QED
      BY <1>1, <2>1 DEF IndInv, Seen, Slot
  <1>9. Contents'
    <2>1. \A s \in Slots : s # Slot(pos[t]) => data'[s] = data[s]
      BY <1>1 DEF IndInv, Types
    <2>2. data'[Slot(pos[t])] = ItemOf(t)
      BY <1>1, <1>3 DEF IndInv, Types
    <2>3. ASSUME NEW k \in 0 .. enqueue_pos - 1, sequence[Slot(k)] = k + 1
          PROVE  data'[Slot(k)] = claims[k + 1]
      <3>1. k \in Nat /\ Slot(k) \in Slots
        BY <1>3, SlotType
      <3>2. Slot(k) # Slot(pos[t])
        BY <1>3, <2>3, <3>1, NextSlot
      <3>3. QED
        BY <2>1, <2>3, <3>1, <3>2 DEF IndInv, Contents
    <2>4. ASSUME NEW u \in Producer, Owner(u), pc'[u] = "publish"
          PROVE  data'[Slot(pos[u])] = ItemOf(u)
      <3>1. CASE u = t
        BY <2>2, <3>1
      <3>2. CASE u # t
        <4>1. /\ pos[u] \in Nat /\ Slot(pos[u]) \in Slots /\ pos[u] # pos[t]
              /\ sequence[Slot(pos[u])] = pos[u]
          BY <1>2, <2>4, <3>2, SlotType DEF IndInv, Owners, Types
        <4>2. Slot(pos[u]) # Slot(pos[t])
          BY <1>3, <4>1
        <4>3. QED
          BY <1>2, <2>1, <2>4, <3>2, <4>1, <4>2 DEF IndInv, Contents
      <3>3. QED
        BY <3>1, <3>2
    <2>5. \A u \in Producer : ItemOf(u)' = ItemOf(u) /\ Slot(pos[u])' = Slot(pos[u])
      BY <1>1 DEF ItemOf, Slot
    <2>6. QED
      BY <1>1, <1>2, <2>3, <2>4, <2>5 DEF IndInv, Contents, Slot
  <1>10. ClaimsInOrder'
    <2>1. \A i \in 1 .. enqueue_pos : claims[i][1] \in Producer
      BY DEF IndInv, Types, Contents, Item
    <2>2. QED
      BY <1>1, <1>2, <2>1 DEF IndInv, ClaimsInOrder
  <1>11. Deliveries'
    <2>1. \A u \in Consumer : pc'[u] = pc[u]
      BY <1>2, ThreadAssumption
    <2>2. QED
      BY <1>1, <2>1 DEF IndInv, Deliveries, GotClaimed, GotInOrder, GotOnce,
                        UnreadFresh, UnreadLast
  <1>12. QED
    BY <1>5, <1>6, <1>7, <1>8, <1>9, <1>10, <1>11 DEF IndInv

LEMMA PopReadKeeps ==
  ASSUME IndInv, NEW t \in Consumer, PopRead(t)
  PROVE  IndInv'
  <1> USE DEF Thread
  <1> DEFINE x == claims[pos[t] + 1]
             n == Len(got[t])
  <1>1. /\ pc[t] = "access" /\ pc' = [pc EXCEPT ![t] = "publish"]
        /\ got' = [got EXCEPT ![t] = Append(got[t], data[Slot(pos[t])])]
        /\ UNCHANGED <<enqueue_pos, dequeue_pos, sequence, data, pos, sent, claims, out>>
    BY DEF PopRead, Goto, history, cells
  <1>2. /\ \A u \in Thread : u # t => pc'[u] = pc[u]
        /\ pc'[t] = "publish" /\ Owner(t)
        /\ \A u \in Thread : Owner(u)' = Owner(u)
    BY <1>1 DEF IndInv, Types, Owner
  <1>3. /\ pos[t] \in Nat /\ pos[t] + 1 \in 1 .. dequeue_pos
        /\ pos[t] + 1 \in 1 .. enqueue_pos
        /\ data[Slot(pos[t])] = x /\ x \in Item
    BY <1>2, OwnedItem
  <1> HIDE DEF x
  <1>4. /\ got[t] \in Seq(Item) /\ n \in Nat
        /\ Append(got[t], x) \in Seq(Item) /\ Len(Append(got[t], x)) = n + 1
        /\ \A i \in 1 .. n : Append(got[t], x)[i] = got[t][i]
        /\ Append(got[t], x)[n + 1] = x
    <2>1. got[t] \in Seq(Item)
      BY DEF IndInv, Types
    <2>2. QED
      BY <1>3, <2>1, AppendProperties, LenProperties
  <1>5. /\ \A u \in Consumer : u # t => got'[u] = got[u]
        /\ got'[t] = Append(got[t], x)
        /\ got' \in [Consumer -> Seq(Item)]
    BY <1>1, <1>3, <1>4 DEF IndInv, Types
  <1>6. Types'
    BY <1>1, <1>5 DEF IndInv, Types
  <1>7. Cells'
    BY <1>1, <1>2 DEF IndInv, Cells, AwaitsPush, AwaitsPop, Slot
  <1>8. Owners'
    BY <1>1, <1>2 DEF IndInv, Owners, Slot
  <1>9. Seen'
    <2>1. \A u \in Thread : /\ pc'[u] = "cas" => pc[u] = "cas"
                            /\ pc'[u] # "idle" => pc[u] # "idle"
      BY <1>1, <1>2
    <2>2. QED
      BY <1>1, <2>1 DEF IndInv, Seen, Slot
  <1>10. Contents'
    <2>1. \A u \in Producer : pc'[u] = pc[u] /\ ItemOf(u)' = ItemOf(u)
      BY <1>1, <1>2, ThreadAssumption DEF ItemOf
    <2>2. QED
      BY <1>1, <1>2, <2>1 DEF IndInv, Contents, Slot
  <1>11. ClaimsInOrder'
    <2>1. \A i \in 1 .. enqueue_pos : claims[i][1] \in Producer
      BY DEF IndInv, Types, Contents, Item
    <2>2. QED
      BY <1>1, <1>2, <2>1 DEF IndInv, ClaimsInOrder
  <1>12. Deliveries'
    <2>1. /\ dequeue_pos' = dequeue_pos /\ claims' = claims /\ pos' = pos
          /\ pc'[t] # "access" /\ \A u \in Consumer : u # t => pc'[u] = pc[u]
      BY <1>1, <1>2
    <2>2. Deliveries
      BY DEF IndInv
    <2>3. \A i \in 1 .. n + 1 : /\ (i \in 1 .. n /\ i < n + 1) \/ i = n + 1
                                /\ i = n + 1 => ~\E j \in 1 .. n + 1 : i < j
      BY <1>4
    <2>4. /\ Len(got'[t]) = n + 1 /\ got'[t][n + 1] = x
          /\ \A i \in 1 .. n : got'[t][i] = got[t][i]
      BY <1>4, <1>5
    <2>5. \A k \in 1 .. dequeue_pos : k \in 1 .. enqueue_pos
      BY DEF IndInv, Types, Cells
    <2>6. \A k \in 1 .. dequeue_pos : x = claims[k] => k = pos[t] + 1
      BY <1>3, <2>5, ClaimsDistinct DEF x
    <2>7. \A u \in Consumer : \A i \in 1 .. Len(got[u]) : got[u][i] # x
      BY <1>1, <2>2 DEF Deliveries, UnreadFresh, x
    <2> HIDE DEF n
    <2>8. \A u \in Consumer : \A i \in 1 .. Len(got'[u]) :
             \/ i \in 1 .. Len(got[u]) /\ got'[u][i] = got[u][i]
             \/ u = t /\ got'[u][i] = x
      <3>1. \A i \in 1 .. Len(got'[t]) : i \in 1 .. n \/ i = n + 1
        BY <2>3, <2>4
      <3>2. \A u \in Consumer : u # t => got'[u] = got[u]
        BY <1>5
      <3>3. QED
        BY <2>4, <3>1, <3>2 DEF n
    <2>9. GotClaimed'
      <3>1. \E k \in 1 .. dequeue_pos : x = claims[k]
        BY <1>3 DEF x
      <3>2. QED
        BY <2>1, <2>2, <2>8, <3>1 DEF Deliveries, GotClaimed
    <2>10. GotInOrder'
      <3>1. \A i \in 1 .. n : \A k \in 1 .. dequeue_pos : got[t][i] = claims[k] => k < pos[t] + 1
        BY <1>1, <1>3, <2>2 DEF Deliveries, UnreadLast, n, IndInv, Types
      <3>2. ASSUME NEW i \in 1 .. n + 1, NEW j \in 1 .. n + 1, i < j,
                   NEW k \in 1 .. dequeue_pos, NEW l \in 1 .. dequeue_pos,
                   got'[t][i] = claims[k], got'[t][j] = claims[l]
            PROVE  k < l
        <4>1. i \in 1 .. n
          BY <2>3, <3>2
        <4>2. CASE j = n + 1
          BY <2>4, <2>6, <3>1, <3>2, <4>1, <4>2
        <4>3. CASE j \in 1 .. n
          BY <2>2, <2>4, <3>2, <4>1, <4>3 DEF Deliveries, GotInOrder, n
        <4>4. QED
          BY <2>3, <4>2, <4>3
      <3>3. QED
        <4>1. \A u \in Consumer : u # t => got'[u] = got[u]
          BY <1>5
        <4>2. Len(got'[t]) = n + 1
          BY <2>4
        <4>3. QED
          BY <2>1, <2>2, <3>2, <4>1, <4>2 DEF Deliveries, GotInOrder
    <2>11. GotOnce'
      BY <2>2, <2>7, <2>8 DEF Deliveries, GotOnce
    <2>12. UnreadFresh'
      <3>1. \A u \in Consumer : pc'[u] = "access" => x # claims[pos[u] + 1]
        <4> SUFFICES ASSUME NEW u \in Consumer, pc'[u] = "access", x = claims[pos[u] + 1]
                     PROVE  FALSE
          OBVIOUS
        <4>1. u # t /\ Owner(u)
          BY <2>1 DEF Owner
        <4>2. pos[u] \in Nat /\ pos[u] + 1 \in 1 .. dequeue_pos
          BY <4>1, OwnedItem
        <4>3. pos[u] # pos[t]
          BY <1>2, <4>1 DEF IndInv, Owners
        <4>4. QED
          BY <1>3, <2>6, <4>2, <4>3
      <3>2. QED
        BY <2>1, <2>2, <2>8, <3>1 DEF Deliveries, UnreadFresh
    <2>13. UnreadLast'
      BY <1>5, <2>1, <2>2 DEF Deliveries, UnreadLast
    <2>14. QED
      BY <2>9, <2>10, <2>11, <2>12, <2>13 DEF Deliveries
  <1>13. QED
    BY <1>6, <1>7, <1>8, <1>9, <1>10, <1>11, <1>12 DEF IndInv

-----------------------------------------------------------------------------
(* Releases.                                                               *)

(* An owner has its slot to itself. *)
LEMMA SlotIsOwned ==
  ASSUME IndInv, NEW t \in Thread, NEW u \in Thread, t # u, Owner(t), Owner(u)
  PROVE  Slot(pos[t]) # Slot(pos[u])
  <1>1. pos[t] \in Nat /\ pos[u] \in Nat
    BY DEF IndInv, Types
  <1>2. CASE t \in Producer /\ u \in Producer
    BY <1>1, <1>2 DEF IndInv, Owners
  <1>3. CASE t \in Consumer /\ u \in Consumer
    BY <1>1, <1>3 DEF IndInv, Owners
  <1>4. CASE t \in Producer /\ u \in Consumer
    BY <1>1, <1>4, NextSlot DEF IndInv, Owners
  <1>5. CASE t \in Consumer /\ u \in Producer
    BY <1>1, <1>5, NextSlot DEF IndInv, Owners
  <1>6. (t \in Producer \/ t \in Consumer) /\ (u \in Producer \/ u \in Consumer)
    BY DEF Thread
  <1>7. QED
    BY <1>2, <1>3, <1>4, <1>5, <1>6

(* What every release of a cell does, next the sequence number it leaves.  *)
Release(t, next) ==
  /\ sequence' = [sequence EXCEPT ![Slot(pos[t])] = next]
  /\ pc[t] = "publish" /\ pc' = [pc EXCEPT ![t] = "idle"]
  /\ UNCHANGED <<enqueue_pos, dequeue_pos, data, pos, got, claims, out>>

(* What is common to both releases: the owners that remain are untouched,  *)
(* and the cells of the other slots too.                                   *)
LEMMA ReleaseKeeps ==
  ASSUME IndInv, NEW t \in Thread, NEW next \in Nat, Release(t, next),
         next >= sequence[Slot(pos[t])],
         \A u \in Producer : u # t => sent'[u] = sent[u]
  PROVE  /\ Owners' /\ Seen' /\ Deliveries'
         /\ \A s \in Slots : s # Slot(pos[t]) =>
              (AwaitsPush(s) => AwaitsPush(s)') /\ (AwaitsPop(s) => AwaitsPop(s)')
         /\ \A u \in Producer : Owner(u)' =>
              /\ claims'[pos'[u] + 1] = ItemOf(u)'
              /\ pc'[u] = "publish" => data'[Slot(pos[u])] = ItemOf(u)'
         /\ \A u \in Thread : Owner(u)' <=> u # t /\ Owner(u)
  <1> USE DEF Thread
  <1>1. /\ \A u \in Thread : u # t => pc'[u] = pc[u]
        /\ pc'[t] = "idle" /\ pos' = pos
        /\ \A u \in Thread : Owner(u)' <=> u # t /\ Owner(u)
        /\ Owner(t)
    BY DEF IndInv, Types, Owner, Release
  <1>2. Slot(pos[t]) \in Slots /\ \A u \in Thread : Slot(pos[u]) \in Slots
    BY SlotType DEF IndInv, Types
  <1>3. /\ \A s \in Slots : s # Slot(pos[t]) => sequence'[s] = sequence[s]
        /\ sequence'[Slot(pos[t])] = next
        /\ \A s \in Slots : sequence'[s] \in Nat /\ sequence'[s] >= sequence[s]
    BY <1>2 DEF IndInv, Types, Release
  <1>4. \A u \in Thread : Owner(u)' => sequence'[Slot(pos[u])] = sequence[Slot(pos[u])]
    BY <1>1, <1>2, <1>3, SlotIsOwned
  <1>5. Owners'
    BY <1>1, <1>4 DEF IndInv, Owners, Slot, Release
  <1>6. Seen'
    <2>1. ASSUME NEW u \in Producer
          PROVE  /\ pos'[u] <= enqueue_pos'
                 /\ pc'[u] = "cas" => sequence'[Slot(pos[u])] >= pos'[u]
                 /\ pc'[u] # "idle" => sent'[u] < Pushes
      <3>1. pos[u] <= enqueue_pos /\ pos[u] \in Nat
        BY DEF IndInv, Seen, Types
      <3>2. ASSUME pc'[u] # "idle"
            PROVE  u # t /\ pc'[u] = pc[u] /\ sent'[u] = sent[u] /\ sent[u] < Pushes
        BY <1>1, <3>2 DEF IndInv, Seen
      <3>3. ASSUME pc'[u] = "cas" PROVE sequence'[Slot(pos[u])] >= pos[u]
        <4>1. sequence[Slot(pos[u])] >= pos[u] /\ sequence[Slot(pos[u])] \in Nat
          BY <1>2, <3>2, <3>3 DEF IndInv, Seen, Types
        <4>2. QED
          BY <1>2, <1>3, <3>1, <4>1
      <3>4. QED
        BY <1>1, <3>1, <3>2, <3>3 DEF Release
    <2>2. ASSUME NEW u \in Consumer
          PROVE  /\ pos'[u] <= dequeue_pos'
                 /\ pc'[u] = "cas" => sequence'[Slot(pos[u])] >= pos'[u] + 1
      <3>1. pos[u] <= dequeue_pos /\ pos[u] \in Nat
        BY DEF IndInv, Seen, Types
      <3>2. ASSUME pc'[u] = "cas" PROVE sequence'[Slot(pos[u])] >= pos[u] + 1
        <4>1. sequence[Slot(pos[u])] >= pos[u] + 1 /\ sequence[Slot(pos[u])] \in Nat
          BY <1>1, <1>2, <3>2 DEF IndInv, Seen, Types
        <4>2. QED
          BY <1>2, <1>3, <3>1, <4>1
      <3>3. QED
        BY <1>1, <3>1, <3>2 DEF Release
    <2>3. QED
      BY <1>1, <2>1, <2>2 DEF Seen, Slot
  <1>7. Deliveries'
    <2>1. \A u \in Consumer : pc'[u] = "access" => pc[u] = "access"
      BY <1>1
    <2>2. QED
      BY <1>1, <2>1 DEF IndInv, Release, Deliveries, GotClaimed, GotInOrder, GotOnce,
                        UnreadFresh, UnreadLast
  <1>8. ASSUME NEW s \in Slots, s # Slot(pos[t])
        PROVE  (AwaitsPush(s) => AwaitsPush(s)') /\ (AwaitsPop(s) => AwaitsPop(s)')
    <2>1. sequence'[s] = sequence[s] /\ sequence[s] \in Nat
      BY <1>3, <1>8 DEF IndInv, Types
    <2>2. ASSUME AwaitsPush(s) PROVE AwaitsPush(s)'
      <3>1. \A u \in Producer : Owner(u) /\ pos[u] = sequence[s] => Owner(u)'
        BY <1>1, <1>8, <2>2 DEF AwaitsPush
      <3>2. QED
        BY <1>1, <2>1, <2>2, <3>1 DEF AwaitsPush, Release, Slot
    <2>3. ASSUME AwaitsPop(s) PROVE AwaitsPop(s)'
      <3>1. \A u \in Consumer : Owner(u) /\ pos[u] + 1 = sequence[s] => Owner(u)'
        <4> SUFFICES ASSUME NEW u \in Consumer, Owner(u), pos[u] + 1 = sequence[s]
                     PROVE  u # t
          BY <1>1
        <4>1. pos[u] \in Nat
          BY DEF IndInv, Types
        <4>2. sequence[s] - 1 = pos[u]
          BY <4>1
        <4>3. QED
          BY <1>8, <2>3, <4>2 DEF AwaitsPop
      <3>2. QED
        BY <1>1, <2>1, <2>3, <3>1 DEF AwaitsPop, Release, Slot
    <2>4. QED
      BY <2>2, <2>3
  <1>9. ASSUME NEW u \in Producer, Owner(u)'
        PROVE  /\ claims'[pos'[u] + 1] = ItemOf(u)'
               /\ pc'[u] = "publish" => data'[Slot(pos[u])] = ItemOf(u)'
    <2>1. u # t /\ Owner(u) /\ pc'[u] = pc[u] /\ ItemOf(u)' = ItemOf(u)
      BY <1>1, <1>9 DEF ItemOf
    <2>2. QED
      BY <1>1, <2>1 DEF IndInv, Contents, Release
  <1>10. QED
    BY <1>1, <1>5, <1>6, <1>7, <1>8, <1>9

LEMMA PushPublishKeeps ==
  ASSUME IndInv, NEW t \in Producer, PushPublish(t)
  PROVE  IndInv'
  <1> USE DEF Thread
  <1> DEFINE q == pos[t]
  <1>1. Release(t, q + 1) /\ sent' = [sent EXCEPT ![t] = @ + 1] /\ Owner(t) /\ pc[t] = "publish"
    BY DEF PushPublish, Release, Goto, history, Owner
  <1>2. /\ q \in Nat /\ Slot(q) \in Slots /\ sequence[Slot(q)] = q
        /\ enqueue_pos \in Nat /\ dequeue_pos \in Nat
        /\ dequeue_pos <= q /\ q < enqueue_pos
        /\ sent[t] \in Nat /\ sent[t] < Pushes
    BY <1>1, SlotType DEF IndInv, Types, Owners, Seen, Owner
  <1>3. /\ \A s \in Slots : s # Slot(q) => sequence'[s] = sequence[s]
        /\ sequence'[Slot(q)] = q + 1 /\ sequence' \in [Slots -> Nat]
        /\ sent'[t] = sent[t] + 1 /\ \A u \in Producer : u # t => sent'[u] = sent[u]
        /\ sent' \in [Producer -> 0 .. Pushes]
    BY <1>1, <1>2, PushesAssumption DEF IndInv, Types, Release
  <1>4. /\ Owners' /\ Seen' /\ Deliveries'
        /\ \A s \in Slots : s # Slot(q) =>
             (AwaitsPush(s) => AwaitsPush(s)') /\ (AwaitsPop(s) => AwaitsPop(s)')
        /\ \A u \in Producer : Owner(u)' =>
             /\ claims'[pos'[u] + 1] = ItemOf(u)'
             /\ pc'[u] = "publish" => data'[Slot(pos[u])] = ItemOf(u)'
        /\ \A u \in Thread : Owner(u)' <=> u # t /\ Owner(u)
    <2>1. q + 1 \in Nat /\ q + 1 >= sequence[Slot(pos[t])]
      BY <1>2
    <2>2. QED
      BY <1>1, <1>3, <2>1, ReleaseKeeps
  <1> HIDE DEF q
  <1>5. Types'
    <2>1. pc' \in [Thread -> {"idle", "seq", "reload", "cas", "access", "publish"}]
      BY <1>1 DEF IndInv, Types, Release
    <2>2. QED
      BY <1>1, <1>3, <2>1 DEF IndInv, Types, Release
  <1>6. Cells'
    <2>1. ASSUME NEW s \in Slots, s = Slot(q) PROVE AwaitsPop(s)'
      <3>1. (q + 1) - 1 = q /\ q + 1 > dequeue_pos /\ q + 1 <= enqueue_pos /\ q + 1 >= 1
        BY <1>2
      <3>2. QED
        BY <1>1, <1>3, <2>1, <3>1 DEF AwaitsPop, Release, Slot
    <2>2. QED
      BY <1>1, <1>4, <2>1 DEF IndInv, Cells, Release
  <1>7. Contents'
    <2>1. ASSUME NEW k \in 0 .. enqueue_pos - 1, sequence'[Slot(k)] = k + 1
          PROVE  data[Slot(k)] = claims[k + 1]
      <3>1. k \in Nat /\ Slot(k) \in Slots
        BY <1>2, SlotType
      <3>2. CASE Slot(k) = Slot(q)
        <4>1. k = q
          BY <1>2, <1>3, <2>1, <3>1, <3>2
        <4>2. QED
          BY <1>1, <4>1 DEF IndInv, Contents, q
      <3>3. CASE Slot(k) # Slot(q)
        BY <1>3, <2>1, <3>1, <3>3 DEF IndInv, Contents
      <3>4. QED
        BY <3>2, <3>3
    <2>2. QED
      BY <1>1, <1>4, <2>1 DEF IndInv, Contents, Release, Slot
  <1>8. ClaimsInOrder'
    <2>1. \A i \in 1 .. enqueue_pos : claims[i][1] \in Producer /\ claims[i][2] \in Nat
      BY PushesAssumption DEF IndInv, Types, Contents, Item
    <2>2. ASSUME NEW i \in 1 .. enqueue_pos, NEW p \in Producer, p = claims[i][1]
          PROVE  /\ claims[i][2] <= sent'[p] + 1
                 /\ ~Owner(p)' => claims[i][2] <= sent'[p]
      <3>1. claims[i][2] <= sent[p] + 1 /\ (~Owner(p) => claims[i][2] <= sent[p])
        BY <2>2 DEF IndInv, ClaimsInOrder
      <3>2. CASE p = t
        BY <1>2, <1>3, <2>1, <2>2, <3>1, <3>2
      <3>3. CASE p # t
        BY <1>3, <1>4, <3>1, <3>3
      <3>4. QED
        BY <3>2, <3>3
    <2>3. claims' = claims /\ enqueue_pos' = enqueue_pos
      BY <1>1 DEF Release
    <2>4. \A i, j \in 1 .. enqueue_pos :
            i < j /\ claims[i][1] = claims[j][1] => claims[i][2] < claims[j][2]
      BY DEF IndInv, ClaimsInOrder
    <2>5. QED
      BY <2>1, <2>2, <2>3, <2>4 DEF ClaimsInOrder, Owner
  <1>9. QED
    BY <1>4, <1>5, <1>6, <1>7, <1>8 DEF IndInv

LEMMA PopPublishKeeps ==
  ASSUME IndInv, NEW t \in Consumer, PopPublish(t)
  PROVE  IndInv'
  <1> USE DEF Thread
  <1> DEFINE q == pos[t]
  <1>1. Release(t, q + Capacity) /\ sent' = sent /\ Owner(t) /\ pc[t] = "publish"
    BY DEF PopPublish, Release, Goto, history, Owner
  <1>2. /\ q \in Nat /\ Slot(q) \in Slots /\ sequence[Slot(q)] = q + 1
        /\ enqueue_pos \in Nat /\ dequeue_pos \in Nat
        /\ q < dequeue_pos /\ enqueue_pos <= q + Capacity
    BY <1>1, SlotType DEF IndInv, Types, Owners
  <1>3. /\ \A s \in Slots : s # Slot(q) => sequence'[s] = sequence[s]
        /\ sequence'[Slot(q)] = q + Capacity /\ sequence' \in [Slots -> Nat]
    BY <1>1, <1>2, CapacityAssumption DEF IndInv, Types, Release
  <1>4. /\ Owners' /\ Seen' /\ Deliveries'
        /\ \A s \in Slots : s # Slot(q) =>
             (AwaitsPush(s) => AwaitsPush(s)') /\ (AwaitsPop(s) => AwaitsPop(s)')
        /\ \A u \in Producer : Owner(u)' =>
             /\ claims'[pos'[u] + 1] = ItemOf(u)'
             /\ pc'[u] = "publish" => data'[Slot(pos[u])] = ItemOf(u)'
        /\ \A u \in Thread : Owner(u)' <=> u # t /\ Owner(u)
    <2>1. q + Capacity \in Nat /\ q + Capacity >= sequence[Slot(pos[t])]
      BY <1>2, CapacityAssumption
    <2>2. QED
      BY <1>1, <2>1, ReleaseKeeps
  <1> HIDE DEF q
  <1>5. Types'
    <2>1. pc' \in [Thread -> {"idle", "seq", "reload", "cas", "access", "publish"}]
      BY <1>1 DEF IndInv, Types, Release
    <2>2. QED
      BY <1>1, <1>3, <2>1 DEF IndInv, Types, Release
  <1>6. Cells'
    <2>1. ASSUME NEW s \in Slots, s = Slot(q) PROVE AwaitsPush(s)'
      <3>1. Slot(q + Capacity) = Slot(q)
        BY <1>2, LapSlot
      <3>2. q + Capacity < dequeue_pos + Capacity /\ q + Capacity >= enqueue_pos
        BY <1>2, CapacityAssumption
      <3>3. QED
        BY <1>1, <1>3, <2>1, <3>1, <3>2 DEF AwaitsPush, Release, Slot
    <2>2. QED
      BY <1>1, <1>4, <2>1 DEF IndInv, Cells, Release
  <1>7. Contents'
    <2>1. ASSUME NEW k \in 0 .. enqueue_pos - 1, sequence'[Slot(k)] = k + 1
          PROVE  data[Slot(k)] = claims[k + 1]
      <3>1. k \in Nat /\ Slot(k) \in Slots
        BY <1>2, SlotType
      <3>2. Slot(k) # Slot(q)
        <4> SUFFICES ASSUME Slot(k) = Slot(q) PROVE FALSE
          OBVIOUS
        <4>1. q + Capacity = k + 1 /\ q + Capacity \in Nat
          BY <1>2, <1>3, <2>1, CapacityAssumption
        <4>2. Slot(q + Capacity) = Slot(k)
          BY <1>2, LapSlot
        <4>3. QED
          BY <3>1, <4>1, <4>2, NextSlot
      <3>3. QED
        BY <1>3, <2>1, <3>1, <3>2 DEF IndInv, Contents
    <2>2. QED
      BY <1>1, <1>4, <2>1 DEF IndInv, Contents, Release, Slot
  <1>8. ClaimsInOrder'
    <2>1. \A i \in 1 .. enqueue_pos : claims[i][1] \in Producer
      BY DEF IndInv, Types, Contents, Item
    <2>2. \A u \in Producer : Owner(u)' <=> Owner(u)
      BY <1>4, ThreadAssumption
    <2>3. QED
      BY <1>1, <2>1, <2>2 DEF IndInv, ClaimsInOrder, Release
  <1>9. QED
    BY <1>4, <1>5, <1>6, <1>7, <1>8 DEF IndInv

-----------------------------------------------------------------------------
(* The invariant holds.                                                    *)

LEMMA InitInv == Init => IndInv
  <1> SUFFICES ASSUME Init PROVE IndInv
    OBVIOUS
  <1> USE DEF Init, Thread
  <1>1. \A t \in Thread : pc[t] = "idle" /\ ~Owner(t) /\ pos[t] = 0
    BY DEF Owner
  <1>2. Types
    <2>1. << >> \in Seq(Item)
      BY EmptySeq
    <2>2. sequence \in [Slots -> Nat]
      BY DEF Slots
    <2>3. QED
      BY <2>1, <2>2, PushesAssumption DEF Types
  <1>3. Cells
    <2>1. ASSUME NEW s \in Slots PROVE AwaitsPush(s)
      <3>1. s \in Nat /\ s < Capacity /\ Slot(s) = s
        BY FirstLap
      <3>2. QED
        BY <3>1, CapacityAssumption DEF AwaitsPush
    <2>2. QED
      BY <2>1, CapacityAssumption DEF Cells
  <1>4. Owners /\ Seen
    BY <1>1 DEF Owners, Seen
  <1>5. Contents /\ ClaimsInOrder
    BY <1>1 DEF Contents, ClaimsInOrder
  <1>6. Deliveries
    BY DEF Deliveries, GotClaimed, GotInOrder, GotOnce, UnreadFresh, UnreadLast
  <1>7. QED
    BY <1>2, <1>3, <1>4, <1>5, <1>6 DEF IndInv

LEMMA PushKeeps ==
  ASSUME IndInv, NEW t \in Producer, Push(t)
  PROVE  IndInv'
  <1>1. t \in Thread /\ pos[t] \in Nat /\ enqueue_pos \in Nat /\ t \notin Consumer
    BY ThreadAssumption DEF IndInv, Types, Thread
  <1>2. pc[t] # "idle" => sent[t] < Pushes
    BY DEF IndInv, Seen
  <1>3. CASE PushLoad(t) \/ PushClaimFails(t)
    <2>1. ~Owner(t) /\ sent[t] < Pushes /\ LoadPos(t, enqueue_pos)
      BY <1>2, <1>3 DEF PushLoad, PushClaimFails, Owner
    <2>2. UNCHANGED <<enqueue_pos, dequeue_pos, cells, sent, got, history>>
      BY <1>3 DEF PushLoad, PushClaimFails
    <2>3. QED
      BY <1>1, <2>1, <2>2, LoadKeeps
  <1>4. CASE PushSeq(t)
    <2>1. /\ pc[t] = "seq"
          /\ \E v \in Observable(Slot(pos[t])) : Goto(t, Branch(v - pos[t]))
          /\ UNCHANGED <<enqueue_pos, dequeue_pos, cells, pos, sent, got, history>>
      BY <1>4 DEF PushSeq
    <2>2. QED
      BY <1>1, <2>1, SeqKeeps
  <1>5. QED
    BY <1>3, <1>4, PushClaimKeeps, PushWriteKeeps, PushPublishKeeps DEF Push

LEMMA PopKeeps ==
  ASSUME IndInv, NEW t \in Consumer, Pop(t)
  PROVE  IndInv'
  <1>1. /\ t \in Thread /\ pos[t] \in Nat /\ pos[t] + 1 \in Nat /\ dequeue_pos \in Nat
        /\ t \notin Producer
    BY ThreadAssumption DEF IndInv, Types, Thread
  <1>2. CASE PopLoad(t) \/ PopClaimFails(t)
    <2>1. ~Owner(t) /\ LoadPos(t, dequeue_pos)
      BY <1>2 DEF PopLoad, PopClaimFails, Owner
    <2>2. UNCHANGED <<enqueue_pos, dequeue_pos, cells, sent, got, history>>
      BY <1>2 DEF PopLoad, PopClaimFails
    <2>3. QED
      BY <1>1, <2>1, <2>2, LoadKeeps
  <1>3. CASE PopSeq(t)
    <2>1. /\ pc[t] = "seq"
          /\ \E v \in Observable(Slot(pos[t])) : Goto(t, Branch(v - (pos[t] + 1)))
          /\ UNCHANGED <<enqueue_pos, dequeue_pos, cells, pos, sent, got, history>>
      BY <1>3 DEF PopSeq
    <2>2. QED
      BY <1>1, <2>1, SeqKeeps
  <1>4. QED
    BY <1>2, <1>3, PopClaimKeeps, PopReadKeeps, PopPublishKeeps DEF Pop

LEMMA NextInv == IndInv /\ [Next]_vars => IndInv'
  <1> SUFFICES ASSUME IndInv, [Next]_vars PROVE IndInv'
    OBVIOUS
  <1>1. CASE UNCHANGED vars
    <2>1. NoClaim
      BY <1>1 DEF vars, cells, history, NoClaim, Owner
    <2>2. Types'
      BY <1>1 DEF IndInv, vars, cells, history, Types
    <2>3. Seen'
      BY <1>1 DEF IndInv, vars, cells, history, Seen, Slot
    <2>4. QED
      BY <2>1, <2>2, <2>3, NoClaimKeeps DEF IndInv
  <1>2. QED
    BY <1>1, PushKeeps, PopKeeps DEF Next, Done

LEMMA Invariance == Spec => []IndInv
  BY InitInv, NextInv, PTL DEF Spec

-----------------------------------------------------------------------------
(* What it gives.                                                          *)

(* There are no more claims than items. *)
LEMMA ClaimsBounded ==
  ASSUME IndInv
  PROVE  Total \in Nat /\ enqueue_pos <= Total
  <1>1. IsFiniteSet(1 .. Pushes) /\ Cardinality(1 .. Pushes) = Pushes
    BY PushesAssumption, FS_Interval
  <1>2. IsFiniteSet(Item) /\ Cardinality(Item) = Total
    BY <1>1, ThreadAssumption, FS_Product, ZenonT(30) DEF Item, Total
  <1>3. Total \in Nat
    BY <1>2, FS_CardinalityType
  <1>4. enqueue_pos \in Nat /\ claims \in [1 .. enqueue_pos -> Item]
    BY DEF IndInv, Types, Contents
  <1>5. IsFiniteSet(1 .. enqueue_pos) /\ Cardinality(1 .. enqueue_pos) = enqueue_pos
    BY <1>4, FS_Interval
  <1>6. ~(Total < enqueue_pos)
    <2> SUFFICES ASSUME Total < enqueue_pos PROVE FALSE
      OBVIOUS
    <2>1. \E i, j \in 1 .. enqueue_pos : i # j /\ claims[i] = claims[j]
      BY <1>2, <1>4, <1>5, FS_PigeonHole
    <2>2. QED
      BY <2>1, ClaimsDistinct
  <1>7. QED
    BY <1>3, <1>4, <1>6

(* The variables of MPMCQueue keep their types: positions count the items, *)
(* and a sequence number is never more than a lap ahead.                   *)
THEOREM TypeCorrect == Spec => []TypeOK
  <1>1. IndInv => TypeOK
    <2> SUFFICES ASSUME IndInv PROVE TypeOK
      OBVIOUS
    <2>1. Total \in Nat /\ enqueue_pos <= Total
      BY ClaimsBounded
    <2>2. enqueue_pos \in Nat /\ dequeue_pos \in Nat /\ dequeue_pos <= enqueue_pos
      BY DEF IndInv, Types, Cells
    <2>3. sequence \in [Slots -> 0 .. Total + Capacity]
      <3>1. ASSUME NEW s \in Slots PROVE sequence[s] \in 0 .. Total + Capacity
        <4>1. sequence[s] \in Nat
          BY DEF IndInv, Types
        <4>2. sequence[s] < dequeue_pos + Capacity \/ sequence[s] <= enqueue_pos
          BY DEF IndInv, Cells, AwaitsPush, AwaitsPop
        <4>3. QED
          BY <2>1, <2>2, <4>1, <4>2, CapacityAssumption
      <3>2. QED
        BY <3>1 DEF IndInv, Types
    <2>4. pos \in [Thread -> 0 .. Total]
      <3>1. ASSUME NEW t \in Thread PROVE pos[t] \in 0 .. Total
        <4>1. pos[t] \in Nat /\ (pos[t] <= enqueue_pos \/ pos[t] <= dequeue_pos)
          BY DEF IndInv, Types, Seen, Thread
        <4>2. QED
          BY <2>1, <2>2, <4>1
      <3>2. QED
        BY <3>1 DEF IndInv, Types
    <2>5. enqueue_pos \in 0 .. Total /\ dequeue_pos \in 0 .. enqueue_pos
      BY <2>1, <2>2
    <2>6. QED
      BY <2>3, <2>4, <2>5 DEF TypeOK, IndInv, Types
  <1>2. QED
    BY <1>1, Invariance, PTL

(* Two threads never access the data of one cell at the same time, however *)
(* stale the positions and sequence numbers are that they have read.       *)
THEOREM RaceFree == Spec => []NoCellRace
  <1>1. IndInv => NoCellRace
    BY SlotIsOwned DEF NoCellRace, Owner
  <1>2. QED
    BY <1>1, Invariance, PTL

(* Two positions of one window that share a slot are the same. *)
LEMMA OneLap ==
  ASSUME NEW d \in Nat, NEW a \in Nat, NEW b \in Nat, Slot(a) = Slot(b),
         d <= a, a < d + Capacity, d <= b, b < d + Capacity
  PROVE  a = b
  <1>1. ~(a < b)
    BY SameSlot, CapacityAssumption
  <1>2. ~(b < a)
    BY SameSlot, CapacityAssumption
  <1>3. QED
    BY <1>1, <1>2

(* With no call in progress every stored item can be popped and every free *)
(* cell claimed: push and pop then fail only on a full or an empty queue.  *)
THEOREM RestIsReady == Spec => []QuiescentReady
  <1>1. IndInv => QuiescentReady
    <2> SUFFICES ASSUME IndInv, \A t \in Thread : pc[t] = "idle",
                        NEW k \in dequeue_pos .. dequeue_pos + Capacity - 1
                 PROVE  sequence[Slot(k)] = IF k < enqueue_pos THEN k + 1 ELSE k
      BY DEF QuiescentReady
    <2>1. /\ dequeue_pos \in Nat /\ enqueue_pos \in Nat
          /\ dequeue_pos <= enqueue_pos /\ enqueue_pos <= dequeue_pos + Capacity
      BY DEF IndInv, Types, Cells
    <2>2. k \in Nat /\ dequeue_pos <= k /\ k < dequeue_pos + Capacity
      BY <2>1, CapacityAssumption
    <2>3. Slot(k) \in Slots /\ sequence[Slot(k)] \in Nat
      BY <2>2, SlotType DEF IndInv, Types
    <2>4. \A t \in Thread : ~Owner(t)
      BY DEF Owner
    <2> DEFINE j == sequence[Slot(k)]
    <2>5. CASE AwaitsPush(Slot(k))
      <3>1. Slot(j) = Slot(k) /\ j < dequeue_pos + Capacity /\ j >= enqueue_pos
        BY <2>4, <2>5 DEF AwaitsPush, Thread
      <3>2. j = k
        BY <2>1, <2>2, <2>3, <3>1, OneLap, CapacityAssumption
      <3>3. QED
        BY <2>1, <2>2, <3>1, <3>2
    <2>6. CASE AwaitsPop(Slot(k))
      <3>1. /\ j >= 1 /\ Slot(j - 1) = Slot(k) /\ j <= enqueue_pos /\ j > dequeue_pos
            /\ j - 1 \in Nat
        BY <2>3, <2>4, <2>6 DEF AwaitsPop, Thread
      <3>2. j - 1 = k
        BY <2>1, <2>2, <2>3, <3>1, OneLap, CapacityAssumption
      <3>3. QED
        BY <2>1, <2>2, <2>3, <3>1, <3>2
    <2>7. QED
      BY <2>3, <2>5, <2>6 DEF IndInv, Cells
  <1>2. QED
    BY <1>1, Invariance, PTL

(* Every item is delivered at most once, and a consumer gets the items of  *)
(* one producer in the order of their pushes.                              *)
THEOREM Delivery == Spec => []DeliveredInOrder
  <1>1. IndInv => DeliveredInOrder
    <2> SUFFICES ASSUME IndInv, NEW t \in Consumer, NEW u \in Consumer,
                        NEW i \in DOMAIN got[t], NEW j \in DOMAIN got[u],
                        got[t][i][1] = got[u][j][1]
                 PROVE  /\ got[t][i] = got[u][j] => t = u /\ i = j
                        /\ t = u /\ i < j => got[t][i][2] < got[u][j][2]
      BY DEF DeliveredInOrder
    <2>1. got[t] \in Seq(Item) /\ got[u] \in Seq(Item)
      BY DEF IndInv, Types
    <2>2. i \in 1 .. Len(got[t]) /\ j \in 1 .. Len(got[u]) /\ i \in Nat /\ j \in Nat
      BY <2>1
    <2>3. Deliveries
      BY DEF IndInv
    <2>4. PICK k \in 1 .. dequeue_pos : got[t][i] = claims[k]
      BY <2>2, <2>3 DEF Deliveries, GotClaimed
    <2>5. PICK l \in 1 .. dequeue_pos : got[u][j] = claims[l]
      BY <2>2, <2>3 DEF Deliveries, GotClaimed
    <2>6. k \in 1 .. enqueue_pos /\ l \in 1 .. enqueue_pos /\ k \in Nat /\ l \in Nat
      BY DEF IndInv, Types, Cells
    <2>7. ASSUME got[t][i] = got[u][j] PROVE t = u /\ i = j
      <3>1. t = u
        BY <2>2, <2>3, <2>7 DEF Deliveries, GotOnce
      <3>2. j \in 1 .. Len(got[t]) /\ got[t][j] = claims[k] /\ ~(k < k)
        BY <2>2, <2>4, <2>6, <2>7, <3>1
      <3>3. ~(i < j)
        BY <2>2, <2>3, <2>4, <3>2 DEF Deliveries, GotInOrder
      <3>4. ~(j < i)
        BY <2>2, <2>3, <2>4, <3>2 DEF Deliveries, GotInOrder
      <3>5. QED
        BY <2>2, <3>1, <3>3, <3>4
    <2>8. ASSUME t = u, i < j PROVE got[t][i][2] < got[u][j][2]
      <3>1. k < l
        BY <2>2, <2>3, <2>4, <2>5, <2>8 DEF Deliveries, GotInOrder
      <3>2. claims[k][1] = claims[l][1]
        BY <2>4, <2>5
      <3>3. QED
        BY <2>4, <2>5, <2>6, <3>1, <3>2 DEF IndInv, ClaimsInOrder
    <2>9. QED
      BY <2>7, <2>8
  <1>2. QED
    BY <1>1, Invariance, PTL

-----------------------------------------------------------------------------
(* The refinement.                                                         *)

Items == SubSeq(claims, dequeue_pos + 1, enqueue_pos)

(* The window of a sequence between two positions. *)
LEMMA Window ==
  ASSUME NEW c \in Seq(Item), NEW d \in Nat, NEW e \in Nat, d <= e, Len(c) = e
  PROVE  /\ SubSeq(c, d + 1, e) \in Seq(Item)
         /\ Len(SubSeq(c, d + 1, e)) = e - d
         /\ \A i \in 1 .. e - d : SubSeq(c, d + 1, e)[i] = c[d + i]
  <1>1. /\ d + 1 \in Int /\ e \in Int /\ e - (d + 1) + 1 = e - d
        /\ \A i \in Int : (d + 1) + i - 1 = d + i
        /\ \A i \in d + 1 .. e : c[i] \in Item
    OBVIOUS
  <1> DEFINE w == SubSeq(c, d + 1, e)
  <1>2. /\ w \in Seq(Item)
        /\ Len(w) = IF d + 1 <= e THEN e - (d + 1) + 1 ELSE 0
        /\ \A i \in 1 .. e - (d + 1) + 1 : w[i] = c[(d + 1) + i - 1]
    BY <1>1, SubSeqProperties
  <1> HIDE DEF w
  <1>3. Len(w) = e - d
    BY <1>2
  <1>4. ASSUME NEW i \in 1 .. e - d PROVE w[i] = c[d + i]
    <2>1. i \in 1 .. e - (d + 1) + 1 /\ (d + 1) + i - 1 = d + i
      BY <1>1
    <2>2. w[i] = c[(d + 1) + i - 1]
      BY <1>2, <2>1
    <2>3. QED
      BY <2>1, <2>2
  <1>5. QED
    BY <1>2, <1>3, <1>4 DEF w

(* The step of the compare-exchange of a push is the push of the FIFO. *)
LEMMA PushClaimIsPush ==
  ASSUME IndInv, NEW t \in Producer, PushClaim(t)
  PROVE  \E v \in Item : Len(Items) < Capacity /\ Items' = Append(Items, v) /\ out' = out
  <1> DEFINE E == enqueue_pos
             D == dequeue_pos
             x == ItemOf(t)
  <1>1. /\ enqueue_pos' = E + 1 /\ dequeue_pos' = D /\ out' = out
        /\ claims' = Append(claims, x) /\ pc[t] = "cas" /\ E = pos[t]
    BY DEF PushClaim
  <1>2. E \in Nat /\ D \in Nat /\ D <= E /\ E < D + Capacity
    BY <1>1, PushFindsRoom DEF IndInv, Types, Cells
  <1>3. x \in Item
    BY <1>1, ClaimItem
  <1>4. /\ x = claims'[E + 1] /\ claims' \in Seq(Item) /\ Len(claims') = E + 1
        /\ \A k \in 1 .. E : claims'[k] = claims[k]
    BY <1>1, <1>3, ClaimAppended
  <1>5. /\ Items \in Seq(Item) /\ Len(Items) = E - D
        /\ \A i \in 1 .. E - D : Items[i] = claims[D + i]
    <2>1. claims \in Seq(Item) /\ Len(claims) = E
      BY DEF IndInv, Types, Contents
    <2>2. QED
      BY <1>2, <2>1, Window DEF Items
  <1>6. /\ Items' \in Seq(Item) /\ Len(Items') = E + 1 - D
        /\ \A i \in 1 .. E + 1 - D : Items'[i] = claims'[D + i]
    <2>1. Items' = SubSeq(claims', D + 1, E + 1) /\ E + 1 \in Nat /\ D <= E + 1
      BY <1>1, <1>2 DEF Items
    <2>2. QED
      BY <1>2, <1>4, <2>1, Window
  <1> HIDE DEF E, D, x
  <1>7. /\ Append(Items, x) \in Seq(Item) /\ Len(Append(Items, x)) = E - D + 1
        /\ \A i \in 1 .. E - D : Append(Items, x)[i] = Items[i]
        /\ Append(Items, x)[E - D + 1] = x
    BY <1>3, <1>5, AppendProperties
  <1>8. ASSUME NEW i \in 1 .. E + 1 - D PROVE Items'[i] = Append(Items, x)[i]
    <2>1. CASE i = E - D + 1
      <3>1. D + i = E + 1
        BY <1>2, <2>1
      <3>2. QED
        BY <1>4, <1>6, <1>7, <2>1, <3>1
    <2>2. CASE i # E - D + 1
      <3>1. i \in 1 .. E - D /\ D + i \in 1 .. E
        BY <1>2, <2>2
      <3>2. QED
        BY <1>4, <1>5, <1>6, <1>7, <3>1
    <2>3. QED
      BY <2>1, <2>2
  <1>9. Items' = Append(Items, x)
    <2>1. E + 1 - D = E - D + 1
      BY <1>2
    <2>2. QED
      BY <1>6, <1>7, <1>8, <2>1, SeqEqual
  <1>10. Len(Items) < Capacity
    BY <1>2, <1>5, CapacityAssumption
  <1>11. QED
    BY <1>1, <1>3, <1>9, <1>10

(* The step of the compare-exchange of a pop is the pop of the FIFO: the   *)
(* item that the thread will read is the oldest one.                       *)
LEMMA PopClaimIsPop ==
  ASSUME IndInv, NEW t \in Consumer, PopClaim(t)
  PROVE  Items # << >> /\ out' = Head(Items) /\ Items' = Tail(Items)
  <1> DEFINE E == enqueue_pos
             D == dequeue_pos
  <1>1. /\ dequeue_pos' = D + 1 /\ enqueue_pos' = E /\ claims' = claims
        /\ out' = data[Slot(D)] /\ pc[t] = "cas" /\ D = pos[t]
    BY DEF PopClaim
  <1>2. E \in Nat /\ D \in Nat /\ D < E /\ sequence[Slot(D)] = D + 1
    BY <1>1, PopFindsItem DEF IndInv, Types
  <1>3. /\ Items \in Seq(Item) /\ Len(Items) = E - D
        /\ \A i \in 1 .. E - D : Items[i] = claims[D + i]
    <2>1. claims \in Seq(Item) /\ Len(claims) = E
      BY DEF IndInv, Types, Contents
    <2>2. QED
      BY <1>2, <2>1, Window DEF Items
  <1>4. /\ Items' \in Seq(Item) /\ Len(Items') = E - (D + 1)
        /\ \A i \in 1 .. E - (D + 1) : Items'[i] = claims[D + 1 + i]
    <2>1. Items' = SubSeq(claims, (D + 1) + 1, E) /\ D + 1 \in Nat /\ D + 1 <= E
      BY <1>1, <1>2 DEF Items
    <2>2. claims \in Seq(Item) /\ Len(claims) = E
      BY DEF IndInv, Types, Contents
    <2>3. QED
      BY <1>2, <2>1, <2>2, Window
  <1>5. out' = claims[D + 1]
    <2>1. D \in 0 .. enqueue_pos - 1
      BY <1>2
    <2>2. QED
      BY <1>1, <1>2, <2>1 DEF IndInv, Contents
  <1> HIDE DEF E, D
  <1>6. Items # << >>
    BY <1>2, <1>3
  <1>7. Head(Items) = claims[D + 1]
    BY <1>2, <1>3, <1>6
  <1>8. /\ Tail(Items) \in Seq(Item) /\ Len(Tail(Items)) = E - D - 1
        /\ \A i \in 1 .. E - D - 1 : Tail(Items)[i] = Items[i + 1]
    BY <1>3, <1>6, HeadTailProperties
  <1>9. Items' = Tail(Items)
    <2>1. E - (D + 1) = E - D - 1
      BY <1>2
    <2>2. ASSUME NEW i \in 1 .. E - D - 1 PROVE Items'[i] = Tail(Items)[i]
      <3>1. i + 1 \in 1 .. E - D /\ D + (i + 1) = D + 1 + i
        BY <1>2
      <3>2. QED
        BY <1>3, <1>4, <1>8, <2>1, <3>1
    <2>3. QED
      BY <1>4, <1>8, <2>1, <2>2, SeqEqual
  <1>10. QED
    BY <1>5, <1>6, <1>7, <1>9

(* The queue implements the bounded FIFO for any number of producers and   *)
(* consumers: a claim is the moment a push or a pop takes effect.          *)
THEOREM Refinement == Spec => ImplementsFifo
  <1>1. Init => Fifo!Init
    <2> SUFFICES ASSUME Init PROVE Items = << >>
      BY DEF Fifo!Init, Items
    <2>1. dequeue_pos + 1 \in Int /\ enqueue_pos \in Int /\ enqueue_pos < dequeue_pos + 1
      BY DEF Init
    <2>2. QED
      BY <2>1, SubSeqEmpty DEF Items
  <1>2. IndInv /\ [Next]_vars => [Fifo!Next]_(Fifo!vars)
    <2> SUFFICES ASSUME IndInv, [Next]_vars
                 PROVE  Fifo!Next \/ UNCHANGED <<Items, out>>
      BY DEF Fifo!vars, Items
    <2>1. ASSUME NEW t \in Producer, Push(t)
          PROVE  Fifo!Next \/ UNCHANGED <<Items, out>>
      <3>1. CASE PushClaim(t)
        BY <3>1, PushClaimIsPush DEF Fifo!Next, Fifo!Push, Items
      <3>2. CASE ~PushClaim(t)
        BY <2>1, <3>2 DEF Push, PushLoad, PushSeq, PushClaimFails, PushWrite, PushPublish,
                          history, Items
      <3>3. QED
        BY <3>1, <3>2
    <2>2. ASSUME NEW t \in Consumer, Pop(t)
          PROVE  Fifo!Next \/ UNCHANGED <<Items, out>>
      <3>1. CASE PopClaim(t)
        BY <3>1, PopClaimIsPop DEF Fifo!Next, Fifo!Pop, Items
      <3>2. CASE ~PopClaim(t)
        BY <2>2, <3>2 DEF Pop, PopLoad, PopSeq, PopClaimFails, PopRead, PopPublish,
                          history, Items
      <3>3. QED
        BY <3>1, <3>2
    <2>3. CASE UNCHANGED vars
      BY <2>3 DEF vars, history, Items
    <2>4. QED
      BY <2>1, <2>2, <2>3 DEF Next, Done
  <1>3. QED
    BY <1>1, <1>2, Invariance, PTL DEF Spec, ImplementsFifo, Fifo!Spec
=============================================================================
