--------------------------- MODULE SpscQueueProofs ---------------------------
(***************************************************************************)
(* Proofs about SpscQueue for every capacity, index width and item set:    *)
(* type correctness, race freedom of the slots, object lifetimes, and the  *)
(* implementation of the bounded FIFO.                                     *)
(***************************************************************************)
EXTENDS SpscQueue, SequenceTheorems, TLAPS

-----------------------------------------------------------------------------
(* Arithmetic of the indices.                                              *)

(* Unsigned subtraction of two indices, without the modulus. *)
LEMMA DistValue ==
  ASSUME NEW a \in Pos, NEW b \in Pos
  PROVE  /\ Dist(a, b) = IF a >= b THEN a - b ELSE a - b + Width
         /\ Dist(a, b) \in Pos
         /\ Dist(a, b) \in Nat
  BY CapacityAssumption, WidthAssumption DEF Dist, Pos

(* The successor of an index, without the modulus. *)
LEMMA IncValue ==
  ASSUME NEW a \in Pos
  PROVE  /\ Inc(a) = IF a = Width - 1 THEN 0 ELSE a + 1
         /\ Inc(a) \in Pos
  BY CapacityAssumption, WidthAssumption DEF Inc, Pos

(* Only equal indices are at distance 0. *)
LEMMA DistZero ==
  ASSUME NEW a \in Pos, NEW b \in Pos
  PROVE  Dist(a, b) = 0 <=> a = b
  <1>1. Dist(a, b) = IF a >= b THEN a - b ELSE a - b + Width
    BY DistValue
  <1>2. QED
    BY <1>1, WidthAssumption DEF Pos

(* Advancing the upper index adds one to the distance, short of a full     *)
(* turn.                                                                   *)
LEMMA DistIncUpper ==
  ASSUME NEW a \in Pos, NEW b \in Pos, Dist(a, b) < Width - 1
  PROVE  Dist(Inc(a), b) = Dist(a, b) + 1
  <1>1. Dist(a, b) = IF a >= b THEN a - b ELSE a - b + Width
    BY DistValue
  <1>2. Inc(a) \in Pos /\ Inc(a) = IF a = Width - 1 THEN 0 ELSE a + 1
    BY IncValue
  <1>3. Dist(Inc(a), b) = IF Inc(a) >= b THEN Inc(a) - b ELSE Inc(a) - b + Width
    BY <1>2, DistValue
  <1>4. QED
    BY <1>1, <1>2, <1>3, WidthAssumption DEF Pos

(* Advancing the lower index takes one off the distance. *)
LEMMA DistIncLower ==
  ASSUME NEW a \in Pos, NEW b \in Pos, a # b
  PROVE  Dist(a, Inc(b)) = Dist(a, b) - 1
  <1>1. Dist(a, b) = IF a >= b THEN a - b ELSE a - b + Width
    BY DistValue
  <1>2. Inc(b) \in Pos /\ Inc(b) = IF b = Width - 1 THEN 0 ELSE b + 1
    BY IncValue
  <1>3. Dist(a, Inc(b)) = IF a >= Inc(b) THEN a - Inc(b) ELSE a - Inc(b) + Width
    BY <1>2, DistValue
  <1>4. QED
    BY <1>1, <1>2, <1>3, WidthAssumption DEF Pos

(* An index b on the way from c to a splits the distance. *)
LEMMA DistSplit ==
  ASSUME NEW a \in Pos, NEW b \in Pos, NEW c \in Pos
  PROVE  /\ Dist(b, c) <= Dist(a, c) <=> Dist(a, b) <= Dist(a, c)
         /\ Dist(b, c) <= Dist(a, c) => Dist(a, b) = Dist(a, c) - Dist(b, c)
  <1>1. Dist(a, b) = IF a >= b THEN a - b ELSE a - b + Width
    BY DistValue
  <1>2. Dist(b, c) = IF b >= c THEN b - c ELSE b - c + Width
    BY DistValue
  <1>3. Dist(a, c) = IF a >= c THEN a - c ELSE a - c + Width
    BY DistValue
  <1>4. QED
    BY <1>1, <1>2, <1>3, WidthAssumption DEF Pos

(* The index i steps after a. *)
LEMMA AdvanceValue ==
  ASSUME NEW a \in Pos, NEW i \in Pos
  PROVE  /\ (a + i) % Width \in Pos
         /\ Dist((a + i) % Width, a) = i
  <1> DEFINE p == (a + i) % Width
  <1>1. p \in Pos /\ p = IF a + i < Width THEN a + i ELSE a + i - Width
    BY CapacityAssumption, WidthAssumption DEF Pos
  <1> HIDE DEF p
  <1>2. Dist(p, a) = IF p >= a THEN p - a ELSE p - a + Width
    BY <1>1, DistValue
  <1>3. p \in Pos /\ Dist(p, a) = i
    BY <1>1, <1>2, WidthAssumption DEF Pos
  <1>4. QED
    BY <1>3 DEF p

(* Quotient and remainder by the capacity. *)
LEMMA Division ==
  ASSUME NEW a \in Nat
  PROVE  \E q \in Nat, r \in Slots : a = Capacity * q + r /\ a % Capacity = r
  <1>1. a % Capacity \in Slots
    BY CapacityAssumption DEF Slots
  <1>2. a \div Capacity \in Nat
    BY CapacityAssumption
  <1>3. a = Capacity * (a \div Capacity) + (a % Capacity)
    BY CapacityAssumption
  <1>4. QED
    BY <1>1, <1>2, <1>3

(* No multiple of the capacity lies strictly between 0 and it. *)
LEMMA NoMultipleBelow ==
  ASSUME NEW k \in Int, Capacity * k > 0, Capacity * k < Capacity
  PROVE  FALSE
  BY CapacityAssumption

(* A slot number is a slot. *)
LEMMA SlotType ==
  ASSUME NEW p \in Pos
  PROVE  Slot(p) \in Slots
  BY CapacityAssumption DEF Slot, Slots, Pos

(* Two indices less than a capacity apart use different slots, also when   *)
(* the index wraps between them: Capacity divides Width.                   *)
LEMMA SlotsDiffer ==
  ASSUME NEW p \in Pos, NEW q \in Pos, Dist(p, q) \in 1 .. Capacity - 1
  PROVE  Slot(p) # Slot(q)
  <1> SUFFICES ASSUME Slot(p) = Slot(q) PROVE FALSE
    OBVIOUS
  <1>1. PICK k \in Nat : Width = Capacity * k
    BY Division, WidthAssumption, CapacityAssumption DEF Slots
  <1>2. PICK kp \in Nat, rp \in Slots : p = Capacity * kp + rp /\ Slot(p) = rp
    BY Division DEF Pos, Slot
  <1>3. PICK kq \in Nat, rq \in Slots : q = Capacity * kq + rq /\ Slot(q) = rq
    BY Division DEF Pos, Slot
  <1>4. p - q = Capacity * (kp - kq)
    BY <1>2, <1>3, CapacityAssumption DEF Slots
  <1>5. p - q + Width = Capacity * (kp - kq + k)
    BY <1>1, <1>4, CapacityAssumption DEF Pos
  <1>6. Dist(p, q) = Capacity * (kp - kq) \/ Dist(p, q) = Capacity * (kp - kq + k)
    BY <1>4, <1>5, DistValue
  <1>7. PICK n \in Int : Dist(p, q) = Capacity * n
    BY <1>6
  <1>8. QED
    BY <1>7, NoMultipleBelow, CapacityAssumption

-----------------------------------------------------------------------------
(* The inductive invariant.  Around the circle of indices the order is     *)
(* cached_head, head, cached_tail, tail, and tail is at most a capacity    *)
(* after cached_head: a stale copy errs on the safe side.                  *)
IndexOrder ==
  /\ Dist(tail, cached_head) <= Capacity
  /\ Dist(tail, head) <= Dist(tail, cached_head)
  /\ Dist(tail, cached_tail) <= Dist(tail, head)

(* A thread past its check knows that its slot is its own. *)
ChecksHold ==
  /\ ppc # "idle" => Dist(tail, cached_head) < Capacity /\ arg \in Item
  /\ cpc # "idle" => cached_tail # head

(* The indices whose slot holds a constructed object. *)
Held ==
  {p \in Pos : \/ /\ Dist(p, head) < Dist(tail, head)
                  /\ ~(p = head /\ cpc = "publish")
               \/ p = tail /\ ppc = "publish"}

Contents ==
  /\ \A s \in Slots : storage[s] # Raw <=> \E p \in Held : Slot(p) = s
  /\ ppc = "publish" => storage[Slot(tail)] = arg

Shutdown ==
  /\ life # "alive" => ppc = "idle"
  /\ life = "dead" => cpc = "idle" /\ head = tail

IndInv == TypeOK /\ IndexOrder /\ ChecksHold /\ Contents /\ Shutdown

(* Facts on the indices that every step below uses. *)
LEMMA Window ==
  ASSUME TypeOK, IndexOrder, ChecksHold
  PROVE  /\ Dist(tail, head) \in 0 .. Capacity
         /\ ppc # "idle" => Dist(tail, head) < Capacity
         /\ cpc # "idle" => Dist(tail, head) > 0
  <1>1. tail \in Pos /\ head \in Pos /\ cached_head \in Pos /\ cached_tail \in Pos
    BY DEF TypeOK
  <1>2. /\ Dist(tail, head) \in Nat
        /\ Dist(tail, cached_head) \in Nat
        /\ Dist(tail, cached_tail) \in Nat
    BY <1>1, DistValue
  <1>3. /\ Dist(tail, head) = 0 <=> tail = head
        /\ Dist(tail, cached_tail) = 0 <=> tail = cached_tail
    BY <1>1, DistZero
  <1>4. QED
    BY <1>2, <1>3, CapacityAssumption DEF IndexOrder, ChecksHold

(* The slot of tail is not the slot of any held index before it. *)
LEMMA TailSlotFree ==
  ASSUME TypeOK, IndexOrder, ChecksHold, ppc # "idle",
         NEW p \in Pos, Dist(p, head) < Dist(tail, head)
  PROVE  Slot(p) # Slot(tail)
  <1>1. tail \in Pos /\ head \in Pos
    BY DEF TypeOK
  <1>2. Dist(p, head) \in Nat /\ Dist(tail, head) \in Nat
    BY <1>1, DistValue
  <1>3. Dist(tail, p) = Dist(tail, head) - Dist(p, head)
    BY <1>1, <1>2, DistSplit
  <1>4. Dist(tail, p) \in 1 .. Capacity - 1
    BY <1>2, <1>3, Window, CapacityAssumption
  <1>5. QED
    BY <1>1, <1>4, SlotsDiffer

(* The slot of head is not the slot of any other index up to tail, nor of  *)
(* tail itself while a construction is under way.                          *)
LEMMA HeadSlotFree ==
  ASSUME TypeOK, IndexOrder, ChecksHold, cpc # "idle", NEW p \in Pos, p # head,
         Dist(p, head) < Dist(tail, head) \/ (p = tail /\ ppc # "idle")
  PROVE  Slot(p) # Slot(head)
  <1>1. tail \in Pos /\ head \in Pos
    BY DEF TypeOK
  <1>2. Dist(p, head) \in Nat /\ Dist(p, head) # 0 /\ Dist(tail, head) \in Nat
    BY <1>1, DistValue, DistZero
  <1>3. Dist(p, head) \in 1 .. Capacity - 1
    BY <1>2, Window, CapacityAssumption
  <1>4. QED
    BY <1>1, <1>3, SlotsDiffer

-----------------------------------------------------------------------------
(* The constructor establishes the invariant. *)
LEMMA InitInv == Init => IndInv
  <1> SUFFICES ASSUME Init PROVE IndInv
    OBVIOUS
  <1>1. TypeOK
    BY CapacityAssumption, WidthAssumption DEF Init, TypeOK, Pos, Slots
  <1>2. Dist(0, 0) = 0 /\ 0 \in Pos
    BY CapacityAssumption, WidthAssumption DEF Dist, Pos
  <1>3. IndexOrder /\ ChecksHold /\ Shutdown
    BY <1>2, CapacityAssumption DEF Init, IndexOrder, ChecksHold, Shutdown
  <1>4. Held = {}
    BY <1>2, DistValue DEF Held, Init, Pos
  <1>5. Contents
    BY <1>4, RawAssumption DEF Init, Contents
  <1>6. QED
    BY <1>1, <1>3, <1>5 DEF IndInv

(* Every step of the two threads and of the destructor preserves it. *)
LEMMA NextInv == IndInv /\ [Next]_vars => IndInv'
  <1> SUFFICES ASSUME IndInv, [Next]_vars PROVE IndInv'
    OBVIOUS
  <1> USE CapacityAssumption, WidthAssumption
  <1>0. TypeOK /\ IndexOrder /\ ChecksHold /\ Contents /\ Shutdown
    BY DEF IndInv
  <1>a. tail \in Pos /\ head \in Pos /\ cached_head \in Pos /\ cached_tail \in Pos
    BY <1>0 DEF TypeOK
  <1>b. /\ Dist(tail, head) \in Nat
        /\ Dist(tail, cached_head) \in Nat
        /\ Dist(tail, cached_tail) \in Nat
    BY <1>a, DistValue
  <1>c. /\ Dist(tail, head) \in 0 .. Capacity
        /\ ppc # "idle" => Dist(tail, head) < Capacity
        /\ cpc # "idle" => Dist(tail, head) > 0 /\ tail # head
    BY <1>0, <1>a, Window, DistZero
  <1>1. ASSUME NEW v \in Item, EmplaceCached(v) PROVE IndInv'
    <2>1. TypeOK'
      BY <1>0, <1>1 DEF TypeOK, EmplaceCached, cvars
    <2>2. IndexOrder' /\ ChecksHold'
      BY <1>0, <1>1, DistValue
         DEF TypeOK, EmplaceCached, cvars, IndexOrder, ChecksHold, IsFull, Pos
    <2>3. Contents' /\ Shutdown'
      BY <1>0, <1>1 DEF EmplaceCached, cvars, Contents, Held, Shutdown
    <2>4. QED
      BY <2>1, <2>2, <2>3 DEF IndInv
  <1>2. ASSUME NEW v \in Item, EmplaceReload(v) PROVE IndInv'
    <2>1. TypeOK'
      BY <1>0, <1>2 DEF TypeOK, EmplaceReload, cvars, Loadable
    <2>2. cached_head' \in Pos /\ Dist(cached_head', cached_head) <= Dist(head, cached_head)
      BY <1>2 DEF EmplaceReload, Loadable
    <2>3. /\ Dist(tail, head) <= Dist(tail, cached_head')
          /\ Dist(tail, cached_head') <= Dist(tail, cached_head)
      <3>1. /\ Dist(head, cached_head) \in Nat
            /\ Dist(cached_head', cached_head) \in Nat
            /\ Dist(tail, cached_head') \in Nat
        BY <1>a, <2>2, DistValue
      <3>2. Dist(tail, head) = Dist(tail, cached_head) - Dist(head, cached_head)
            /\ Dist(head, cached_head) <= Dist(tail, cached_head)
        BY <1>0, <1>a, DistSplit DEF IndexOrder
      <3>3. Dist(cached_head', cached_head) <= Dist(tail, cached_head)
        BY <1>b, <2>2, <3>1, <3>2
      <3>4. Dist(tail, cached_head') = Dist(tail, cached_head) - Dist(cached_head', cached_head)
        BY <1>a, <2>2, <3>3, DistSplit
      <3>5. QED
        BY <1>b, <2>2, <3>1, <3>2, <3>4
    <2>4. Dist(tail, cached_head') \in Nat
      BY <1>a, <2>2, DistValue
    <2>5. IndexOrder' /\ ChecksHold'
      BY <1>0, <1>2, <1>b, <2>3, <2>4
         DEF EmplaceReload, cvars, IndexOrder, ChecksHold, IsFull
    <2>6. Contents' /\ Shutdown'
      BY <1>0, <1>2 DEF EmplaceReload, cvars, Contents, Held, Shutdown
    <2>7. QED
      BY <2>1, <2>5, <2>6 DEF IndInv
  <1>3. CASE Construct
    <2>1. TypeOK' /\ IndexOrder' /\ ChecksHold' /\ Shutdown'
      BY <1>0, <1>3 DEF TypeOK, Construct, cvars, IndexOrder, ChecksHold, Shutdown
    <2>2. Held' = Held \cup {tail}
      BY <1>0, <1>3 DEF Held, Construct, cvars, TypeOK
    <2>3. arg \in Item /\ arg # Raw
      BY <1>0, <1>3, RawAssumption DEF ChecksHold, Construct
    <2>4. Slot(tail) \in Slots
      BY <1>0, SlotType DEF TypeOK
    <2>5. storage' = [storage EXCEPT ![Slot(tail)] = arg]
      BY <1>3 DEF Construct
    <2>6. Contents'
      BY <1>0, <1>3, <2>2, <2>3, <2>4, <2>5 DEF Contents, TypeOK, Construct
    <2>7. QED
      BY <2>1, <2>6 DEF IndInv
  <1>4. CASE PublishTail
    <2>1. TypeOK'
      BY <1>0, <1>4, IncValue DEF TypeOK, PublishTail, cvars
    <2>2. /\ tail' \in Pos
          /\ Dist(tail', cached_head) = Dist(tail, cached_head) + 1
          /\ Dist(tail', head) = Dist(tail, head) + 1
          /\ Dist(tail', cached_tail) = Dist(tail, cached_tail) + 1
      <3>1. tail' = Inc(tail) /\ tail' \in Pos
        BY <1>4, <1>a, IncValue DEF PublishTail
      <3>2. /\ Dist(tail, cached_head) < Width - 1
            /\ Dist(tail, head) < Width - 1
            /\ Dist(tail, cached_tail) < Width - 1
        BY <1>0, <1>4, <1>b DEF PublishTail, IndexOrder, ChecksHold
      <3>3. QED
        BY <1>a, <3>1, <3>2, DistIncUpper
    <2>3. IndexOrder' /\ ChecksHold' /\ Shutdown'
      BY <1>0, <1>4, <1>b, <2>2
         DEF PublishTail, cvars, IndexOrder, ChecksHold, Shutdown
    <2>4. ASSUME NEW p \in Pos
          PROVE  Dist(p, head) < Dist(tail, head) + 1
                   <=> Dist(p, head) < Dist(tail, head) \/ p = tail
      <3>1. Dist(p, head) \in Nat /\ Dist(tail, p) \in Nat
        BY <1>a, DistValue
      <3>2. Dist(p, head) <= Dist(tail, head) => Dist(tail, p) = Dist(tail, head) - Dist(p, head)
        BY <1>a, DistSplit
      <3>3. Dist(tail, p) = 0 <=> p = tail
        BY <1>a, DistZero
      <3>4. QED
        BY <1>b, <3>1, <3>2, <3>3
    <2>5. Held' = Held
      BY <1>4, <1>c, <2>2, <2>4 DEF Held, PublishTail, cvars
    <2>6. Contents'
      BY <1>0, <1>4, <2>5 DEF Contents, PublishTail
    <2>7. QED
      BY <2>1, <2>3, <2>6 DEF IndInv
  <1>5. CASE PopCached
    <2>1. TypeOK' /\ IndexOrder' /\ ChecksHold' /\ Shutdown'
      BY <1>0, <1>5 DEF TypeOK, PopCached, pvars, IndexOrder, ChecksHold, Shutdown
    <2>2. Contents'
      BY <1>0, <1>5 DEF Contents, Held, PopCached, pvars
    <2>3. QED
      BY <2>1, <2>2 DEF IndInv
  <1>6. CASE PopReload
    <2>1. cached_tail' \in Pos /\ Dist(tail, cached_tail') <= Dist(tail, head)
      <3>1. CASE life = "dtor"
        BY <1>0, <1>6, <3>1, DistValue DEF PopReload, TypeOK, Pos
      <3>2. CASE life # "dtor"
        <4>1. cached_tail' \in Pos /\ Dist(cached_tail', cached_tail) <= Dist(tail, cached_tail)
          BY <1>6, <3>2 DEF PopReload, Loadable
        <4>2. Dist(tail, cached_tail') \in Nat /\ Dist(cached_tail', cached_tail) \in Nat
          BY <1>a, <4>1, DistValue
        <4>3. Dist(tail, cached_tail') = Dist(tail, cached_tail) - Dist(cached_tail', cached_tail)
          BY <1>a, <4>1, DistSplit
        <4>4. QED
          BY <1>0, <1>b, <4>1, <4>2, <4>3 DEF IndexOrder
      <3>3. QED
        BY <3>1, <3>2
    <2>2. TypeOK'
      BY <1>0, <1>6, <2>1 DEF TypeOK, PopReload, pvars
    <2>3. IndexOrder' /\ ChecksHold'
      BY <1>0, <1>6, <2>1 DEF PopReload, pvars, IndexOrder, ChecksHold
    <2>4. Shutdown'
      BY <1>0, <1>6 DEF PopReload, pvars, Shutdown
    <2>5. Contents'
      BY <1>0, <1>6 DEF Contents, Held, PopReload, pvars, TypeOK
    <2>6. QED
      BY <2>2, <2>3, <2>4, <2>5 DEF IndInv
  <1>7. CASE Read
    <2>1. Slot(head) \in Slots
      BY <1>0, SlotType DEF TypeOK
    <2>2. TypeOK' /\ IndexOrder' /\ ChecksHold' /\ Shutdown'
      BY <1>0, <1>7, <2>1 DEF TypeOK, Read, pvars, IndexOrder, ChecksHold, Shutdown
    <2>3. Dist(tail, head) > 0 /\ tail # head
      BY <1>7, <1>c DEF Read
    <2>4. Held' = Held \ {head}
      BY <1>0, <1>7, <2>3 DEF Held, Read, pvars
    <2>5. \A p \in Held' : Slot(p) # Slot(head)
      BY <1>0, <1>7, <2>4, HeadSlotFree DEF Held, Read
    <2>6. storage' = [storage EXCEPT ![Slot(head)] = Raw]
      BY <1>7 DEF Read
    <2>7. \A s \in Slots : storage'[s] # Raw <=> \E p \in Held' : Slot(p) = s
      BY <1>0, <2>1, <2>4, <2>5, <2>6 DEF Contents, TypeOK
    <2>8. ppc = "publish" => storage'[Slot(tail)] = arg
      <3>1. ppc = "publish" => Slot(tail) # Slot(head)
        BY <1>0, <1>7, <2>3, HeadSlotFree DEF TypeOK, Read
      <3>2. QED
        BY <1>0, <2>1, <2>6, <3>1, SlotType DEF Contents, TypeOK
    <2>9. Contents'
      BY <1>7, <2>7, <2>8 DEF Contents, Read, pvars
    <2>10. QED
      BY <2>2, <2>9 DEF IndInv
  <1>8. CASE PublishHead
    <2>1. TypeOK'
      BY <1>0, <1>8, IncValue DEF TypeOK, PublishHead, pvars
    <2>2. /\ head' \in Pos
          /\ Dist(tail, head') = Dist(tail, head) - 1
          /\ Dist(tail, cached_tail) <= Dist(tail, head')
      <3>1. head' = Inc(head) /\ head' \in Pos
        BY <1>8, <1>a, IncValue DEF PublishHead
      <3>2. Dist(tail, head') = Dist(tail, head) - 1
        BY <1>8, <1>a, <1>c, <3>1, DistIncLower DEF PublishHead
      <3>3. Dist(tail, cached_tail) # Dist(tail, head)
        <4>1. Dist(cached_tail, head) \in Nat /\ Dist(cached_tail, head) # 0
          BY <1>0, <1>8, <1>a, DistValue, DistZero DEF ChecksHold, PublishHead
        <4>2. Dist(tail, cached_tail) = Dist(tail, head) - Dist(cached_tail, head)
          BY <1>0, <1>a, DistSplit DEF IndexOrder
        <4>3. QED
          BY <1>b, <4>1, <4>2
      <3>4. QED
        BY <1>0, <1>b, <3>1, <3>2, <3>3 DEF IndexOrder
    <2>3. IndexOrder' /\ ChecksHold' /\ Shutdown'
      BY <1>0, <1>8, <1>b, <2>2
         DEF PublishHead, pvars, IndexOrder, ChecksHold, Shutdown
    <2>4. ASSUME NEW p \in Pos
          PROVE  Dist(p, head') < Dist(tail, head')
                   <=> Dist(p, head) < Dist(tail, head) /\ p # head
      <3>1. Dist(p, head) \in Nat /\ Dist(p, head') \in Nat
        BY <1>a, <2>2, DistValue
      <3>2. p # head => Dist(p, head') = Dist(p, head) - 1
        BY <1>8, <1>a, DistIncLower DEF PublishHead
      <3>3. ASSUME p = head PROVE ~(Dist(p, head') < Dist(tail, head'))
        <4>1. Dist(tail, p) = Dist(tail, head)
          BY <3>3
        <4>2. Dist(p, head') <= Dist(tail, head') => Dist(tail, p) <= Dist(tail, head')
          BY <1>a, <2>2, DistSplit
        <4>3. QED
          BY <1>b, <2>2, <3>1, <4>1, <4>2
      <3>4. QED
        BY <1>b, <2>2, <3>1, <3>2, <3>3
    <2>5. Held' = Held
      BY <1>0, <1>8, <2>2, <2>4 DEF Held, PublishHead, pvars
    <2>6. Contents'
      BY <1>0, <1>8, <2>5 DEF Contents, PublishHead, pvars
    <2>7. QED
      BY <2>1, <2>3, <2>6 DEF IndInv
  <1>9. CASE Destroy
    <2>1. TypeOK' /\ IndexOrder' /\ ChecksHold' /\ Shutdown'
      BY <1>0, <1>9 DEF TypeOK, Destroy, pvars, cvars, IndexOrder, ChecksHold, Shutdown
    <2>2. Contents'
      BY <1>0, <1>9 DEF Contents, Held, Destroy, pvars, cvars
    <2>3. QED
      BY <2>1, <2>2 DEF IndInv
  <1>10. CASE UNCHANGED vars
    <2>1. TypeOK' /\ IndexOrder' /\ ChecksHold' /\ Shutdown'
      BY <1>0, <1>10 DEF vars, pvars, cvars, TypeOK, IndexOrder, ChecksHold, Shutdown
    <2>2. Contents'
      BY <1>0, <1>10 DEF vars, pvars, cvars, Contents, Held
    <2>3. QED
      BY <2>1, <2>2 DEF IndInv
  <1>11. QED
    BY <1>1, <1>2, <1>3, <1>4, <1>5, <1>6, <1>7, <1>8, <1>9, <1>10
       DEF Next, Producer, Consumer

(* The invariant holds in every reachable state. *)
LEMMA Invariance == Spec => []IndInv
  BY InitInv, NextInv, PTL DEF Spec

(* The producer and the consumer are never in the same slot. *)
THEOREM RaceFree == Spec => []NoSlotRace
  <1>1. IndInv => NoSlotRace
    <2> SUFFICES ASSUME IndInv, ppc = "construct", cpc = "read"
                 PROVE  Slot(tail) # Slot(head)
      BY DEF NoSlotRace
    <2>1. tail # head
      BY Window, DistZero DEF IndInv, TypeOK
    <2>2. QED
      BY <2>1, HeadSlotFree DEF IndInv, TypeOK
  <1>2. QED
    BY <1>1, Invariance, PTL

(* Objects are built in raw slots, read while alive and all destroyed. *)
THEOREM LifetimeSafe == Spec => []ObjectLifetime
  <1>1. IndInv => ObjectLifetime
    <2> SUFFICES ASSUME IndInv PROVE ObjectLifetime
      OBVIOUS
    <2>0. TypeOK /\ IndexOrder /\ ChecksHold /\ Contents /\ Shutdown
      BY DEF IndInv
    <2>1. ppc = "construct" => storage[Slot(tail)] = Raw
      <3> SUFFICES ASSUME ppc = "construct" PROVE storage[Slot(tail)] = Raw
        OBVIOUS
      <3>1. \A p \in Held : Slot(p) # Slot(tail)
        BY <2>0, TailSlotFree DEF Held
      <3>2. QED
        BY <2>0, <3>1, SlotType DEF Contents, TypeOK
    <2>2. cpc = "read" => storage[Slot(head)] # Raw
      <3> SUFFICES ASSUME cpc = "read" PROVE storage[Slot(head)] # Raw
        OBVIOUS
      <3>1. head \in Held
        BY <2>0, Window, DistValue DEF Held, TypeOK, Pos
      <3>2. QED
        BY <2>0, <3>1, SlotType DEF Contents, TypeOK
    <2>3. life = "dead" => \A s \in Slots : storage[s] = Raw
      <3> SUFFICES ASSUME life = "dead" PROVE \A s \in Slots : storage[s] = Raw
        OBVIOUS
      <3>1. Held = {}
        BY <2>0, DistValue DEF Held, Shutdown, TypeOK, Pos
      <3>2. QED
        BY <2>0, <3>1 DEF Contents
    <2>4. QED
      BY <2>1, <2>2, <2>3 DEF ObjectLifetime
  <1>2. QED
    BY <1>1, Invariance, PTL
-----------------------------------------------------------------------------
(* Refinement of the bounded FIFO.                                         *)

(* A function on 1..n is a sequence of length n. *)
LEMMA FunctionIsSequence ==
  ASSUME NEW S, NEW n \in Nat, NEW f \in [1 .. n -> S]
  PROVE  f \in Seq(S) /\ Len(f) = n
  <1>1. f \in Seq(S)
    BY SeqDef
  <1>2. Len(f) \in Nat /\ DOMAIN f = 1 .. Len(f)
    BY <1>1, LenProperties
  <1>3. 1 .. n = 1 .. Len(f)
    BY <1>2
  <1>4. QED
    BY <1>1, <1>2, <1>3

(* One more element at the end is Append. *)
LEMMA LongerIsAppend ==
  ASSUME NEW S, NEW n \in Nat, NEW f \in [1 .. n -> S], NEW g \in [1 .. n + 1 -> S],
         \A i \in 1 .. n : g[i] = f[i]
  PROVE  g = Append(f, g[n + 1])
  <1>1. f \in Seq(S) /\ Len(f) = n /\ g \in Seq(S) /\ Len(g) = n + 1
    BY FunctionIsSequence
  <1>2. g[n + 1] \in S
    OBVIOUS
  <1>3. /\ Append(f, g[n + 1]) \in Seq(S)
        /\ Len(Append(f, g[n + 1])) = n + 1
        /\ \A i \in 1 .. n : Append(f, g[n + 1])[i] = f[i]
        /\ Append(f, g[n + 1])[n + 1] = g[n + 1]
    BY <1>1, <1>2, AppendProperties
  <1>4. \A i \in 1 .. n + 1 : g[i] = Append(f, g[n + 1])[i]
    BY <1>3
  <1>5. QED
    BY <1>1, <1>3, <1>4, SeqEqual

(* One element less at the front is Tail. *)
LEMMA ShorterIsTail ==
  ASSUME NEW S, NEW n \in Nat, NEW f \in [1 .. n + 1 -> S], NEW g \in [1 .. n -> S],
         \A i \in 1 .. n : g[i] = f[i + 1]
  PROVE  f # << >> /\ g = Tail(f) /\ Head(f) = f[1]
  <1>1. f \in Seq(S) /\ Len(f) = n + 1 /\ g \in Seq(S) /\ Len(g) = n
    BY FunctionIsSequence
  <1>2. f # << >>
    BY <1>1, EmptySeq
  <1>3. /\ Tail(f) \in Seq(S)
        /\ Len(Tail(f)) = n
        /\ \A i \in 1 .. n : Tail(f)[i] = f[i + 1]
    BY <1>1, <1>2, HeadTailProperties
  <1>4. g = Tail(f)
    BY <1>1, <1>3, SeqEqual
  <1>5. QED
    BY <1>1, <1>2, <1>4

(* Items is a sequence over the slots after First. *)
LEMMA ItemsShape ==
  ASSUME IndInv
  PROVE  /\ First \in Pos
         /\ Dist(tail, First) \in 0 .. Capacity
         /\ cpc = "publish" => Dist(tail, First) = Dist(tail, head) - 1
         /\ \A i \in 1 .. Dist(tail, First) :
              LET p == (First + i - 1) % Width
              IN  p \in Pos /\ Dist(p, First) = i - 1 /\ Slot(p) \in Slots
         /\ Items \in [1 .. Dist(tail, First) -> Item \cup {Raw}]
         /\ Len(Items) = Dist(tail, First)
  <1>1. tail \in Pos /\ head \in Pos /\ Dist(tail, head) \in 0 .. Capacity
    BY Window DEF IndInv, TypeOK
  <1>2. cpc = "publish" => Inc(head) \in Pos /\ Dist(tail, Inc(head)) = Dist(tail, head) - 1
                           /\ Dist(tail, head) > 0
    <2> SUFFICES ASSUME cpc = "publish"
                 PROVE  Inc(head) \in Pos /\ Dist(tail, Inc(head)) = Dist(tail, head) - 1
                        /\ Dist(tail, head) > 0
      OBVIOUS
    <2>1. Dist(tail, head) > 0
      BY Window DEF IndInv
    <2>2. tail # head
      BY <1>1, <2>1, DistZero
    <2>3. QED
      BY <1>1, <2>1, <2>2, IncValue, DistIncLower
  <1>3. /\ First \in Pos
        /\ Dist(tail, First) \in 0 .. Capacity
        /\ cpc = "publish" => Dist(tail, First) = Dist(tail, head) - 1
    BY <1>1, <1>2, CapacityAssumption DEF First
  <1>4. ASSUME NEW i \in 1 .. Dist(tail, First)
        PROVE  LET p == (First + i - 1) % Width
               IN  p \in Pos /\ Dist(p, First) = i - 1 /\ Slot(p) \in Slots
    <2>1. i - 1 \in Pos /\ First + (i - 1) = First + i - 1
      BY <1>3, WidthAssumption, CapacityAssumption DEF Pos
    <2>2. QED
      BY <1>3, <2>1, AdvanceValue, SlotType
  <1>5. Items \in [1 .. Dist(tail, First) -> Item \cup {Raw}]
    BY <1>4 DEF Items, IndInv, TypeOK
  <1>6. QED
    BY <1>3, <1>4, <1>5, FunctionIsSequence

(* A producer past its check leaves room for its item. *)
LEMMA RoomForOne ==
  ASSUME IndInv, ppc # "idle"
  PROVE  Dist(tail, First) \in Nat /\ Dist(tail, First) < Capacity
  <1>1. Dist(tail, head) < Capacity /\ Dist(tail, head) \in Nat
    BY Window DEF IndInv
  <1>2. CASE cpc = "publish"
    <2>1. Dist(tail, First) \in 0 .. Capacity /\ Dist(tail, First) = Dist(tail, head) - 1
      BY <1>2, ItemsShape
    <2>2. QED
      BY <1>1, <2>1, CapacityAssumption
  <1>3. CASE cpc # "publish"
    BY <1>1, <1>3 DEF First
  <1>4. QED
    BY <1>2, <1>3

(* Items has its type in the next state too. *)
LEMMA ItemsNextType ==
  ASSUME IndInv'
  PROVE  Items' \in [1 .. Dist(tail', First') -> Item \cup {Raw}]
  <1>1. storage' \in [Slots -> Item \cup {Raw}] /\ head' \in Pos
    BY DEF IndInv, TypeOK
  <1>2. First' \in Pos
    BY <1>1, IncValue DEF First
  <1>3. ASSUME NEW i \in Int PROVE Slot((First' + i - 1) % Width) \in Slots
    <2>1. First' + i - 1 \in Int
      BY <1>2 DEF Pos
    <2>2. (First' + i - 1) % Width \in Pos
      BY <2>1, CapacityAssumption, WidthAssumption DEF Pos
    <2>3. QED
      BY <2>2, SlotType
  <1>4. QED
    BY <1>1, <1>3 DEF Items

(* PublishTail appends the constructed item. *)
LEMMA PublishTailIsPush ==
  ASSUME IndInv, IndInv', PublishTail
  PROVE  Fifo!Push(arg)
  <1> DEFINE n == Dist(tail, First)
  <1>1. tail' = Inc(tail) /\ First' = First /\ storage' = storage /\ out' = out
    BY DEF PublishTail, cvars, First
  <1>2. tail \in Pos /\ First \in Pos /\ n \in Nat /\ n < Capacity
    BY RoomForOne, ItemsShape DEF IndInv, TypeOK, PublishTail
  <1>3. Dist(tail', First') = n + 1
    BY <1>1, <1>2, DistIncUpper, WidthAssumption, CapacityAssumption
  <1>4. Items \in [1 .. n -> Item \cup {Raw}] /\ Len(Items) = n
    BY ItemsShape
  <1>5. Items' \in [1 .. n + 1 -> Item \cup {Raw}]
    BY <1>3, ItemsNextType
  <1>6. \A i \in 1 .. n : Items'[i] = Items[i]
    BY <1>1, <1>2, <1>3 DEF Items
  <1>7. Items'[n + 1] = arg
    <2>1. (First + n) % Width = tail
      <3>1. n \in Pos
        BY <1>2, WidthAssumption, CapacityAssumption DEF Pos
      <3>2. (First + n) % Width \in Pos /\ Dist((First + n) % Width, First) = n
        BY <1>2, <3>1, AdvanceValue
      <3>3. Dist(tail, (First + n) % Width) = 0
        BY <1>2, <3>2, DistSplit
      <3>4. QED
        BY <1>2, <3>2, <3>3, DistZero
    <2>2. First + (n + 1) - 1 = First + n
      BY <1>2 DEF Pos
    <2>3. Items'[n + 1] = storage[Slot(tail)]
      BY <1>1, <1>2, <1>3, <2>1, <2>2 DEF Items
    <2>4. QED
      BY <2>3 DEF IndInv, Contents, PublishTail
  <1> HIDE DEF n
  <1>8. Items' = Append(Items, arg)
    BY <1>2, <1>4, <1>5, <1>6, <1>7, LongerIsAppend
  <1>9. QED
    BY <1>1, <1>2, <1>4, <1>8 DEF Fifo!Push

(* Read hands out and removes the oldest item. *)
LEMMA ReadIsPop ==
  ASSUME IndInv, IndInv', Read
  PROVE  Fifo!Pop
  <1> DEFINE n == Dist(tail, head) - 1
  <1>1. /\ First = head /\ First' = Inc(head) /\ tail' = tail
        /\ out' = storage[Slot(head)]
        /\ storage' = [storage EXCEPT ![Slot(head)] = Raw]
    BY DEF Read, First, pvars
  <1>2. /\ tail \in Pos /\ head \in Pos /\ Inc(head) \in Pos
        /\ n \in Nat /\ Dist(tail, head) = n + 1 /\ n < Capacity
        /\ tail # head
    <2>1. tail \in Pos /\ head \in Pos /\ Inc(head) \in Pos
      BY IncValue DEF IndInv, TypeOK
    <2>2. Dist(tail, head) \in 0 .. Capacity /\ Dist(tail, head) > 0
      BY Window DEF IndInv, Read
    <2>3. QED
      BY <2>1, <2>2, DistZero, CapacityAssumption
  <1>3. Dist(tail', First') = n
    BY <1>1, <1>2, DistIncLower
  <1>4. Items \in [1 .. n + 1 -> Item \cup {Raw}]
    BY <1>1, <1>2, ItemsShape
  <1>5. Items' \in [1 .. n -> Item \cup {Raw}]
    BY <1>3, ItemsNextType
  <1>6. Items[1] = storage[Slot(head)]
    <2>1. head % Width = head
      BY <1>2, WidthAssumption DEF Pos
    <2>2. First + 1 - 1 = head
      BY <1>1, <1>2 DEF Pos
    <2>3. QED
      BY <1>1, <1>2, <2>1, <2>2 DEF Items
  <1>7. ASSUME NEW i \in 1 .. n PROVE Items'[i] = Items[i + 1]
    <2> DEFINE p == (head + i) % Width
    <2>1. i \in Pos
      BY <1>2, WidthAssumption, CapacityAssumption DEF Pos
    <2>2. p \in Pos /\ Dist(p, head) = i
      BY <1>2, <2>1, AdvanceValue
    <2>3. (Inc(head) + i - 1) % Width = p
      <3>1. Inc(head) = IF head = Width - 1 THEN 0 ELSE head + 1
        BY <1>2, IncValue
      <3>2. QED
        BY <1>2, <2>1, <3>1, WidthAssumption DEF Pos
    <2>4. Slot(p) # Slot(head)
      <3>1. p # head
        BY <1>2, <2>2, DistZero
      <3>2. Dist(p, head) < Dist(tail, head)
        BY <1>2, <2>2
      <3>3. QED
        BY <2>2, <3>1, <3>2, HeadSlotFree DEF IndInv, Read
    <2>5. Slot(p) \in Slots /\ Slot(head) \in Slots
      BY <1>2, <2>2, SlotType
    <2>6. storage'[Slot(p)] = storage[Slot(p)]
      BY <1>1, <2>4, <2>5 DEF IndInv, TypeOK
    <2>7. Items'[i] = storage'[Slot((Inc(head) + i - 1) % Width)]
      BY <1>1, <1>2, <1>3 DEF Items
    <2>8. head + (i + 1) - 1 = head + i /\ i + 1 \in 1 .. n + 1
      BY <1>2 DEF Pos
    <2>9. Items[i + 1] = storage[Slot(p)]
      BY <1>1, <1>2, <2>8 DEF Items
    <2>10. QED
      BY <2>3, <2>6, <2>7, <2>9
  <1> HIDE DEF n
  <1>8. Items # << >> /\ Items' = Tail(Items) /\ Head(Items) = Items[1]
    BY <1>2, <1>4, <1>5, <1>7, ShorterIsTail
  <1>9. QED
    BY <1>1, <1>6, <1>8 DEF Fifo!Pop

(* Construct writes to a slot outside Items. *)
LEMMA ConstructIsInvisible ==
  ASSUME IndInv, Construct
  PROVE  UNCHANGED <<Items, out>>
  <1>1. /\ First' = First /\ tail' = tail /\ out' = out
        /\ storage' = [storage EXCEPT ![Slot(tail)] = arg]
    BY DEF Construct, cvars, First
  <1>2. ASSUME NEW i \in 1 .. Dist(tail, First)
        PROVE  storage'[Slot((First + i - 1) % Width)] = storage[Slot((First + i - 1) % Width)]
    <2> DEFINE p == (First + i - 1) % Width
    <2>1. p \in Pos /\ Dist(p, First) = i - 1 /\ Slot(p) \in Slots /\ First \in Pos
      BY ItemsShape
    <2>2. Dist(tail, First) < Capacity /\ Dist(tail, First) \in Nat /\ tail \in Pos
      BY RoomForOne DEF IndInv, TypeOK, Construct
    <2> HIDE DEF p
    <2>3. Dist(tail, p) \in 1 .. Capacity - 1
      <3>1. Dist(tail, p) = Dist(tail, First) - (i - 1)
        BY <2>1, <2>2, DistSplit
      <3>2. QED
        BY <2>2, <3>1, CapacityAssumption
    <2>4. Slot(p) # Slot(tail)
      BY <2>1, <2>2, <2>3, SlotsDiffer
    <2>5. storage'[Slot(p)] = storage[Slot(p)]
      BY <1>1, <2>1, <2>4 DEF IndInv, TypeOK
    <2>6. QED
      BY <2>5 DEF p
  <1>3. Items' = Items
    BY <1>1, <1>2 DEF Items
  <1>4. QED
    BY <1>1, <1>3

(* The queue implements the bounded FIFO: for every capacity and every     *)
(* index width, pop hands out what emplace accepted, once and in order.    *)
THEOREM Refinement == Spec => ImplementsFifo
  <1>1. Init => Fifo!Init
    <2> SUFFICES ASSUME Init PROVE Items = << >>
      BY DEF Fifo!Init
    <2>1. IndInv /\ First = 0 /\ tail = 0 /\ 0 \in Pos
      BY InitInv, WidthAssumption, CapacityAssumption DEF Init, First, Pos
    <2>2. Dist(tail, First) = 0
      BY <2>1, DistZero
    <2>3. QED
      BY <2>2 DEF Items
  <1>2. IndInv /\ IndInv' /\ [Next]_vars => [Fifo!Next]_(Fifo!vars)
    <2> SUFFICES ASSUME IndInv, IndInv', [Next]_vars
                 PROVE  Fifo!Next \/ UNCHANGED <<Items, out>>
      BY DEF Fifo!vars
    <2>1. ASSUME NEW v \in Item, EmplaceCached(v) \/ EmplaceReload(v)
          PROVE  UNCHANGED <<Items, out>>
      BY <2>1 DEF EmplaceCached, EmplaceReload, cvars, Items, First
    <2>2. CASE Construct
      BY <2>2, ConstructIsInvisible
    <2>3. CASE PublishTail
      <3>1. arg \in Item
        BY <2>3 DEF IndInv, ChecksHold, PublishTail
      <3>2. QED
        BY <2>3, <3>1, PublishTailIsPush DEF Fifo!Next
    <2>4. CASE PopCached
      BY <2>4 DEF PopCached, pvars, Items, First
    <2>5. CASE PopReload
      BY <2>5 DEF PopReload, pvars, Items, First
    <2>6. CASE Read
      BY <2>6, ReadIsPop DEF Fifo!Next
    <2>7. CASE PublishHead
      BY <2>7 DEF PublishHead, pvars, Items, First
    <2>8. CASE Destroy
      BY <2>8 DEF Destroy, pvars, cvars, Items, First
    <2>9. CASE UNCHANGED vars
      BY <2>9 DEF vars, pvars, cvars, Items, First
    <2>10. QED
      BY <2>1, <2>2, <2>3, <2>4, <2>5, <2>6, <2>7, <2>8, <2>9
         DEF Next, Producer, Consumer
  <1>3. QED
    BY <1>1, <1>2, Invariance, PTL DEF Spec, ImplementsFifo, Fifo!Spec
=============================================================================
