----------------------------- MODULE StoresProofs -----------------------------
(***************************************************************************)
(* Proofs about the stores that keep memory or data for one process, for   *)
(* every size and any number of operations: the buddy allocator's blocks,  *)
(* the slab allocator's free list, the recovery of the WAL storage engine, *)
(* the slotted page, the latch-crabbing B+tree and the LSM tree engine.    *)
(***************************************************************************)
EXTENDS BuddyAllocator, SlabAllocator, WalStorageEngine, SlottedPage, ConcurrentBTree,
        LsmEngine, FiniteSetTheorems, SequenceTheorems, WellFoundedInduction, TLAPS

-----------------------------------------------------------------------------
(* The least-number principle, for sets: the form of induction used here.  *)
LEMMA LeastNumber ==
  ASSUME NEW T \in SUBSET Nat, T # {}
  PROVE  \E x \in T : \A y \in T : x <= y
  <1> DEFINE R == {ss \in Nat \X Nat : ss[1] < ss[2]}
  <1>1. IsWellFoundedOn(OpToRel(<, Nat), Nat)
    BY NatLessThanWellFounded
  <1>2. R = OpToRel(<, Nat)
    BY Zenon DEF OpToRel
  <1> HIDE DEF R
  <1>3. IsWellFoundedOn(R, Nat)
    BY <1>1, <1>2, Zenon
  <1>4. PICK x \in T : \A y \in T : ~(<<y, x>> \in R)
    BY <1>3, WFMin
  <1>5. ASSUME NEW y \in T
        PROVE  x <= y
    <2>1. x \in Nat /\ y \in Nat
      OBVIOUS
    <2>2. <<y, x>> \in Nat \X Nat /\ <<y, x>>[1] = y /\ <<y, x>>[2] = x
      BY <2>1
    <2>3. ~(y < x)
      BY <1>4, <2>2, Zenon DEF R
    <2>4. QED
      BY <2>1, <2>3
  <1>6. QED
    BY <1>5

-----------------------------------------------------------------------------
(* The slab allocator.                                                     *)

(* c lists n free chunks, the head last: each links to the one before it.  *)
FreeChain(n, c, head, links) ==
  /\ n \in Nat /\ c \in [1 .. n -> Chunks]
  /\ \A i, j \in 1 .. n : c[i] = c[j] => i = j
  /\ head = (IF n = 0 THEN Null ELSE c[n])
  /\ \A i \in 1 .. n : links[c[i]] = IF i = 1 THEN Null ELSE c[i - 1]

Mapped == 1 .. slabs * ObjectsPerSlab

SlabTypes ==
  /\ slabs \in 0 .. MaxSlabs /\ active_objects \in Int
  /\ DOMAIN mem = Chunks /\ live \subseteq Mapped

(* The free list that a chain c of n chunks describes.                     *)
Listed(n, c) ==
  /\ FreeChain(n, c, free_head, mem)
  /\ \A i \in 1 .. n : c[i] \in Mapped /\ c[i] \notin live
  /\ n + active_objects = slabs * ObjectsPerSlab

(* There is a chain; SlabChain says the same by following the links.       *)
SlabInv == SlabTypes /\ \E n, c : Listed(n, c)

(* All slabs have chunks of their own. *)
LEMMA SlabNumbers ==
  ASSUME NEW s \in 0 .. MaxSlabs
  PROVE  /\ s * ObjectsPerSlab \in Nat
         /\ s * ObjectsPerSlab <= ObjectsPerSlab * MaxSlabs
         /\ ObjectsPerSlab * MaxSlabs \in Nat
         /\ s < MaxSlabs => (s + 1) * ObjectsPerSlab = s * ObjectsPerSlab + ObjectsPerSlab
         /\ s < MaxSlabs => s * ObjectsPerSlab + ObjectsPerSlab <= ObjectsPerSlab * MaxSlabs
         /\ ObjectsPerSlab \in Nat \ {0} /\ MaxSlabs \in Nat \ {0}
  <1>1. ObjectsPerSlab \in Nat \ {0} /\ MaxSlabs \in Nat \ {0}
    BY SlabAssumption
  <1>2. s \in Nat /\ MaxSlabs - s \in Nat
    BY <1>1
  <1>3. s * ObjectsPerSlab \in Nat /\ ObjectsPerSlab * MaxSlabs \in Nat
    BY <1>1, <1>2
  <1>4. ObjectsPerSlab * MaxSlabs = s * ObjectsPerSlab + (MaxSlabs - s) * ObjectsPerSlab
    BY <1>1, <1>2
  <1>5. (MaxSlabs - s) * ObjectsPerSlab >= 0
    BY <1>1, <1>2
  <1>6. (s + 1) * ObjectsPerSlab = s * ObjectsPerSlab + ObjectsPerSlab
    BY <1>1, <1>2
  <1>7. ASSUME s < MaxSlabs
        PROVE  (MaxSlabs - s) * ObjectsPerSlab >= ObjectsPerSlab
    <2>1. MaxSlabs - s - 1 \in Nat
      BY <1>1, <1>2, <1>7
    <2> DEFINE d == MaxSlabs - s - 1
    <2>2. MaxSlabs - s = d + 1
      BY <1>1, <1>2
    <2> HIDE DEF d
    <2>3. (d + 1) * ObjectsPerSlab = d * ObjectsPerSlab + ObjectsPerSlab
          /\ d * ObjectsPerSlab >= 0 /\ d * ObjectsPerSlab \in Nat
      BY <1>1, <2>1 DEF d
    <2>4. QED
      BY <1>1, <2>2, <2>3
  <1> DEFINE x == s * ObjectsPerSlab
             y == ObjectsPerSlab * MaxSlabs
             z == (MaxSlabs - s) * ObjectsPerSlab
  <1>8. x \in Nat /\ y \in Nat /\ z \in Int /\ y = x + z /\ z >= 0
        /\ (s < MaxSlabs => z >= ObjectsPerSlab)
    BY <1>1, <1>2, <1>3, <1>4, <1>5, <1>7
  <1> HIDE DEF x, y, z
  <1>9. x <= y /\ (s < MaxSlabs => x + ObjectsPerSlab <= y)
    BY <1>1, <1>8
  <1>10. QED
    BY <1>1, <1>3, <1>6, <1>9 DEF x, y

(* The empty list grows by a slab. *)
LEMMA GrownChain ==
  ASSUME NEW s, s.slabs \in 0 .. MaxSlabs - 1, s.head = Null
  PROVE  LET base == s.slabs * ObjectsPerSlab
             g == grow_slab(s) IN
         /\ g.slabs = s.slabs + 1 /\ DOMAIN g.mem = Chunks
         /\ FreeChain(ObjectsPerSlab, [i \in 1 .. ObjectsPerSlab |-> base + i], g.head, g.mem)
  <1> DEFINE base == s.slabs * ObjectsPerSlab
             g == grow_slab(s)
             c == [i \in 1 .. ObjectsPerSlab |-> base + i]
  <1>1. /\ ObjectsPerSlab \in Nat \ {0} /\ base \in Nat
        /\ base + ObjectsPerSlab <= ObjectsPerSlab * MaxSlabs
        /\ ObjectsPerSlab * MaxSlabs \in Nat /\ s.slabs # MaxSlabs
    <2>1. MaxSlabs \in Nat \ {0}
      BY SlabAssumption
    <2>2. s.slabs \in 0 .. MaxSlabs /\ s.slabs < MaxSlabs
      BY <2>1
    <2>3. QED
      BY <2>2, SlabNumbers
  <1>2. /\ g.slabs = s.slabs + 1 /\ g.head = base + ObjectsPerSlab
        /\ g.mem = [k \in Chunks |->
                      CASE k = base + 1 -> s.head
                        [] k \in base + 2..base + ObjectsPerSlab -> k - 1
                        [] OTHER -> s.mem[k]]
    BY <1>1 DEF grow_slab
  <1> HIDE DEF base, g
  <1>3. c \in [1 .. ObjectsPerSlab -> Chunks]
    <2>1. \A i \in 1 .. ObjectsPerSlab : base + i \in Chunks
      BY <1>1 DEF Chunks
    <2>2. QED
      BY <2>1
  <1>4. ASSUME NEW i \in 1 .. ObjectsPerSlab
        PROVE  g.mem[c[i]] = IF i = 1 THEN Null ELSE c[i - 1]
    <2>1. c[i] = base + i /\ c[i] \in Chunks
      BY <1>3
    <2>2. CASE i = 1
      BY <1>1, <1>2, <2>1, <2>2
    <2>3. CASE i # 1
      <3>1. /\ base + i # base + 1 /\ base + i \in base + 2 .. base + ObjectsPerSlab
            /\ i - 1 \in 1 .. ObjectsPerSlab /\ base + i - 1 = base + (i - 1)
        BY <1>1, <2>3
      <3>2. ASSUME NEW k \in Chunks, k # base + 1, k \in base + 2 .. base + ObjectsPerSlab
            PROVE  g.mem[k] = k - 1
        BY <1>2, <3>2
      <3>3. g.mem[c[i]] = base + i - 1
        BY <1>1, <2>1, <3>1, <3>2
      <3>4. QED
        BY <2>3, <3>1, <3>3
    <2>4. QED
      BY <2>2, <2>3
  <1>5. \A i, j \in 1 .. ObjectsPerSlab : c[i] = c[j] => i = j
    BY <1>1
  <1>6. g.head = IF ObjectsPerSlab = 0 THEN Null ELSE c[ObjectsPerSlab]
    BY <1>1, <1>2
  <1>7. FreeChain(ObjectsPerSlab, c, g.head, g.mem)
    BY <1>1, <1>3, <1>4, <1>5, <1>6 DEF FreeChain
  <1>8. QED
    BY <1>2, <1>7 DEF base, g

(* The head is taken off the list; its link is overwritten. *)
LEMMA PoppedChain ==
  ASSUME NEW n, NEW c, NEW head, NEW links, FreeChain(n, c, head, links), head # Null,
         DOMAIN links = Chunks
  PROVE  /\ n >= 1 /\ n - 1 \in Nat /\ head = c[n] /\ head \in Chunks
         /\ FreeChain(n - 1, [i \in 1 .. n - 1 |-> c[i]], links[head],
                  [links EXCEPT ![head] = Object])
         /\ \A i \in 1 .. n - 1 : c[i] # head
  <1>1. n \in Nat /\ n # 0 /\ head = c[n]
    BY DEF FreeChain
  <1>2. n >= 1 /\ n - 1 \in Nat /\ n \in 1 .. n
    BY <1>1
  <1>3. head \in Chunks
    BY <1>1, <1>2 DEF FreeChain
  <1> DEFINE d == [i \in 1 .. n - 1 |-> c[i]]
  <1>4. \A i \in 1 .. n - 1 : /\ i \in 1 .. n /\ d[i] = c[i] /\ c[i] \in Chunks
                              /\ c[i] # head
    <2>1. \A i \in 1 .. n - 1 : i \in 1 .. n /\ i # n
      BY <1>1
    <2>2. QED
      BY <1>1, <1>2, <2>1 DEF FreeChain
  <1>5. d \in [1 .. n - 1 -> Chunks]
    BY <1>4
  <1>6. \A i, j \in 1 .. n - 1 : d[i] = d[j] => i = j
    BY <1>4 DEF FreeChain
  <1>7. links[head] = IF n - 1 = 0 THEN Null ELSE d[n - 1]
    <2>1. links[c[n]] = IF n = 1 THEN Null ELSE c[n - 1]
      BY <1>2 DEF FreeChain
    <2>2. n # 1 => n - 1 \in 1 .. n - 1
      BY <1>1
    <2>3. QED
      BY <1>1, <2>1, <2>2
  <1>8. ASSUME NEW i \in 1 .. n - 1
        PROVE  [links EXCEPT ![head] = Object][d[i]] = IF i = 1 THEN Null ELSE d[i - 1]
    <2>1. [links EXCEPT ![head] = Object][d[i]] = links[c[i]]
      BY <1>4
    <2>2. links[c[i]] = IF i = 1 THEN Null ELSE c[i - 1]
      BY <1>4 DEF FreeChain
    <2>3. i # 1 => i - 1 \in 1 .. n - 1
      BY <1>1
    <2>4. QED
      BY <2>1, <2>2, <2>3
  <1>9. QED
    BY <1>1, <1>2, <1>3, <1>4, <1>5, <1>6, <1>7, <1>8 DEF FreeChain

(* A chunk that is not on the list is pushed. *)
LEMMA PushedChain ==
  ASSUME NEW n, NEW c, NEW head, NEW links, FreeChain(n, c, head, links),
         NEW x \in Chunks, \A i \in 1 .. n : c[i] # x, DOMAIN links = Chunks
  PROVE  FreeChain(n + 1, [i \in 1 .. n + 1 |-> IF i = n + 1 THEN x ELSE c[i]], x,
               [links EXCEPT ![x] = head])
  <1> DEFINE d == [i \in 1 .. n + 1 |-> IF i = n + 1 THEN x ELSE c[i]]
  <1>1. n \in Nat /\ n + 1 \in Nat
    BY DEF FreeChain
  <1>2. /\ d[n + 1] = x
        /\ \A i \in 1 .. n : /\ i \in 1 .. n + 1 /\ d[i] = c[i] /\ c[i] \in Chunks
                             /\ d[i] # x /\ i # n + 1
    BY <1>1 DEF FreeChain
  <1>3. \A i \in 1 .. n + 1 : i \in 1 .. n \/ i = n + 1
    BY <1>1
  <1> HIDE DEF d
  <1>4. d \in [1 .. n + 1 -> Chunks]
    <2>1. \A i \in 1 .. n + 1 : d[i] \in Chunks
      BY <1>2, <1>3
    <2>2. QED
      BY <2>1 DEF d
  <1>5. \A i, j \in 1 .. n + 1 : d[i] = d[j] => i = j
    <2>1. \A i, j \in 1 .. n : c[i] = c[j] => i = j
      BY DEF FreeChain
    <2>2. QED
      BY <1>2, <1>3, <2>1
  <1>6. ASSUME NEW i \in 1 .. n + 1
        PROVE  [links EXCEPT ![x] = head][d[i]] = IF i = 1 THEN Null ELSE d[i - 1]
    <2>1. CASE i = n + 1
      <3>1. [links EXCEPT ![x] = head][d[i]] = head
        BY <1>2, <2>1
      <3>2. head = IF n = 0 THEN Null ELSE c[n]
        BY DEF FreeChain
      <3>3. n # 0 => n \in 1 .. n
        BY <1>1
      <3>4. i - 1 = n
        BY <1>1, <2>1
      <3>5. QED
        BY <1>1, <1>2, <2>1, <3>1, <3>2, <3>3, <3>4
    <2>2. CASE i \in 1 .. n
      <3>1. [links EXCEPT ![x] = head][d[i]] = links[c[i]]
        BY <1>2, <2>2
      <3>2. links[c[i]] = IF i = 1 THEN Null ELSE c[i - 1]
        BY <2>2 DEF FreeChain
      <3>3. i # 1 => i - 1 \in 1 .. n
        BY <1>1, <2>2
      <3>4. QED
        BY <1>2, <3>1, <3>2, <3>3
    <2>3. QED
      BY <1>3, <2>1, <2>2
  <1>7. x = IF n + 1 = 0 THEN Null ELSE d[n + 1]
    BY <1>1, <1>2
  <1>8. QED
    BY <1>1, <1>4, <1>5, <1>6, <1>7 DEF FreeChain, d

LEMMA SlabInitStep ==
  ASSUME SlabInit
  PROVE  SlabInv
  <1> DEFINE e == [slabs |-> 0, head |-> Null, mem |-> [c \in Chunks |-> Null]]
             g == grow_slab(e)
             c == [i \in 1 .. ObjectsPerSlab |-> 0 * ObjectsPerSlab + i]
  <1>1. /\ free_head = g.head /\ mem = g.mem /\ slabs = g.slabs
        /\ active_objects = 0 /\ live = {}
    BY DEF SlabInit
  <1>2. ObjectsPerSlab \in Nat \ {0} /\ MaxSlabs \in Nat \ {0}
    BY SlabAssumption
  <1>3. e.slabs = 0 /\ e.head = Null /\ 0 \in 0 .. MaxSlabs - 1
    BY <1>2
  <1> HIDE DEF e
  <1>4. /\ g.slabs = 1 /\ DOMAIN g.mem = Chunks
        /\ FreeChain(ObjectsPerSlab, c, g.head, g.mem)
    BY <1>3, GrownChain
  <1>5. SlabTypes
    BY <1>1, <1>2, <1>4 DEF SlabTypes
  <1>6. slabs * ObjectsPerSlab = ObjectsPerSlab
    BY <1>1, <1>2, <1>4
  <1>7. \A i \in 1 .. ObjectsPerSlab : c[i] \in Mapped
    BY <1>2, <1>6 DEF Mapped
  <1> HIDE DEF c
  <1>8. Listed(ObjectsPerSlab, c)
    BY <1>1, <1>2, <1>4, <1>6, <1>7 DEF Listed
  <1>9. QED
    BY <1>5, <1>8 DEF SlabInv

(* allocate() of a list that is as SlabInv says, grown or not. *)
LEMMA AllocateStep ==
  ASSUME NEW s, NEW n, NEW c, allocate(s), FreeChain(n, c, s.head, s.mem),
         DOMAIN s.mem = Chunks, s.slabs \in 0 .. MaxSlabs, active_objects \in Int,
         live \subseteq 1 .. s.slabs * ObjectsPerSlab,
         \A i \in 1 .. n : c[i] \in 1 .. s.slabs * ObjectsPerSlab /\ c[i] \notin live,
         n + active_objects = s.slabs * ObjectsPerSlab,
         live' \subseteq live \cup {s.head}
  PROVE  SlabInv'
  <1>1. /\ s.head # Null /\ free_head' = s.mem[s.head]
        /\ mem' = [s.mem EXCEPT ![s.head] = Object]
        /\ slabs' = s.slabs /\ active_objects' = active_objects + 1
    BY DEF allocate
  <1> DEFINE d == [i \in 1 .. n - 1 |-> c[i]]
  <1>2. /\ n >= 1 /\ n - 1 \in Nat /\ s.head = c[n] /\ s.head \in Chunks
        /\ FreeChain(n - 1, d, free_head', mem')
        /\ \A i \in 1 .. n - 1 : c[i] # s.head
    <2>1. /\ n >= 1 /\ n - 1 \in Nat /\ s.head = c[n] /\ s.head \in Chunks
          /\ FreeChain(n - 1, [i \in 1 .. n - 1 |-> c[i]], s.mem[s.head],
                   [s.mem EXCEPT ![s.head] = Object])
          /\ \A i \in 1 .. n - 1 : c[i] # s.head
      <3> DEFINE h == s.head
                 m == s.mem
      <3>1. h # Null /\ FreeChain(n, c, h, m) /\ DOMAIN m = Chunks
        BY <1>1
      <3> HIDE DEF h, m
      <3>2. /\ n >= 1 /\ n - 1 \in Nat /\ h = c[n] /\ h \in Chunks
            /\ FreeChain(n - 1, [i \in 1 .. n - 1 |-> c[i]], m[h], [m EXCEPT ![h] = Object])
            /\ \A i \in 1 .. n - 1 : c[i] # h
        BY <3>1, PoppedChain, ZenonT(30)
      <3>3. QED
        BY <3>2 DEF h, m
    <2>2. QED
      BY <1>1, <2>1
  <1>3. n \in Nat /\ n \in 1 .. n /\ \A i \in 1 .. n - 1 : i \in 1 .. n
    BY <1>2 DEF FreeChain
  <1>4. Mapped' = 1 .. s.slabs * ObjectsPerSlab
    BY <1>1 DEF Mapped
  <1>5. SlabTypes'
    BY <1>1, <1>2, <1>3, <1>4 DEF SlabTypes
  <1>6. \A i \in 1 .. n - 1 : d[i] \in Mapped' /\ d[i] \notin live'
    BY <1>2, <1>3, <1>4
  <1>7. (n - 1) + active_objects' = slabs' * ObjectsPerSlab
    BY <1>1, <1>3
  <1>8. \E m, e : Listed(m, e)'
    BY <1>2, <1>6, <1>7 DEF Listed
  <1>9. QED
    BY <1>5, <1>8 DEF SlabInv

LEMMA ConstructStep ==
  ASSUME SlabInv, NEW throws \in BOOLEAN, construct(throws)
  PROVE  SlabInv'
  <1> DEFINE s == IF free_head = Null THEN grow_slab(State) ELSE State
             total == slabs * ObjectsPerSlab
  <1>1. allocate(s) /\ live' = IF throws THEN live ELSE live \cup {s.head}
    BY DEF construct
  <1>2. live' \subseteq live \cup {s.head}
    BY <1>1
  <1>3. PICK n, c : Listed(n, c)
    BY DEF SlabInv
  <1>4. State.slabs = slabs /\ State.head = free_head /\ State.mem = mem
    BY DEF State
  <1>5. /\ slabs \in 0 .. MaxSlabs /\ active_objects \in Int
        /\ DOMAIN mem = Chunks /\ live \subseteq 1 .. total
    BY DEF SlabInv, SlabTypes, Mapped
  <1>6. CASE free_head # Null
    <2>1. s = State
      BY <1>6
    <2>2. /\ FreeChain(n, c, s.head, s.mem) /\ n + active_objects = total
          /\ \A i \in 1 .. n : c[i] \in 1 .. total /\ c[i] \notin live
      BY <1>3, <1>4, <2>1 DEF Listed, Mapped
    <2>3. s.slabs = slabs /\ DOMAIN s.mem = Chunks
      BY <1>4, <1>5, <2>1
    <2> HIDE DEF s
    <2>4. QED
      BY <1>1, <1>2, <1>5, <2>2, <2>3, AllocateStep
  <1>7. CASE free_head = Null
    <2>1. s = grow_slab(State)
      BY <1>7
    <2>2. s.head # Null
      BY <1>1 DEF allocate
    <2>3. slabs # MaxSlabs
      BY <1>4, <1>7, <2>1, <2>2 DEF grow_slab
    <2>4. slabs \in 0 .. MaxSlabs - 1 /\ slabs + 1 \in 0 .. MaxSlabs /\ slabs < MaxSlabs
      BY <1>5, <2>3, SlabAssumption
    <2>5. /\ total \in Nat /\ ObjectsPerSlab \in Nat \ {0}
          /\ (slabs + 1) * ObjectsPerSlab = total + ObjectsPerSlab
      BY <1>5, <2>4, SlabNumbers
    <2> DEFINE d == [i \in 1 .. ObjectsPerSlab |-> total + i]
    <2>6. /\ s.slabs = slabs + 1 /\ DOMAIN s.mem = Chunks
          /\ FreeChain(ObjectsPerSlab, d, s.head, s.mem)
      BY <1>4, <1>7, <2>1, <2>4, GrownChain
    <2>7. ObjectsPerSlab + active_objects = total + ObjectsPerSlab
      <3>1. n = 0
        <4>1. n \in Nat /\ c \in [1 .. n -> Chunks] /\ Null = IF n = 0 THEN Null ELSE c[n]
          BY <1>3, <1>7 DEF Listed, FreeChain
        <4>2. n # 0 => c[n] \in Chunks
          BY <4>1
        <4>3. Null \notin Chunks
          BY SlabNumbers, <1>5 DEF Null, Chunks
        <4>4. QED
          BY <4>1, <4>2, <4>3
      <3>2. QED
        BY <1>3, <1>5, <2>5, <3>1 DEF Listed
    <2> HIDE DEF s
    <2>8. \A i \in 1 .. ObjectsPerSlab :
            d[i] \in 1 .. total + ObjectsPerSlab /\ d[i] \notin live
      BY <1>5, <2>5
    <2>9. live \subseteq 1 .. total + ObjectsPerSlab
      BY <1>5, <2>5
    <2> HIDE DEF d, total
    <2>10. s.slabs * ObjectsPerSlab = total + ObjectsPerSlab
      BY <2>5, <2>6
    <2>11. s.slabs \in 0 .. MaxSlabs
      BY <2>4, <2>6
    <2>12. QED
      BY <1>1, <1>2, <1>5, <2>6, <2>7, <2>8, <2>9, <2>10, <2>11, AllocateStep
  <1>8. QED
    BY <1>6, <1>7

LEMMA DestroyStep ==
  ASSUME SlabInv, NEW x \in Chunks, destroy(x)
  PROVE  SlabInv'
  <1>1. /\ x \in live /\ live' = live \ {x} /\ slabs' = slabs
        /\ mem' = [mem EXCEPT ![x] = free_head] /\ free_head' = x
        /\ active_objects' = active_objects - 1
    BY DEF destroy, deallocate
  <1>2. PICK n, c : Listed(n, c)
    BY DEF SlabInv
  <1> DEFINE d == [i \in 1 .. n + 1 |-> IF i = n + 1 THEN x ELSE c[i]]
  <1>3. \A i \in 1 .. n : c[i] # x
    BY <1>1, <1>2 DEF Listed
  <1>4. DOMAIN mem = Chunks /\ x \in Mapped /\ active_objects \in Int
    BY <1>1 DEF SlabInv, SlabTypes
  <1>5. FreeChain(n, c, free_head, mem) /\ n \in Nat
    BY <1>2 DEF Listed, FreeChain
  <1>6. FreeChain(n + 1, d, free_head', mem')
    BY <1>1, <1>3, <1>4, <1>5, PushedChain
  <1>7. Mapped' = Mapped
    BY <1>1 DEF Mapped
  <1>8. SlabTypes'
    BY <1>1, <1>4, <1>7 DEF SlabInv, SlabTypes
  <1>9. ASSUME NEW i \in 1 .. n + 1
        PROVE  d[i] \in Mapped' /\ d[i] \notin live'
    <2>1. CASE i = n + 1
      BY <1>1, <1>4, <1>7, <2>1
    <2>2. CASE i \in 1 .. n
      BY <1>1, <1>2, <1>5, <1>7, <2>2 DEF Listed
    <2>3. QED
      BY <1>5, <2>1, <2>2
  <1>10. (n + 1) + active_objects' = slabs' * ObjectsPerSlab
    BY <1>1, <1>2, <1>4, <1>5 DEF Listed
  <1> HIDE DEF d
  <1>11. \E m, e : Listed(m, e)'
    BY <1>6, <1>9, <1>10 DEF Listed
  <1>12. QED
    BY <1>8, <1>11 DEF SlabInv

(* Following the links from the head visits the chain, then stays at Null. *)
LEMMA ChainFollowed ==
  ASSUME SlabInv
  PROVE  SlabChain
  <1> DEFINE K == Cardinality(Chunks)
             next(f) == [n \in 0 .. K |->
               IF n = 0 THEN free_head
               ELSE IF f[n - 1] \in Chunks THEN mem[f[n - 1]] ELSE Null]
             at == CHOOSE f : f = next(f)
             listed == {at[n] : n \in 0 .. K} \ {Null}
  <1>1. PICK n, c : Listed(n, c)
    BY DEF SlabInv
  <1>2. FreeChain(n, c, free_head, mem) /\ n \in Nat /\ c \in [1 .. n -> Chunks]
    BY <1>1 DEF Listed, FreeChain
  <1>3. K \in Nat /\ IsFiniteSet(Chunks) /\ Null \notin Chunks
    <2>1. ObjectsPerSlab * MaxSlabs \in Nat
      BY SlabNumbers DEF SlabInv, SlabTypes
    <2>2. IsFiniteSet(Chunks) /\ Null \notin Chunks
      BY <2>1, FS_Interval DEF Chunks, Null
    <2>3. QED
      BY <2>2, FS_CardinalityType
  <1>4. n <= K
    <2>1. c \in Injection(1 .. n, Chunks)
      BY <1>2 DEF FreeChain, Injection, IsInjective
    <2>2. Cardinality(1 .. n) = n /\ IsFiniteSet(1 .. n)
      BY <1>2, FS_Interval
    <2>3. QED
      BY <1>3, <2>1, <2>2, FS_Injection
  <1> HIDE DEF K
  <1> DEFINE g == [k \in 0 .. K |-> IF k < n THEN c[n - k] ELSE Null]
  <1>5. g = next(g)
    <2> SUFFICES ASSUME NEW k \in 0 .. K
                 PROVE  g[k] = IF k = 0 THEN free_head
                               ELSE IF g[k - 1] \in Chunks THEN mem[g[k - 1]] ELSE Null
      OBVIOUS
    <2>1. CASE k = 0
      BY <1>2, <1>3, <2>1 DEF FreeChain
    <2>2. CASE k # 0 /\ k - 1 < n
      <3>1. k - 1 \in 0 .. K /\ n - (k - 1) \in 1 .. n /\ n - (k - 1) - 1 = n - k
        BY <1>2, <1>3, <2>2
      <3>2. g[k - 1] = c[n - (k - 1)] /\ g[k - 1] \in Chunks
        BY <1>2, <2>2, <3>1
      <3>3. mem[c[n - (k - 1)]] =
              IF n - (k - 1) = 1 THEN Null ELSE c[n - (k - 1) - 1]
        BY <1>2, <3>1 DEF FreeChain
      <3>4. g[k] = IF n - (k - 1) = 1 THEN Null ELSE c[n - k]
        BY <1>2, <1>3, <2>2
      <3>5. QED
        BY <2>2, <3>1, <3>2, <3>3, <3>4
    <2>3. CASE k # 0 /\ ~(k - 1 < n)
      <3>1. k - 1 \in 0 .. K /\ ~(k < n)
        BY <1>2, <1>3, <2>3
      <3>2. g[k - 1] = Null /\ g[k] = Null
        BY <2>3, <3>1
      <3>3. QED
        BY <1>3, <2>3, <3>2
    <2>4. QED
      BY <2>1, <2>2, <2>3
  <1>6. at = next(at)
    BY <1>5
  <1>7. \A k \in 0 .. K : at[k] = g[k]
    <2> DEFINE T == {k \in 0 .. K : at[k] # g[k]}
    <2> HIDE DEF at, g
    <2> SUFFICES ASSUME T # {} PROVE FALSE
      OBVIOUS
    <2>1. T \in SUBSET Nat
      BY <1>3
    <2>2. PICK k \in T : \A j \in T : k <= j
      BY <2>1, LeastNumber
    <2>3. k \in 0 .. K /\ at[k] # g[k]
      OBVIOUS
    <2>4. /\ at[k] = IF k = 0 THEN free_head
                     ELSE IF at[k - 1] \in Chunks THEN mem[at[k - 1]] ELSE Null
          /\ g[k] = IF k = 0 THEN free_head
                    ELSE IF g[k - 1] \in Chunks THEN mem[g[k - 1]] ELSE Null
      BY <1>5, <1>6, <2>3
    <2>5. k # 0
      BY <2>3, <2>4
    <2>6. k - 1 \in 0 .. K /\ ~(k <= k - 1)
      BY <1>3, <2>3, <2>5
    <2>7. at[k - 1] = g[k - 1]
      BY <2>2, <2>6
    <2>8. QED
      BY <2>3, <2>4, <2>7
  <1> HIDE DEF at
  <1>8. listed = {c[i] : i \in 1 .. n}
    <2>1. ASSUME NEW i \in 1 .. n
          PROVE  c[i] \in listed
      <3>1. n - i \in 0 .. K /\ n - i < n /\ n - (n - i) = i
        BY <1>2, <1>3, <1>4
      <3>2. at[n - i] = c[i] /\ c[i] \in Chunks
        BY <1>2, <1>7, <3>1
      <3>3. QED
        BY <1>3, <3>1, <3>2
    <2>2. ASSUME NEW k \in 0 .. K, at[k] # Null
          PROVE  \E i \in 1 .. n : at[k] = c[i]
      <3>1. k < n
        BY <1>7, <2>2
      <3>2. n - k \in 1 .. n
        BY <1>2, <1>3, <3>1
      <3>3. QED
        BY <1>7, <3>1, <3>2
    <2>3. QED
      BY <2>1, <2>2
  <1>9. Cardinality(listed) = n
    <2>1. IsFiniteSet(1 .. n) /\ Cardinality(1 .. n) = n
      BY <1>2, FS_Interval
    <2>2. c \in Bijection(1 .. n, {c[i] : i \in 1 .. n})
      BY <1>2 DEF FreeChain, Bijection, Injection, Surjection, IsInjective
    <2>3. QED
      BY <1>8, <2>1, <2>2, FS_Bijection DEF ExistsBijection
  <1>10. at[K] = Null
    BY <1>2, <1>3, <1>4, <1>7
  <1>11. /\ listed \subseteq 1 .. slabs * ObjectsPerSlab /\ listed \cap live = {}
         /\ Cardinality(listed) + active_objects = slabs * ObjectsPerSlab
    BY <1>1, <1>8, <1>9 DEF Listed, Mapped
  <1>12. QED
    BY <1>10, <1>11 DEF SlabChain, K, at

(***************************************************************************)
(* The slab allocator's free list is sound for every slab size and any     *)
(* number of slabs: allocate, deallocate and grow_slab                     *)
(* (slab_allocator.hpp:48-76 and 114-137) leave a list that ends, meets no *)
(* chunk twice and no object in use, and together with active_objects_     *)
(* accounts for every chunk, also when constructors throw.                 *)
(***************************************************************************)
THEOREM FreeListSound == SlabSpec => []SlabChain
  <1>1. SlabInit => SlabInv
    BY SlabInitStep
  <1>2. SlabInv /\ [SlabNext]_slabVars => SlabInv'
    <2> SUFFICES ASSUME SlabInv, [SlabNext]_slabVars PROVE SlabInv'
      OBVIOUS
    <2>1. CASE SlabNext
      BY <2>1, ConstructStep, DestroyStep DEF SlabNext
    <2>2. CASE UNCHANGED slabVars
      BY <2>2 DEF slabVars, SlabInv, SlabTypes, Listed, Mapped
    <2>3. QED
      BY <2>1, <2>2
  <1>3. SlabInv => SlabChain
    BY ChainFollowed
  <1>4. QED
    BY <1>1, <1>2, <1>3, PTL DEF SlabSpec

-----------------------------------------------------------------------------
(* A loop of n steps has a result: the function that gives the state after *)
(* every step exists.                                                      *)
States(f, n, S, start, step) ==
  /\ f \in [0 .. n -> S] /\ f[0] = start
  /\ \A i \in 1 .. n : f[i] = step[i][f[i - 1]]

LEMMA LoopStates ==
  ASSUME NEW n \in Nat, NEW S, NEW start \in S, NEW step \in [1 .. n -> [S -> S]]
  PROVE  \E f : States(f, n, S, start, step)
  <1> DEFINE Run(m, f) == States(f, m, S, start, step)
             T == {m \in 0 .. n : ~ \E f : Run(m, f)}
  <1>1. T = {}
    <2> SUFFICES ASSUME T # {} PROVE FALSE
      OBVIOUS
    <2>1. T \in SUBSET Nat
      OBVIOUS
    <2> HIDE DEF Run
    <2>2. PICK m \in T : \A j \in T : m <= j
      BY <2>1, LeastNumber
    <2>3. CASE m = 0
      <3> DEFINE f == [i \in 0 .. 0 |-> start]
      <3>1. Run(0, f)
        BY DEF Run, States
      <3>2. QED
        BY <2>3, <3>1
    <2>4. CASE m # 0
      <3>1. m - 1 \in 0 .. n /\ m \in 1 .. n /\ m - 1 \notin T
        BY <2>2, <2>4
      <3>2. PICK f : Run(m - 1, f)
        BY <3>1
      <3> DEFINE g == [i \in 0 .. m |-> IF i = m THEN step[m][f[m - 1]] ELSE f[i]]
      <3>3. f \in [0 .. m - 1 -> S] /\ f[0] = start
            /\ \A i \in 1 .. m - 1 : f[i] = step[i][f[i - 1]]
        BY <3>2 DEF Run, States
      <3>4. f[m - 1] \in S /\ step[m] \in [S -> S]
        BY <3>1, <3>3
      <3>5. step[m][f[m - 1]] \in S
        BY <3>4
      <3>6. \A i \in 0 .. m - 1 : g[i] = f[i] /\ g[i] \in S
        BY <3>1, <3>3
      <3>7. g[m] = step[m][f[m - 1]]
        BY <3>1
      <3>8. g \in [0 .. m -> S] /\ g[0] = start
        BY <3>1, <3>3, <3>5
      <3> HIDE DEF g
      <3>9. ASSUME NEW i \in 1 .. m
            PROVE  g[i] = step[i][g[i - 1]]
        <4>1. CASE i = m
          <5>1. g[m - 1] = f[m - 1]
            BY <3>1, <3>6
          <5>2. QED
            BY <3>7, <4>1, <5>1
        <4>2. CASE i # m
          <5>1. i \in 1 .. m - 1 /\ i \in 0 .. m - 1 /\ i - 1 \in 0 .. m - 1
            BY <3>1, <4>2
          <5>2. QED
            BY <3>3, <3>6, <5>1
        <4>3. QED
          BY <4>1, <4>2
      <3>10. Run(m, g)
        BY <3>8, <3>9 DEF Run, States
      <3>11. QED
        BY <3>10
    <2>5. QED
      BY <2>3, <2>4
  <1>2. n \in 0 .. n
    OBVIOUS
  <1>3. PICK f : Run(n, f)
    <2> HIDE DEF Run
    <2>1. QED
      BY <1>1, <1>2
  <1>4. QED
    BY <1>3

(* A bounded set of numbers has a greatest one. *)
LEMMA GreatestNumber ==
  ASSUME NEW n \in Nat, NEW T \in SUBSET (1 .. n), T # {}
  PROVE  \E x \in T : \A y \in T : y <= x
  <1> DEFINE B == {m \in 0 .. n : \A y \in T : y <= m}
  <1>1. B \in SUBSET Nat /\ n \in B
    OBVIOUS
  <1>2. PICK x \in B : \A m \in B : x <= m
    <2> HIDE DEF B
    <2>1. QED
      BY <1>1, LeastNumber
  <1>3. x \in 0 .. n /\ \A y \in T : y <= x
    OBVIOUS
  <1>4. x \in T
    <2> SUFFICES ASSUME x \notin T PROVE FALSE
      OBVIOUS
    <2>1. PICK y \in T : TRUE
      OBVIOUS
    <2>2. x # 0
      BY <1>3, <2>1
    <2>3. x - 1 \in B
      BY <1>3, <2>2
    <2>4. QED
      BY <1>2, <1>3, <2>3
  <1>5. QED
    BY <1>3, <1>4

-----------------------------------------------------------------------------
(* The WAL storage engine.                                                 *)

(* What the first n operations of a sequence leave of key k. *)
About(a, n, k) == {i \in 1 .. n : a[i].key = k}
Effect(a, n, k) ==
  IF About(a, n, k) = {} THEN Absent
  ELSE a[CHOOSE i \in About(a, n, k) : \A j \in About(a, n, k) : j <= i].val

(* The last operation about a key decides. *)
LEMMA LastDecides ==
  ASSUME NEW a, NEW n \in Nat, NEW k, NEW i \in About(a, n, k),
         \A j \in About(a, n, k) : j <= i
  PROVE  Effect(a, n, k) = a[i].val
  <1> DEFINE A == About(a, n, k)
             c == CHOOSE x \in A : \A j \in A : j <= x
  <1>1. A # {} /\ i \in 1 .. n
    BY DEF About
  <1>2. c \in A /\ \A j \in A : j <= c
    OBVIOUS
  <1>3. c \in 1 .. n
    BY <1>2 DEF About
  <1>4. c <= i /\ i <= c
    BY <1>2
  <1>5. c = i
    BY <1>1, <1>3, <1>4
  <1>6. QED
    BY <1>1, <1>5 DEF Effect

(* One more operation. *)
LEMMA EffectNext ==
  ASSUME NEW a, NEW n \in Nat, NEW k
  PROVE  Effect(a, n + 1, k) = IF a[n + 1].key = k THEN a[n + 1].val
                               ELSE Effect(a, n, k)
  <1>1. CASE a[n + 1].key = k
    <2>1. n + 1 \in About(a, n + 1, k) /\ \A j \in About(a, n + 1, k) : j <= n + 1
      BY <1>1 DEF About
    <2>2. QED
      BY <1>1, <2>1, LastDecides
  <1>2. CASE a[n + 1].key # k
    <2>1. About(a, n + 1, k) = About(a, n, k)
      BY <1>2 DEF About
    <2>2. CASE About(a, n, k) = {}
      BY <1>2, <2>1, <2>2 DEF Effect
    <2>3. CASE About(a, n, k) # {}
      <3>1. About(a, n, k) \in SUBSET (1 .. n)
        BY DEF About
      <3>2. PICK i \in About(a, n, k) : \A j \in About(a, n, k) : j <= i
        BY <2>3, <3>1, GreatestNumber
      <3>3. Effect(a, n, k) = a[i].val
        BY <3>2, LastDecides
      <3>4. n + 1 \in Nat
        OBVIOUS
      <3>5. Effect(a, n + 1, k) = a[i].val
        BY <2>1, <3>2, <3>4, LastDecides
      <3>6. QED
        BY <1>2, <3>3, <3>5
    <2>4. QED
      BY <2>2, <2>3
  <1>3. QED
    BY <1>1, <1>2

(* Only the first n operations matter. *)
LEMMA EffectSame ==
  ASSUME NEW a, NEW b, NEW n \in Nat, NEW k, \A i \in 1 .. n : a[i] = b[i]
  PROVE  Effect(a, n, k) = Effect(b, n, k)
  <1>1. About(a, n, k) = About(b, n, k)
    BY DEF About
  <1>2. CASE About(a, n, k) = {}
    BY <1>1, <1>2 DEF Effect
  <1>3. CASE About(a, n, k) # {}
    <2>1. About(a, n, k) \in SUBSET (1 .. n)
      BY DEF About
    <2>2. PICK i \in About(a, n, k) : \A j \in About(a, n, k) : j <= i
      BY <1>3, <2>1, GreatestNumber
    <2>3. Effect(a, n, k) = a[i].val
      BY <2>2, LastDecides
    <2>4. Effect(b, n, k) = b[i].val
      BY <1>1, <2>2, LastDecides
    <2>5. QED
      BY <2>1, <2>3, <2>4
  <1>4. QED
    BY <1>2, <1>3

Values == Vals \cup {Absent}
Half == [seq : Nat, op : Ops, part : {1, 2}]

WalTypes ==
  /\ file \in Seq(Half) /\ synced \in 0 .. Len(file)
  /\ fd \in {"open", "closed"} /\ index \in [Keys -> Values]
  /\ current_seq \in Nat /\ shown \in Seq(Ops) /\ kept \in 0 .. Len(shown)
  /\ torn \in BOOLEAN /\ durable \in Nat
  /\ walBudget \in [writes : Nat, losses : Nat]

(* The i-th block of a file is whole and holds an operation.               *)
OpBlock(f, i, op) ==
  /\ 2 * i <= Len(f) /\ f[2 * i - 1].part = 1 /\ f[2 * i - 1].op = op
  /\ f[2 * i] = [seq |-> f[2 * i - 1].seq, op |-> op, part |-> 2]

(* The halves behind the kept blocks: none, or the first half of a torn    *)
(* block, followed by nothing or the first half of another.                *)
TornAt(f, n) ==
  /\ Len(f) > 2 * n /\ f[2 * n + 1].part = 1
  /\ Len(f) > 2 * n + 1 => f[2 * n + 2].part = 1

Blocks ==
  /\ \A i \in 1 .. kept : OpBlock(file, i, shown[i])
  /\ IF torn THEN TornAt(file, kept) ELSE Len(file) = 2 * kept

Durability == 2 * durable <= synced /\ durable <= kept

(* An open engine shows what it recovered and has acknowledged since, and  *)
(* as long as no block is torn all of it is in the file.                   *)
Shown ==
  fd = "open" => /\ index = [k \in Keys |-> Effect(shown, Len(shown), k)]
                 /\ ~torn => Len(shown) = kept

WalInv == WalTypes /\ Blocks /\ Durability /\ Shown

(* The two halves that recover() reads as its i-th block. *)
LEMMA BlockRead ==
  ASSUME NEW f \in Seq(Half), NEW i \in Nat \ {0}, 2 * i <= Len(f)
  PROVE  LET b == SubSeq(f, 2 * i - 1, 2 * i) IN
         /\ Len(b) = 2 /\ b[1] = f[2 * i - 1] /\ b[2] = f[2 * i]
         /\ b[1] \in Half /\ b[2] \in Half /\ b \in Seq(Half)
  <1>1. 2 * i - 1 \in 1 .. Len(f) /\ 2 * i \in 1 .. Len(f)
    OBVIOUS
  <1>2. SubSeq(f, 2 * i - 1, 2 * i) \in Seq(Half)
    BY <1>1
  <1> DEFINE m == 2 * i - 1
  <1>3. m \in Nat /\ m + 1 = 2 * i /\ m \in 1 .. Len(f)
    BY <1>1
  <1> HIDE DEF m
  <1>4. LET b == SubSeq(f, m, m + 1) IN Len(b) = 2 /\ b[1] = f[m] /\ b[2] = f[m + 1]
    BY <1>1, <1>3
  <1>5. f[m] \in Half /\ f[m + 1] \in Half
    BY <1>1, <1>3
  <1>6. QED
    BY <1>2, <1>3, <1>4, <1>5 DEF m

(* A whole block is accepted. *)
LEMMA WholeBlockValid ==
  ASSUME NEW f \in Seq(Half), NEW i \in Nat \ {0}, NEW op \in Ops, OpBlock(f, i, op)
  PROVE  LET b == SubSeq(f, 2 * i - 1, 2 * i) IN
         Valid(b) /\ b[1].op = op /\ b[1].seq \in Nat
  <1> DEFINE b == SubSeq(f, 2 * i - 1, 2 * i)
  <1>1. 2 * i <= Len(f) /\ f[2 * i - 1].part = 1 /\ f[2 * i - 1].op = op
        /\ f[2 * i] = [seq |-> f[2 * i - 1].seq, op |-> op, part |-> 2]
    BY DEF OpBlock
  <1>2. /\ Len(b) = 2 /\ b[1] = f[2 * i - 1] /\ b[2] = f[2 * i]
        /\ b[1] \in Half /\ b[2] \in Half /\ b \in Seq(Half)
    BY <1>1, BlockRead
  <1> HIDE DEF b
  <1>3. b[1] = [seq |-> b[1].seq, op |-> op, part |-> 1]
    BY <1>1, <1>2 DEF Half
  <1>4. b[2] = [seq |-> b[1].seq, op |-> op, part |-> 2]
    BY <1>1, <1>2
  <1>5. b = <<b[1], b[2]>>
    BY <1>2
  <1>6. Valid(b)
    BY <1>1, <1>2, <1>3, <1>4, <1>5 DEF Valid, WalBlock
  <1>7. QED
    BY <1>1, <1>2, <1>6 DEF b, Half

(* A torn block is not, with whatever half follows. *)
LEMMA TornBlockInvalid ==
  ASSUME NEW f \in Seq(Half), NEW n \in Nat, TornAt(f, n), 2 * (n + 1) <= Len(f)
  PROVE  ~Valid(SubSeq(f, 2 * (n + 1) - 1, 2 * (n + 1)))
  <1> DEFINE i == n + 1
             b == SubSeq(f, 2 * i - 1, 2 * i)
  <1>1. i \in Nat \ {0} /\ 2 * i <= Len(f) /\ 2 * i = 2 * n + 2 /\ Len(f) \in Nat
    OBVIOUS
  <1>2. f[2 * i].part = 1
    BY <1>1 DEF TornAt
  <1>3. b[2] = f[2 * i]
    BY <1>1, BlockRead
  <1>4. ASSUME Valid(b)
        PROVE  FALSE
    <2> HIDE DEF b
    <2>1. b[2] = [seq |-> b[1].seq, op |-> b[1].op, part |-> 2]
      BY <1>4 DEF Valid, WalBlock
    <2>2. b[2].part = 2
      BY <2>1
    <2>3. QED
      BY <1>2, <1>3, <2>2
  <1>5. QED
    BY <1>4

(* recover() rebuilds the effect of the operations it keeps. *)
LEMMA Recovery ==
  ASSUME WalTypes, Blocks
  PROVE  /\ recover.index = [k \in Keys |-> Effect(shown, kept, k)]
         /\ recover.seq \in Nat
  <1> DEFINE n == Len(file) \div 2
             block(i) == SubSeq(file, 2 * i - 1, 2 * i)
             apply(s, b) ==
               IF ~s.good \/ ~Valid(b) THEN [s EXCEPT !.good = FALSE]
               ELSE [index |-> [s.index EXCEPT ![b[1].op.key] = b[1].op.val],
                     seq |-> IF b[1].seq > s.seq THEN b[1].seq ELSE s.seq, good |-> TRUE]
             start == [index |-> NoIndex, seq |-> 0, good |-> TRUE]
             run(f) == [i \in 0 .. n |-> IF i = 0 THEN start ELSE apply(f[i - 1], block(i))]
             at == CHOOSE f : f = run(f)
             S == [index : [Keys -> Values], seq : Nat, good : BOOLEAN]
  <1>1. Len(file) \in Nat /\ file \in Seq(Half)
    BY DEF WalTypes
  <1>2. n \in Nat /\ 2 * n <= Len(file) /\ Len(file) <= 2 * n + 1
    BY <1>1
  <1>3. \A i \in 1 .. n : i \in Nat \ {0} /\ 2 * i <= Len(file)
    BY <1>1, <1>2
  <1> HIDE DEF n
  <1>4. \A i \in 1 .. n : block(i)[1] \in Half
    BY <1>1, <1>3, BlockRead
  <1>5. start \in S
    BY DEF NoIndex, Values
  <1>6. ASSUME NEW s \in S, NEW i \in 1 .. n
        PROVE  apply(s, block(i)) \in S
    <2>1. block(i)[1] \in Half
      BY <1>4
    <2> HIDE DEF block
    <2>2. /\ block(i)[1].seq \in Nat /\ block(i)[1].op.key \in Keys
          /\ block(i)[1].op.val \in Values
      BY <2>1 DEF Half, Ops, Values
    <2>3. QED
      BY <2>2
  <1> HIDE DEF start, S
  <1> DEFINE step == [i \in 1 .. n |-> [s \in S |-> apply(s, block(i))]]
  <1>7. step \in [1 .. n -> [S -> S]]
    BY <1>6
  <1>8. PICK g : States(g, n, S, start, step)
    <2> HIDE DEF step
    <2>1. QED
      BY <1>2, <1>5, <1>7, LoopStates
  <1> HIDE DEF apply, block
  <1>9. g = run(g)
    <2> SUFFICES ASSUME NEW i \in 0 .. n
                 PROVE  g[i] = IF i = 0 THEN start ELSE apply(g[i - 1], block(i))
      BY <1>8 DEF States
    <2>1. CASE i = 0
      BY <1>8, <2>1 DEF States
    <2>2. CASE i # 0
      <3>1. i \in 1 .. n /\ i - 1 \in 0 .. n
        BY <1>2, <2>2
      <3>2. g[i] = step[i][g[i - 1]] /\ g[i - 1] \in S
        BY <1>8, <3>1 DEF States
      <3>3. QED
        BY <2>2, <3>1, <3>2
    <2>3. QED
      BY <2>1, <2>2
  <1>10. at = run(at)
    BY <1>9
  <1> HIDE DEF at
  <1>11. /\ at[0] = start
         /\ \A i \in 1 .. n : at[i] = apply(at[i - 1], block(i))
    BY <1>2, <1>10
  <1> DEFINE upto(i) == IF i <= kept THEN i ELSE kept
             Good(i) == /\ at[i] \in S
                        /\ at[i].index = [k \in Keys |-> Effect(shown, upto(i), k)]
                        /\ at[i].good <=> i <= kept
             T == {i \in 0 .. n : ~Good(i)}
  <1>12. kept \in Nat /\ kept <= n /\ \A i \in 1 .. kept : shown[i] \in Ops
    <2>1. kept \in Nat /\ \A i \in 1 .. kept : shown[i] \in Ops
      BY DEF WalTypes
    <2>2. torn \in BOOLEAN /\ Len(file) >= 2 * kept
      BY <1>1, <2>1 DEF WalTypes, Blocks, TornAt
    <2>3. QED
      BY <1>1, <1>2, <2>1, <2>2
  <1>13. Good(0)
    <2>1. at[0] = [index |-> NoIndex, seq |-> 0, good |-> TRUE] /\ at[0] \in S
      BY <1>5, <1>11 DEF start
    <2>2. upto(0) = 0 /\ 0 <= kept
      BY <1>12
    <2>3. \A k \in Keys : Effect(shown, 0, k) = Absent
      BY DEF Effect, About
    <2>4. QED
      BY <2>1, <2>2, <2>3 DEF NoIndex
  <1>14. ASSUME NEW i \in 1 .. n, Good(i - 1)
         PROVE  Good(i)
    <2>1. at[i] = apply(at[i - 1], block(i))
      BY <1>11
    <2>2. at[i] \in S
      BY <1>6, <1>14, <2>1
    <2>3. CASE i <= kept
      <3>1. i \in 1 .. kept /\ i - 1 <= kept /\ upto(i) = i /\ upto(i - 1) = i - 1
        BY <1>2, <1>12, <2>3
      <3>2. OpBlock(file, i, shown[i]) /\ shown[i] \in Ops
        BY <1>12, <3>1 DEF Blocks
      <3>3. Valid(block(i)) /\ block(i)[1].op = shown[i] /\ block(i)[1].seq \in Nat
        BY <1>1, <1>3, <3>2, WholeBlockValid DEF block
      <3>4. at[i - 1].good /\ at[i - 1] \in S
        BY <1>14, <3>1
      <3>5. /\ at[i].index = [at[i - 1].index EXCEPT ![shown[i].key] = shown[i].val]
            /\ at[i].good = TRUE
        BY <2>1, <3>3, <3>4 DEF apply
      <3>6. at[i - 1].index = [k \in Keys |-> Effect(shown, i - 1, k)]
        BY <1>14, <3>1
      <3>7. \A k \in Keys : Effect(shown, i, k) =
              IF shown[i].key = k THEN shown[i].val ELSE Effect(shown, i - 1, k)
        <4>1. i - 1 \in Nat /\ (i - 1) + 1 = i
          BY <1>2
        <4>2. QED
          BY <4>1, EffectNext
      <3>8. at[i].index = [k \in Keys |-> Effect(shown, i, k)]
        BY <3>2, <3>5, <3>6, <3>7
      <3>9. QED
        BY <2>2, <2>3, <3>1, <3>5, <3>8
    <2>4. CASE ~(i <= kept)
      <3>1. upto(i) = kept /\ upto(i - 1) = kept
        BY <1>2, <1>12, <2>4
      <3>2. at[i] = [at[i - 1] EXCEPT !.good = FALSE]
        <4>1. CASE i - 1 <= kept
          <5>1. i = kept + 1 /\ 2 * (kept + 1) <= Len(file)
            BY <1>2, <1>3, <1>12, <2>4, <4>1
          <5>2. TornAt(file, kept)
            BY <1>1, <1>12, <5>1 DEF Blocks
          <5>3. ~Valid(block(i))
            BY <1>1, <1>12, <5>1, <5>2, TornBlockInvalid DEF block
          <5>4. QED
            BY <2>1, <5>3 DEF apply
        <4>2. CASE ~(i - 1 <= kept)
          <5>1. ~at[i - 1].good
            BY <1>14, <4>2
          <5>2. QED
            BY <2>1, <5>1 DEF apply
        <4>3. QED
          BY <4>1, <4>2
      <3>3. at[i - 1] \in S
        BY <1>14
      <3>4. at[i].index = at[i - 1].index /\ at[i].good = FALSE
        BY <3>2, <3>3 DEF S
      <3>5. QED
        BY <1>14, <2>2, <2>4, <3>1, <3>4
    <2>5. QED
      BY <2>3, <2>4
  <1> HIDE DEF Good
  <1>15. T = {}
    <2> SUFFICES ASSUME T # {} PROVE FALSE
      OBVIOUS
    <2>1. T \in SUBSET Nat
      BY <1>2
    <2>2. PICK i \in T : \A j \in T : i <= j
      BY <2>1, LeastNumber
    <2>3. i \in 0 .. n /\ ~Good(i) /\ i # 0
      BY <1>13
    <2>4. i \in 1 .. n /\ i - 1 \in 0 .. n /\ ~(i <= i - 1)
      BY <1>2, <2>3
    <2>5. Good(i - 1)
      BY <2>2, <2>4
    <2>6. QED
      BY <1>14, <2>3, <2>4, <2>5
  <1>16. Good(n)
    BY <1>2, <1>15
  <1>17. at[n].index = [k \in Keys |-> Effect(shown, kept, k)] /\ at[n].seq \in Nat
    <2>1. upto(n) = kept
      BY <1>2, <1>12
    <2>2. QED
      BY <1>16, <2>1 DEF Good, S
  <1>18. recover = at[n]
    BY DEF recover, at, n, start, apply, block
  <1>19. QED
    BY <1>17, <1>18

(* Numbers about the file that several steps use. *)
LEMMA WalNumbers ==
  ASSUME WalInv
  PROVE  /\ Len(file) \in Nat /\ Len(shown) \in Nat /\ kept \in Nat /\ durable \in Nat
         /\ kept <= Len(shown) /\ 2 * kept <= Len(file) /\ synced \in Nat
         /\ synced <= Len(file) /\ 2 * durable <= synced /\ durable <= kept
         /\ file \in Seq(Half) /\ shown \in Seq(Ops) /\ torn \in BOOLEAN
  <1>1. /\ file \in Seq(Half) /\ shown \in Seq(Ops) /\ torn \in BOOLEAN
        /\ durable \in Nat /\ synced \in 0 .. Len(file) /\ kept \in 0 .. Len(shown)
    BY DEF WalInv, WalTypes
  <1>2. Len(file) \in Nat /\ Len(shown) \in Nat
    BY <1>1
  <1>3. IF torn THEN Len(file) > 2 * kept ELSE Len(file) = 2 * kept
    BY DEF WalInv, Blocks, TornAt
  <1>4. 2 * durable <= synced /\ durable <= kept
    BY DEF WalInv, Durability
  <1>5. QED
    BY <1>1, <1>2, <1>3, <1>4

LEMMA WalInitStep ==
  ASSUME WalInit
  PROVE  WalInv
  <1>1. << >> \in Seq(Half) /\ << >> \in Seq(Ops)
    OBVIOUS
  <1>2. WalTypes
    <2>1. file \in Seq(Half) /\ shown \in Seq(Ops)
      BY <1>1 DEF WalInit
    <2>2. Len(file) = 0 /\ Len(shown) = 0
      BY DEF WalInit
    <2>3. synced \in 0 .. Len(file) /\ kept \in 0 .. Len(shown)
      BY <2>2 DEF WalInit
    <2>4. index \in [Keys -> Values]
      BY DEF WalInit, NoIndex, Values
    <2>5. QED
      BY <2>1, <2>3, <2>4 DEF WalInit, WalTypes
  <1>3. Blocks
    BY DEF WalInit, Blocks
  <1>4. QED
    BY <1>2, <1>3 DEF WalInit, WalInv, Durability, Shown

LEMMA WalOpenStep ==
  ASSUME WalInv, WalOpen
  PROVE  WalInv'
  <1>1. /\ fd' = "open" /\ index' = recover.index /\ current_seq' = recover.seq
        /\ shown' = SubSeq(shown, 1, kept) /\ file' = file /\ synced' = synced
        /\ kept' = kept /\ torn' = torn /\ durable' = durable
        /\ walBudget' = walBudget
    BY DEF WalOpen
  <1>2. /\ shown \in Seq(Ops) /\ kept \in Nat /\ kept <= Len(shown) /\ Len(shown) \in Nat
    BY WalNumbers
  <1>3. /\ shown' \in Seq(Ops) /\ Len(shown') = kept
        /\ \A i \in 1 .. kept : shown'[i] = shown[i]
    BY <1>1, <1>2
  <1>4. /\ recover.index = [k \in Keys |-> Effect(shown, kept, k)]
        /\ recover.seq \in Nat
    BY Recovery DEF WalInv
  <1>5. recover.index \in [Keys -> Values]
    <2>1. ASSUME NEW k
          PROVE  Effect(shown, kept, k) \in Values
      <3>1. CASE About(shown, kept, k) = {}
        BY <3>1 DEF Effect, Values
      <3>2. CASE About(shown, kept, k) # {}
        <4>1. About(shown, kept, k) \in SUBSET (1 .. kept)
          BY DEF About
        <4>2. PICK i \in About(shown, kept, k) : \A j \in About(shown, kept, k) : j <= i
          BY <1>2, <3>2, <4>1, GreatestNumber
        <4>3. Effect(shown, kept, k) = shown[i].val
          BY <1>2, <4>2, LastDecides
        <4>4. i \in 1 .. Len(shown)
          BY <1>2, <4>1
        <4>5. shown[i] \in Ops
          BY <1>2, <4>4
        <4>6. QED
          BY <4>3, <4>5 DEF Ops, Values
      <3>3. QED
        BY <3>1, <3>2
    <2>2. QED
      BY <1>4, <2>1
  <1>6. WalTypes'
    BY <1>1, <1>2, <1>3, <1>4, <1>5 DEF WalInv, WalTypes
  <1>7. Blocks'
    BY <1>1, <1>3 DEF WalInv, Blocks
  <1>8. Shown'
    <2>1. \A k \in Keys : Effect(shown', kept, k) = Effect(shown, kept, k)
      BY <1>2, <1>3, EffectSame
    <2>2. QED
      BY <1>1, <1>3, <1>4, <2>1 DEF Shown
  <1>9. QED
    BY <1>1, <1>6, <1>7, <1>8 DEF WalInv, Durability

LEMMA WalCloseStep ==
  ASSUME WalInv, WalClose
  PROVE  WalInv'
  <1>1. /\ fd' = "closed" /\ index' = NoIndex /\ synced' = Len(file) /\ durable' = kept
        /\ file' = file /\ current_seq' = current_seq /\ shown' = shown /\ kept' = kept
        /\ torn' = torn /\ walBudget' = walBudget
    BY DEF WalClose
  <1>2. WalTypes'
    BY <1>1, WalNumbers DEF WalInv, WalTypes, NoIndex, Values
  <1>3. Blocks'
    BY <1>1 DEF WalInv, Blocks
  <1>4. Durability' /\ Shown'
    BY <1>1, WalNumbers DEF Durability, Shown
  <1>5. QED
    BY <1>2, <1>3, <1>4 DEF WalInv

LEMMA WalKilledStep ==
  ASSUME WalInv, WalKilled
  PROVE  WalInv'
  <1>1. /\ fd' = "closed" /\ index' = NoIndex /\ synced' = synced /\ durable' = durable
        /\ file' = file /\ current_seq' = current_seq /\ shown' = shown /\ kept' = kept
        /\ torn' = torn /\ walBudget' = walBudget
    BY DEF WalKilled
  <1>2. WalTypes'
    BY <1>1 DEF WalInv, WalTypes, NoIndex, Values
  <1>3. Blocks'
    BY <1>1 DEF WalInv, Blocks
  <1>4. Durability' /\ Shown'
    BY <1>1 DEF WalInv, Durability, Shown
  <1>5. QED
    BY <1>2, <1>3, <1>4 DEF WalInv

(* A longer file keeps its blocks; so does a shorter one those in front of *)
(* the cut.                                                                *)
LEMMA BlockStays ==
  ASSUME NEW f, NEW g, NEW i \in Nat \ {0}, NEW op, OpBlock(f, i, op),
         2 * i <= Len(g), \A j \in 1 .. 2 * i : g[j] = f[j]
  PROVE  OpBlock(g, i, op)
  <1>1. 2 * i - 1 \in 1 .. 2 * i /\ 2 * i \in 1 .. 2 * i
    OBVIOUS
  <1>2. QED
    BY <1>1 DEF OpBlock

LEMMA WalPowerLossStep ==
  ASSUME WalInv, WalPowerLoss
  PROVE  WalInv'
  <1>1. PICK n \in synced .. Len(file) :
          /\ file' = SubSeq(file, 1, n)
          /\ kept' = IF n \div 2 < kept THEN n \div 2 ELSE kept
          /\ torn' = IF n > 2 * kept THEN torn \/ n % 2 = 1 ELSE n % 2 = 1
    BY DEF WalPowerLoss
  <1>2. /\ walBudget' = [walBudget EXCEPT !.losses = @ + 1]
        /\ fd' = "closed" /\ index' = NoIndex /\ synced' = synced
        /\ current_seq' = current_seq /\ shown' = shown /\ durable' = durable
    BY DEF WalPowerLoss
  <1>3. n \in Nat /\ synced <= n /\ n <= Len(file)
    BY <1>1, WalNumbers
  <1>4. /\ n \div 2 \in Nat /\ 2 * (n \div 2) <= n /\ n <= 2 * (n \div 2) + 1
        /\ n % 2 \in {0, 1} /\ n = 2 * (n \div 2) + (n % 2)
    BY <1>3
  <1>5. /\ file' \in Seq(Half) /\ Len(file') = n
        /\ \A j \in 1 .. n : file'[j] = file[j]
    BY <1>1, <1>3, WalNumbers, SMTT(30)
  <1>6. kept' \in Nat /\ kept' <= kept /\ 2 * kept' <= n
    BY <1>1, <1>3, <1>4, WalNumbers
  <1>7. WalTypes'
    <2>1. walBudget' \in [writes : Nat, losses : Nat]
      <3>1. walBudget \in [writes : Nat, losses : Nat]
        BY DEF WalInv, WalTypes
      <3>2. QED
        BY <1>2, <3>1
    <2>2. synced' \in 0 .. Len(file') /\ kept' \in 0 .. Len(shown')
      BY <1>2, <1>3, <1>5, <1>6, WalNumbers
    <2>3. torn' \in BOOLEAN
      BY <1>1, WalNumbers
    <2>4. QED
      BY <1>2, <1>5, <2>1, <2>2, <2>3 DEF WalInv, WalTypes, NoIndex, Values
  <1>8. ASSUME NEW i \in 1 .. kept'
        PROVE  OpBlock(file', i, shown'[i])
    <2>1. i \in 1 .. kept /\ i \in Nat \ {0} /\ 2 * i <= n
      <3>1. kept \in Nat
        BY WalNumbers
      <3> DEFINE m == kept'
      <3>2. i \in 1 .. m /\ m \in Nat /\ m <= kept /\ 2 * m <= n
        BY <1>6
      <3> HIDE DEF m
      <3>3. i \in 1 .. kept
        BY <3>1, <3>2
      <3>4. 2 * i <= n /\ i \in Nat \ {0}
        BY <1>3, <3>2
      <3>5. QED
        BY <3>3, <3>4
    <2>2. OpBlock(file, i, shown[i])
      BY <2>1 DEF WalInv, Blocks
    <2>3. \A j \in 1 .. 2 * i : file'[j] = file[j]
      BY <1>3, <1>5, <2>1
    <2>4. QED
      BY <1>2, <1>5, <2>1, <2>2, <2>3, BlockStays
  <1>9. IF torn' THEN TornAt(file', kept') ELSE Len(file') = 2 * kept'
    <2>1. CASE n > 2 * kept
      <3>1. torn /\ TornAt(file, kept)
        BY <1>3, <2>1, WalNumbers DEF WalInv, Blocks
      <3>2. torn' /\ kept' = kept
        <4>1. kept \in Nat /\ torn \in BOOLEAN
          BY WalNumbers
        <4>2. ~(n \div 2 < kept)
          BY <1>3, <1>4, <2>1, <4>1
        <4>3. QED
          BY <1>1, <2>1, <3>1, <4>2
      <3>3. /\ 2 * kept + 1 \in 1 .. n
            /\ n > 2 * kept + 1 => 2 * kept + 2 \in 1 .. n /\ Len(file) > 2 * kept + 1
        BY <1>3, <2>1, WalNumbers
      <3>4. TornAt(file', kept)
        BY <1>5, <2>1, <3>1, <3>3 DEF TornAt
      <3>5. QED
        BY <3>2, <3>4
    <2>2. CASE ~(n > 2 * kept) /\ n % 2 = 1
      <3>1. torn' /\ kept' = n \div 2 /\ n = 2 * kept' + 1 /\ kept' + 1 \in 1 .. kept
        <4>1. kept \in Nat
          BY WalNumbers
        <4>2. torn'
          BY <1>1, <2>2
        <4>3. n \div 2 < kept /\ n = 2 * (n \div 2) + 1
          BY <1>3, <1>4, <2>2, <4>1
        <4>4. kept' = n \div 2
          BY <1>1, <4>3
        <4>5. QED
          BY <1>4, <4>1, <4>2, <4>3, <4>4
      <3>2. OpBlock(file, kept' + 1, shown[kept' + 1])
        BY <3>1 DEF WalInv, Blocks
      <3>3. file[2 * (kept' + 1) - 1].part = 1
        BY <3>2 DEF OpBlock
      <3>4. 2 * (kept' + 1) - 1 = 2 * kept' + 1 /\ 2 * kept' + 1 \in 1 .. n
            /\ ~(n > 2 * kept' + 1) /\ n > 2 * kept'
        BY <1>3, <1>6, <3>1
      <3>5. TornAt(file', kept')
        BY <1>5, <3>3, <3>4 DEF TornAt
      <3>6. QED
        BY <3>1, <3>5
    <2>3. CASE ~(n > 2 * kept) /\ n % 2 # 1
      <3>1. ~torn' /\ n = 2 * (n \div 2) /\ kept' = n \div 2
        <4>1. kept \in Nat
          BY WalNumbers
        <4>2. ~torn'
          BY <1>1, <2>3
        <4>3. n \div 2 <= kept /\ n = 2 * (n \div 2)
          BY <1>3, <1>4, <2>3, <4>1
        <4>4. kept' = n \div 2
          BY <1>1, <1>4, <4>1, <4>3
        <4>5. QED
          BY <4>2, <4>3, <4>4
      <3>2. QED
        BY <1>5, <3>1
    <2>4. QED
      BY <2>1, <2>2, <2>3
  <1>10. Blocks'
    BY <1>8, <1>9 DEF Blocks
  <1>11. Durability'
    <2>1. durable <= n \div 2 /\ durable <= kept
      BY <1>3, <1>4, WalNumbers
    <2>2. QED
      BY <1>1, <1>2, <2>1, WalNumbers DEF Durability
  <1>12. Shown'
    BY <1>2 DEF Shown
  <1>13. QED
    BY <1>7, <1>10, <1>11, <1>12 DEF WalInv

(* Two elements are put behind a sequence. *)
LEMMA TwoMore ==
  ASSUME NEW S, NEW f \in Seq(S), NEW b \in Seq(S), Len(b) = 2
  PROVE  /\ f \o b \in Seq(S) /\ Len(f \o b) = Len(f) + 2
         /\ (f \o b)[Len(f) + 1] = b[1] /\ (f \o b)[Len(f) + 2] = b[2]
         /\ \A j \in 1 .. Len(f) : (f \o b)[j] = f[j]
  <1>1. Len(f) \in Nat
    OBVIOUS
  <1> DEFINE c == f \o b
  <1>2. /\ c \in Seq(S) /\ Len(c) = Len(f) + Len(b)
        /\ \A j \in 1 .. Len(f) + Len(b) :
             c[j] = IF j <= Len(f) THEN f[j] ELSE b[j - Len(f)]
    BY ConcatProperties, Zenon
  <1> HIDE DEF c
  <1>3. (Len(f) + 1) - Len(f) = 1 /\ (Len(f) + 2) - Len(f) = 2
    BY <1>1
  <1>4. /\ c \in Seq(S) /\ Len(c) = Len(f) + 2
        /\ c[Len(f) + 1] = b[1] /\ c[Len(f) + 2] = b[2]
        /\ \A j \in 1 .. Len(f) : c[j] = f[j]
    BY <1>1, <1>2, <1>3
  <1>5. QED
    BY <1>4 DEF c

(* A write puts the first half of a block, or both, behind the file. *)
LEMMA WalWriteStep ==
  ASSUME WalInv, NEW op \in Ops, WalWrite(op)
  PROVE  WalInv'
  <1> DEFINE q == current_seq + 1
             b == WalBlock(q, op)
             n == Len(file)
  <1>1. /\ fd = "open" /\ walBudget' = [walBudget EXCEPT !.writes = @ + 1]
        /\ current_seq' = q /\ synced' = synced /\ fd' = fd /\ durable' = durable
    BY DEF WalWrite
  <1>2. /\ n \in Nat /\ Len(shown) \in Nat /\ kept \in Nat /\ kept <= Len(shown)
        /\ 2 * kept <= n /\ synced \in Nat /\ synced <= n /\ torn \in BOOLEAN
        /\ 2 * durable <= synced /\ durable <= kept /\ durable \in Nat
        /\ file \in Seq(Half) /\ shown \in Seq(Ops)
    BY WalNumbers
  <1>3. q \in Nat /\ walBudget' \in [writes : Nat, losses : Nat]
    <2>1. walBudget \in [writes : Nat, losses : Nat] /\ current_seq \in Nat
      BY DEF WalInv, WalTypes
    <2>2. QED
      BY <1>1, <2>1
  <1>4. /\ b = <<b[1], b[2]>> /\ b \in Seq(Half) /\ Len(b) = 2 /\ b[1] \in Half
        /\ b[1].part = 1 /\ b[1].op = op
        /\ b[2] = [seq |-> b[1].seq, op |-> op, part |-> 2]
    BY <1>3 DEF WalBlock, Half
  <1> HIDE DEF q, b
  <1>5. /\ \A i \in 1 .. kept : OpBlock(file, i, shown[i])
        /\ IF torn THEN TornAt(file, kept) ELSE n = 2 * kept
        /\ index = [k \in Keys |-> Effect(shown, Len(shown), k)]
        /\ ~torn => Len(shown) = kept
        /\ index \in [Keys -> Values]
    BY <1>1 DEF WalInv, WalTypes, Blocks, Shown
  <1>6. CASE /\ file' = file \o b
             /\ index' = [index EXCEPT ![op.key] = op.val]
             /\ shown' = Append(shown, op)
             /\ kept' = IF torn THEN kept ELSE kept + 1
             /\ torn' = torn
    <2>1. /\ file' \in Seq(Half) /\ Len(file') = n + 2
          /\ file'[n + 1] = b[1] /\ file'[n + 2] = b[2]
          /\ \A j \in 1 .. n : file'[j] = file[j]
      BY <1>2, <1>4, <1>6, TwoMore, SMTT(30)
    <2>2. /\ shown' \in Seq(Ops) /\ Len(shown') = Len(shown) + 1
          /\ shown'[Len(shown) + 1] = op
          /\ \A i \in 1 .. Len(shown) : shown'[i] = shown[i]
      BY <1>2, <1>6
    <2>3. ASSUME NEW i \in 1 .. kept
          PROVE  OpBlock(file', i, shown'[i])
      <3>1. i \in Nat \ {0} /\ 2 * i <= n + 2 /\ i \in 1 .. Len(shown)
        BY <1>2
      <3>2. \A j \in 1 .. 2 * i : j \in 1 .. n
        BY <1>2
      <3>3. QED
        BY <1>5, <2>1, <2>2, <3>1, <3>2, BlockStays
    <2>4. index' = [k \in Keys |-> Effect(shown', Len(shown'), k)]
          /\ index' \in [Keys -> Values]
      <3>1. op.key \in Keys /\ op.val \in Values
        BY DEF Ops, Values
      <3>2. ASSUME NEW k \in Keys
            PROVE  index'[k] = Effect(shown', Len(shown'), k)
        <4>1. Effect(shown', Len(shown) + 1, k) =
                IF op.key = k THEN op.val ELSE Effect(shown', Len(shown), k)
          BY <1>2, <2>2, EffectNext, ZenonT(30)
        <4>2. Effect(shown', Len(shown), k) = Effect(shown, Len(shown), k)
          BY <1>2, <2>2, EffectSame
        <4>3. index'[k] = IF op.key = k THEN op.val ELSE index[k]
          BY <1>5, <1>6
        <4>4. QED
          BY <1>5, <2>2, <4>1, <4>2, <4>3
      <3>3. index' \in [Keys -> Values]
        BY <1>5, <1>6, <3>1
      <3>4. QED
        BY <3>2, <3>3
    <2>5. CASE torn
      <3>1. kept' = kept /\ torn' = TRUE /\ TornAt(file, kept)
        BY <1>5, <1>6, <2>5
      <3>2. TornAt(file', kept)
        <4>1. n > 2 * kept /\ file[2 * kept + 1].part = 1
              /\ (n > 2 * kept + 1 => file[2 * kept + 2].part = 1)
          BY <3>1 DEF TornAt
        <4>2. 2 * kept + 1 \in 1 .. n /\ n + 2 > 2 * kept
          BY <1>2, <4>1
        <4>3. file'[2 * kept + 2].part = 1
          <5>1. CASE n > 2 * kept + 1
            <6>1. 2 * kept + 2 \in 1 .. n
              BY <1>2, <5>1
            <6>2. QED
              BY <2>1, <4>1, <5>1, <6>1
          <5>2. CASE ~(n > 2 * kept + 1)
            <6>1. 2 * kept + 2 = n + 1
              BY <1>2, <4>1, <5>2
            <6>2. QED
              BY <1>4, <2>1, <6>1
          <5>3. QED
            BY <5>1, <5>2
        <4>4. QED
          BY <2>1, <4>1, <4>2, <4>3 DEF TornAt
      <3>3. WalTypes'
        <4>1. synced' \in 0 .. Len(file') /\ kept' \in 0 .. Len(shown')
          BY <1>1, <1>2, <2>1, <2>2, <3>1
        <4>2. QED
          BY <1>1, <1>3, <2>1, <2>2, <2>4, <3>1, <4>1 DEF WalInv, WalTypes
      <3>4. Blocks'
        BY <2>3, <3>1, <3>2 DEF Blocks
      <3>5. Durability' /\ Shown'
        BY <1>1, <1>2, <2>4, <3>1 DEF Durability, Shown
      <3>6. QED
        BY <3>3, <3>4, <3>5 DEF WalInv
    <2>6. CASE ~torn
      <3>1. kept' = kept + 1 /\ torn' = FALSE /\ Len(shown) = kept /\ n = 2 * kept
        BY <1>5, <1>6, <2>6
      <3>2. 2 * (kept + 1) - 1 = n + 1 /\ 2 * (kept + 1) = n + 2
        BY <1>2, <3>1
      <3>3. OpBlock(file', kept + 1, shown'[kept + 1])
        <4>1. shown'[kept + 1] = op
          BY <2>2, <3>1
        <4>2. file'[2 * (kept + 1) - 1] = b[1] /\ file'[2 * (kept + 1)] = b[2]
              /\ 2 * (kept + 1) <= Len(file')
          BY <1>2, <2>1, <3>2
        <4>3. QED
          BY <1>4, <4>1, <4>2 DEF OpBlock
      <3>4. \A i \in 1 .. kept + 1 : i \in 1 .. kept \/ i = kept + 1
        BY <1>2
      <3>5. Blocks'
        <4>1. \A i \in 1 .. kept' : OpBlock(file', i, shown'[i])
          BY <2>3, <3>1, <3>3, <3>4
        <4>2. Len(file') = 2 * kept'
          BY <2>1, <3>1, <3>2
        <4>3. QED
          BY <3>1, <4>1, <4>2 DEF Blocks
      <3>6. WalTypes'
        <4>1. synced' \in 0 .. Len(file') /\ kept' \in 0 .. Len(shown')
          BY <1>1, <1>2, <2>1, <2>2, <3>1
        <4>2. QED
          BY <1>1, <1>3, <2>1, <2>2, <2>4, <3>1, <4>1 DEF WalInv, WalTypes
      <3>7. Durability' /\ Shown'
        <4>1. durable <= kept + 1
          BY <1>2
        <4>2. QED
          BY <1>1, <1>2, <2>2, <2>4, <3>1, <4>1 DEF Durability, Shown
      <3>8. QED
        BY <3>5, <3>6, <3>7 DEF WalInv
    <2>7. QED
      BY <1>2, <2>5, <2>6
  <1>7. CASE /\ file' = Append(file, b[1]) /\ torn' = TRUE
             /\ index' = index /\ shown' = shown /\ kept' = kept
    <2>1. /\ file' \in Seq(Half) /\ Len(file') = n + 1 /\ file'[n + 1] = b[1]
          /\ \A j \in 1 .. n : file'[j] = file[j]
      BY <1>2, <1>4, <1>7
    <2>2. ASSUME NEW i \in 1 .. kept
          PROVE  OpBlock(file', i, shown'[i])
      <3>1. i \in Nat \ {0} /\ 2 * i <= n + 1
        BY <1>2
      <3>2. \A j \in 1 .. 2 * i : j \in 1 .. n
        BY <1>2
      <3>3. QED
        <4>1. OpBlock(file, i, shown[i]) /\ shown'[i] = shown[i]
          BY <1>5, <1>7
        <4>2. \A j \in 1 .. 2 * i : file'[j] = file[j]
          BY <2>1, <3>2
        <4>3. 2 * i <= Len(file')
          BY <2>1, <3>1
        <4>4. OpBlock(file', i, shown[i])
          BY <3>1, <4>1, <4>2, <4>3, BlockStays
        <4>5. QED
          BY <4>1, <4>4
    <2>3. TornAt(file', kept)
      <3>1. CASE torn
        <4>1. n > 2 * kept /\ file[2 * kept + 1].part = 1
              /\ (n > 2 * kept + 1 => file[2 * kept + 2].part = 1)
          BY <1>5, <3>1 DEF TornAt
        <4>2. 2 * kept + 1 \in 1 .. n /\ n + 1 > 2 * kept
          BY <1>2, <4>1
        <4>3. file'[2 * kept + 2].part = 1
          <5>1. CASE n > 2 * kept + 1
            <6>1. 2 * kept + 2 \in 1 .. n
              BY <1>2, <5>1
            <6>2. QED
              BY <2>1, <4>1, <5>1, <6>1
          <5>2. CASE ~(n > 2 * kept + 1)
            <6>1. 2 * kept + 2 = n + 1
              BY <1>2, <4>1, <5>2
            <6>2. QED
              BY <1>4, <2>1, <6>1
          <5>3. QED
            BY <5>1, <5>2
        <4>4. QED
          BY <2>1, <4>1, <4>2, <4>3 DEF TornAt
      <3>2. CASE ~torn
        <4>1. n = 2 * kept
          BY <1>5, <3>2
        <4>2. QED
          BY <1>2, <1>4, <2>1, <4>1 DEF TornAt
      <3>3. QED
        BY <3>1, <3>2
    <2>4. WalTypes'
      <3>1. synced' \in 0 .. Len(file')
        BY <1>1, <1>2, <2>1
      <3>2. QED
        BY <1>1, <1>3, <1>7, <2>1, <3>1 DEF WalInv, WalTypes
    <2>5. Blocks'
      BY <1>7, <2>2, <2>3 DEF Blocks
    <2>6. Durability' /\ Shown'
      BY <1>1, <1>2, <1>5, <1>7 DEF Durability, Shown
    <2>7. QED
      BY <2>4, <2>5, <2>6 DEF WalInv
  <1>8. CASE UNCHANGED <<file, index, shown, kept, torn>>
    <2>1. WalTypes'
      BY <1>1, <1>3, <1>8 DEF WalInv, WalTypes
    <2>2. Blocks' /\ Durability' /\ Shown'
      BY <1>1, <1>8 DEF WalInv, Blocks, Durability, Shown
    <2>3. QED
      BY <2>1, <2>2 DEF WalInv
  <1>9. QED
    BY <1>6, <1>7, <1>8 DEF WalWrite, b, q

(***************************************************************************)
(* The WAL engine recovers all that its file holds in front of the first   *)
(* torn block and shows it together with what it acknowledged since, for   *)
(* all keys, values and any number of short writes, failed writes, kills   *)
(* and power failures: put, del, close and recover                         *)
(* (wal_storage_engine.hpp:67-163).                                        *)
(***************************************************************************)
THEOREM RecoversAcknowledged == WalSpec => []WalRecovers
  <1>1. WalInit => WalInv
    BY WalInitStep
  <1>2. WalInv /\ [WalNext]_walVars => WalInv'
    <2> SUFFICES ASSUME WalInv, [WalNext]_walVars PROVE WalInv'
      OBVIOUS
    <2>1. CASE WalNext
      BY <2>1, WalOpenStep, WalCloseStep, WalKilledStep, WalPowerLossStep, WalWriteStep
      DEF WalNext
    <2>2. CASE UNCHANGED walVars
      BY <2>2 DEF walVars, WalInv, WalTypes, Blocks, Durability, Shown
    <2>3. QED
      BY <2>1, <2>2
  <1>3. WalInv => WalRecovers
    <2> SUFFICES ASSUME WalInv PROVE WalRecovers
      OBVIOUS
    <2>1. DOMAIN shown = 1 .. Len(shown)
      BY DEF WalInv, WalTypes
    <2>2. kept >= durable
      BY WalNumbers
    <2>3. fd = "open" => index = [k \in Keys |-> Effect(shown, Len(shown), k)]
      BY DEF WalInv, Shown
    <2>4. QED
      BY <2>1, <2>2, <2>3 DEF WalRecovers, ReplayOf, Effect, About
  <1>4. QED
    BY <1>1, <1>2, <1>3, PTL DEF WalSpec

-----------------------------------------------------------------------------
(* The slotted page.                                                       *)

Slot == [offset : Nat, size : Nat, is_deleted : BOOLEAN]

(* The fields of a slot of the directory. *)
LEMMA SlotFields ==
  ASSUME NEW s \in Seq(Slot), NEW i \in 1 .. Len(s)
  PROVE  /\ s[i] \in Slot /\ s[i].size \in Nat /\ s[i].offset \in Nat
         /\ s[i].is_deleted \in BOOLEAN
  <1>1. s[i] \in Slot
    OBVIOUS
  <1>2. QED
    BY <1>1 DEF Slot

(* Facts about numbers that the steps below cite. *)
LEMMA SumOfParts ==
  ASSUME NEW x \in Nat, NEW y \in Nat, NEW c \in Nat, NEW d \in Nat, NEW e \in Nat,
         x = y - c + d
  PROVE  x + e = (y + e) - c + d
  OBVIOUS

LEMMA BelowEnd ==
  ASSUME NEW v \in Nat, NEW b \in Nat, NEW z \in Nat
  PROVE  /\ (v - b) - z = v - (b + z) /\ v - (b + z) \in Int
         /\ (v - (b + z)) + z = v - b
  OBVIOUS

LEMMA WithinBytes ==
  ASSUME NEW x \in Nat, NEW y \in Nat, NEW z \in Nat, NEW k \in 1 .. y, x + y <= z
  PROVE  x + k - 1 \in 0 .. z - 1
  OBVIOUS

LEMMA RoomTaken ==
  ASSUME NEW x \in Nat, NEW y \in Nat, NEW z \in Nat, NEW u \in Nat, NEW v \in Nat,
         x + u <= z, v <= u + y
  PROVE  (x - y) + v <= z
  OBVIOUS

(* SizeSums adds up the sizes, slot by slot. *)
LEMMA Sums ==
  ASSUME NEW s \in Seq(Slot)
  PROVE  /\ SizeSums(s) \in [0 .. Len(s) -> Nat] /\ SizeSums(s)[0] = 0
         /\ \A i \in 1 .. Len(s) : SizeSums(s)[i] = SizeSums(s)[i - 1] + s[i].size
  <1> DEFINE n == Len(s)
             run(f) == [i \in 0 .. n |-> IF i = 0 THEN 0 ELSE f[i - 1] + s[i].size]
             at == CHOOSE f : f = run(f)
             step == [i \in 1 .. n |-> [x \in Nat |-> x + s[i].size]]
  <1>1. n \in Nat /\ \A i \in 1 .. n : s[i].size \in Nat
    BY SlotFields
  <1>2. step \in [1 .. n -> [Nat -> Nat]]
    BY <1>1
  <1>3. PICK g : States(g, n, Nat, 0, step)
    <2> HIDE DEF step, n
    <2>1. QED
      BY <1>1, <1>2, LoopStates
  <1> HIDE DEF n
  <1>4. g = run(g)
    <2> SUFFICES ASSUME NEW i \in 0 .. n
                 PROVE  g[i] = IF i = 0 THEN 0 ELSE g[i - 1] + s[i].size
      BY <1>3 DEF States
    <2>1. CASE i = 0
      BY <1>3, <2>1 DEF States
    <2>2. CASE i # 0
      <3>1. i \in 1 .. n /\ i - 1 \in 0 .. n
        BY <1>1, <2>2
      <3>2. g[i] = step[i][g[i - 1]] /\ g[i - 1] \in Nat
        BY <1>3, <3>1 DEF States
      <3>3. QED
        BY <2>2, <3>1, <3>2
    <2>3. QED
      BY <2>1, <2>2
  <1>5. at = run(at)
    BY <1>4
  <1>6. SizeSums(s) = at
    BY DEF SizeSums, n
  <1> HIDE DEF at, step
  <1>7. at[0] = 0 /\ \A i \in 1 .. n : at[i] = at[i - 1] + s[i].size
    BY <1>1, <1>5
  <1>8. \A i \in 0 .. n : at[i] \in Nat
    <2> DEFINE T == {i \in 0 .. n : at[i] \notin Nat}
    <2> SUFFICES ASSUME T # {} PROVE FALSE
      OBVIOUS
    <2>1. T \in SUBSET Nat
      BY <1>1
    <2> HIDE DEF T
    <2>2. PICK i \in T : \A j \in T : i <= j
      BY <2>1, LeastNumber
    <2>3. i \in 0 .. n /\ at[i] \notin Nat
      BY DEF T
    <2>4. i \in 1 .. n /\ i - 1 \in 0 .. n /\ ~(i <= i - 1)
      BY <1>1, <1>7, <2>3
    <2>5. at[i - 1] \in Nat
      BY <2>2, <2>4 DEF T
    <2>6. QED
      BY <1>1, <1>7, <2>3, <2>4, <2>5
  <1>9. at \in [0 .. n -> Nat]
    BY <1>5, <1>8
  <1>10. QED
    BY <1>6, <1>7, <1>9 DEF n

(* The sums of two directories whose slots in front have the same sizes.   *)
LEMMA SumsAgree ==
  ASSUME NEW a \in Seq(Slot), NEW b \in Seq(Slot), NEW m \in Nat, m <= Len(a), m <= Len(b),
         \A i \in 1 .. m : a[i].size = b[i].size
  PROVE  SizeSums(a)[m] = SizeSums(b)[m]
  <1> DEFINE f == SizeSums(a)
             g == SizeSums(b)
             T == {i \in 0 .. m : f[i] # g[i]}
  <1>1. Len(a) \in Nat /\ Len(b) \in Nat
    OBVIOUS
  <1>2. f[0] = 0 /\ \A i \in 1 .. m : f[i] = f[i - 1] + a[i].size
    BY <1>1, Sums
  <1>3. g[0] = 0 /\ \A i \in 1 .. m : g[i] = g[i - 1] + b[i].size
    BY <1>1, Sums
  <1> HIDE DEF f, g
  <1>4. T = {}
    <2> SUFFICES ASSUME T # {} PROVE FALSE
      OBVIOUS
    <2>1. T \in SUBSET Nat
      OBVIOUS
    <2> HIDE DEF T
    <2>2. PICK i \in T : \A j \in T : i <= j
      BY <2>1, LeastNumber
    <2>3. i \in 0 .. m /\ f[i] # g[i]
      BY DEF T
    <2>4. i \in 1 .. m /\ i - 1 \in 0 .. m /\ ~(i <= i - 1)
      BY <1>2, <1>3, <2>3
    <2>5. f[i - 1] = g[i - 1]
      BY <2>2, <2>4 DEF T
    <2>6. QED
      BY <1>2, <1>3, <2>3, <2>4, <2>5
  <1>5. f[m] = g[m]
    BY <1>4
  <1>6. QED
    BY <1>5 DEF f, g

(* A slot with another size. *)
LEMMA SumsShift ==
  ASSUME NEW a \in Seq(Slot), NEW b \in Seq(Slot), Len(a) = Len(b), NEW t \in 1 .. Len(a),
         \A i \in 1 .. Len(a) : i # t => a[i].size = b[i].size
  PROVE  SizeSums(b)[Len(b)] = SizeSums(a)[Len(a)] - a[t].size + b[t].size
  <1> DEFINE n == Len(a)
             f == SizeSums(a)
             g == SizeSums(b)
             T == {i \in t .. n : g[i] # f[i] - a[t].size + b[t].size}
  <1>1. n \in Nat /\ t \in Nat /\ t - 1 \in Nat /\ t - 1 <= n /\ t <= n
        /\ a[t].size \in Nat /\ b[t].size \in Nat
    BY SlotFields
  <1>2. f \in [0 .. n -> Nat] /\ \A i \in 1 .. n : f[i] = f[i - 1] + a[i].size
    BY Sums
  <1>3. g \in [0 .. n -> Nat] /\ \A i \in 1 .. n : g[i] = g[i - 1] + b[i].size
    BY Sums
  <1>4. f[t - 1] = g[t - 1]
    <2>1. \A i \in 1 .. t - 1 : a[i].size = b[i].size
      BY <1>1
    <2>2. QED
      BY <1>1, <2>1, SumsAgree
  <1> HIDE DEF f, g, n
  <1>5. T = {}
    <2> SUFFICES ASSUME T # {} PROVE FALSE
      OBVIOUS
    <2>1. T \in SUBSET Nat
      BY <1>1
    <2> HIDE DEF T
    <2>2. PICK i \in T : \A j \in T : i <= j
      BY <2>1, LeastNumber
    <2>3. i \in t .. n /\ g[i] # f[i] - a[t].size + b[t].size
      BY DEF T
    <2>4. i \in 1 .. n /\ i - 1 \in 0 .. n /\ ~(i <= i - 1) /\ i \in Nat
      BY <1>1, <2>3
    <2>5. /\ f[i] = f[i - 1] + a[i].size /\ g[i] = g[i - 1] + b[i].size
          /\ f[i - 1] \in Nat /\ g[i - 1] \in Nat
      BY <1>2, <1>3, <2>4
    <2>6. CASE i = t
      BY <1>1, <1>4, <2>3, <2>5, <2>6
    <2>7. CASE i # t
      <3>1. i - 1 \in t .. n
        BY <1>1, <2>3, <2>7
      <3>2. g[i - 1] = f[i - 1] - a[t].size + b[t].size
        BY <2>2, <2>4, <3>1 DEF T
      <3>3. a[i].size = b[i].size /\ a[i].size \in Nat
        BY <2>4, <2>7, SlotFields DEF n
      <3>4. PICK e \in Nat, c \in Nat, d \in Nat : e = a[i].size /\ c = a[t].size /\ d = b[t].size
        BY <1>1, <3>3
      <3>a. g[i - 1] = f[i - 1] - c + d
        BY <3>2, <3>4
      <3>b. g[i - 1] + e = (f[i - 1] + e) - c + d
        BY <2>5, <3>a, SumOfParts
      <3>5. g[i - 1] + b[i].size = (f[i - 1] + a[i].size) - a[t].size + b[t].size
        BY <3>3, <3>4, <3>b
      <3>6. QED
        BY <2>3, <2>5, <3>5
    <2>8. QED
      BY <2>6, <2>7
  <1>6. g[n] = f[n] - a[t].size + b[t].size
    BY <1>1, <1>5
  <1>7. QED
    BY <1>6 DEF f, g, n

(* One slot more. *)
LEMMA SumsGrow ==
  ASSUME NEW a \in Seq(Slot), NEW b \in Seq(Slot), Len(b) = Len(a) + 1,
         \A i \in 1 .. Len(a) : a[i].size = b[i].size
  PROVE  SizeSums(b)[Len(b)] = SizeSums(a)[Len(a)] + b[Len(b)].size
  <1>1. Len(a) \in Nat /\ Len(a) <= Len(b) /\ Len(b) \in 1 .. Len(b) /\ Len(b) - 1 = Len(a)
    OBVIOUS
  <1>2. SizeSums(b)[Len(b)] = SizeSums(b)[Len(a)] + b[Len(b)].size
    BY <1>1, Sums
  <1>3. SizeSums(a)[Len(a)] = SizeSums(b)[Len(a)]
    BY <1>1, SumsAgree
  <1>4. QED
    BY <1>2, <1>3

(* The sums grow. *)
LEMMA SumsMonotone ==
  ASSUME NEW s \in Seq(Slot), NEW i \in 0 .. Len(s), NEW j \in i .. Len(s)
  PROVE  SizeSums(s)[i] <= SizeSums(s)[j]
  <1> DEFINE n == Len(s)
             f == SizeSums(s)
             T == {k \in i .. n : ~(f[i] <= f[k])}
  <1>1. n \in Nat /\ i \in Nat /\ i <= n
    OBVIOUS
  <1>2. /\ f \in [0 .. n -> Nat] /\ \A k \in 1 .. n : f[k] = f[k - 1] + s[k].size
        /\ \A k \in 1 .. n : s[k].size \in Nat
    BY Sums, SlotFields
  <1>a. j \in i .. n
    OBVIOUS
  <1> HIDE DEF f, n
  <1>3. T = {}
    <2> SUFFICES ASSUME T # {} PROVE FALSE
      OBVIOUS
    <2>1. T \in SUBSET Nat
      BY <1>1
    <2> HIDE DEF T
    <2>2. PICK k \in T : \A x \in T : k <= x
      BY <2>1, LeastNumber
    <2>3. k \in i .. n /\ ~(f[i] <= f[k])
      BY DEF T
    <2>4. k # i
      BY <1>1, <1>2, <2>3
    <2>5. k \in 1 .. n /\ k - 1 \in i .. n /\ k - 1 \in 0 .. n /\ ~(k <= k - 1)
      BY <1>1, <2>3, <2>4
    <2>6. f[i] <= f[k - 1]
      BY <2>2, <2>5 DEF T
    <2>7. f[k] = f[k - 1] + s[k].size /\ f[k - 1] \in Nat /\ s[k].size \in Nat /\ f[i] \in Nat
      BY <1>1, <1>2, <2>5
    <2>8. QED
      BY <2>3, <2>6, <2>7
  <1>4. f[i] <= f[j]
    BY <1>3, <1>a
  <1>5. QED
    BY <1>4 DEF f

Bytes == 0 .. PageSize - 1
PageType == [data : [Bytes -> Nat], slots : Seq(Slot), free_space_ptr : Nat]
Total(p) == SizeSums(p.slots)[Len(p.slots)]

(* Directory, gap and tuples fill the page; the gap may be less than what  *)
(* compaction would make of it.                                            *)
Fits(p) ==
  /\ p \in PageType
  /\ DirectoryEnd(p) <= p.free_space_ptr
  /\ p.free_space_ptr + Total(p) <= PageSize

(* The tuples lie behind the gap and do not overlap. *)
Apart(p) ==
  /\ \A i \in 1 .. Len(p.slots) : p.slots[i].size > 0 =>
       /\ p.free_space_ptr <= p.slots[i].offset
       /\ p.slots[i].offset + p.slots[i].size <= PageSize
  /\ \A i, j \in 1 .. Len(p.slots) : i # j /\ p.slots[i].size > 0 /\ p.slots[j].size > 0 =>
       \/ p.slots[i].offset + p.slots[i].size <= p.slots[j].offset
       \/ p.slots[j].offset + p.slots[j].size <= p.slots[i].offset

(* A slot holds the bytes of its tuple. *)
Holds(p, i, bytes) ==
  IF p.slots[i].is_deleted THEN p.slots[i].size = 0 /\ bytes = Gone
  ELSE /\ bytes \in Seq(Nat) /\ Len(bytes) = p.slots[i].size
       /\ \A k \in 1 .. p.slots[i].size : p.data[p.slots[i].offset + k - 1] = bytes[k]

Layout(p, tp) ==
  /\ Fits(p) /\ Apart(p)
  /\ DOMAIN tp = 1 .. Len(p.slots) /\ tp = [i \in 1 .. Len(p.slots) |-> tp[i]]
  /\ \A i \in 1 .. Len(p.slots) : Holds(p, i, tp[i])

(* The fields of a page of the right type. *)
LEMMA PageFields ==
  ASSUME NEW p \in PageType
  PROVE  /\ p.data \in [Bytes -> Nat] /\ p.slots \in Seq(Slot) /\ p.free_space_ptr \in Nat
         /\ Len(p.slots) \in Nat /\ DOMAIN p.slots = 1 .. Len(p.slots)
         /\ Total(p) \in Nat
         /\ \A i \in 1 .. Len(p.slots) : /\ p.slots[i] \in Slot /\ p.slots[i].size \in Nat
                                         /\ p.slots[i].offset \in Nat
                                         /\ p.slots[i].is_deleted \in BOOLEAN
  <1>1. p.data \in [Bytes -> Nat] /\ p.slots \in Seq(Slot) /\ p.free_space_ptr \in Nat
    BY DEF PageType
  <1>2. PICK s \in Seq(Slot) : s = p.slots
    BY <1>1
  <1>3. Len(s) \in Nat /\ DOMAIN s = 1 .. Len(s)
    OBVIOUS
  <1>4. SizeSums(s) \in [0 .. Len(s) -> Nat]
    BY Sums
  <1>5. SizeSums(s)[Len(s)] \in Nat
    BY <1>3, <1>4
  <1>6. \A i \in 1 .. Len(s) : /\ s[i] \in Slot /\ s[i].size \in Nat /\ s[i].offset \in Nat
                               /\ s[i].is_deleted \in BOOLEAN
    BY SlotFields
  <1>7. QED
    BY <1>1, <1>2, <1>3, <1>5, <1>6 DEF Total

(* The sizes are numbers; the directory grows by SlotSize for every slot. *)
LEMMA PageNumbers ==
  /\ PageSize \in Nat /\ PageSize > 0 /\ HeaderSize \in Nat /\ SlotSize \in Nat
  /\ HeaderSize < PageSize
  /\ \A n \in Nat : n * SlotSize \in Nat /\ (n + 1) * SlotSize = n * SlotSize + SlotSize
  <1>1. PageSize \in Nat /\ PageSize > 0 /\ HeaderSize \in Nat /\ SlotSize \in Nat
        /\ HeaderSize < PageSize
    BY PageAssumption
  <1>2. \A n \in Nat : n * SlotSize \in Nat /\ (n + 1) * SlotSize = n * SlotSize + SlotSize
    BY <1>1
  <1>3. QED
    BY <1>1, <1>2

(* memcpy writes the bytes at its target and no others. *)
LEMMA CopyIs ==
  ASSUME NEW data \in [Bytes -> Nat], NEW at \in Int, NEW b \in Seq(Nat)
  PROVE  /\ Copy(data, at, b) \in [Bytes -> Nat]
         /\ \A x \in Bytes : x < at \/ x >= at + Len(b) => Copy(data, at, b)[x] = data[x]
         /\ \A k \in 1 .. Len(b) : at + k - 1 \in Bytes => Copy(data, at, b)[at + k - 1] = b[k]
  <1>1. Len(b) \in Nat /\ DOMAIN data = Bytes /\ \A k \in 1 .. Len(b) : b[k] \in Nat
    OBVIOUS
  <1>2. \A x \in Bytes : x \in Int
    BY PageNumbers DEF Bytes
  <1>3. PICK c : c = Copy(data, at, b)
    OBVIOUS
  <1>4. c = [x \in Bytes |-> IF x \in at .. at + Len(b) - 1 THEN b[x - at + 1] ELSE data[x]]
    BY <1>1, <1>3 DEF Copy
  <1>5. \A x \in Bytes : x \in at .. at + Len(b) - 1 => x - at + 1 \in 1 .. Len(b)
    BY <1>1, <1>2
  <1>6. c \in [Bytes -> Nat]
    BY <1>1, <1>4, <1>5
  <1>7. \A x \in Bytes : x < at \/ x >= at + Len(b) => c[x] = data[x]
    BY <1>1, <1>2, <1>4
  <1>8. ASSUME NEW k \in 1 .. Len(b), at + k - 1 \in Bytes
        PROVE  c[at + k - 1] = b[k]
    <2>1. at + k - 1 \in at .. at + Len(b) - 1 /\ (at + k - 1) - at + 1 = k
      BY <1>1
    <2>2. QED
      BY <1>4, <1>8, <2>1
  <1>9. QED
    BY <1>3, <1>6, <1>7, <1>8

(* A slot that holds bytes gives them back. *)
LEMMA TupleIs ==
  ASSUME NEW p, NEW i, NEW b, Holds(p, i, b), ~p.slots[i].is_deleted
  PROVE  Tuple(p, i) = b
  <1>1. /\ b \in Seq(Nat) /\ Len(b) = p.slots[i].size
        /\ \A k \in 1 .. p.slots[i].size : p.data[p.slots[i].offset + k - 1] = b[k]
    BY DEF Holds
  <1>2. b = [k \in 1 .. Len(b) |-> b[k]]
    BY <1>1
  <1>3. QED
    BY <1>1, <1>2 DEF Tuple

(* The page in the middle of a compaction of p. *)
Work(p) == [data : [Bytes -> Nat], free_space_ptr : Int,
            slots : [1 .. Len(p.slots) -> [offset : Int, size : Nat, is_deleted : BOOLEAN]]]

PartWay(p, tp, q, i) ==
  LET f == SizeSums(p.slots) IN
  /\ q.free_space_ptr = PageSize - f[i]
  /\ \A j \in 1 .. Len(p.slots) :
       /\ q.slots[j].size = p.slots[j].size /\ q.slots[j].is_deleted = p.slots[j].is_deleted
       /\ p.slots[j].size = 0 => q.slots[j].offset = p.slots[j].offset
       /\ p.slots[j].size > 0 /\ j <= i =>
            /\ q.slots[j].offset = PageSize - f[j]
            /\ \A k \in 1 .. p.slots[j].size : q.data[PageSize - f[j] + k - 1] = tp[j][k]

(* A slot is moved if it has bytes: a deleted one has none. *)
LEMMA MovedIs ==
  ASSUME NEW p, NEW tp, Layout(p, tp), NEW q, NEW i \in 1 .. Len(p.slots)
  PROVE  /\ p.slots[i].size = 0 => Moved(p, q, i) = q
         /\ p.slots[i].size # 0 =>
              /\ tp[i] \in Seq(Nat) /\ Len(tp[i]) = p.slots[i].size
              /\ LET to == q.free_space_ptr - p.slots[i].size IN
                 Moved(p, q, i) = [data |-> Copy(q.data, to, tp[i]), free_space_ptr |-> to,
                                   slots |-> [q.slots EXCEPT ![i].offset = to]]
  <1>1. Holds(p, i, tp[i])
    BY DEF Layout
  <1>2. CASE p.slots[i].size = 0
    BY <1>2 DEF Moved
  <1>3. CASE p.slots[i].size # 0
    <2>1. ~p.slots[i].is_deleted
      BY <1>1, <1>3 DEF Holds
    <2>2. Tuple(p, i) = tp[i]
      BY <1>1, <2>1, TupleIs
    <2>3. tp[i] \in Seq(Nat) /\ Len(tp[i]) = p.slots[i].size
      BY <1>1, <2>1 DEF Holds
    <2>4. QED
      BY <1>3, <2>1, <2>2, <2>3 DEF Moved
  <1>4. QED
    BY <1>2, <1>3

(* A turn of compact()'s loop leaves a page in the middle of it. *)
LEMMA MovedType ==
  ASSUME NEW p, NEW tp, Layout(p, tp), NEW q \in Work(p), NEW i \in 1 .. Len(p.slots)
  PROVE  Moved(p, q, i) \in Work(p)
  <1>1. CASE p.slots[i].size = 0
    BY <1>1, MovedIs
  <1>2. CASE p.slots[i].size # 0
    <2>1. PICK to : to = q.free_space_ptr - p.slots[i].size
      OBVIOUS
    <2>2. Moved(p, q, i) = [data |-> Copy(q.data, to, tp[i]), free_space_ptr |-> to,
                            slots |-> [q.slots EXCEPT ![i].offset = to]]
          /\ tp[i] \in Seq(Nat)
      BY <1>2, <2>1, MovedIs
    <2>3. p.slots[i].size \in Nat
      BY PageFields DEF Layout, Fits
    <2>4. /\ q.data \in [Bytes -> Nat] /\ q.free_space_ptr \in Int
          /\ q.slots \in [1 .. Len(p.slots) -> [offset : Int, size : Nat, is_deleted : BOOLEAN]]
      BY DEF Work
    <2>5. to \in Int
      BY <2>1, <2>3, <2>4
    <2>6. Copy(q.data, to, tp[i]) \in [Bytes -> Nat]
      BY <2>2, <2>4, <2>5, CopyIs
    <2>7. [q.slots EXCEPT ![i].offset = to]
             \in [1 .. Len(p.slots) -> [offset : Int, size : Nat, is_deleted : BOOLEAN]]
      BY <2>4, <2>5
    <2>8. QED
      BY <2>2, <2>5, <2>6, <2>7 DEF Work
  <1>3. QED
    BY <1>1, <1>2

(* A turn of compact()'s loop puts tuple i next to those before it. *)
LEMMA MovedStep ==
  ASSUME NEW p, NEW tp, Layout(p, tp), NEW q \in Work(p), NEW i \in 1 .. Len(p.slots),
         PartWay(p, tp, q, i - 1)
  PROVE  PartWay(p, tp, Moved(p, q, i), i)
  <1> DEFINE n == Len(p.slots)
  <1>1. /\ n \in Nat /\ p.slots \in Seq(Slot)
        /\ \A j \in 1 .. n : p.slots[j].size \in Nat /\ p.slots[j].offset \in Nat
    BY PageFields DEF Layout, Fits
  <1>2. PICK f : f = SizeSums(p.slots)
    OBVIOUS
  <1>3. f \in [0 .. n -> Nat] /\ \A j \in 1 .. n : f[j] = f[j - 1] + p.slots[j].size
    BY <1>1, <1>2, Sums
  <1>4. \A a \in 0 .. n : \A b \in a .. n : f[a] <= f[b]
    BY <1>1, <1>2, SumsMonotone
  <1>5. f[n] <= PageSize
    <2>1. p.free_space_ptr + Total(p) <= PageSize /\ p.free_space_ptr \in Nat /\ Total(p) \in Nat
      BY PageFields DEF Layout, Fits
    <2>2. QED
      BY <1>2, <2>1, PageNumbers DEF Total
  <1>6. /\ q.free_space_ptr = PageSize - f[i - 1]
        /\ \A j \in 1 .. n :
             /\ q.slots[j].size = p.slots[j].size /\ q.slots[j].is_deleted = p.slots[j].is_deleted
             /\ p.slots[j].size = 0 => q.slots[j].offset = p.slots[j].offset
             /\ p.slots[j].size > 0 /\ j <= i - 1 =>
                  /\ q.slots[j].offset = PageSize - f[j]
                  /\ \A k \in 1 .. p.slots[j].size : q.data[PageSize - f[j] + k - 1] = tp[j][k]
    BY <1>2 DEF PartWay
  <1>7. i - 1 \in 0 .. n /\ f[i] = f[i - 1] + p.slots[i].size /\ f[i] \in Nat /\ f[i - 1] \in Nat
        /\ p.slots[i].size \in Nat /\ PageSize \in Nat
    BY <1>1, <1>3, PageNumbers
  <1> HIDE DEF n
  <1>8. PICK r : r = Moved(p, q, i)
    OBVIOUS
  <1>9. CASE p.slots[i].size = 0
    <2>1. r = q
      BY <1>8, <1>9, MovedIs DEF n
    <2>2. r.free_space_ptr = PageSize - f[i]
      BY <1>6, <1>7, <1>9, <2>1
    <2>3. ASSUME NEW j \in 1 .. n
          PROVE  /\ r.slots[j].size = p.slots[j].size
                 /\ r.slots[j].is_deleted = p.slots[j].is_deleted
                 /\ p.slots[j].size = 0 => r.slots[j].offset = p.slots[j].offset
                 /\ p.slots[j].size > 0 /\ j <= i =>
                     /\ r.slots[j].offset = PageSize - f[j]
                     /\ \A k \in 1 .. p.slots[j].size : r.data[PageSize - f[j] + k - 1] = tp[j][k]
      <3>1. p.slots[j].size > 0 /\ j <= i => j <= i - 1
        BY <1>1, <1>9
      <3>2. QED
        BY <1>6, <2>1, <3>1, Zenon
    <2>4. QED
      BY <1>2, <1>8, <2>2, <2>3 DEF PartWay, n
  <1>10. CASE p.slots[i].size # 0
    <2>1. PICK to : to = q.free_space_ptr - p.slots[i].size
      OBVIOUS
    <2>2. r = [data |-> Copy(q.data, to, tp[i]), free_space_ptr |-> to,
               slots |-> [q.slots EXCEPT ![i].offset = to]]
          /\ tp[i] \in Seq(Nat) /\ Len(tp[i]) = p.slots[i].size
      BY <1>10, <1>8, <2>1, MovedIs
    <2>3. to = PageSize - f[i] /\ to \in Int /\ to + Len(tp[i]) = PageSize - f[i - 1]
      <3>1. PICK a \in Nat, b \in Nat, z \in Nat :
               a = f[i] /\ b = f[i - 1] /\ z = p.slots[i].size /\ a = b + z
        BY <1>7
      <3>2. to = (PageSize - b) - z /\ Len(tp[i]) = z
        BY <1>6, <2>1, <2>2, <3>1
      <3>a. /\ (PageSize - b) - z = PageSize - (b + z) /\ PageSize - (b + z) \in Int
            /\ (PageSize - (b + z)) + z = PageSize - b
        BY <1>7, BelowEnd
      <3>3. (PageSize - b) - z = PageSize - a /\ PageSize - a \in Int
            /\ (PageSize - a) + z = PageSize - b
        BY <3>1, <3>a
      <3>4. QED
        BY <3>1, <3>2, <3>3
    <2>4. q.data \in [Bytes -> Nat] /\ i \in 1 .. n
          /\ q.slots \in [1 .. n -> [offset : Int, size : Nat, is_deleted : BOOLEAN]]
      BY DEF Work, n
    <2>5. PICK d : d = Copy(q.data, to, tp[i])
      OBVIOUS
    <2>6. /\ \A x \in Bytes : x < to \/ x >= to + Len(tp[i]) => d[x] = q.data[x]
          /\ \A k \in 1 .. Len(tp[i]) : to + k - 1 \in Bytes => d[to + k - 1] = tp[i][k]
      <3>1. PICK e \in [Bytes -> Nat], b \in Seq(Nat), x \in Int :
               e = q.data /\ b = tp[i] /\ x = to
        BY <2>2, <2>3, <2>4
      <3>2. d = Copy(e, x, b)
        BY <2>5, <3>1
      <3>3. /\ \A y \in Bytes : y < x \/ y >= x + Len(b) => d[y] = e[y]
            /\ \A k \in 1 .. Len(b) : x + k - 1 \in Bytes => d[x + k - 1] = b[k]
        BY <3>2, CopyIs
      <3>4. QED
        BY <3>1, <3>3, Zenon
    <2>7. r.free_space_ptr = PageSize - f[i] /\ r.data = d
      BY <2>2, <2>3, <2>5
    <2>8. \A j \in 1 .. n : j # i => r.slots[j] = q.slots[j]
      BY <2>2, <2>4
    <2>9. /\ r.slots[i].offset = to /\ r.slots[i].size = q.slots[i].size
          /\ r.slots[i].is_deleted = q.slots[i].is_deleted
      BY <2>2, <2>4
    <2>10. ASSUME NEW j \in 1 .. n
           PROVE  /\ r.slots[j].size = p.slots[j].size
                  /\ r.slots[j].is_deleted = p.slots[j].is_deleted
                  /\ p.slots[j].size = 0 => r.slots[j].offset = p.slots[j].offset
      <3>1. CASE j = i
        BY <1>6, <1>10, <2>9, <3>1
      <3>2. CASE j # i
        BY <1>6, <2>8, <3>2
      <3>3. QED
        BY <3>1, <3>2
    <2>11. ASSUME NEW j \in 1 .. n, p.slots[j].size > 0, j <= i
           PROVE  /\ r.slots[j].offset = PageSize - f[j]
                  /\ \A k \in 1 .. p.slots[j].size : r.data[PageSize - f[j] + k - 1] = tp[j][k]
      <3>0. f[j] \in Nat /\ f[j] <= PageSize /\ f[j - 1] \in Nat
            /\ f[j] = f[j - 1] + p.slots[j].size /\ p.slots[j].size \in Nat
        <4>1. j \in 0 .. n /\ n \in j .. n /\ j - 1 \in 0 .. n
          BY <1>1
        <4>2. f[j] <= f[n] /\ f[j] \in Nat /\ f[n] \in Nat /\ f[j - 1] \in Nat
          BY <1>1, <1>3, <1>4, <4>1
        <4>3. f[j] = f[j - 1] + p.slots[j].size /\ p.slots[j].size \in Nat
          BY <1>1, <1>3
        <4>4. f[j] <= PageSize
          BY <1>5, <1>7, <4>2
        <4>5. QED
          BY <4>2, <4>3, <4>4
      <3>a. ASSUME NEW k \in 1 .. p.slots[j].size
            PROVE  /\ PageSize - f[j] + k - 1 \in Bytes
                   /\ PageSize - f[j] + k - 1 < PageSize - f[j - 1]
        <4>1. PICK z \in Nat : z = p.slots[j].size
          BY <3>0
        <4>2. k \in 1 .. z /\ f[j] = f[j - 1] + z
          BY <3>0, <4>1
        <4>3. PICK a \in Nat, b \in Nat : a = f[j] /\ b = f[j - 1]
          BY <3>0
        <4>4. a = b + z /\ a <= PageSize /\ PageSize \in Nat /\ k \in Nat /\ 1 <= k /\ k <= z
          BY <1>7, <3>0, <4>2, <4>3
        <4>5. PageSize - a + k - 1 < PageSize - b /\ 0 <= PageSize - a + k - 1
              /\ PageSize - a + k - 1 <= PageSize - 1 /\ PageSize - a + k - 1 \in Int
          <5>1. PageSize - a \in Nat /\ PageSize - a + k - 1 \in Int
            BY <4>4
          <5>2. PageSize - a + k - 1 < PageSize - b
            BY <4>4
          <5>3. PageSize - a + k - 1 <= PageSize - 1
            BY <4>4
          <5>4. QED
            BY <4>4, <5>1, <5>2, <5>3
        <4>6. QED
          BY <1>7, <4>3, <4>5 DEF Bytes
      <3>1. CASE j = i
        <4>1. r.slots[j].offset = PageSize - f[j]
          BY <2>3, <2>9, <3>1
        <4>2. ASSUME NEW k \in 1 .. p.slots[j].size
              PROVE  r.data[PageSize - f[j] + k - 1] = tp[j][k]
          <5>1. k \in 1 .. Len(tp[i]) /\ to + k - 1 \in Bytes
            BY <2>2, <2>3, <3>1, <3>a
          <5>2. QED
            BY <2>3, <2>6, <2>7, <3>1, <5>1
        <4>3. QED
          BY <4>1, <4>2
      <3>2. CASE j # i
        <4>1. j <= i - 1
          BY <1>1, <3>2, <2>11
        <4>2. r.slots[j].offset = PageSize - f[j]
              /\ \A k \in 1 .. p.slots[j].size : q.data[PageSize - f[j] + k - 1] = tp[j][k]
          BY <1>6, <2>8, <2>11, <3>2, <4>1
        <4>3. f[j] <= f[i - 1]
          <5>1. j \in 0 .. n /\ i - 1 \in j .. n
            BY <1>1, <1>7, <4>1
          <5>2. QED
            BY <1>4, <5>1
        <4>4. ASSUME NEW k \in 1 .. p.slots[j].size
              PROVE  r.data[PageSize - f[j] + k - 1] = tp[j][k]
          <5>1. PageSize - f[j] + k - 1 >= to + Len(tp[i])
            <6>1. PICK a \in Nat, b \in Nat : a = f[j] /\ b = f[i - 1]
              BY <1>7, <3>0
            <6>2. k \in Nat /\ 1 <= k /\ a <= b
              BY <3>0, <4>3, <6>1
            <6>3. to + Len(tp[i]) = PageSize - b
              BY <2>3, <6>1
            <6>4. \A v, x, y, w \in Nat : 1 <= w /\ x <= y => v - x + w - 1 >= v - y
              OBVIOUS
            <6>5. PageSize - a + k - 1 >= PageSize - b
              BY <1>7, <6>2, <6>4
            <6>6. QED
              BY <6>1, <6>3, <6>5
          <5>2. PageSize - f[j] + k - 1 \in Bytes
            BY <3>a
          <5>3. d[PageSize - f[j] + k - 1] = q.data[PageSize - f[j] + k - 1]
            BY <2>6, <5>1, <5>2
          <5>4. QED
            BY <2>7, <4>2, <5>3
        <4>5. QED
          BY <4>2, <4>4
      <3>3. QED
        BY <3>1, <3>2
    <2>12. QED
      BY <1>2, <1>8, <2>7, <2>10, <2>11 DEF PartWay, n
  <1>11. QED
    BY <1>9, <1>10

(* What compaction leaves as it is, and what it makes of the room. *)
Packed(p, r) ==
  /\ Len(r.slots) = Len(p.slots)
  /\ \A i \in 1 .. Len(p.slots) :
       r.slots[i].size = p.slots[i].size /\ r.slots[i].is_deleted = p.slots[i].is_deleted
  /\ Total(r) = Total(p)
  /\ r.free_space_ptr = PageSize - Total(p)

(* At the end of compact()'s loop every tuple has been moved. *)
LEMMA CompactionEnds ==
  ASSUME NEW p, NEW tp, Layout(p, tp)
  PROVE  compact(p) \in Work(p) /\ PartWay(p, tp, compact(p), Len(p.slots))
  <1> DEFINE n == Len(p.slots)
             start == [p EXCEPT !.free_space_ptr = PageSize]
             run(f) == [i \in 0 .. n |-> IF i = 0 THEN start ELSE Moved(p, f[i - 1], i)]
             at == CHOOSE f : f = run(f)
             step == [i \in 1 .. n |-> [q \in Work(p) |-> Moved(p, q, i)]]
  <1>0. p \in PageType
    BY DEF Layout, Fits
  <1>1. /\ n \in Nat /\ p.slots \in Seq(Slot) /\ p.data \in [Bytes -> Nat]
        /\ \A j \in 1 .. n : p.slots[j] \in Slot /\ p.slots[j].size \in Nat
    BY <1>0, PageFields
  <1>2. step \in [1 .. n -> [Work(p) -> Work(p)]]
    BY MovedType
  <1>3. /\ start.data = p.data /\ start.slots = p.slots /\ start.free_space_ptr = PageSize
        /\ start = [data |-> p.data, slots |-> p.slots, free_space_ptr |-> PageSize]
    BY <1>0 DEF PageType
  <1>4. p.slots \in [1 .. n -> [offset : Int, size : Nat, is_deleted : BOOLEAN]]
    <2>1. \A j \in 1 .. n : p.slots[j] \in [offset : Int, size : Nat, is_deleted : BOOLEAN]
      BY <1>1 DEF Slot
    <2>2. p.slots = [j \in 1 .. n |-> p.slots[j]]
      BY <1>1
    <2>3. QED
      BY <2>1, <2>2
  <1>5. start \in Work(p)
    <2> HIDE DEF start, n
    <2>1. PageSize \in Int
      BY PageNumbers
    <2>2. QED
      BY <1>1, <1>3, <1>4, <2>1 DEF Work, n
  <1>6. PICK g : States(g, n, Work(p), start, step)
    <2> HIDE DEF step, n, start
    <2>1. QED
      BY <1>1, <1>2, <1>5, LoopStates
  <1> HIDE DEF n, start
  <1>7. g = run(g)
    <2> SUFFICES ASSUME NEW i \in 0 .. n
                 PROVE  g[i] = IF i = 0 THEN start ELSE Moved(p, g[i - 1], i)
      BY <1>6 DEF States
    <2>1. CASE i = 0
      BY <1>6, <2>1 DEF States
    <2>2. CASE i # 0
      <3>1. i \in 1 .. n /\ i - 1 \in 0 .. n
        BY <1>1, <2>2
      <3>2. g[i] = step[i][g[i - 1]] /\ g[i - 1] \in Work(p)
        BY <1>6, <3>1 DEF States
      <3>3. QED
        BY <2>2, <3>1, <3>2
    <2>3. QED
      BY <2>1, <2>2
  <1>8. at = run(at)
    BY <1>7
  <1>9. compact(p) = at[n]
    BY DEF compact, n, start
  <1> HIDE DEF at, step
  <1>10. at[0] = start /\ \A i \in 1 .. n : at[i] = Moved(p, at[i - 1], i)
    <2>1. n \in Nat
      BY <1>1
    <2>2. at = [i \in 0 .. n |-> IF i = 0 THEN start ELSE Moved(p, at[i - 1], i)]
      BY <1>8
    <2>3. 0 \in 0 .. n /\ \A i \in 1 .. n : i \in 0 .. n /\ i # 0
      BY <2>1
    <2>4. at[0] = start
      BY <2>2, <2>3, Zenon
    <2>5. ASSUME NEW i \in 1 .. n PROVE at[i] = Moved(p, at[i - 1], i)
      <3>1. i \in 0 .. n /\ i # 0
        BY <2>3
      <3>2. QED
        BY <2>2, <3>1, Zenon
    <2>6. QED
      BY <2>4, <2>5
  <1>11. PartWay(p, tp, start, 0)
    <2>1. SizeSums(p.slots)[0] = 0
      BY <1>1, Sums
    <2>2. \A j \in 1 .. n : ~(j <= 0)
      BY <1>1
    <2>3. PageSize - 0 = PageSize
      BY PageNumbers
    <2>4. QED
      BY <1>3, <2>1, <2>2, <2>3, Zenon DEF PartWay, n
  <1>12. \A i \in 0 .. n : at[i] \in Work(p) /\ PartWay(p, tp, at[i], i)
    <2> DEFINE T == {i \in 0 .. n : ~(at[i] \in Work(p) /\ PartWay(p, tp, at[i], i))}
    <2> SUFFICES ASSUME T # {} PROVE FALSE
      OBVIOUS
    <2>1. T \in SUBSET Nat
      BY <1>1
    <2> HIDE DEF T
    <2>2. PICK i \in T : \A j \in T : i <= j
      BY <2>1, LeastNumber
    <2>3. i \in 0 .. n /\ ~(at[i] \in Work(p) /\ PartWay(p, tp, at[i], i))
      BY DEF T
    <2>4. i \in 1 .. n /\ i - 1 \in 0 .. n /\ ~(i <= i - 1)
      BY <1>1, <1>5, <1>10, <1>11, <2>3
    <2>5. at[i - 1] \in Work(p) /\ PartWay(p, tp, at[i - 1], i - 1)
      BY <2>2, <2>4 DEF T
    <2>6. at[i] \in Work(p) /\ PartWay(p, tp, at[i], i)
      BY <1>10, <2>4, <2>5, MovedType, MovedStep DEF n
    <2>7. QED
      BY <2>3, <2>6
  <1>13. n \in 0 .. n
    BY <1>1
  <1>14. QED
    BY <1>9, <1>12, <1>13 DEF n

(* Compaction keeps the layout and the tuples, and closes every hole. *)
LEMMA Compaction ==
  ASSUME NEW p, NEW tp, Layout(p, tp)
  PROVE  Layout(compact(p), tp) /\ Packed(p, compact(p))
  <1> DEFINE n == Len(p.slots)
  <1>1. PICK r : r = compact(p) /\ r \in Work(p) /\ PartWay(p, tp, r, n)
    BY CompactionEnds
  <1>2. PICK f : f = SizeSums(p.slots)
    OBVIOUS
  <1>3. p \in PageType /\ DirectoryEnd(p) <= p.free_space_ptr
        /\ p.free_space_ptr + Total(p) <= PageSize /\ Total(p) = f[n]
    BY <1>2 DEF Layout, Fits, Total
  <1>4. /\ n \in Nat /\ p.slots \in Seq(Slot) /\ p.free_space_ptr \in Nat /\ Total(p) \in Nat
        /\ PageSize \in Nat
        /\ \A j \in 1 .. n : /\ p.slots[j].size \in Nat /\ p.slots[j].offset \in Nat
                             /\ p.slots[j].is_deleted \in BOOLEAN
    BY <1>3, PageFields, PageNumbers
  <1>5. f \in [0 .. n -> Nat] /\ \A j \in 1 .. n : f[j] = f[j - 1] + p.slots[j].size
    BY <1>2, <1>4, Sums
  <1>6. \A a \in 0 .. n : \A b \in a .. n : f[a] <= f[b]
    BY <1>2, <1>4, SumsMonotone
  <1>7. /\ r.free_space_ptr = PageSize - f[n]
        /\ \A j \in 1 .. n :
             /\ r.slots[j].size = p.slots[j].size /\ r.slots[j].is_deleted = p.slots[j].is_deleted
             /\ p.slots[j].size = 0 => r.slots[j].offset = p.slots[j].offset
             /\ p.slots[j].size > 0 /\ j <= n =>
                  /\ r.slots[j].offset = PageSize - f[j]
                  /\ \A k \in 1 .. p.slots[j].size : r.data[PageSize - f[j] + k - 1] = tp[j][k]
    BY <1>1, <1>2 DEF PartWay
  <1>8. /\ r.data \in [Bytes -> Nat]
        /\ r.slots \in [1 .. n -> [offset : Int, size : Nat, is_deleted : BOOLEAN]]
        /\ r = [data |-> r.data, slots |-> r.slots, free_space_ptr |-> r.free_space_ptr]
    BY <1>1 DEF Work
  <1>9. DOMAIN tp = 1 .. n /\ tp = [i \in 1 .. n |-> tp[i]] /\ \A i \in 1 .. n : Holds(p, i, tp[i])
    BY DEF Layout
  <1>p. DirectoryEnd(p) = HeaderSize + n * SlotSize /\ HeaderSize \in Nat /\ n * SlotSize \in Nat
    BY <1>4, PageNumbers DEF DirectoryEnd
  <1> HIDE DEF n
  (* Where a tuple lies now. *)
  <1>10. ASSUME NEW j \in 1 .. n
         PROVE  /\ f[j] \in Nat /\ f[j - 1] \in Nat /\ f[j] = f[j - 1] + p.slots[j].size
                /\ f[j] <= f[n] /\ f[n] <= PageSize /\ f[n] \in Nat
    <2>1. j \in 0 .. n /\ n \in j .. n /\ j - 1 \in 0 .. n
      BY <1>4
    <2>2. f[j] <= f[n] /\ f[j] \in Nat /\ f[n] \in Nat /\ f[j - 1] \in Nat
      BY <1>4, <1>5, <1>6, <2>1
    <2>3. f[n] <= PageSize
      BY <1>3, <1>4
    <2>4. QED
      BY <1>5, <2>2, <2>3
  <1>11. ASSUME NEW j \in 1 .. n, p.slots[j].size > 0
         PROVE  r.slots[j].offset = PageSize - f[j]
                /\ r.slots[j].offset + r.slots[j].size = PageSize - f[j - 1]
    <2>1. r.slots[j].offset = PageSize - f[j] /\ r.slots[j].size = p.slots[j].size /\ j <= n
      BY <1>4, <1>7, <1>11
    <2>2. PICK z \in Nat, a \in Nat, b \in Nat : z = p.slots[j].size /\ a = f[j] /\ b = f[j - 1]
      BY <1>4, <1>10
    <2>3. a = b + z
      BY <1>10, <2>2
    <2>4. (PageSize - a) + z = PageSize - b
      BY <1>4, <2>3
    <2>5. QED
      BY <2>1, <2>2, <2>4
  <1>12. \A j \in 1 .. n : r.slots[j] \in Slot
    <2> SUFFICES ASSUME NEW j \in 1 .. n PROVE r.slots[j] \in Slot
      OBVIOUS
    <2>1. r.slots[j] \in [offset : Int, size : Nat, is_deleted : BOOLEAN]
      BY <1>8
    <2>2. r.slots[j].offset \in Nat
      <3>1. CASE p.slots[j].size = 0
        BY <1>4, <1>7, <3>1
      <3>2. CASE p.slots[j].size # 0
        <4>1. r.slots[j].offset = PageSize - f[j]
          BY <1>4, <1>11, <3>2
        <4>a. f[j] \in Nat /\ f[n] \in Nat /\ f[j] <= f[n] /\ f[n] <= PageSize /\ PageSize \in Nat
          BY <1>4, <1>10
        <4>2. f[j] \in Nat /\ f[j] <= PageSize
          BY <4>a
        <4>3. QED
          BY <1>4, <4>1, <4>2
      <3>3. QED
        BY <3>1, <3>2
    <2>3. QED
      BY <2>1, <2>2 DEF Slot
  <1>13. r.slots \in Seq(Slot) /\ Len(r.slots) = n
    <2>1. r.slots = [j \in 1 .. n |-> r.slots[j]]
      BY <1>8
    <2>2. r.slots \in [1 .. n -> Slot]
      BY <1>12, <2>1
    <2>3. r.slots \in Seq(Slot)
      BY <1>4, <2>2, SeqDef
    <2>4. QED
      BY <1>4, <2>2, <2>3
  <1>14. Total(r) = Total(p)
    <2>1. \A j \in 1 .. n : r.slots[j].size = p.slots[j].size
      BY <1>7
    <2>2. n <= n /\ n = Len(p.slots) /\ n \in Nat
      BY <1>4 DEF n
    <2>3. PICK a \in Seq(Slot), b \in Seq(Slot) : a = r.slots /\ b = p.slots
      BY <1>4, <1>13
    <2>4. SizeSums(a)[n] = SizeSums(b)[n]
      BY <1>13, <2>1, <2>2, <2>3, SumsAgree
    <2>5. QED
      BY <1>13, <2>2, <2>3, <2>4 DEF Total
  <1>15. Packed(p, r)
    BY <1>3, <1>7, <1>13, <1>14 DEF Packed, n
  <1>16. r.free_space_ptr \in Nat /\ p.free_space_ptr <= r.free_space_ptr
         /\ r.free_space_ptr + Total(r) <= PageSize
    BY <1>3, <1>4, <1>7, <1>14
  <1>17. Fits(r)
    <2>1. r \in PageType
      BY <1>8, <1>13, <1>16 DEF PageType
    <2>2. DirectoryEnd(r) = DirectoryEnd(p)
      BY <1>13, <1>p DEF DirectoryEnd
    <2>3. DirectoryEnd(r) <= r.free_space_ptr
      BY <1>3, <1>4, <1>p, <1>16, <2>2
    <2>4. QED
      BY <1>16, <2>1, <2>3 DEF Fits
  <1>18. Apart(r)
    <2>1. ASSUME NEW i \in 1 .. n, r.slots[i].size > 0
          PROVE  /\ r.free_space_ptr <= r.slots[i].offset
                 /\ r.slots[i].offset + r.slots[i].size <= PageSize
      <3>1. p.slots[i].size > 0
        BY <1>7, <2>1
      <3>2. r.slots[i].offset = PageSize - f[i]
            /\ r.slots[i].offset + r.slots[i].size = PageSize - f[i - 1]
        BY <1>11, <3>1
      <3>3. PageSize - f[n] <= PageSize - f[i]
        BY <1>4, <1>10
      <3>4. PageSize - f[i - 1] <= PageSize
        BY <1>4, <1>10
      <3>5. QED
        BY <1>7, <3>2, <3>3, <3>4
    <2>2. ASSUME NEW i \in 1 .. n, NEW j \in 1 .. n, i < j, r.slots[i].size > 0, r.slots[j].size > 0
          PROVE  r.slots[j].offset + r.slots[j].size <= r.slots[i].offset
      <3>1. p.slots[i].size > 0 /\ p.slots[j].size > 0
        BY <1>7, <2>2
      <3>2. r.slots[i].offset = PageSize - f[i]
            /\ r.slots[j].offset + r.slots[j].size = PageSize - f[j - 1]
        BY <1>11, <3>1
      <3>3. i \in 0 .. n /\ j - 1 \in i .. n
        BY <1>4, <2>2
      <3>4. f[i] <= f[j - 1] /\ f[i] \in Nat /\ f[j - 1] \in Nat
        BY <1>6, <1>10, <3>3
      <3>5. PageSize - f[j - 1] <= PageSize - f[i]
        BY <1>4, <3>4
      <3>6. QED
        BY <3>2, <3>5
    <2>3. \A i, j \in 1 .. n : i # j => i < j \/ j < i
      BY <1>4
    <2>4. \A i, j \in 1 .. n : i # j /\ r.slots[i].size > 0 /\ r.slots[j].size > 0 =>
            \/ r.slots[i].offset + r.slots[i].size <= r.slots[j].offset
            \/ r.slots[j].offset + r.slots[j].size <= r.slots[i].offset
      BY <2>2, <2>3, Zenon
    <2>5. QED
      BY <1>13, <2>1, <2>4 DEF Apart
  <1>19. ASSUME NEW i \in 1 .. n
         PROVE  Holds(r, i, tp[i])
    <2>1. Holds(p, i, tp[i]) /\ r.slots[i].size = p.slots[i].size
          /\ r.slots[i].is_deleted = p.slots[i].is_deleted
      BY <1>7, <1>9
    <2>2. CASE p.slots[i].is_deleted
      BY <2>1, <2>2 DEF Holds
    <2>3. CASE ~p.slots[i].is_deleted
      <3>1. tp[i] \in Seq(Nat) /\ Len(tp[i]) = r.slots[i].size
        BY <2>1, <2>3 DEF Holds
      <3>2. ASSUME NEW k \in 1 .. r.slots[i].size
            PROVE  r.data[r.slots[i].offset + k - 1] = tp[i][k]
        <4>1. p.slots[i].size > 0 /\ k \in 1 .. p.slots[i].size /\ i <= n
          BY <1>4, <2>1
        <4>2. r.slots[i].offset = PageSize - f[i]
              /\ \A x \in 1 .. p.slots[i].size : r.data[PageSize - f[i] + x - 1] = tp[i][x]
          BY <1>7, <4>1
        <4>3. QED
          BY <4>1, <4>2
      <3>3. QED
        BY <2>1, <2>3, <3>1, <3>2 DEF Holds
    <2>4. QED
      BY <2>2, <2>3
  <1>20. Layout(r, tp)
    BY <1>9, <1>13, <1>17, <1>18, <1>19 DEF Layout
  <1>21. QED
    BY <1>1, <1>15, <1>20

(* Facts about a page laid out well, in the form the steps below use. *)
LEMMA LayoutFacts ==
  ASSUME NEW p, NEW tp, Layout(p, tp)
  PROVE  /\ p \in PageType /\ p.data \in [Bytes -> Nat] /\ p.slots \in Seq(Slot)
         /\ p.free_space_ptr \in Nat /\ Total(p) \in Nat /\ Len(p.slots) \in Nat
         /\ DOMAIN p.slots = 1 .. Len(p.slots) /\ DOMAIN tp = 1 .. Len(p.slots)
         /\ DirectoryEnd(p) \in Nat /\ DirectoryEnd(p) <= p.free_space_ptr
         /\ p.free_space_ptr + Total(p) <= PageSize /\ PageSize \in Nat
         /\ \A i \in 1 .. Len(p.slots) :
              /\ p.slots[i] \in Slot /\ p.slots[i].size \in Nat /\ p.slots[i].offset \in Nat
              /\ p.slots[i].is_deleted \in BOOLEAN /\ Holds(p, i, tp[i])
              /\ p.slots[i].size > 0 => /\ p.free_space_ptr <= p.slots[i].offset
                                        /\ p.slots[i].offset + p.slots[i].size <= PageSize
  <1>1. p \in PageType /\ Fits(p) /\ Apart(p) /\ DOMAIN tp = 1 .. Len(p.slots)
        /\ \A i \in 1 .. Len(p.slots) : Holds(p, i, tp[i])
    BY DEF Layout, Fits
  <1>2. /\ p.data \in [Bytes -> Nat] /\ p.slots \in Seq(Slot) /\ p.free_space_ptr \in Nat
        /\ Len(p.slots) \in Nat /\ DOMAIN p.slots = 1 .. Len(p.slots) /\ Total(p) \in Nat
        /\ \A i \in 1 .. Len(p.slots) : /\ p.slots[i] \in Slot /\ p.slots[i].size \in Nat
                                        /\ p.slots[i].offset \in Nat
                                        /\ p.slots[i].is_deleted \in BOOLEAN
    BY <1>1, PageFields
  <1>3. DirectoryEnd(p) \in Nat /\ PageSize \in Nat
    <2>1. PICK n \in Nat : n = Len(p.slots)
      BY <1>2
    <2>2. n * SlotSize \in Nat /\ HeaderSize \in Nat /\ PageSize \in Nat
      BY PageNumbers
    <2>3. HeaderSize + n * SlotSize \in Nat
      BY <2>2
    <2>4. QED
      BY <2>1, <2>2, <2>3 DEF DirectoryEnd
  <1>4. \A i \in 1 .. Len(p.slots) :
          p.slots[i].size > 0 => /\ p.free_space_ptr <= p.slots[i].offset
                                 /\ p.slots[i].offset + p.slots[i].size <= PageSize
    BY <1>1 DEF Apart
  <1>5. QED
    BY <1>1, <1>2, <1>3, <1>4 DEF Fits

(* Other bytes of the page may change: a tuple whose own bytes do not is   *)
(* held as before.                                                         *)
LEMMA HoldsOn ==
  ASSUME NEW p, NEW tp, Layout(p, tp), NEW r, NEW i \in 1 .. Len(p.slots),
         r.slots[i] = p.slots[i], NEW at \in Int, NEW b \in Seq(Nat),
         r.data = Copy(p.data, at, b),
         p.slots[i].size > 0 /\ Len(b) > 0 => \/ p.slots[i].offset + p.slots[i].size <= at
                                              \/ at + Len(b) <= p.slots[i].offset
  PROVE  Holds(r, i, tp[i])
  <1>1. /\ p.slots[i].size \in Nat /\ p.slots[i].offset \in Nat /\ Holds(p, i, tp[i])
        /\ p.slots[i].size > 0 => p.slots[i].offset + p.slots[i].size <= PageSize
        /\ p.data \in [Bytes -> Nat] /\ PageSize \in Nat
    BY LayoutFacts
  <1>2. CASE p.slots[i].is_deleted
    BY <1>1, <1>2 DEF Holds
  <1>3. CASE ~p.slots[i].is_deleted
    <2>1. PICK o \in Nat, z \in Nat, l \in Nat :
             o = p.slots[i].offset /\ z = p.slots[i].size /\ l = Len(b)
      BY <1>1
    <2>2. tp[i] \in Seq(Nat) /\ Len(tp[i]) = z /\ \A k \in 1 .. z : p.data[o + k - 1] = tp[i][k]
      BY <1>1, <1>3, <2>1 DEF Holds
    <2>3. ASSUME NEW k \in 1 .. z
          PROVE  r.data[o + k - 1] = tp[i][k]
      <3>1. z > 0 /\ o + z <= PageSize /\ (l > 0 => o + z <= at \/ at + l <= o)
        BY <1>1, <2>1
      <3>2. o + k - 1 \in Bytes
        BY <1>1, <3>1 DEF Bytes
      <3>3. o + k - 1 < at \/ o + k - 1 >= at + l
        BY <3>1
      <3>4. Copy(p.data, at, b)[o + k - 1] = p.data[o + k - 1]
        BY <1>1, <2>1, <3>2, <3>3, CopyIs
      <3>5. QED
        BY <2>2, <3>4
    <2>4. QED
      BY <1>3, <2>1, <2>2, <2>3 DEF Holds
  <1>4. QED
    BY <1>2, <1>3

(* A tuple put below free_space_ptr, for slot t: a new slot, a deleted one *)
(* or one whose tuple grows.                                               *)
LEMMA Place ==
  ASSUME NEW p, NEW tp, Layout(p, tp), NEW bytes \in Seq(Nat), NEW r, NEW tq,
         r.data = Copy(p.data, p.free_space_ptr - Len(bytes), bytes),
         r.free_space_ptr = p.free_space_ptr - Len(bytes),
         r = [data |-> r.data, slots |-> r.slots, free_space_ptr |-> r.free_space_ptr],
         r.slots \in Seq(Slot), NEW t \in 1 .. Len(r.slots),
         Len(r.slots) = Len(p.slots) \/ (Len(r.slots) = Len(p.slots) + 1 /\ t = Len(r.slots)),
         \A i \in 1 .. Len(r.slots) : i # t => r.slots[i] = p.slots[i],
         r.slots[t].offset = r.free_space_ptr, r.slots[t].size = Len(bytes),
         ~r.slots[t].is_deleted, DirectoryEnd(r) <= r.free_space_ptr,
         tq = [i \in 1 .. Len(r.slots) |-> IF i = t THEN bytes ELSE tp[i]]
  PROVE  Layout(r, tq)
  <1>1. PICK n \in Nat, m \in Nat, l \in Nat, o \in Nat :
           n = Len(p.slots) /\ m = Len(r.slots) /\ l = Len(bytes) /\ o = p.free_space_ptr
    <2>1. Len(p.slots) \in Nat /\ p.free_space_ptr \in Nat
      BY LayoutFacts
    <2>2. Len(r.slots) \in Nat /\ Len(bytes) \in Nat
      OBVIOUS
    <2>3. QED
      BY <2>1, <2>2
  <1>2. /\ p.data \in [Bytes -> Nat] /\ PageSize \in Nat /\ Total(p) \in Nat
        /\ o + Total(p) <= PageSize /\ p.slots \in Seq(Slot)
        /\ \A i \in 1 .. n :
             /\ p.slots[i].size \in Nat /\ p.slots[i].offset \in Nat
             /\ p.slots[i].size > 0 => /\ o <= p.slots[i].offset
                                       /\ p.slots[i].offset + p.slots[i].size <= PageSize
    BY <1>1, LayoutFacts
  <1>3. t \in 1 .. m /\ (m = n \/ (m = n + 1 /\ t = m)) /\ r.free_space_ptr = o - l
        /\ \A i \in 1 .. m : i # t => i \in 1 .. n /\ r.slots[i] = p.slots[i]
    BY <1>1
  <1>4. o - l \in Nat
    <2>1. DirectoryEnd(r) \in Nat
      <3>1. m * SlotSize \in Nat /\ HeaderSize \in Nat
        BY PageNumbers
      <3>2. HeaderSize + m * SlotSize \in Nat
        BY <3>1
      <3>3. QED
        BY <1>1, <3>2 DEF DirectoryEnd
    <2>2. QED
      BY <1>1, <1>3, <2>1
  <1>5. r.data \in [Bytes -> Nat] /\ \A k \in 1 .. l : r.data[o - l + k - 1] = bytes[k]
    <2>1. PICK at \in Nat : at = o - l
      BY <1>4
    <2>2. r.data = Copy(p.data, at, bytes) /\ at \in Int
      BY <1>1, <2>1
    <2>a. at + l <= PageSize /\ PageSize \in Nat
      BY <1>2, <2>1
    <2>3. \A k \in 1 .. l : at + k - 1 \in Bytes
      BY <2>a, WithinBytes DEF Bytes
    <2>4. r.data \in [Bytes -> Nat] /\ \A k \in 1 .. l : r.data[at + k - 1] = bytes[k]
      <3>1. PICK d \in [Bytes -> Nat] : d = p.data
        BY <1>2
      <3>2. /\ Copy(d, at, bytes) \in [Bytes -> Nat]
            /\ \A k \in 1 .. Len(bytes) :
                 at + k - 1 \in Bytes => Copy(d, at, bytes)[at + k - 1] = bytes[k]
        BY <2>2, CopyIs
      <3>3. r.data = Copy(d, at, bytes)
        BY <2>2, <3>1
      <3>4. QED
        BY <1>1, <2>3, <3>2, <3>3, Zenon
    <2>5. QED
      BY <2>1, <2>4
  <1>6. r \in PageType
    BY <1>3, <1>4, <1>5 DEF PageType
  <1>7. Total(r) <= Total(p) + l
    <2>1. PICK a \in Seq(Slot), b \in Seq(Slot) : a = p.slots /\ b = r.slots
      BY <1>2
    <2>2. /\ Len(a) = n /\ Len(b) = m /\ b[t].size = l
          /\ \A i \in 1 .. m : i # t => a[i].size = b[i].size
      BY <1>1, <1>3, <2>1
    <2>3. CASE m = n
      <3>1. SizeSums(b)[Len(b)] = SizeSums(a)[Len(a)] - a[t].size + b[t].size
        <4>1. /\ Len(a) = Len(b) /\ t \in 1 .. Len(a)
              /\ \A i \in 1 .. Len(a) : i # t => a[i].size = b[i].size
          BY <1>3, <2>2, <2>3
        <4>2. QED
          BY <4>1, SumsShift
      <3>2. a[t].size \in Nat
        BY <1>2, <1>3, <2>1, <2>3
      <3>3. Total(r) = Total(p) - a[t].size + l
        BY <2>1, <2>2, <3>1 DEF Total
      <3>4. \A x, y, z \in Nat : x - y + z <= x + z
        OBVIOUS
      <3>5. QED
        BY <1>1, <1>2, <3>2, <3>3, <3>4
    <2>4. CASE m # n
      <3>1. m = n + 1 /\ t = m /\ \A i \in 1 .. n : a[i].size = b[i].size
        BY <1>3, <2>2, <2>4
      <3>2. SizeSums(b)[Len(b)] = SizeSums(a)[Len(a)] + b[Len(b)].size
        BY <2>2, <3>1, SumsGrow
      <3>3. Total(r) = Total(p) + l
        BY <2>1, <2>2, <3>1, <3>2 DEF Total
      <3>4. QED
        BY <1>2, <3>3
    <2>5. QED
      BY <2>3, <2>4
  <1>8. Fits(r)
    <2>1. Total(r) \in Nat
      BY <1>6, PageFields
    <2>2. r.free_space_ptr + Total(r) <= PageSize
      <3>1. (o - l) + Total(r) <= PageSize
        BY <1>2, <1>7, <2>1, RoomTaken
      <3>2. QED
        BY <1>3, <3>1
    <2>3. QED
      BY <1>6, <2>2 DEF Fits
  <1>9. Apart(r)
    <2>1. ASSUME NEW i \in 1 .. m, r.slots[i].size > 0
          PROVE  /\ r.free_space_ptr <= r.slots[i].offset
                 /\ r.slots[i].offset + r.slots[i].size <= PageSize
                 /\ i # t => o <= r.slots[i].offset
      <3>1. CASE i = t
        <4>1. r.slots[i].offset = o - l /\ r.slots[i].size = l
          BY <1>1, <1>3, <3>1
        <4>2. o - l + l <= PageSize
          BY <1>2
        <4>3. QED
          BY <1>3, <1>4, <3>1, <4>1, <4>2
      <3>2. CASE i # t
        <4>1. i \in 1 .. n /\ r.slots[i] = p.slots[i]
          BY <1>3, <3>2
        <4>2. /\ o <= r.slots[i].offset /\ r.slots[i].offset + r.slots[i].size <= PageSize
              /\ r.slots[i].offset \in Nat
          BY <1>2, <2>1, <4>1
        <4>3. QED
          BY <1>3, <4>2
      <3>3. QED
        BY <3>1, <3>2
    <2>2. r.slots[t].offset + r.slots[t].size = o
      <3>1. o - l + l = o
        OBVIOUS
      <3>2. QED
        BY <1>1, <1>3, <3>1
    <2>3. ASSUME NEW i \in 1 .. m, NEW j \in 1 .. m, i # j, r.slots[i].size > 0, r.slots[j].size > 0
          PROVE  \/ r.slots[i].offset + r.slots[i].size <= r.slots[j].offset
                 \/ r.slots[j].offset + r.slots[j].size <= r.slots[i].offset
      <3>1. CASE i = t
        BY <2>1, <2>2, <2>3, <3>1
      <3>2. CASE j = t
        BY <2>1, <2>2, <2>3, <3>2
      <3>3. CASE i # t /\ j # t
        <4>1. i \in 1 .. n /\ r.slots[i] = p.slots[i] /\ j \in 1 .. n /\ r.slots[j] = p.slots[j]
          BY <1>3, <3>3
        <4>2. Apart(p)
          BY DEF Layout
        <4>3. QED
          BY <1>1, <2>3, <4>1, <4>2 DEF Apart
      <3>4. QED
        BY <3>1, <3>2, <3>3
    <2>4. QED
      BY <1>1, <2>1, <2>3 DEF Apart
  <1>10. ASSUME NEW i \in 1 .. m
         PROVE  Holds(r, i, tq[i])
    <2>1. CASE i = t
      <3>1. tq[i] = bytes
        BY <1>1, <2>1
      <3>2. r.slots[i].offset = o - l /\ r.slots[i].size = l /\ ~r.slots[i].is_deleted
        BY <1>1, <1>3, <2>1
      <3>3. \A k \in 1 .. l : r.data[(o - l) + k - 1] = bytes[k]
        BY <1>5
      <3>4. QED
        BY <1>1, <3>1, <3>2, <3>3 DEF Holds
    <2>2. CASE i # t
      <3>1. tq[i] = tp[i] /\ i \in 1 .. n /\ r.slots[i] = p.slots[i]
        BY <1>1, <1>3, <2>2
      <3>2. PICK at \in Int : at = o - l
        BY <1>4
      <3>3. r.data = Copy(p.data, at, bytes)
        BY <1>1, <3>2
      <3>4. at + Len(bytes) = o
        BY <1>1, <3>2
      <3>5. p.slots[i].size > 0 => at + Len(bytes) <= p.slots[i].offset
        BY <1>2, <3>1, <3>4
      <3>6. Holds(r, i, tp[i])
        BY <1>1, <3>1, <3>3, <3>5, HoldsOn
      <3>7. QED
        BY <3>1, <3>6
    <2>3. QED
      BY <2>1, <2>2
  <1>11. DOMAIN tq = 1 .. m /\ tq = [i \in 1 .. m |-> tq[i]]
    BY <1>1
  <1>12. QED
    BY <1>1, <1>8, <1>9, <1>10, <1>11 DEF Layout

(* A slot whose tuple becomes shorter, its bytes written over the old ones. *)
LEMMA Overwrite ==
  ASSUME NEW p, NEW tp, Layout(p, tp), NEW t \in 1 .. Len(p.slots), ~p.slots[t].is_deleted,
         NEW bytes \in Seq(Nat), Len(bytes) <= p.slots[t].size,
         NEW r, r = [p EXCEPT !.data = Copy(@, p.slots[t].offset, bytes),
                              !.slots[t].size = Len(bytes)]
  PROVE  Layout(r, [tp EXCEPT ![t] = bytes])
  <1>1. PICK n \in Nat, l \in Nat, o \in Nat, z \in Nat :
           n = Len(p.slots) /\ l = Len(bytes) /\ o = p.slots[t].offset /\ z = p.slots[t].size
    <2>1. Len(p.slots) \in Nat /\ p.slots[t].offset \in Nat /\ p.slots[t].size \in Nat
      BY LayoutFacts
    <2>2. Len(bytes) \in Nat
      OBVIOUS
    <2>3. QED
      BY <2>1, <2>2
  <1>2. /\ p \in PageType /\ p.data \in [Bytes -> Nat] /\ PageSize \in Nat /\ Total(p) \in Nat
        /\ p.free_space_ptr \in Nat /\ p.free_space_ptr + Total(p) <= PageSize
        /\ DirectoryEnd(p) <= p.free_space_ptr
        /\ p.slots \in Seq(Slot) /\ p.slots[t] \in Slot
        /\ \A i \in 1 .. n :
             /\ p.slots[i].size \in Nat /\ p.slots[i].offset \in Nat
             /\ p.slots[i].size > 0 => /\ p.free_space_ptr <= p.slots[i].offset
                                       /\ p.slots[i].offset + p.slots[i].size <= PageSize
    BY <1>1, LayoutFacts
  <1>3. t \in 1 .. n /\ l <= z
    BY <1>1
  <1>4. /\ r.data = Copy(p.data, o, bytes) /\ r.slots = [p.slots EXCEPT ![t].size = l]
        /\ r.free_space_ptr = p.free_space_ptr
        /\ r = [data |-> r.data, slots |-> r.slots, free_space_ptr |-> r.free_space_ptr]
    BY <1>1, <1>2 DEF PageType
  <1>5. /\ r.slots \in Seq(Slot) /\ Len(r.slots) = n
        /\ \A i \in 1 .. n : i # t => r.slots[i] = p.slots[i]
        /\ r.slots[t].offset = o /\ r.slots[t].size = l /\ ~r.slots[t].is_deleted
    <2>1. [p.slots[t] EXCEPT !.size = l] \in Slot
      BY <1>2 DEF Slot
    <2>2. r.slots = [p.slots EXCEPT ![t] = [p.slots[t] EXCEPT !.size = l]]
      BY <1>4
    <2>3. r.slots \in Seq(Slot) /\ Len(r.slots) = n
      BY <1>1, <1>2, <2>1, <2>2
    <2>4. \A i \in 1 .. n : i # t => r.slots[i] = p.slots[i]
      BY <1>1, <1>2, <2>2
    <2>5. r.slots[t] = [p.slots[t] EXCEPT !.size = l]
      BY <1>1, <1>2, <1>3, <2>2
    <2>6. r.slots[t].offset = o /\ r.slots[t].size = l /\ ~r.slots[t].is_deleted
      BY <1>1, <1>2, <2>5 DEF Slot
    <2>7. QED
      BY <2>3, <2>4, <2>6
  <1>6. r.data \in [Bytes -> Nat] /\ \A k \in 1 .. l : r.data[o + k - 1] = bytes[k]
    <2>1. z > 0 => o + z <= PageSize
      BY <1>1, <1>2, <1>3
    <2>3. \A k \in 1 .. l : o + k - 1 \in Bytes
      <3>1. PageSize \in Nat /\ \A k \in 1 .. l : k \in 1 .. z /\ z > 0
        BY <1>2, <1>3
      <3>2. QED
        BY <2>1, <3>1, WithinBytes DEF Bytes
    <2>4. PICK d \in [Bytes -> Nat] : d = p.data
      BY <1>2
    <2>5. /\ Copy(d, o, bytes) \in [Bytes -> Nat]
          /\ \A k \in 1 .. Len(bytes) :
               o + k - 1 \in Bytes => Copy(d, o, bytes)[o + k - 1] = bytes[k]
      <3>1. o \in Int
        OBVIOUS
      <3>2. QED
        BY <3>1, CopyIs
    <2>6. r.data = Copy(d, o, bytes)
      BY <1>4, <2>4
    <2>7. QED
      BY <1>1, <2>3, <2>5, <2>6, Zenon
  <1>7. r \in PageType
    BY <1>2, <1>4, <1>5, <1>6 DEF PageType
  <1>8. Total(r) <= Total(p)
    <2>1. PICK a \in Seq(Slot), b \in Seq(Slot) : a = p.slots /\ b = r.slots
      BY <1>2, <1>5
    <2>2. /\ Len(a) = Len(b) /\ t \in 1 .. Len(a)
          /\ \A i \in 1 .. Len(a) : i # t => a[i].size = b[i].size
      BY <1>1, <1>3, <1>5, <2>1
    <2>3. SizeSums(b)[Len(b)] = SizeSums(a)[Len(a)] - a[t].size + b[t].size
      BY <2>2, SumsShift
    <2>4. Total(r) = Total(p) - z + l
      BY <1>1, <1>5, <2>1, <2>3 DEF Total
    <2>5. QED
      BY <1>2, <1>3, <2>4
  <1>9. Fits(r)
    <2>1. Total(r) \in Nat
      BY <1>7, PageFields
    <2>2. r.free_space_ptr + Total(r) <= PageSize
      BY <1>2, <1>4, <1>8, <2>1
    <2>3. DirectoryEnd(r) <= r.free_space_ptr
      BY <1>1, <1>2, <1>4, <1>5 DEF DirectoryEnd
    <2>4. QED
      BY <1>7, <2>2, <2>3 DEF Fits
  (* The tuple lies where it lay, within its old bytes. *)
  <1>10. \A i \in 1 .. n : r.slots[i].size > 0 =>
           /\ p.slots[i].size > 0 /\ r.slots[i].offset = p.slots[i].offset
           /\ r.slots[i].offset + r.slots[i].size <= p.slots[i].offset + p.slots[i].size
    <2> SUFFICES ASSUME NEW i \in 1 .. n, r.slots[i].size > 0
                 PROVE  /\ p.slots[i].size > 0 /\ r.slots[i].offset = p.slots[i].offset
                        /\ r.slots[i].offset + r.slots[i].size
                             <= p.slots[i].offset + p.slots[i].size
      OBVIOUS
    <2>u. r.slots[i].size > 0
      OBVIOUS
    <2>1. CASE i = t
      <3>1. l > 0 => z > 0 /\ o + l <= o + z
        BY <1>3
      <3>2. QED
        BY <1>1, <1>5, <2>1, <3>1
    <2>2. CASE i # t
      <3>1. r.slots[i] = p.slots[i]
        BY <1>5, <2>2
      <3>2. PICK a \in Nat, b \in Nat : a = p.slots[i].offset /\ b = p.slots[i].size
        BY <1>2
      <3>3. a + b <= a + b
        OBVIOUS
      <3>4. QED
        BY <3>1, <3>2, <3>3, <2>u
    <2>3. QED
      BY <2>1, <2>2
  <1>11. Apart(r)
    <2>1. Apart(p)
      BY DEF Layout
    <2>2. \A i \in 1 .. n : r.slots[i].size \in Nat /\ r.slots[i].offset \in Nat
      BY <1>5, SlotFields
    <2>3. \A x, y, z1 \in Nat : x <= y /\ y <= z1 => x <= z1
      OBVIOUS
    <2>a. \A x, y \in Nat : x + y \in Nat
      OBVIOUS
    <2>4. ASSUME NEW i \in 1 .. n, r.slots[i].size > 0
          PROVE  /\ r.free_space_ptr <= r.slots[i].offset
                 /\ r.slots[i].offset + r.slots[i].size <= PageSize
      <3>1. PICK a \in Nat, b \in Nat, c \in Nat, g \in Nat :
               /\ a = r.slots[i].offset /\ b = r.slots[i].size
               /\ c = p.slots[i].size /\ g = p.free_space_ptr
        BY <1>2, <2>2
      <3>2. c > 0 /\ a = p.slots[i].offset /\ a + b <= a + c
        BY <1>10, <2>4, <3>1
      <3>3. g <= a /\ a + c <= PageSize
        BY <1>2, <3>1, <3>2
      <3>a. a + b \in Nat /\ a + c \in Nat
        BY <2>a, Zenon
      <3>4. a + b <= PageSize
        BY <1>2, <2>3, <3>2, <3>3, <3>a, Zenon
      <3>5. QED
        BY <1>4, <3>1, <3>3, <3>4
    <2>5. ASSUME NEW i \in 1 .. n, NEW j \in 1 .. n, i # j, r.slots[i].size > 0, r.slots[j].size > 0
          PROVE  \/ r.slots[i].offset + r.slots[i].size <= r.slots[j].offset
                 \/ r.slots[j].offset + r.slots[j].size <= r.slots[i].offset
      <3>1. \/ p.slots[i].offset + p.slots[i].size <= p.slots[j].offset
            \/ p.slots[j].offset + p.slots[j].size <= p.slots[i].offset
        BY <1>1, <1>10, <2>1, <2>5 DEF Apart
      <3>2. PICK a \in Nat, b \in Nat, c \in Nat :
               a = r.slots[i].offset /\ b = r.slots[i].size /\ c = p.slots[i].size
        BY <1>2, <2>2
      <3>3. PICK x \in Nat, y \in Nat, w \in Nat :
               x = r.slots[j].offset /\ y = r.slots[j].size /\ w = p.slots[j].size
        BY <1>2, <2>2
      <3>4. a = p.slots[i].offset /\ a + b <= a + c /\ x = p.slots[j].offset /\ x + y <= x + w
        BY <1>10, <2>5, <3>2, <3>3
      <3>5. a + c <= x \/ x + w <= a
        BY <3>1, <3>2, <3>3, <3>4
      <3>a. a + b \in Nat /\ a + c \in Nat /\ x + y \in Nat /\ x + w \in Nat
        BY <2>a, Zenon
      <3>6. a + b <= x \/ x + y <= a
        BY <2>3, <3>4, <3>5, <3>a, Zenon
      <3>7. QED
        BY <3>2, <3>3, <3>6
    <2>6. QED
      BY <1>5, <2>4, <2>5 DEF Apart
  <1>12. PICK tq : tq = [tp EXCEPT ![t] = bytes]
    OBVIOUS
  <1>13. /\ DOMAIN tq = 1 .. n /\ tq = [i \in 1 .. n |-> tq[i]] /\ tq[t] = bytes
         /\ \A i \in 1 .. n : i # t => tq[i] = tp[i]
    BY <1>1, <1>12 DEF Layout
  <1>14. ASSUME NEW i \in 1 .. n
         PROVE  Holds(r, i, tq[i])
    <2>1. CASE i = t
      BY <1>1, <1>5, <1>6, <1>13, <2>1 DEF Holds
    <2>2. CASE i # t
      <3>1. tq[i] = tp[i] /\ r.slots[i] = p.slots[i]
        BY <1>5, <1>13, <2>2
      <3>2. ASSUME p.slots[i].size > 0, Len(bytes) > 0
            PROVE  \/ p.slots[i].offset + p.slots[i].size <= o
                   \/ o + Len(bytes) <= p.slots[i].offset
        <4>1. p.slots[t].size > 0
          BY <1>1, <1>3, <3>2
        <4>2. Apart(p)
          BY DEF Layout
        <4>3. p.slots[i].offset + p.slots[i].size <= o \/ o + z <= p.slots[i].offset
          BY <1>1, <1>3, <2>2, <3>2, <4>1, <4>2 DEF Apart
        <4>4. p.slots[i].offset \in Nat
          BY <1>2
        <4>5. \A x, y, v, w \in Nat : x <= y /\ v + y <= w => v + x <= w
          OBVIOUS
        <4>6. o + z <= p.slots[i].offset => o + l <= p.slots[i].offset
          BY <1>3, <4>4, <4>5
        <4>7. QED
          BY <1>1, <4>3, <4>6
      <3>3. Holds(r, i, tp[i])
        <4>1. r.data = Copy(p.data, o, bytes) /\ o \in Int /\ i \in 1 .. Len(p.slots)
          BY <1>1, <1>4
        <4>2. QED
          BY <3>1, <3>2, <4>1, HoldsOn
      <3>4. QED
        BY <3>1, <3>3
    <2>3. QED
      BY <2>1, <2>2
  <1>15. QED
    BY <1>5, <1>9, <1>11, <1>12, <1>13, <1>14 DEF Layout

(* A directory with slot t replaced. *)
LEMMA SlotSet ==
  ASSUME NEW s \in Seq(Slot), NEW t \in 1 .. Len(s), NEW x \in Slot
  PROVE  /\ [s EXCEPT ![t] = x] \in Seq(Slot) /\ Len([s EXCEPT ![t] = x]) = Len(s)
         /\ [s EXCEPT ![t] = x][t] = x
         /\ \A i \in 1 .. Len(s) : i # t => [s EXCEPT ![t] = x][i] = s[i]
  OBVIOUS

(* A slot whose tuple is deleted. *)
LEMMA Deleted ==
  ASSUME NEW p, NEW tp, Layout(p, tp), NEW t \in 1 .. Len(p.slots),
         NEW r, r = [p EXCEPT !.slots[t].is_deleted = TRUE, !.slots[t].size = 0]
  PROVE  Layout(r, [tp EXCEPT ![t] = Gone])
  <1>1. PICK n \in Nat : n = Len(p.slots)
    BY LayoutFacts
  <1>2. /\ p \in PageType /\ PageSize \in Nat /\ Total(p) \in Nat
        /\ p.free_space_ptr \in Nat /\ p.free_space_ptr + Total(p) <= PageSize
        /\ DirectoryEnd(p) <= p.free_space_ptr
        /\ p.data \in [Bytes -> Nat] /\ p.slots \in Seq(Slot) /\ p.slots[t] \in Slot
        /\ p.slots[t].size \in Nat
    BY <1>1, LayoutFacts
  <1>3. /\ r.data = p.data /\ r.free_space_ptr = p.free_space_ptr /\ t \in 1 .. n
        /\ r.slots = [p.slots EXCEPT ![t] = [@ EXCEPT !.is_deleted = TRUE, !.size = 0]]
        /\ r = [data |-> r.data, slots |-> r.slots, free_space_ptr |-> r.free_space_ptr]
    BY <1>1, <1>2 DEF PageType
  <1>4. /\ r.slots \in Seq(Slot) /\ Len(r.slots) = n
        /\ \A i \in 1 .. n : i # t => r.slots[i] = p.slots[i]
        /\ r.slots[t].size = 0 /\ r.slots[t].is_deleted
    <2>1. PICK s : s = [p.slots[t] EXCEPT !.is_deleted = TRUE, !.size = 0]
      OBVIOUS
    <2>2. s \in Slot /\ s.size = 0 /\ s.is_deleted
      BY <1>2, <2>1 DEF Slot
    <2>3. r.slots = [p.slots EXCEPT ![t] = s]
      BY <1>3, <2>1
    <2>4. /\ r.slots \in Seq(Slot) /\ Len(r.slots) = Len(p.slots) /\ r.slots[t] = s
          /\ \A i \in 1 .. Len(p.slots) : i # t => r.slots[i] = p.slots[i]
      <3>1. PICK a \in Seq(Slot) : a = p.slots
        BY <1>2, Zenon
      <3>2. PICK u : u = r.slots
        OBVIOUS
      <3>3. u = [a EXCEPT ![t] = s] /\ t \in 1 .. Len(a)
        BY <2>3, <3>1, <3>2, Zenon
      <3>a. s \in Slot
        BY <2>2
      <3>b. /\ [a EXCEPT ![t] = s] \in Seq(Slot) /\ Len([a EXCEPT ![t] = s]) = Len(a)
            /\ [a EXCEPT ![t] = s][t] = s
            /\ \A i \in 1 .. Len(a) : i # t => [a EXCEPT ![t] = s][i] = a[i]
        BY <3>3, <3>a, SlotSet
      <3>4. /\ u \in Seq(Slot) /\ Len(u) = Len(a) /\ u[t] = s
            /\ \A i \in 1 .. Len(a) : i # t => u[i] = a[i]
        BY <3>3, <3>b, Zenon
      <3>5. QED
        BY <3>1, <3>2, <3>4, Zenon
    <2>5. QED
      BY <1>1, <2>2, <2>4, Zenon
  <1>5. r \in PageType
    BY <1>2, <1>3, <1>4 DEF PageType
  <1>6. Total(r) <= Total(p)
    <2>1. PICK a \in Seq(Slot), b \in Seq(Slot) : a = p.slots /\ b = r.slots
      BY <1>2, <1>4
    <2>2. /\ Len(a) = Len(b) /\ t \in 1 .. Len(a)
          /\ \A i \in 1 .. Len(a) : i # t => a[i].size = b[i].size
      BY <1>1, <1>3, <1>4, <2>1
    <2>3. SizeSums(b)[Len(b)] = SizeSums(a)[Len(a)] - a[t].size + b[t].size
      BY <2>2, SumsShift
    <2>4. Total(r) = Total(p) - p.slots[t].size + 0
      BY <1>4, <2>1, <2>3 DEF Total
    <2>5. \A x, y \in Nat : x - y + 0 <= x
      OBVIOUS
    <2>6. QED
      BY <1>2, <2>4, <2>5
  <1>7. Fits(r)
    <2>1. Total(r) \in Nat
      BY <1>5, PageFields
    <2>2. \A x, y, z, s \in Nat : x + y <= z /\ s <= y => x + s <= z
      OBVIOUS
    <2>3. r.free_space_ptr + Total(r) <= PageSize
      BY <1>2, <1>3, <1>6, <2>1, <2>2, Zenon
    <2>4. DirectoryEnd(r) = DirectoryEnd(p)
      BY <1>1, <1>4 DEF DirectoryEnd
    <2>5. QED
      BY <1>2, <1>3, <1>5, <2>3, <2>4 DEF Fits
  <1>8. \A i \in 1 .. n : r.slots[i].size > 0 => i # t /\ r.slots[i] = p.slots[i]
    BY <1>4
  <1>9. Apart(r)
    <2>1. Apart(p)
      BY DEF Layout
    <2>2. \A i \in 1 .. n : r.slots[i].size > 0 =>
            /\ r.free_space_ptr <= r.slots[i].offset
            /\ r.slots[i].offset + r.slots[i].size <= PageSize
      BY <1>1, <1>3, <1>8, <2>1, Zenon DEF Apart
    <2>3. \A i, j \in 1 .. n : i # j /\ r.slots[i].size > 0 /\ r.slots[j].size > 0 =>
            \/ r.slots[i].offset + r.slots[i].size <= r.slots[j].offset
            \/ r.slots[j].offset + r.slots[j].size <= r.slots[i].offset
      <3>1. ASSUME NEW i \in 1 .. n, NEW j \in 1 .. n, i # j,
                   r.slots[i].size > 0, r.slots[j].size > 0
            PROVE  \/ r.slots[i].offset + r.slots[i].size <= r.slots[j].offset
                   \/ r.slots[j].offset + r.slots[j].size <= r.slots[i].offset
        <4>1. r.slots[i] = p.slots[i] /\ r.slots[j] = p.slots[j]
          BY <1>8, <3>1
        <4>2. \/ p.slots[i].offset + p.slots[i].size <= p.slots[j].offset
              \/ p.slots[j].offset + p.slots[j].size <= p.slots[i].offset
          BY <1>1, <2>1, <3>1, <4>1 DEF Apart
        <4>3. QED
          BY <4>1, <4>2, Zenon
      <3>2. QED
        BY <3>1
    <2>4. QED
      BY <1>4, <2>2, <2>3 DEF Apart
  <1>10. PICK tq : tq = [tp EXCEPT ![t] = Gone]
    OBVIOUS
  <1>11. /\ DOMAIN tq = 1 .. n /\ tq = [i \in 1 .. n |-> tq[i]] /\ tq[t] = Gone
         /\ \A i \in 1 .. n : i # t => tq[i] = tp[i]
    BY <1>1, <1>3, <1>10 DEF Layout
  <1>12. ASSUME NEW i \in 1 .. n
         PROVE  Holds(r, i, tq[i])
    <2>1. CASE i = t
      BY <1>4, <1>11, <2>1 DEF Holds
    <2>2. CASE i # t
      <3>1. Holds(p, i, tp[i])
        BY <1>1 DEF Layout
      <3>2. tq[i] = tp[i] /\ r.slots[i] = p.slots[i]
        BY <1>4, <1>11, <2>2
      <3>3. QED
        BY <1>3, <3>1, <3>2 DEF Holds
    <2>3. QED
      BY <2>1, <2>2
  <1>13. QED
    BY <1>4, <1>7, <1>9, <1>10, <1>11, <1>12 DEF Layout

(* The room an insert or a growing update finds, or why it finds none. *)
LEMMA Room ==
  ASSUME NEW p, NEW tp, Layout(p, tp), NEW need \in Nat, NEW q, q = MakeRoom(p, need)
  PROVE  /\ Layout(q, tp) /\ Len(q.slots) = Len(p.slots) /\ DirectoryEnd(q) = DirectoryEnd(p)
         /\ \A i \in 1 .. Len(p.slots) : q.slots[i].is_deleted = p.slots[i].is_deleted
         /\ free_space(q) < need => DirectoryEnd(q) + Total(q) + need > PageSize
         /\ ~(free_space(q) < need) => DirectoryEnd(q) + need <= q.free_space_ptr
  <1>1. /\ Layout(q, tp) /\ Len(q.slots) = Len(p.slots)
        /\ \A i \in 1 .. Len(p.slots) : q.slots[i].is_deleted = p.slots[i].is_deleted
        /\ free_space(q) < need => q.free_space_ptr = PageSize - Total(q)
    <2>1. CASE free_space(p) < need
      <3>1. q = compact(p)
        BY <2>1 DEF MakeRoom
      <3>2. Layout(q, tp) /\ Packed(p, q)
        BY <3>1, Compaction
      <3>3. QED
        BY <3>2 DEF Packed
    <2>2. CASE ~(free_space(p) < need)
      BY <2>2 DEF MakeRoom
    <2>3. QED
      BY <2>1, <2>2
  <1>2. DirectoryEnd(q) = DirectoryEnd(p)
    BY <1>1 DEF DirectoryEnd
  <1>3. PICK d \in Nat, o \in Nat, z \in Nat, m \in Nat :
           /\ d = DirectoryEnd(q) /\ o = q.free_space_ptr /\ z = Total(q) /\ m = PageSize
           /\ d <= o
    BY <1>1, LayoutFacts
  <1>4. free_space(q) = o - d
    BY <1>3 DEF free_space
  <1>5. free_space(q) < need => d + z + need > m
    <2>1. free_space(q) < need => o = m - z
      BY <1>1, <1>3
    <2>2. o - d < need /\ o = m - z => d + z + need > m
      OBVIOUS
    <2>3. QED
      BY <1>4, <2>1, <2>2
  <1>6. ~(free_space(q) < need) => d + need <= o
    BY <1>3, <1>4
  <1>7. QED
    BY <1>1, <1>2, <1>3, <1>5, <1>6

(***************************************************************************)
(* The invariant: the page is laid out well for the tuples its callers     *)
(* stored, and the last refusal, if any, was right.  TuplesIntact alone is *)
(* not inductive: it says neither that tuples do not overlap nor that the  *)
(* bytes of the live ones fit below the free space.                        *)
(***************************************************************************)
PageInv ==
  /\ Layout(page, tuples)
  /\ refused \in Nat
  /\ refused > 0 => DirectoryEnd(page) + Total(page) + (refused - 1) + SlotSize > PageSize

(* init() leaves an empty page laid out well. *)
LEMMA PageInvInit == PageInit => PageInv
  <1> SUFFICES ASSUME PageInit PROVE PageInv
    OBVIOUS
  <1>1. /\ page.data \in [Bytes -> Nat] /\ page.slots = <<>> /\ page.free_space_ptr = PageSize
        /\ page = [data |-> page.data, slots |-> <<>>, free_space_ptr |-> PageSize]
        /\ tuples = <<>> /\ refused = 0
    BY DEF PageInit, Bytes
  <1>2. <<>> \in Seq(Slot) /\ Len(<<>>) = 0 /\ DOMAIN <<>> = 1 .. 0
    OBVIOUS
  <1>3. page \in PageType
    BY <1>1, <1>2, PageNumbers DEF PageType
  <1>4. Total(page) = 0
    BY <1>1, <1>2, Sums DEF Total
  <1>5. DirectoryEnd(page) = HeaderSize
    <2>1. DirectoryEnd(page) = HeaderSize + 0 * SlotSize
      BY <1>1, <1>2 DEF DirectoryEnd
    <2>2. QED
      BY <2>1, PageNumbers
  <1>6. Fits(page)
    BY <1>1, <1>3, <1>4, <1>5, PageNumbers DEF Fits
  <1>7. Apart(page)
    BY <1>1, <1>2 DEF Apart
  <1>8. Layout(page, tuples)
    <2>1. tuples = [i \in 1 .. 0 |-> tuples[i]]
      BY <1>1, <1>2
    <2>2. QED
      BY <1>1, <1>2, <1>6, <1>7, <2>1 DEF Layout
  <1>9. QED
    BY <1>1, <1>8 DEF PageInv

(* insert_tuple() keeps the invariant, taking the tuple or refusing it. *)
LEMMA InsertStep ==
  ASSUME PageInv, NEW bytes \in Payloads, insert_tuple(bytes)
  PROVE  PageInv'
  <1> DEFINE need0 == Len(bytes) + SlotSize
             p0 == MakeRoom(page, need0)
             q0 == Stored(p0, bytes)
             del0 == {i \in DOMAIN p0.slots : p0.slots[i].is_deleted}
             least0 == CHOOSE i \in del0 : \A j \in del0 : i <= j
             target0 == IF del0 = {} THEN Len(p0.slots) + 1 ELSE least0
             slot0 == [offset |-> q0.free_space_ptr, size |-> Len(bytes), is_deleted |-> FALSE]
  <1>a. IF free_space(p0) < need0
        THEN page' = p0 /\ refused' = Len(bytes) + 1 /\ tuples' = tuples
        ELSE /\ page' = [q0 EXCEPT !.slots = [i \in 1 .. IF del0 = {} THEN target0 ELSE Len(@) |->
                                                IF i = target0 THEN slot0 ELSE @[i]]]
             /\ tuples' = [i \in DOMAIN page'.slots |-> IF i = target0 THEN bytes ELSE tuples[i]]
             /\ refused' = 0
    BY DEF insert_tuple
  <1>b. (\E x \in del0 : \A y \in del0 : x <= y) => least0 \in del0
    <2> HIDE DEF del0
    <2>1. QED
      OBVIOUS
  <1>c. target0 = IF del0 = {} THEN Len(p0.slots) + 1 ELSE least0
    <2> HIDE DEF least0, del0, p0
    <2>1. QED
      OBVIOUS
  <1>d. /\ del0 = {i \in DOMAIN p0.slots : p0.slots[i].is_deleted} /\ q0 = Stored(p0, bytes)
        /\ slot0 = [offset |-> q0.free_space_ptr, size |-> Len(bytes), is_deleted |-> FALSE]
        /\ p0 = MakeRoom(page, need0) /\ need0 = Len(bytes) + SlotSize
    BY Zenon
  <1> HIDE DEF need0, p0, q0, del0, least0, target0, slot0
  <1>1. bytes \in Seq(Nat) /\ Len(bytes) \in Nat
    BY PageAssumption
  <1>2. PICK need \in Nat : need = Len(bytes) + SlotSize /\ need = need0
    BY <1>1, <1>d, PageNumbers
  <1>3. PICK p : p = MakeRoom(page, need) /\ p = p0
    BY <1>2, <1>d
  <1>4. Layout(page, tuples)
    BY DEF PageInv
  <1>5. /\ Layout(p, tuples) /\ Len(p.slots) = Len(page.slots)
        /\ free_space(p) < need => DirectoryEnd(p) + Total(p) + need > PageSize
        /\ ~(free_space(p) < need) => DirectoryEnd(p) + need <= p.free_space_ptr
    <2>1. p = MakeRoom(page, need)
      BY <1>3
    <2>2. QED
      BY <1>4, <2>1, Room, Zenon
  <1>6. CASE free_space(p) < need
    <2>1. page' = p /\ refused' = Len(bytes) + 1 /\ tuples' = tuples
      BY <1>2, <1>3, <1>6, <1>a
    <2>2. PICK d \in Nat, z \in Nat, l \in Nat :
             d = DirectoryEnd(p) /\ z = Total(p) /\ l = Len(bytes)
      BY <1>1, <1>5, LayoutFacts
    <2>3. d + z + ((l + 1) - 1) + SlotSize > PageSize
      <3>1. d + z + need > PageSize /\ need = l + SlotSize
        BY <1>2, <1>5, <1>6, <2>2
      <3>2. SlotSize \in Nat /\ PageSize \in Nat
        BY PageNumbers
      <3>3. QED
        BY <3>1, <3>2
    <2>4. DirectoryEnd(page)' = d /\ Total(page)' = z /\ refused' = l + 1
      BY <2>1, <2>2 DEF DirectoryEnd, Total
    <2>5. Layout(page, tuples)'
      BY <1>5, <2>1 DEF Layout, Fits, Apart, Holds, Total, DirectoryEnd
    <2>6. QED
      BY <2>2, <2>3, <2>4, <2>5 DEF PageInv
  <1>7. CASE ~(free_space(p) < need)
    <2>1. PICK deleted : deleted = {i \in DOMAIN p.slots : p.slots[i].is_deleted} /\ deleted = del0
      BY <1>3, <1>d
    <2>2. PICK target : target = target0
      OBVIOUS
    <2>3. PICK q : q = Stored(p, bytes) /\ q = q0
      BY <1>3, <1>d
    <2>4. PICK slot : slot = slot0 /\ slot = [offset |-> q.free_space_ptr, size |-> Len(bytes),
                                             is_deleted |-> FALSE]
      BY <1>d, <2>3
    <2>5. /\ page' = [q EXCEPT !.slots = [i \in 1 .. IF deleted = {} THEN target ELSE Len(@) |->
                                            IF i = target THEN slot ELSE @[i]]]
          /\ tuples' = [i \in DOMAIN page'.slots |-> IF i = target THEN bytes ELSE tuples[i]]
          /\ refused' = 0
      BY <1>2, <1>3, <1>7, <1>a, <2>1, <2>2, <2>3, <2>4
    <2>6. /\ p \in PageType /\ p.data \in [Bytes -> Nat] /\ p.slots \in Seq(Slot)
          /\ p.free_space_ptr \in Nat /\ DirectoryEnd(p) \in Nat /\ Len(p.slots) \in Nat
          /\ DOMAIN p.slots = 1 .. Len(p.slots)
      BY <1>5, LayoutFacts
    <2>7. PICK o \in Nat, n \in Nat, l \in Nat :
             o = p.free_space_ptr /\ n = Len(p.slots) /\ l = Len(bytes)
      BY <1>1, <2>6
    <2>8. /\ q.free_space_ptr = o - l /\ q.data = Copy(p.data, o - l, bytes) /\ q.slots = p.slots
          /\ q = [data |-> q.data, slots |-> q.slots, free_space_ptr |-> q.free_space_ptr]
      BY <2>3, <2>6, <2>7 DEF Stored, PageType
    <2>9. o - l \in Nat /\ DirectoryEnd(p) + SlotSize <= o - l
      BY <1>2, <1>5, <1>7, <2>6, <2>7, PageNumbers
    <2>10. slot \in Slot /\ slot.offset = o - l /\ slot.size = l /\ ~slot.is_deleted
      BY <2>4, <2>7, <2>8, <2>9 DEF Slot
    <2>11. PICK m \in Nat : m = IF deleted = {} THEN n + 1 ELSE n
      OBVIOUS
    <2>12. /\ target \in 1 .. m /\ (m = n \/ (m = n + 1 /\ target = m))
           /\ (IF deleted = {} THEN target ELSE n) = m
      <3>1. CASE deleted = {}
        <4>1. target = n + 1
          BY <1>3, <1>c, <2>1, <2>2, <2>7, <3>1
        <4>2. QED
          BY <2>11, <3>1, <4>1
      <3>2. CASE deleted # {}
        <4>1. deleted \in SUBSET Nat /\ deleted \subseteq 1 .. n
          BY <2>1, <2>6, <2>7
        <4>2. PICK x \in deleted : \A y \in deleted : x <= y
          BY <3>2, <4>1, LeastNumber
        <4>3. target \in deleted
          BY <1>b, <1>c, <2>1, <2>2, <3>2, <4>2
        <4>4. QED
          BY <2>11, <3>2, <4>1, <4>3
      <3>3. QED
        BY <3>1, <3>2
    <2>13. PICK ns : ns = [i \in 1 .. m |-> IF i = target THEN slot ELSE p.slots[i]]
      OBVIOUS
    <2>14. page' = [data |-> q.data, slots |-> ns, free_space_ptr |-> o - l]
      <3>1. [i \in 1 .. IF deleted = {} THEN target ELSE Len(q.slots) |->
               IF i = target THEN slot ELSE q.slots[i]] = ns
        BY <2>7, <2>8, <2>12, <2>13
      <3>2. page' = [q EXCEPT !.slots = ns]
        BY <2>5, <3>1
      <3>3. QED
        BY <2>8, <3>2
    <2>15. ns \in Seq(Slot) /\ Len(ns) = m /\ DOMAIN ns = 1 .. m
      <3>1. \A i \in 1 .. m : i # target => i \in 1 .. n
        BY <2>12
      <3>2. \A i \in 1 .. n : p.slots[i] \in Slot
        BY <2>6, <2>7
      <3>3. ns \in [1 .. m -> Slot]
        BY <2>10, <2>13, <3>1, <3>2
      <3>4. ns \in Seq(Slot)
        BY <3>3, SeqDef
      <3>5. QED
        BY <3>3, <3>4
    <2>16. PICK r : r = page'
      OBVIOUS
    <2>17. /\ r.data = Copy(p.data, p.free_space_ptr - Len(bytes), bytes)
           /\ r.free_space_ptr = p.free_space_ptr - Len(bytes) /\ r.slots = ns
           /\ r = [data |-> r.data, slots |-> r.slots, free_space_ptr |-> r.free_space_ptr]
      BY <2>7, <2>8, <2>14, <2>16
    <2>18. /\ r.slots \in Seq(Slot) /\ target \in 1 .. Len(r.slots)
           /\ Len(r.slots) = Len(p.slots) \/ (Len(r.slots) = Len(p.slots) + 1
                                              /\ target = Len(r.slots))
           /\ \A i \in 1 .. Len(r.slots) : i # target => r.slots[i] = p.slots[i]
           /\ r.slots[target] = slot
      BY <2>7, <2>12, <2>13, <2>15, <2>17
    <2>19. r.slots[target].offset = r.free_space_ptr /\ r.slots[target].size = Len(bytes)
           /\ ~r.slots[target].is_deleted
      BY <2>7, <2>10, <2>17, <2>18
    <2>20. DirectoryEnd(r) <= r.free_space_ptr
      <3>1. /\ n * SlotSize \in Nat /\ (n + 1) * SlotSize = n * SlotSize + SlotSize
            /\ HeaderSize \in Nat /\ SlotSize \in Nat
        BY PageNumbers
      <3>2. /\ DirectoryEnd(p) = HeaderSize + n * SlotSize
            /\ DirectoryEnd(r) = HeaderSize + m * SlotSize
        BY <2>7, <2>15, <2>17 DEF DirectoryEnd
      <3>3. m * SlotSize = n * SlotSize \/ m * SlotSize = n * SlotSize + SlotSize
        BY <2>12, <3>1
      <3>4. DirectoryEnd(r) <= o - l
        BY <2>9, <3>1, <3>2, <3>3
      <3>5. QED
        BY <2>7, <2>17, <3>4
    <2>21. PICK tq : tq = tuples'
      OBVIOUS
    <2>22. tq = [i \in 1 .. Len(r.slots) |-> IF i = target THEN bytes ELSE tuples[i]]
      BY <2>5, <2>15, <2>16, <2>17, <2>21
    <2>23. Layout(r, tq)
      BY <1>1, <1>5, <2>17, <2>18, <2>19, <2>20, <2>22, Place
    <2>24. Layout(page, tuples)'
      BY <2>16, <2>21, <2>23 DEF Layout, Fits, Apart, Holds, Total, DirectoryEnd
    <2>25. QED
      BY <2>5, <2>24 DEF PageInv
  <1>8. QED
    BY <1>6, <1>7

(* update_tuple() keeps it, in place, moved below the others or refused. *)
LEMMA UpdateStep ==
  ASSUME PageInv, NEW t \in DOMAIN page.slots, NEW bytes \in Payloads, update_tuple(t, bytes)
  PROVE  PageInv'
  <1>1. bytes \in Seq(Nat) /\ Len(bytes) \in Nat
    BY PageAssumption
  <1>2. Layout(page, tuples)
    BY DEF PageInv
  <1>3. t \in 1 .. Len(page.slots) /\ ~page.slots[t].is_deleted /\ refused' = 0
    BY <1>2, LayoutFacts DEF update_tuple
  <1>4. PICK g, tp : g = page /\ tp = tuples
    OBVIOUS
  <1>5. ASSUME NEW r, NEW tq, r = page', tq = tuples', Layout(r, tq)
        PROVE  PageInv'
    <2>1. Layout(page, tuples)'
      BY <1>5 DEF Layout, Fits, Apart, Holds, Total, DirectoryEnd
    <2>2. QED
      BY <1>3, <2>1 DEF PageInv
  <1>6. CASE Len(bytes) <= page.slots[t].size
    <2>1. PICK r : r = page' /\ r = [g EXCEPT !.data = Copy(@, g.slots[t].offset, bytes),
                                              !.slots[t].size = Len(bytes)]
      BY <1>4, <1>6 DEF update_tuple
    <2>2. PICK tq : tq = tuples' /\ tq = [tp EXCEPT ![t] = bytes]
      BY <1>4, <1>6 DEF update_tuple
    <2>3. Layout(g, tp) /\ t \in 1 .. Len(g.slots) /\ ~g.slots[t].is_deleted
          /\ Len(bytes) <= g.slots[t].size
      BY <1>2, <1>3, <1>4, <1>6
    <2>4. r = [g EXCEPT !.data = Copy(@, g.slots[t].offset, bytes), !.slots[t].size = Len(bytes)]
      BY <2>1
    <2>5. Layout(r, [tp EXCEPT ![t] = bytes])
      BY <1>1, <2>3, <2>4, Overwrite
    <2>6. QED
      BY <1>5, <2>1, <2>2, <2>5
  <1>7. CASE ~(Len(bytes) <= page.slots[t].size)
    <2>1. PICK p : p = MakeRoom(page, Len(bytes))
      OBVIOUS
    <2>2. /\ Layout(p, tuples) /\ Len(p.slots) = Len(page.slots)
          /\ \A i \in 1 .. Len(page.slots) : p.slots[i].is_deleted = page.slots[i].is_deleted
          /\ ~(free_space(p) < Len(bytes)) => DirectoryEnd(p) + Len(bytes) <= p.free_space_ptr
      BY <1>1, <1>2, <2>1, Room, Zenon
    <2>3. CASE free_space(p) < Len(bytes)
      <3>1. page' = p /\ tuples' = tuples
        BY <1>7, <2>1, <2>3 DEF update_tuple
      <3>2. PICK r, tq : r = page' /\ tq = tuples'
        OBVIOUS
      <3>3. Layout(r, tq)
        BY <2>2, <3>1, <3>2
      <3>4. QED
        BY <1>5, <3>2, <3>3
    <2>4. CASE ~(free_space(p) < Len(bytes))
      <3>1. PICK q : q = Stored(p, bytes)
        OBVIOUS
      <3>2. /\ page' = [q EXCEPT !.slots[t].offset = q.free_space_ptr, !.slots[t].size = Len(bytes)]
            /\ tuples' = [tuples EXCEPT ![t] = bytes]
        BY <1>7, <2>1, <2>4, <3>1 DEF update_tuple
      <3>3. /\ p \in PageType /\ p.data \in [Bytes -> Nat] /\ p.slots \in Seq(Slot)
            /\ p.free_space_ptr \in Nat /\ DirectoryEnd(p) \in Nat /\ Len(p.slots) \in Nat
            /\ t \in 1 .. Len(p.slots) /\ DOMAIN tuples = 1 .. Len(p.slots)
        BY <1>3, <2>2, LayoutFacts
      <3>a. p.slots[t] \in Slot /\ ~p.slots[t].is_deleted
        BY <1>3, <2>2, <3>3, SlotFields
      <3>4. PICK o \in Nat, l \in Nat : o = p.free_space_ptr /\ l = Len(bytes)
        BY <1>1, <3>3
      <3>5. /\ q.free_space_ptr = o - l /\ q.data = Copy(p.data, o - l, bytes) /\ q.slots = p.slots
            /\ q = [data |-> q.data, slots |-> q.slots, free_space_ptr |-> q.free_space_ptr]
        BY <3>1, <3>3, <3>4 DEF Stored, PageType
      <3>6. o - l \in Nat /\ DirectoryEnd(p) <= o - l
        BY <2>2, <2>4, <3>3, <3>4
      <3>7. PICK slot : slot = [p.slots[t] EXCEPT !.offset = o - l, !.size = l]
        OBVIOUS
      <3>8. slot \in Slot /\ slot.offset = o - l /\ slot.size = l /\ ~slot.is_deleted
        BY <3>6, <3>7, <3>a DEF Slot
      <3>9. PICK ns : ns = [p.slots EXCEPT ![t] = slot]
        OBVIOUS
      <3>10. /\ ns \in Seq(Slot) /\ Len(ns) = Len(p.slots) /\ ns[t] = slot
             /\ \A i \in 1 .. Len(p.slots) : i # t => ns[i] = p.slots[i]
        BY <3>3, <3>8, <3>9, SlotSet
      <3>11. page' = [data |-> q.data, slots |-> ns, free_space_ptr |-> o - l]
        <4>1. [q.slots EXCEPT ![t].offset = q.free_space_ptr, ![t].size = Len(bytes)] = ns
          BY <3>3, <3>4, <3>5, <3>7, <3>9
        <4>2. page' = [q EXCEPT !.slots = ns]
          BY <3>2, <3>5, <4>1
        <4>3. QED
          BY <3>5, <4>2
      <3>12. PICK r : r = page'
        OBVIOUS
      <3>13. /\ r.data = Copy(p.data, p.free_space_ptr - Len(bytes), bytes)
             /\ r.free_space_ptr = p.free_space_ptr - Len(bytes) /\ r.slots = ns
             /\ r = [data |-> r.data, slots |-> r.slots, free_space_ptr |-> r.free_space_ptr]
        BY <3>4, <3>5, <3>11, <3>12
      <3>14. /\ r.slots \in Seq(Slot) /\ t \in 1 .. Len(r.slots) /\ Len(r.slots) = Len(p.slots)
             /\ \A i \in 1 .. Len(r.slots) : i # t => r.slots[i] = p.slots[i]
        BY <3>3, <3>10, <3>13
      <3>15. r.slots[t].offset = r.free_space_ptr /\ r.slots[t].size = Len(bytes)
             /\ ~r.slots[t].is_deleted
        BY <3>4, <3>8, <3>10, <3>13
      <3>16. DirectoryEnd(r) <= r.free_space_ptr
        <4>1. DirectoryEnd(r) = DirectoryEnd(p)
          BY <3>14 DEF DirectoryEnd
        <4>2. QED
          BY <3>4, <3>6, <3>13, <4>1
      <3>17. PICK tq : tq = tuples'
        OBVIOUS
      <3>18. tq = [i \in 1 .. Len(r.slots) |-> IF i = t THEN bytes ELSE tuples[i]]
        BY <2>2, <3>2, <3>3, <3>14, <3>17 DEF Layout
      <3>19. Layout(r, tq)
        <4>1. /\ r.data = Copy(p.data, p.free_space_ptr - Len(bytes), bytes)
              /\ r.free_space_ptr = p.free_space_ptr - Len(bytes)
              /\ r = [data |-> r.data, slots |-> r.slots, free_space_ptr |-> r.free_space_ptr]
          BY <3>13
        <4>2. Layout(p, tuples)
          BY <2>2
        <4>3. QED
          BY <1>1, <3>14, <3>15, <3>16, <3>18, <4>1, <4>2, Place, ZenonT(30)
      <3>20. QED
        BY <1>5, <3>12, <3>17, <3>19
    <2>5. QED
      BY <2>3, <2>4
  <1>8. QED
    BY <1>6, <1>7

(* delete_tuple() keeps it. *)
LEMMA DeleteStep ==
  ASSUME PageInv, NEW t \in DOMAIN page.slots, delete_tuple(t)
  PROVE  PageInv'
  <1>1. Layout(page, tuples)
    BY DEF PageInv
  <1>2. PICK g, tp : g = page /\ tp = tuples
    OBVIOUS
  <1>3. PICK r : r = page' /\ r = [g EXCEPT !.slots[t].is_deleted = TRUE, !.slots[t].size = 0]
    BY <1>2 DEF delete_tuple
  <1>4. PICK tq : tq = tuples' /\ tq = [tp EXCEPT ![t] = Gone]
    BY <1>2 DEF delete_tuple
  <1>5. Layout(g, tp) /\ t \in 1 .. Len(g.slots)
    BY <1>1, <1>2, LayoutFacts
  <1>6. r = [g EXCEPT !.slots[t].is_deleted = TRUE, !.slots[t].size = 0]
    BY <1>3
  <1>7. Layout(r, [tp EXCEPT ![t] = Gone])
    BY <1>5, <1>6, Deleted
  <1>8. Layout(r, tq)
    BY <1>4, <1>7
  <1>9. Layout(page, tuples)'
    <2>1. r = page' /\ tq = tuples'
      BY <1>3, <1>4
    <2>2. QED
      BY <1>8, <2>1 DEF Layout, Fits, Apart, Holds, Total, DirectoryEnd
  <1>10. refused' = 0
    BY DEF delete_tuple
  <1>11. QED
    BY <1>9, <1>10 DEF PageInv

(* compact() keeps it. *)
LEMMA CompactStep ==
  ASSUME PageInv, Compact
  PROVE  PageInv'
  <1>1. Layout(compact(page), tuples)
    BY Compaction DEF PageInv
  <1>2. PICK r, tq : r = page' /\ tq = tuples'
    OBVIOUS
  <1>3. r = compact(page) /\ tq = tuples /\ refused' = 0
    BY <1>2 DEF Compact
  <1>4. Layout(r, tq)
    BY <1>1, <1>3
  <1>5. Layout(page, tuples)'
    BY <1>2, <1>4 DEF Layout, Fits, Apart, Holds, Total, DirectoryEnd
  <1>6. QED
    BY <1>3, <1>5 DEF PageInv

(* The invariant implies the property. *)
LEMMA PageInvIntact == PageInv => TuplesIntact
  <1> SUFFICES ASSUME PageInv PROVE TuplesIntact
    OBVIOUS
  <1>1. Layout(page, tuples)
    BY DEF PageInv
  <1>2. /\ DOMAIN page.slots = 1 .. Len(page.slots) /\ DirectoryEnd(page) \in Nat
        /\ DirectoryEnd(page) <= page.free_space_ptr /\ page.free_space_ptr \in Nat
        /\ \A i \in 1 .. Len(page.slots) :
             /\ page.slots[i].offset \in Nat /\ Holds(page, i, tuples[i])
             /\ page.slots[i].size > 0 => page.free_space_ptr <= page.slots[i].offset
    BY <1>1, LayoutFacts
  <1>3. ASSUME NEW i \in DOMAIN page.slots
        PROVE  get_tuple(i) = tuples[i]
    <2>1. Holds(page, i, tuples[i])
      BY <1>2
    <2>2. CASE page.slots[i].is_deleted
      BY <2>1, <2>2 DEF get_tuple, Holds
    <2>3. CASE ~page.slots[i].is_deleted
      <3>1. Tuple(page, i) = tuples[i]
        BY <2>1, <2>3, TupleIs
      <3>2. QED
        BY <2>3, <3>1 DEF get_tuple
    <2>4. QED
      BY <2>2, <2>3
  <1>4. ASSUME NEW i \in DOMAIN page.slots, page.slots[i].size > 0
        PROVE  page.slots[i].offset >= DirectoryEnd(page)
    <2>1. /\ page.slots[i].offset \in Nat /\ page.free_space_ptr <= page.slots[i].offset
      BY <1>2, <1>4
    <2>2. \A a, b, c \in Nat : a <= b /\ b <= c => c >= a
      OBVIOUS
    <2>3. QED
      BY <1>2, <2>1, <2>2
  <1>5. page.free_space_ptr >= DirectoryEnd(page)
    BY <1>2
  <1>6. Sizes = Total(page)
    BY DEF Sizes, Total
  <1>7. QED
    BY <1>3, <1>4, <1>5, <1>6 DEF TuplesIntact, PageInv

(***************************************************************************)
(* For every page size, every payloads and any number of operations: the   *)
(* page gives back what was stored, the tuples stay off the directory, and *)
(* an insert is refused only when compaction could not have made the room  *)
(* (slotted_page.hpp: insert_tuple, update_tuple, delete_tuple, compact).  *)
(***************************************************************************)
THEOREM TuplesSurvive == PageSpec => []TuplesIntact
  <1>1. PageInit => PageInv
    BY PageInvInit
  <1>2. PageInv /\ [PageNext]_pageVars => PageInv'
    <2> SUFFICES ASSUME PageInv, [PageNext]_pageVars PROVE PageInv'
      OBVIOUS
    <2>1. CASE Compact
      BY <2>1, CompactStep
    <2>2. CASE \E bytes \in Payloads : insert_tuple(bytes)
      BY <2>2, InsertStep
    <2>3. CASE \E i \in DOMAIN page.slots : delete_tuple(i)
      BY <2>3, DeleteStep
    <2>4. CASE \E i \in DOMAIN page.slots : \E bytes \in Payloads : update_tuple(i, bytes)
      BY <2>4, UpdateStep
    <2>5. CASE UNCHANGED pageVars
      <3>1. page' = page /\ tuples' = tuples /\ refused' = refused
        BY <2>5 DEF pageVars
      <3>2. QED
        BY <3>1 DEF PageInv, Layout, Fits, Apart, Holds, Total, DirectoryEnd
    <2>6. QED
      BY <2>1, <2>2, <2>3, <2>4, <2>5, Zenon DEF PageNext
  <1>3. PageInv => TuplesIntact
    BY PageInvIntact
  <1>4. QED
    BY <1>1, <1>2, <1>3, PTL DEF PageSpec

-----------------------------------------------------------------------------
(* The latch-crabbing B+tree.                                              *)

Steps == {"idle", "search", "down", "found", "only", "insert", "descend"}
BValues == BVals \cup {0}

Locals ==
  [pc : Steps, key : BKeys \cup {0}, val : BValues, curr : Latches, may : SUBSET BValues]

BTreeTypes ==
  /\ map \in [BKeys -> BValues]
  /\ th \in [Threads -> Locals]
  /\ writer \in [Latches -> Threads \cup {NoOne}]
  /\ readers \in [Latches -> SUBSET Threads]

(* A latch is exclusive or shared. *)
LatchesSound == \A l \in Latches : writer[l] # NoOne => readers[l] = {}

IsLeaf(n) ==
  /\ node[n] = Leaf(node[n].data)
  /\ DOMAIN node[n].data \subseteq BKeys /\ IsFiniteSet(DOMAIN node[n].data)

(* One leaf, or an inner root with two leaves. *)
Tree ==
  \/ root = FirstLeaf /\ DOMAIN node = {FirstLeaf} /\ IsLeaf(FirstLeaf)
  \/ /\ root = NewRoot /\ DOMAIN node = {FirstLeaf, NewLeaf, NewRoot}
     /\ IsLeaf(FirstLeaf) /\ IsLeaf(NewLeaf)
     /\ \E s \in BKeys : node[NewRoot] = Inner(s, FirstLeaf, NewLeaf)

(* The leaf in which a key belongs; it holds what was inserted last. *)
Home(k) == IF node[root].leaf THEN root ELSE ChildOf(root, k)
KeysHome == \A k \in BKeys : Lookup(Home(k), k) = map[k]

(* The latches a thread has, where it is, and what its search may return. *)
Latched(t) ==
  /\ \A l \in Latches : t \in readers[l] <=> \/ th[t].pc = "search" /\ l = RootLatch
                                             \/ th[t].pc = "down" /\ l = th[t].curr
  /\ \A l \in Latches : writer[l] = t => \/ th[t].pc \in {"only", "insert"} /\ l = RootLatch
                                         \/ /\ th[t].pc = "descend"
                                            /\ l \in {RootLatch, NewRoot, th[t].curr}
  /\ th[t].pc \in {"only", "insert"} => writer[RootLatch] = t
  /\ th[t].pc = "descend" => writer[th[t].curr] = t

Stands(t) ==
  /\ th[t].pc \notin {"idle", "found"} => th[t].key \in BKeys
  /\ th[t].pc \in {"search", "only", "insert"} => th[t].curr = root
  /\ th[t].pc = "only" => root = FirstLeaf
  /\ th[t].pc \in {"insert", "descend"} => root = NewRoot
  /\ th[t].pc \in {"down", "descend"} => th[t].curr \in {root, Home(th[t].key)}

Answers(t) ==
  /\ th[t].pc \in {"search", "down"} => map[th[t].key] \in th[t].may
  /\ th[t].pc = "found" => th[t].val \in th[t].may

BTreeInv ==
  /\ BTreeTypes /\ LatchesSound /\ Tree /\ KeysHome
  /\ \A t \in Threads : Latched(t) /\ Stands(t) /\ Answers(t)


-----------------------------------------------------------------------------
(* Where a key belongs. *)

LEMMA ChildOfInner ==
  ASSUME NEW s \in Int, NEW k \in Int
  PROVE  LET x == Inner(s, FirstLeaf, NewLeaf)
         IN  x.children[1 + Cardinality({i \in DOMAIN x.keys : k >= x.keys[i]})]
               = IF k >= s THEN NewLeaf ELSE FirstLeaf
  <1> DEFINE x == Inner(s, FirstLeaf, NewLeaf)
  <1>1. x.keys = <<s>> /\ x.children = <<FirstLeaf, NewLeaf>>
    BY DEF Inner
  <1>2. DOMAIN x.keys = {1} /\ x.keys[1] = s
    BY <1>1
  <1>3. CASE k >= s
    <2>1. {i \in DOMAIN x.keys : k >= x.keys[i]} = {1}
      BY <1>2, <1>3
    <2>2. Cardinality({i \in DOMAIN x.keys : k >= x.keys[i]}) = 1
      BY <2>1, FS_Singleton, Zenon
    <2>3. QED
      BY <1>1, <1>3, <2>2 DEF NewLeaf
  <1>4. CASE ~(k >= s)
    <2>1. {i \in DOMAIN x.keys : k >= x.keys[i]} = {}
      BY <1>2, <1>4
    <2>2. Cardinality({i \in DOMAIN x.keys : k >= x.keys[i]}) = 0
      BY <2>1, FS_EmptySet, Zenon
    <2>3. QED
      BY <1>1, <1>4, <2>2 DEF FirstLeaf
  <1>5. QED
    BY <1>3, <1>4

LEMMA HomeIsLeaf ==
  ASSUME Tree, NEW k \in BKeys
  PROVE  /\ Home(k) \in {FirstLeaf, NewLeaf} /\ Home(k) \in DOMAIN node /\ IsLeaf(Home(k))
         /\ node[Home(k)].leaf = TRUE
         /\ root = FirstLeaf => Home(k) = FirstLeaf
         /\ root = NewRoot => Home(k) = ChildOf(NewRoot, k)
         /\ root = FirstLeaf <=> node[root].leaf
         /\ root \in {FirstLeaf, NewRoot}
  <1>1. CASE root = FirstLeaf
    <2>1. IsLeaf(FirstLeaf) /\ FirstLeaf \in DOMAIN node
      BY <1>1 DEF Tree, NewRoot, FirstLeaf
    <2>2. node[FirstLeaf].leaf = TRUE
      BY <2>1 DEF IsLeaf, Leaf
    <2>3. QED
      BY <1>1, <2>1, <2>2 DEF Home, NewRoot, FirstLeaf
  <1>2. CASE root = NewRoot
    <2>1. PICK s \in BKeys : node[NewRoot] = Inner(s, FirstLeaf, NewLeaf)
      BY <1>2 DEF Tree, NewRoot, FirstLeaf
    <2>2. /\ IsLeaf(FirstLeaf) /\ IsLeaf(NewLeaf)
          /\ FirstLeaf \in DOMAIN node /\ NewLeaf \in DOMAIN node
      BY <1>2 DEF Tree, NewRoot, FirstLeaf
    <2>3. node[FirstLeaf].leaf = TRUE /\ node[NewLeaf].leaf = TRUE /\ node[NewRoot].leaf = FALSE
      BY <2>1, <2>2 DEF IsLeaf, Leaf, Inner
    <2>4. ChildOf(NewRoot, k) = IF k >= s THEN NewLeaf ELSE FirstLeaf
      <3>1. s \in Int /\ k \in Int
        BY BTreeAssumption
      <3>2. Inner(s, FirstLeaf, NewLeaf).children[1 + Cardinality(
              {i \in DOMAIN Inner(s, FirstLeaf, NewLeaf).keys : k >= Inner(s, FirstLeaf, NewLeaf).keys[i]})]
              = IF k >= s THEN NewLeaf ELSE FirstLeaf
        BY <3>1, ChildOfInner, Zenon
      <3>3. QED
        BY <2>1, <3>2, Zenon DEF ChildOf
    <2>5. QED
      BY <1>2, <2>2, <2>3, <2>4 DEF Home, NewRoot, FirstLeaf
  <1>3. QED
    BY <1>1, <1>2 DEF Tree

(* The root is no leaf's child. *)
LEMMA InnerRoot ==
  ASSUME Tree
  PROVE  /\ root = FirstLeaf => node[root].leaf = TRUE
         /\ root = NewRoot => node[root].leaf = FALSE
         /\ root \in {FirstLeaf, NewRoot} /\ root \in DOMAIN node /\ root \in Latches
  <1>1. CASE root = FirstLeaf /\ DOMAIN node = {FirstLeaf} /\ IsLeaf(FirstLeaf)
    BY <1>1 DEF IsLeaf, Leaf, FirstLeaf, NewRoot, Latches
  <1>2. CASE root = NewRoot /\ DOMAIN node = {FirstLeaf, NewLeaf, NewRoot}
    <2>1. PICK s \in BKeys : node[NewRoot] = Inner(s, FirstLeaf, NewLeaf)
      BY <1>2 DEF Tree, NewRoot, FirstLeaf
    <2>2. QED
      BY <1>2, <2>1 DEF Inner, FirstLeaf, NewRoot, Latches
  <1>3. QED
    BY <1>1, <1>2 DEF Tree

-----------------------------------------------------------------------------
(* Steps that leave the nodes alone. *)

LEMMA SteadyTree ==
  ASSUME Tree, KeysHome, UNCHANGED <<root, node, map>>
  PROVE  Tree' /\ KeysHome' /\ \A k : Home(k)' = Home(k)
  BY DEF Tree, KeysHome, Home, ChildOf, Lookup, IsLeaf

(* A thread whose locals and latches a step leaves alone. *)
LEMMA OtherThread ==
  ASSUME NEW u, Latched(u), Stands(u), Answers(u), UNCHANGED <<root, node, map>>,
         th'[u] = th[u],
         \A l \in Latches : u \in readers'[l] <=> u \in readers[l],
         \A l \in Latches : writer'[l] = u <=> writer[l] = u,
         th[u].curr \in Latches
  PROVE  Latched(u)' /\ Stands(u)' /\ Answers(u)'
  <1>1. Latched(u)'
    BY DEF Latched, RootLatch, Latches
  <1>2. Home(th[u].key)' = Home(th[u].key)
    BY DEF Home, ChildOf
  <1>3. Stands(u)'
    BY <1>2 DEF Stands
  <1>4. Answers(u)'
    BY DEF Answers
  <1>5. QED
    BY <1>1, <1>3, <1>4

(* What holds of every thread. *)
LEMMA Thread ==
  ASSUME BTreeInv, NEW t \in Threads
  PROVE  /\ th[t].pc \in Steps /\ th[t].key \in BKeys \cup {0} /\ th[t].val \in BValues
         /\ th[t].curr \in Latches /\ th[t].may \in SUBSET BValues
         /\ Latched(t) /\ Stands(t) /\ Answers(t) /\ t # NoOne
  BY BTreeAssumption DEF BTreeInv, BTreeTypes, Locals

(* A step of one thread that leaves the nodes alone. *)
LEMMA SteadyStep ==
  ASSUME BTreeInv, NEW t \in Threads, UNCHANGED <<root, node, map>>,
         BTreeTypes', LatchesSound', (Latched(t) /\ Stands(t) /\ Answers(t))',
         \A u \in Threads \ {t} :
           /\ th'[u] = th[u]
           /\ \A l \in Latches : u \in readers'[l] <=> u \in readers[l]
           /\ \A l \in Latches : writer'[l] = u <=> writer[l] = u
  PROVE  BTreeInv'
  <1>1. Tree' /\ KeysHome'
    BY SteadyTree DEF BTreeInv
  <1>2. ASSUME NEW u \in Threads
        PROVE  Latched(u)' /\ Stands(u)' /\ Answers(u)'
    <2>1. CASE u # t
      <3>1. Latched(u) /\ Stands(u) /\ Answers(u) /\ th[u].curr \in Latches
        BY Thread
      <3>2. QED
        BY <2>1, <3>1, OtherThread
    <2>2. QED
      BY <2>1
  <1>3. QED
    BY <1>1, <1>2 DEF BTreeInv

(* Its locals become r, and it takes or gives up shared latches. *)
LEMMA ReaderStep ==
  ASSUME BTreeInv, NEW t \in Threads, UNCHANGED <<root, node, map, writer>>,
         NEW r \in Locals, th' = [th EXCEPT ![t] = r],
         readers' \in [Latches -> SUBSET Threads],
         \A l \in Latches :
           /\ \A u \in Threads \ {t} : u \in readers'[l] <=> u \in readers[l]
           /\ t \in readers'[l] => writer[l] = NoOne,
         (Latched(t) /\ Stands(t) /\ Answers(t))'
  PROVE  BTreeInv'
  <1>1. BTreeTypes /\ LatchesSound
    BY DEF BTreeInv
  <1>2. BTreeTypes'
    BY <1>1 DEF BTreeTypes
  <1>3. LatchesSound'
    <2>1. ASSUME NEW l \in Latches, writer'[l] # NoOne
          PROVE  readers'[l] = {}
      <3>1. readers[l] = {} /\ t \notin readers'[l]
        BY <1>1, <2>1 DEF LatchesSound
      <3>2. \A u \in Threads : u \notin readers'[l]
        BY <3>1
      <3>3. QED
        BY <3>2
    <2>2. QED
      BY <2>1 DEF LatchesSound
  <1>4. \A u \in Threads \ {t} : th'[u] = th[u]
    BY <1>1 DEF BTreeTypes
  <1>5. QED
    BY <1>2, <1>3, <1>4, SteadyStep

(* Its locals become r, and it takes or gives up exclusive latches. *)
LEMMA WriterStep ==
  ASSUME BTreeInv, NEW t \in Threads, UNCHANGED <<root, node, map, readers>>,
         NEW r \in Locals, th' = [th EXCEPT ![t] = r],
         writer' \in [Latches -> Threads \cup {NoOne}],
         \A l \in Latches :
           \/ writer'[l] = writer[l]
           \/ writer[l] = t /\ writer'[l] = NoOne
           \/ writer[l] = NoOne /\ readers[l] = {} /\ writer'[l] = t,
         (Latched(t) /\ Stands(t) /\ Answers(t))'
  PROVE  BTreeInv'
  <1>1. BTreeTypes /\ LatchesSound
    BY DEF BTreeInv
  <1>2. BTreeTypes'
    BY <1>1 DEF BTreeTypes
  <1>3. LatchesSound'
    BY <1>1 DEF LatchesSound
  <1>4. \A u \in Threads \ {t} : th'[u] = th[u]
    BY <1>1 DEF BTreeTypes
  <1>5. \A u \in Threads \ {t} : \A l \in Latches : writer'[l] = u <=> writer[l] = u
    BY BTreeAssumption
  <1>6. QED
    BY <1>2, <1>3, <1>4, <1>5, SteadyStep

-----------------------------------------------------------------------------
(* search() *)

LEMMA KeptSearchRoot ==
  ASSUME BTreeInv, NEW t \in Threads, NEW key \in BKeys, SearchRoot(t, key)
  PROVE  BTreeInv'
  <1>1. PICK r : r = [Idle EXCEPT !.pc = "search", !.key = key, !.curr = root,
                                  !.may = {map[key]}]
    OBVIOUS
  <1>2. /\ th[t].pc = "idle" /\ writer[RootLatch] = NoOne
        /\ UNCHANGED <<root, node, map, writer>>
        /\ readers' = [readers EXCEPT ![RootLatch] = @ \cup {t}]
        /\ th' = [th EXCEPT ![t] = r]
    BY <1>1 DEF SearchRoot, CanShare
  <1>3. BTreeTypes /\ root \in Latches /\ RootLatch \in Latches
    BY InnerRoot DEF BTreeInv, RootLatch, Latches
  <1>4. /\ r.pc = "search" /\ r.key = key /\ r.curr = root /\ r.may = {map[key]}
        /\ r \in Locals
    BY <1>1, <1>3 DEF Idle, Locals, Steps, BValues, BTreeTypes
  <1>5. th'[t] = r
    BY <1>2, <1>3 DEF BTreeTypes
  <1>6. /\ readers' \in [Latches -> SUBSET Threads]
        /\ \A l \in Latches : /\ t \in readers'[l] <=> t \in readers[l] \/ l = RootLatch
                              /\ \A u \in Threads \ {t} : u \in readers'[l] <=> u \in readers[l]
    BY <1>2, <1>3 DEF BTreeTypes
  <1>7. Latched(t)
    BY Thread
  <1>8. \A l \in Latches : t \in readers'[l] => writer[l] = NoOne
    BY <1>2, <1>6, <1>7 DEF Latched
  <1>9. (Latched(t) /\ Stands(t) /\ Answers(t))'
    <2>1. Latched(t)'
      BY <1>2, <1>3, <1>4, <1>5, <1>6, <1>7 DEF Latched
    <2>2. Stands(t)'
      BY <1>2, <1>4, <1>5 DEF Stands
    <2>3. Answers(t)'
      BY <1>2, <1>4, <1>5 DEF Answers
    <2>4. QED
      BY <2>1, <2>2, <2>3
  <1>10. QED
    BY <1>2, <1>4, <1>6, <1>8, <1>9, ReaderStep

(* A search takes the latch of n and gives up that of m. *)
LEMMA SharedMove ==
  ASSUME BTreeInv, NEW t \in Threads, NEW n \in Latches, NEW m \in Latches,
         UNCHANGED <<root, node, map, writer>>,
         th[t].pc \in {"search", "down"},
         m = IF th[t].pc = "search" THEN RootLatch ELSE th[t].curr,
         m # n, writer[n] = NoOne,
         n \in {root, Home(th[t].key)},
         readers' = [readers EXCEPT ![n] = @ \cup {t}, ![m] = @ \ {t}],
         th' = [th EXCEPT ![t].pc = "down", ![t].curr = n]
  PROVE  BTreeInv'
  <1>1. BTreeTypes /\ Latched(t) /\ Stands(t) /\ Answers(t) /\ th[t] \in Locals
    BY Thread DEF BTreeInv, BTreeTypes
  <1>2. PICK r : r = [th[t] EXCEPT !.pc = "down", !.curr = n]
    OBVIOUS
  <1>3. /\ r \in Locals /\ th' = [th EXCEPT ![t] = r] /\ th'[t] = r
        /\ r.pc = "down" /\ r.curr = n /\ r.key = th[t].key /\ r.may = th[t].may
    BY <1>1, <1>2 DEF Locals, Steps, BTreeTypes
  <1>4. readers' \in [Latches -> SUBSET Threads]
    BY <1>1 DEF BTreeTypes
  <1>5. \A l \in Latches : /\ t \in readers'[l] <=> l # m /\ (t \in readers[l] \/ l = n)
                           /\ \A u \in Threads \ {t} : u \in readers'[l] <=> u \in readers[l]
    BY <1>1 DEF BTreeTypes
  <1>6. \A l \in Latches : t \in readers[l] <=> l = m
    BY <1>1 DEF Latched
  <1>7. \A l \in Latches : t \in readers'[l] <=> l = n
    BY <1>5, <1>6
  <1>8. \A l \in Latches : writer[l] # t
    BY <1>1 DEF Latched
  <1>9. (Latched(t) /\ Stands(t) /\ Answers(t))'
    <2>1. Latched(t)'
      BY <1>3, <1>7, <1>8 DEF Latched
    <2>2. Home(th[t].key)' = Home(th[t].key)
      BY <1>3 DEF Home, ChildOf
    <2>3. Stands(t)'
      BY <1>1, <1>3, <2>2 DEF Stands
    <2>4. Answers(t)'
      BY <1>1, <1>3 DEF Answers
    <2>5. QED
      BY <2>1, <2>3, <2>4
  <1>10. QED
    BY <1>3, <1>4, <1>5, <1>7, <1>9, ReaderStep

LEMMA KeptSearchLatch ==
  ASSUME BTreeInv, NEW t \in Threads, SearchLatch(t)
  PROVE  BTreeInv'
  <1>1. PICK n : n = th[t].curr
    OBVIOUS
  <1>2. /\ th[t].pc = "search" /\ writer[n] = NoOne
        /\ readers' = [readers EXCEPT ![n] = @ \cup {t}, ![RootLatch] = @ \ {t}]
        /\ th' = [th EXCEPT ![t].pc = "down", ![t].curr = n]
        /\ UNCHANGED <<root, node, map, writer>>
    BY <1>1 DEF SearchLatch, Next1, CanShare
  <1>3. n = root /\ n \in Latches /\ n # RootLatch /\ RootLatch \in Latches
    <2>1. n = root /\ Tree
      BY <1>1, <1>2, Thread DEF Stands, BTreeInv
    <2>2. QED
      BY <2>1, InnerRoot DEF RootLatch, FirstLeaf, NewRoot, Latches
  <1>4. QED
    BY <1>2, <1>3, SharedMove

LEMMA KeptSearchDown ==
  ASSUME BTreeInv, NEW t \in Threads, SearchDown(t)
  PROVE  BTreeInv'
  <1>1. PICK n : n = th[t].curr
    OBVIOUS
  <1>2. PICK c : c = ChildOf(n, th[t].key)
    OBVIOUS
  <1>3. /\ th[t].pc = "down" /\ ~node[n].leaf /\ writer[c] = NoOne
        /\ readers' = [readers EXCEPT ![c] = @ \cup {t}, ![n] = @ \ {t}]
        /\ th' = [th EXCEPT ![t].pc = "down", ![t].curr = c]
        /\ UNCHANGED <<root, node, map, writer>>
    BY <1>1, <1>2 DEF SearchDown, Next1, CanShare
  <1>4. Tree /\ Stands(t) /\ th[t].key \in BKeys /\ n \in Latches
    BY <1>1, <1>3, Thread DEF BTreeInv, Stands
  <1>5. n = root /\ root = NewRoot
    <2>1. n \in {root, Home(th[t].key)}
      BY <1>1, <1>3, <1>4 DEF Stands
    <2>2. QED
      BY <1>3, <1>4, <2>1, HomeIsLeaf
  <1>6. c = Home(th[t].key) /\ c \in {FirstLeaf, NewLeaf}
    BY <1>2, <1>4, <1>5, HomeIsLeaf
  <1>7. c # n /\ c \in Latches
    BY <1>5, <1>6 DEF FirstLeaf, NewLeaf, NewRoot, Latches
  <1>8. QED
    BY <1>1, <1>3, <1>4, <1>6, <1>7, SharedMove

(* At a leaf a thread is where its key belongs. *)
LEMMA AtHome ==
  ASSUME BTreeInv, NEW t \in Threads, th[t].pc \in {"down", "descend"},
         node[th[t].curr].leaf
  PROVE  th[t].curr = Home(th[t].key) /\ th[t].key \in BKeys
  <1>1. Tree /\ Stands(t) /\ th[t].key \in BKeys
    BY Thread DEF BTreeInv, Stands
  <1>2. th[t].curr \in {root, Home(th[t].key)}
    BY <1>1 DEF Stands
  <1>3. QED
    BY <1>1, <1>2, HomeIsLeaf

LEMMA KeptSearchLeaf ==
  ASSUME BTreeInv, NEW t \in Threads, SearchLeaf(t)
  PROVE  BTreeInv'
  <1>1. PICK n : n = th[t].curr
    OBVIOUS
  <1>2. PICK v : v = Lookup(n, th[t].key)
    OBVIOUS
  <1>3. /\ th[t].pc = "down" /\ node[n].leaf
        /\ th' = [th EXCEPT ![t].pc = "found", ![t].val = v]
        /\ readers' = [readers EXCEPT ![n] = @ \ {t}]
        /\ UNCHANGED <<root, node, map, writer>>
    BY <1>1, <1>2 DEF SearchLeaf
  <1>4. BTreeTypes /\ Latched(t) /\ Answers(t) /\ th[t] \in Locals /\ n \in Latches /\ KeysHome
    BY <1>1, Thread DEF BTreeInv, BTreeTypes
  <1>5. v = map[th[t].key] /\ th[t].key \in BKeys
    BY <1>1, <1>2, <1>3, <1>4, AtHome DEF KeysHome
  <1>6. PICK r : r = [th[t] EXCEPT !.pc = "found", !.val = v]
    OBVIOUS
  <1>7. v \in BValues
    BY <1>4, <1>5 DEF BTreeTypes
  <1>8. /\ r \in Locals /\ th' = [th EXCEPT ![t] = r] /\ th'[t] = r
        /\ r.pc = "found" /\ r.val = v /\ r.may = th[t].may
    BY <1>3, <1>4, <1>6, <1>7 DEF Locals, Steps, BTreeTypes
  <1>9. readers' \in [Latches -> SUBSET Threads]
    BY <1>3, <1>4 DEF BTreeTypes
  <1>10. \A l \in Latches : /\ t \in readers'[l] <=> l # n /\ t \in readers[l]
                            /\ \A u \in Threads \ {t} : u \in readers'[l] <=> u \in readers[l]
    BY <1>3, <1>4 DEF BTreeTypes
  <1>11. \A l \in Latches : t \notin readers'[l] /\ writer[l] # t
    BY <1>1, <1>3, <1>4, <1>10 DEF Latched
  <1>12. (Latched(t) /\ Stands(t) /\ Answers(t))'
    <2>1. Latched(t)'
      BY <1>3, <1>8, <1>11 DEF Latched
    <2>2. Stands(t)'
      BY <1>8 DEF Stands
    <2>3. Answers(t)'
      BY <1>3, <1>4, <1>5, <1>8 DEF Answers
    <2>4. QED
      BY <2>1, <2>2, <2>3
  <1>13. QED
    BY <1>3, <1>8, <1>9, <1>10, <1>11, <1>12, ReaderStep

LEMMA KeptSearchReturn ==
  ASSUME BTreeInv, NEW t \in Threads, SearchReturn(t)
  PROVE  BTreeInv'
  <1>1. /\ th[t].pc = "found" /\ th' = [th EXCEPT ![t] = Idle]
        /\ UNCHANGED <<root, node, map, writer, readers>>
    BY DEF SearchReturn
  <1>2. BTreeTypes /\ Latched(t)
    BY Thread DEF BTreeInv
  <1>3. Idle \in Locals /\ th'[t] = Idle /\ Idle.pc = "idle"
    BY <1>1, <1>2 DEF Idle, Locals, Steps, BValues, Latches, BTreeTypes
  <1>4. \A l \in Latches : t \notin readers[l] /\ writer[l] # t
    BY <1>1, <1>2 DEF Latched
  <1>5. (Latched(t) /\ Stands(t) /\ Answers(t))'
    BY <1>1, <1>3, <1>4 DEF Latched, Stands, Answers
  <1>6. readers' \in [Latches -> SUBSET Threads]
    BY <1>1, <1>2 DEF BTreeTypes
  <1>7. QED
    BY <1>1, <1>3, <1>4, <1>5, <1>6, ReaderStep

-----------------------------------------------------------------------------
(* insert() on the way down *)

LEMMA KeptInsertRoot ==
  ASSUME BTreeInv, NEW t \in Threads, NEW key \in BKeys, NEW val \in BVals,
         InsertRoot(t, key, val)
  PROVE  BTreeInv'
  <1>1. PICK r : r = [Idle EXCEPT !.pc = IF node[root].leaf THEN "only" ELSE "insert",
                                  !.key = key, !.val = val, !.curr = root]
    OBVIOUS
  <1>2. /\ th[t].pc = "idle" /\ writer[RootLatch] = NoOne /\ readers[RootLatch] = {}
        /\ writer' = [writer EXCEPT ![RootLatch] = t] /\ th' = [th EXCEPT ![t] = r]
        /\ UNCHANGED <<root, node, map, readers>>
    BY <1>1 DEF InsertRoot, CanLock
  <1>3. /\ BTreeTypes /\ root \in Latches /\ RootLatch \in Latches /\ root \in {FirstLeaf, NewRoot}
        /\ root = FirstLeaf => node[root].leaf = TRUE
        /\ root = NewRoot => node[root].leaf = FALSE
    <2>1. BTreeTypes /\ Tree
      BY DEF BTreeInv
    <2>2. RootLatch \in Latches
      BY DEF RootLatch, Latches
    <2>3. QED
      BY <2>1, <2>2, InnerRoot
  <1>4. /\ r.pc = IF root = FirstLeaf THEN "only" ELSE "insert"
        /\ r.key = key /\ r.curr = root /\ r \in Locals
    BY <1>1, <1>3 DEF Idle, Locals, Steps, BValues, FirstLeaf, NewRoot
  <1>5. th'[t] = r
    BY <1>2, <1>3 DEF BTreeTypes
  <1>6. /\ writer' \in [Latches -> Threads \cup {NoOne}] /\ writer'[RootLatch] = t
        /\ \A l \in Latches \ {RootLatch} : writer'[l] = writer[l]
    BY <1>2, <1>3 DEF BTreeTypes
  <1>7. \A l \in Latches : t \notin readers[l] /\ writer[l] # t
    BY <1>2, Thread DEF Latched
  <1>8. (Latched(t) /\ Stands(t) /\ Answers(t))'
    <2>1. Latched(t)'
      BY <1>2, <1>3, <1>4, <1>5, <1>6, <1>7 DEF Latched
    <2>2. Stands(t)'
      BY <1>2, <1>3, <1>4, <1>5 DEF Stands
    <2>3. Answers(t)'
      BY <1>4, <1>5 DEF Answers
    <2>4. QED
      BY <2>1, <2>2, <2>3
  <1>9. \A l \in Latches : \/ writer'[l] = writer[l]
                           \/ writer[l] = t /\ writer'[l] = NoOne
                           \/ writer[l] = NoOne /\ readers[l] = {} /\ writer'[l] = t
    BY <1>2, <1>6
  <1>10. QED
    BY <1>2, <1>4, <1>6, <1>8, <1>9, WriterStep

(* An insertion takes the latch of n and may give up others. *)
LEMMA ExclusiveMove ==
  ASSUME BTreeInv, NEW t \in Threads, NEW n \in Latches,
         UNCHANGED <<root, node, map, readers>>,
         th[t].pc \in {"insert", "descend"},
         n \in {root, Home(th[t].key)},
         writer[n] = NoOne, readers[n] = {},
         writer' \in [Latches -> Threads \cup {NoOne}], writer'[n] = t,
         \A l \in Latches \ {n} : \/ writer'[l] = writer[l]
                                  \/ writer[l] = t /\ writer'[l] = NoOne,
         th[t].pc = "descend" => th[t].curr = NewRoot,
         th' = [th EXCEPT ![t].pc = "descend", ![t].curr = n]
  PROVE  BTreeInv'
  <1>1. BTreeTypes /\ Latched(t) /\ Stands(t) /\ th[t] \in Locals /\ t # NoOne
    BY Thread DEF BTreeInv, BTreeTypes
  <1>2. PICK r : r = [th[t] EXCEPT !.pc = "descend", !.curr = n]
    OBVIOUS
  <1>3. /\ r \in Locals /\ th' = [th EXCEPT ![t] = r] /\ th'[t] = r
        /\ r.pc = "descend" /\ r.curr = n /\ r.key = th[t].key
    BY <1>1, <1>2 DEF Locals, Steps, BTreeTypes
  <1>4. \A l \in Latches : writer'[l] = t => l = n \/ writer[l] = t
    BY <1>1
  <1>5. (Latched(t) /\ Stands(t) /\ Answers(t))'
    <2>1. \A l \in Latches : writer[l] = t => l \in {RootLatch, NewRoot}
      BY <1>1 DEF Latched
    <2>2. \A l \in Latches : t \notin readers[l]
      BY <1>1 DEF Latched
    <2>3. Latched(t)'
      BY <1>3, <1>4, <2>1, <2>2 DEF Latched
    <2>4. Home(th[t].key)' = Home(th[t].key)
      BY <1>3 DEF Home, ChildOf
    <2>5. Stands(t)'
      BY <1>1, <1>3, <2>4 DEF Stands
    <2>6. Answers(t)'
      BY <1>3 DEF Answers
    <2>7. QED
      BY <2>3, <2>5, <2>6
  <1>6. \A l \in Latches : \/ writer'[l] = writer[l]
                           \/ writer[l] = t /\ writer'[l] = NoOne
                           \/ writer[l] = NoOne /\ readers[l] = {} /\ writer'[l] = t
    OBVIOUS
  <1>7. r \in Locals /\ th' = [th EXCEPT ![t] = r] /\ UNCHANGED <<root, node, map, readers>>
    BY <1>3
  <1>8. QED
    BY <1>5, <1>6, <1>7, WriterStep

LEMMA KeptInsertLatch ==
  ASSUME BTreeInv, NEW t \in Threads, InsertLatch(t)
  PROVE  BTreeInv'
  <1>1. PICK n : n = th[t].curr
    OBVIOUS
  <1>2. PICK w : w = IF is_safe_for_insert(n) THEN NoOne ELSE writer[RootLatch]
    OBVIOUS
  <1>3. /\ th[t].pc = "insert" /\ writer[n] = NoOne /\ readers[n] = {}
        /\ writer' = [writer EXCEPT ![n] = t, ![RootLatch] = w]
        /\ th' = [th EXCEPT ![t].pc = "descend", ![t].curr = n]
        /\ UNCHANGED <<root, node, map, readers>>
    BY <1>1, <1>2 DEF InsertLatch, Next1, CanLock
  <1>4. BTreeTypes /\ Tree /\ Latched(t) /\ Stands(t)
    BY Thread DEF BTreeInv
  <1>5. n = root /\ n \in Latches /\ n # RootLatch /\ RootLatch \in Latches
    <2>1. n = root /\ root = NewRoot
      BY <1>1, <1>3, <1>4 DEF Stands
    <2>2. QED
      BY <2>1 DEF RootLatch, NewRoot, Latches
  <1>6. writer[RootLatch] = t
    BY <1>3, <1>4 DEF Latched
  <1>7. /\ writer' \in [Latches -> Threads \cup {NoOne}] /\ writer'[n] = t
        /\ \A l \in Latches \ {n} : \/ writer'[l] = writer[l]
                                    \/ writer[l] = t /\ writer'[l] = NoOne
    <2>1. w = NoOne \/ w = writer[RootLatch]
      BY <1>2
    <2>2. QED
      BY <1>3, <1>4, <1>5, <1>6, <2>1 DEF BTreeTypes
  <1>8. QED
    BY <1>3, <1>5, <1>7, ExclusiveMove

LEMMA KeptInsertDown ==
  ASSUME BTreeInv, NEW t \in Threads, InsertDown(t)
  PROVE  BTreeInv'
  <1>1. PICK n : n = th[t].curr
    OBVIOUS
  <1>2. PICK c : c = ChildOf(n, th[t].key)
    OBVIOUS
  <1>3. PICK safe : safe = is_safe_for_insert(c)
    OBVIOUS
  <1>4. /\ th[t].pc = "descend" /\ ~node[n].leaf /\ writer[c] = NoOne /\ readers[c] = {}
        /\ writer' = [l \in Latches |-> IF l = c THEN t
                                        ELSE IF writer[l] = t /\ safe THEN NoOne ELSE writer[l]]
        /\ th' = [th EXCEPT ![t].pc = "descend", ![t].curr = c]
        /\ UNCHANGED <<root, node, map, readers>>
    BY <1>1, <1>2, <1>3 DEF InsertDown, Next1, CanLock
  <1>5. BTreeTypes /\ Tree /\ Stands(t) /\ th[t].key \in BKeys
    BY <1>4, Thread DEF BTreeInv, Stands
  <1>6. n = root /\ root = NewRoot
    <2>1. n \in {root, Home(th[t].key)}
      BY <1>1, <1>4, <1>5 DEF Stands
    <2>2. QED
      BY <1>4, <1>5, <2>1, HomeIsLeaf
  <1>7. c = Home(th[t].key) /\ c \in {FirstLeaf, NewLeaf}
    BY <1>2, <1>5, <1>6, HomeIsLeaf
  <1>8. c \in Latches
    BY <1>7 DEF FirstLeaf, NewLeaf, Latches
  <1>9. /\ writer' \in [Latches -> Threads \cup {NoOne}] /\ writer'[c] = t
        /\ \A l \in Latches \ {c} : \/ writer'[l] = writer[l]
                                    \/ writer[l] = t /\ writer'[l] = NoOne
    BY <1>4, <1>5, <1>8 DEF BTreeTypes
  <1>10. QED
    BY <1>1, <1>4, <1>6, <1>7, <1>8, <1>9, ExclusiveMove

-----------------------------------------------------------------------------
(* The split: keys are divided where Upper begins. *)

LEMMA LeastKey ==
  ASSUME NEW T \in SUBSET Int, IsFiniteSet(T), T # {}
  PROVE  \E x \in T : \A y \in T : x <= y
  <1> DEFINE below(x) == {y \in T : y < x}
  <1>1. ASSUME NEW x \in T
        PROVE  IsFiniteSet(below(x)) /\ Cardinality(below(x)) \in Nat
    <2>1. below(x) \in SUBSET T
      OBVIOUS
    <2>2. QED
      BY <2>1, FS_Subset, FS_CardinalityType
  <1>2. PICK x \in T : \A y \in T : Cardinality(below(x)) <= Cardinality(below(y))
    <2>1. {Cardinality(below(x)) : x \in T} \in SUBSET Nat
      BY <1>1
    <2>2. PICK N : N = {Cardinality(below(x)) : x \in T}
      OBVIOUS
    <2>3. N \in SUBSET Nat /\ N # {}
      BY <2>1, <2>2
    <2>4. PICK m \in N : \A n \in N : m <= n
      BY <2>3, LeastNumber
    <2>5. QED
      BY <2>2, <2>4
  <1>3. ASSUME NEW y \in T, y < x
        PROVE  FALSE
    <2>1. below(y) \in SUBSET below(x) /\ y \in below(x) /\ y \notin below(y)
      <3>1. \A z \in T : z \in Int
        OBVIOUS
      <3>2. \A z \in T : z < y => z < x
        BY <1>3, <3>1
      <3>3. ~(y < y)
        BY <3>1
      <3>4. QED
        BY <1>3, <3>2, <3>3
    <2>2. /\ Cardinality(below(y)) <= Cardinality(below(x))
          /\ Cardinality(below(x)) # Cardinality(below(y))
      <3>1. /\ Cardinality(below(y)) <= Cardinality(below(x))
            /\ Cardinality(below(x)) = Cardinality(below(y)) => below(x) = below(y)
        BY <1>1, <2>1, FS_Subset
      <3>2. QED
        BY <2>1, <3>1
    <2>3. Cardinality(below(x)) <= Cardinality(below(y))
      BY <1>2
    <2>4. Cardinality(below(x)) \in Nat /\ Cardinality(below(y)) \in Nat
      BY <1>1
    <2> HIDE DEF below
    <2>5. QED
      BY <2>2, <2>3, <2>4
  <1>4. QED
    BY <1>3

LEMMA GreatestKey ==
  ASSUME NEW T \in SUBSET Int, IsFiniteSet(T), T # {}
  PROVE  \E x \in T : \A y \in T : y <= x
  <1> DEFINE above(x) == {y \in T : x < y}
  <1>1. ASSUME NEW x \in T
        PROVE  IsFiniteSet(above(x)) /\ Cardinality(above(x)) \in Nat
    <2>1. above(x) \in SUBSET T
      OBVIOUS
    <2>2. QED
      BY <2>1, FS_Subset, FS_CardinalityType
  <1>2. PICK x \in T : \A y \in T : Cardinality(above(x)) <= Cardinality(above(y))
    <2>1. {Cardinality(above(x)) : x \in T} \in SUBSET Nat
      BY <1>1
    <2>2. PICK N : N = {Cardinality(above(x)) : x \in T}
      OBVIOUS
    <2>3. N \in SUBSET Nat /\ N # {}
      BY <2>1, <2>2
    <2>4. PICK m \in N : \A n \in N : m <= n
      BY <2>3, LeastNumber
    <2>5. QED
      BY <2>2, <2>4
  <1>3. ASSUME NEW y \in T, x < y
        PROVE  FALSE
    <2>1. above(y) \in SUBSET above(x) /\ y \in above(x) /\ y \notin above(y)
      <3>1. \A z \in T : z \in Int
        OBVIOUS
      <3>2. \A z \in T : y < z => x < z
        BY <1>3, <3>1
      <3>3. ~(y < y)
        BY <3>1
      <3>4. QED
        BY <1>3, <3>2, <3>3
    <2>2. /\ Cardinality(above(y)) <= Cardinality(above(x))
          /\ Cardinality(above(x)) # Cardinality(above(y))
      <3>1. /\ Cardinality(above(y)) <= Cardinality(above(x))
            /\ Cardinality(above(x)) = Cardinality(above(y)) => above(x) = above(y)
        BY <1>1, <2>1, FS_Subset
      <3>2. QED
        BY <2>1, <3>1
    <2>3. Cardinality(above(x)) <= Cardinality(above(y))
      BY <1>2
    <2>4. Cardinality(above(x)) \in Nat /\ Cardinality(above(y)) \in Nat
      BY <1>1
    <2> HIDE DEF above
    <2>5. QED
      BY <2>2, <2>3, <2>4
  <1>4. QED
    BY <1>3

LEMMA HalfOf ==
  ASSUME NEW n \in Nat, n > 1
  PROVE  n - 1 >= n \div 2
  OBVIOUS

(* The keys of the new leaf are those not below its least key. *)
LEMMA SplitKeys ==
  ASSUME NEW data, DOMAIN data \subseteq Int, IsFiniteSet(DOMAIN data),
         Cardinality(DOMAIN data) > 1
  PROVE  \E s \in DOMAIN data :
           /\ s = CHOOSE k \in Upper(data) : \A j \in Upper(data) : k <= j
           /\ \A k \in DOMAIN data : k \in Upper(data) <=> k >= s
  <1>1. PICK T : T = DOMAIN data
    OBVIOUS
  <1> DEFINE below(x) == {y \in T : y < x}
  <1>2. T \subseteq Int /\ IsFiniteSet(T) /\ Cardinality(T) \in Nat /\ Cardinality(T) > 1
    BY <1>1, FS_CardinalityType
  <1>3. PICK U : U = {k \in T : Cardinality(below(k)) >= Cardinality(T) \div 2}
    OBVIOUS
  <1>4. U = Upper(data)
    BY <1>1, <1>3 DEF Upper
  <1>5. U # {}
    <2>1. T # {}
      BY <1>2, FS_EmptySet
    <2>2. PICK m \in T : \A y \in T : y <= m
      BY <1>2, <2>1, GreatestKey
    <2>3. below(m) = T \ {m}
      <3>1. ASSUME NEW y \in T
            PROVE  y < m <=> y # m
        <4>1. y \in Int /\ m \in Int /\ y <= m
          BY <1>2, <2>2
        <4>2. QED
          BY <4>1
      <3>2. QED
        BY <3>1
    <2>4. Cardinality(below(m)) = Cardinality(T) - 1
      <3>1. Cardinality(T \ {m}) = Cardinality(T) - 1
        BY <1>2, FS_RemoveElement
      <3>2. QED
        BY <2>3, <3>1
    <2>5. Cardinality(T) - 1 >= Cardinality(T) \div 2
      BY <1>2, HalfOf
    <2>6. m \in U
      BY <1>3, <2>4, <2>5
    <2>7. QED
      BY <2>6
  <1>6. ASSUME NEW k \in U, NEW j \in T, j >= k
        PROVE  j \in U
    <2>1. k \in T /\ Cardinality(below(k)) >= Cardinality(T) \div 2
      BY <1>3
    <2>2. below(k) \in SUBSET below(j) /\ below(j) \in SUBSET T
      <3>1. ASSUME NEW y \in T, y < k
            PROVE  y < j
        <4>1. y \in Int /\ k \in Int /\ j \in Int
          BY <1>2, <2>1
        <4>2. QED
          BY <1>6, <3>1, <4>1
      <3>2. QED
        BY <3>1
    <2>3. IsFiniteSet(below(j)) /\ Cardinality(below(k)) <= Cardinality(below(j))
      BY <1>2, <2>2, FS_Subset
    <2>4. Cardinality(below(k)) \in Nat /\ Cardinality(below(j)) \in Nat
      BY <1>2, <2>2, <2>3, FS_Subset, FS_CardinalityType
    <2>5. Cardinality(T) \div 2 \in Nat
      BY <1>2
    <2>6. Cardinality(below(j)) >= Cardinality(T) \div 2
      <3> HIDE DEF below
      <3>1. QED
        BY <2>1, <2>3, <2>4, <2>5
    <2>7. QED
      BY <1>3, <2>6
  <1>7. PICK s : s = CHOOSE k \in U : \A j \in U : k <= j
    OBVIOUS
  <1>8. s \in U /\ \A j \in U : s <= j
    <2>1. U \in SUBSET T
      BY <1>3
    <2>2. U \in SUBSET Int /\ IsFiniteSet(U)
      BY <1>2, <2>1, FS_Subset
    <2>3. \E k \in U : \A j \in U : k <= j
      BY <1>5, <2>2, LeastKey
    <2>4. QED
      BY <1>7, <2>3
  <1>9. s \in T
    BY <1>3, <1>8
  <1>10. ASSUME NEW k \in T
         PROVE  k \in U <=> k >= s
    <2>1. k \in Int /\ s \in Int
      BY <1>2, <1>9
    <2>2. k \in U => k >= s
      BY <1>8, <2>1
    <2>3. k >= s => k \in U
      BY <1>6, <1>8
    <2>4. QED
      BY <2>2, <2>3
  <1>11. QED
    BY <1>1, <1>4, <1>7, <1>9, <1>10

-----------------------------------------------------------------------------
(* insert() at the leaf *)

(* Everything but the nodes when an insertion is done. *)
LEMMA AfterInsert ==
  ASSUME BTreeInv, NEW t \in Threads, th[t].key \in BKeys, th[t].pc \in {"only", "descend"},
         Released(t), Inserted(t), UNCHANGED readers
  PROVE  /\ BTreeTypes' /\ LatchesSound' /\ th'[t].pc = "idle"
         /\ map'[th[t].key] = th[t].val
         /\ \A k \in BKeys \ {th[t].key} : map'[k] = map[k]
         /\ \A u \in Threads \ {t} :
              th'[u].pc = th[u].pc /\ th'[u].key = th[u].key /\ th'[u].curr = th[u].curr
         /\ \A u \in Threads : Latched(u)' /\ Answers(u)'
  <1>1. PICK key : key = th[t].key
    OBVIOUS
  <1>2. PICK val : val = th[t].val
    OBVIOUS
  <1>3. /\ BTreeTypes /\ LatchesSound /\ t # NoOne /\ key \in BKeys /\ val \in BValues
        /\ Idle \in Locals /\ Idle.pc = "idle"
    BY <1>1, <1>2, Thread DEF BTreeInv, Idle, Locals, Steps, BValues, Latches
  <1>4. /\ map' = [map EXCEPT ![key] = val]
        /\ th' = [u \in Threads |->
                    IF u = t THEN Idle
                    ELSE IF th[u].key = key /\ th[u].pc \in {"search", "down"}
                         THEN [th[u] EXCEPT !.may = @ \cup {val}] ELSE th[u]]
        /\ writer' = [l \in Latches |-> IF writer[l] = t THEN NoOne ELSE writer[l]]
    BY <1>1, <1>2 DEF Inserted, Released
  <1>5. map' \in [BKeys -> BValues] /\ map'[key] = val /\ \A k \in BKeys \ {key} : map'[k] = map[k]
    BY <1>3, <1>4 DEF BTreeTypes
  <1>6. ASSUME NEW u \in Threads \ {t}
        PROVE  /\ th'[u] \in Locals
               /\ th'[u].pc = th[u].pc /\ th'[u].key = th[u].key /\ th'[u].curr = th[u].curr
               /\ th'[u].val = th[u].val /\ th[u].may \subseteq th'[u].may
               /\ th[u].key = key /\ th[u].pc \in {"search", "down"} => val \in th'[u].may
    <2>1. th[u] \in Locals
      BY <1>3 DEF BTreeTypes
    <2>2. CASE th[u].key = key /\ th[u].pc \in {"search", "down"}
      <3>1. th'[u] = [th[u] EXCEPT !.may = @ \cup {val}]
        BY <1>4, <2>2
      <3>2. QED
        BY <1>3, <2>1, <3>1 DEF Locals
    <2>3. CASE ~(th[u].key = key /\ th[u].pc \in {"search", "down"})
      <3>1. th'[u] = th[u]
        BY <1>4, <2>3
      <3>2. QED
        BY <2>1, <2>3, <3>1
    <2>4. QED
      BY <2>2, <2>3
  <1>7. th'[t] = Idle
    BY <1>4
  <1>8. BTreeTypes'
    <2>1. th' \in [Threads -> Locals]
      <3>1. \A u \in Threads : th'[u] \in Locals
        BY <1>3, <1>6, <1>7
      <3>2. DOMAIN th' = Threads /\ th' = [u \in Threads |-> th'[u]]
        BY <1>4
      <3>3. QED
        BY <3>1, <3>2
    <2>2. writer' \in [Latches -> Threads \cup {NoOne}]
      BY <1>3, <1>4 DEF BTreeTypes
    <2>3. QED
      BY <1>3, <1>5, <2>1, <2>2 DEF BTreeTypes
  <1>9. LatchesSound'
    BY <1>3, <1>4 DEF LatchesSound
  <1>10. ASSUME NEW u \in Threads
         PROVE  Latched(u)'
    <2>1. Latched(u) /\ u # NoOne /\ th[u].curr \in Latches
      BY Thread
    <2>2. CASE u = t
      <3>1. \A l \in Latches : t \notin readers[l]
        BY <2>1, <2>2 DEF Latched
      <3>2. \A l \in Latches : writer'[l] # t
        BY <1>3, <1>4
      <3>3. QED
        BY <1>3, <1>7, <2>2, <3>1, <3>2 DEF Latched
    <2>3. CASE u # t
      <3>1. \A l \in Latches : writer'[l] = u <=> writer[l] = u
        BY <1>4, <2>1, <2>3
      <3>2. th'[u].pc = th[u].pc /\ th'[u].curr = th[u].curr
        BY <1>6, <2>3
      <3>3. RootLatch \in Latches
        BY DEF RootLatch, Latches
      <3>4. QED
        BY <2>1, <3>1, <3>2, <3>3 DEF Latched
    <2>4. QED
      BY <2>2, <2>3
  <1>11. ASSUME NEW u \in Threads
         PROVE  Answers(u)'
    <2>1. Answers(u) /\ Stands(u)
      BY Thread
    <2>2. CASE u = t
      BY <1>3, <1>7, <2>2 DEF Answers
    <2>3. CASE u # t
      <3>1. ASSUME th[u].pc \in {"search", "down"}
            PROVE  map'[th[u].key] \in th'[u].may
        <4>1. th[u].key \in BKeys /\ map[th[u].key] \in th[u].may
          BY <2>1, <3>1 DEF Answers, Stands
        <4>2. CASE th[u].key = key
          BY <1>5, <1>6, <2>3, <3>1, <4>2
        <4>3. CASE th[u].key # key
          BY <1>5, <1>6, <2>3, <4>1, <4>3
        <4>4. QED
          BY <4>2, <4>3
      <3>2. QED
        BY <1>6, <2>1, <2>3, <3>1 DEF Answers
    <2>4. QED
      BY <2>2, <2>3
  <1>12. QED
    BY <1>1, <1>2, <1>3, <1>5, <1>6, <1>7, <1>8, <1>9, <1>10, <1>11

(* What a leaf's keys and values are after insert_into_leaf. *)
LEMMA NewData ==
  ASSUME NEW n, IsLeaf(n), NEW key \in BKeys, NEW val, NEW data,
         data = insert_into_leaf(n, key, val)
  PROVE  /\ DOMAIN data \subseteq BKeys /\ IsFiniteSet(DOMAIN data)
         /\ key \in DOMAIN data /\ data[key] = val
         /\ \A k \in BKeys \ {key} :
              (IF k \in DOMAIN data THEN data[k] ELSE 0) = Lookup(n, k)
  <1>1. DOMAIN data = DOMAIN node[n].data \cup {key}
    BY DEF insert_into_leaf
  <1>2. IsFiniteSet(DOMAIN data)
    BY <1>1, FS_AddElement DEF IsLeaf
  <1>3. QED
    BY <1>1, <1>2 DEF insert_into_leaf, IsLeaf, Lookup

(* The key's leaf is changed in place. *)
LEMMA PutInLeaf ==
  ASSUME BTreeInv, NEW t \in Threads, th[t].key \in BKeys, th[t].pc \in {"only", "descend"},
         Released(t), Inserted(t), UNCHANGED <<root, readers>>,
         NEW h, h = Home(th[t].key),
         node' = [node EXCEPT ![h] = Leaf(insert_into_leaf(h, th[t].key, th[t].val))]
  PROVE  BTreeInv'
  <1>1. PICK key : key = th[t].key
    OBVIOUS
  <1>2. PICK data : data = insert_into_leaf(h, key, th[t].val)
    OBVIOUS
  <1>3. /\ BTreeTypes' /\ LatchesSound' /\ th'[t].pc = "idle"
        /\ map'[key] = th[t].val
        /\ \A k \in BKeys \ {key} : map'[k] = map[k]
        /\ \A u \in Threads \ {t} :
             th'[u].pc = th[u].pc /\ th'[u].key = th[u].key /\ th'[u].curr = th[u].curr
        /\ \A u \in Threads : Latched(u)' /\ Answers(u)'
    BY <1>1, AfterInsert
  <1>4. Tree /\ KeysHome /\ key \in BKeys /\ h = Home(key)
    BY <1>1 DEF BTreeInv
  <1>5. /\ h \in {FirstLeaf, NewLeaf} /\ h \in DOMAIN node /\ IsLeaf(h)
        /\ root \in {FirstLeaf, NewRoot}
    BY <1>4, HomeIsLeaf
  <1>6. /\ DOMAIN data \subseteq BKeys /\ IsFiniteSet(DOMAIN data)
        /\ key \in DOMAIN data /\ data[key] = th[t].val
        /\ \A k \in BKeys \ {key} :
             (IF k \in DOMAIN data THEN data[k] ELSE 0) = Lookup(h, k)
    BY <1>2, <1>4, <1>5, NewData
  <1>7. /\ node' = [node EXCEPT ![h] = Leaf(data)] /\ DOMAIN node' = DOMAIN node
        /\ node'[h] = Leaf(data) /\ \A n \in DOMAIN node : n # h => node'[n] = node[n]
    <2>1. node' = [node EXCEPT ![h] = Leaf(data)]
      BY <1>1, <1>2
    <2>2. QED
      BY <1>5, <2>1
  <1>8. Tree'
    <2>1. IsLeaf(h)'
      <3>1. node'[h].data = data
        BY <1>7 DEF Leaf
      <3>2. QED
        BY <1>6, <1>7, <3>1 DEF IsLeaf
    <2>2. \A n \in DOMAIN node : n # h /\ IsLeaf(n) => IsLeaf(n)'
      BY <1>7 DEF IsLeaf
    <2>3. CASE root = FirstLeaf /\ DOMAIN node = {FirstLeaf} /\ IsLeaf(FirstLeaf)
      BY <1>5, <1>7, <2>1, <2>3 DEF Tree
    <2>4. CASE /\ root = NewRoot /\ DOMAIN node = {FirstLeaf, NewLeaf, NewRoot}
               /\ IsLeaf(FirstLeaf) /\ IsLeaf(NewLeaf)
               /\ \E s \in BKeys : node[NewRoot] = Inner(s, FirstLeaf, NewLeaf)
      <3>1. IsLeaf(FirstLeaf)' /\ IsLeaf(NewLeaf)'
        BY <2>1, <2>2, <2>4
      <3>2. node'[NewRoot] = node[NewRoot]
        BY <1>5, <1>7, <2>4 DEF FirstLeaf, NewLeaf, NewRoot
      <3>3. QED
        BY <1>7, <2>4, <3>1, <3>2 DEF Tree
    <2>5. QED
      BY <1>4, <2>3, <2>4 DEF Tree
  <1>9. \A k \in BKeys : Home(k)' = Home(k)
    <2>1. CASE root = FirstLeaf
      <3>1. \A k \in BKeys : Home(k) = FirstLeaf
        BY <1>4, <2>1, HomeIsLeaf
      <3>2. node'[FirstLeaf].leaf = TRUE
        BY <1>4, <1>7, <3>1 DEF Leaf
      <3>3. QED
        BY <2>1, <3>1, <3>2 DEF Home
    <2>2. CASE root = NewRoot
      <3>1. root \in DOMAIN node /\ root # h
        BY <1>4, <1>5, <2>2, InnerRoot DEF FirstLeaf, NewLeaf, NewRoot
      <3>2. root' = root /\ node'[root'] = node[root]
        BY <1>7, <3>1
      <3>3. \A k : ChildOf(root, k)' = ChildOf(root, k)
        BY <3>2, Zenon DEF ChildOf
      <3>4. ASSUME NEW k \in BKeys
            PROVE  Home(k)' = Home(k)
        BY <3>2, <3>3 DEF Home
      <3>5. QED
        BY <3>4
    <2>3. QED
      BY <1>5, <2>1, <2>2
  <1>10. KeysHome'
    <2>1. ASSUME NEW k \in BKeys
          PROVE  Lookup(Home(k), k)' = map'[k]
      <3>1. PICK m : m = Home(k)
        OBVIOUS
      <3>2. Lookup(m, k)' = Lookup(Home(k), k)'
        BY <1>9, <3>1
      <3>3. Lookup(m, k) = map[k]
        BY <1>4, <3>1 DEF KeysHome
      <3>4. CASE m = h
        <4>1. Lookup(m, k)' = IF k \in DOMAIN data THEN data[k] ELSE 0
          BY <1>7, <3>4 DEF Lookup, Leaf
        <4>2. CASE k = key
          BY <1>3, <1>6, <3>2, <4>1, <4>2
        <4>3. CASE k # key
          BY <1>3, <1>6, <3>2, <3>3, <3>4, <4>1, <4>3
        <4>4. QED
          BY <4>2, <4>3
      <3>5. CASE m # h
        <4>1. k # key
          BY <1>4, <3>1, <3>5
        <4>2. Lookup(m, k)' = Lookup(m, k)
          BY <1>4, <1>7, <3>1, <3>5, HomeIsLeaf DEF Lookup
        <4>3. QED
          BY <1>3, <3>2, <3>3, <4>1, <4>2
      <3>6. QED
        BY <3>4, <3>5
    <2>2. QED
      BY <2>1 DEF KeysHome
  <1>11. ASSUME NEW u \in Threads
         PROVE  Stands(u)'
    <2>1. CASE u = t
      BY <1>3, <2>1 DEF Stands
    <2>2. CASE u # t
      <3>1. /\ Stands(u)
            /\ th'[u].pc = th[u].pc /\ th'[u].key = th[u].key /\ th'[u].curr = th[u].curr
        BY <1>3, <2>2, Thread
      <3>2. PICK k : k = th[u].key
        OBVIOUS
      <3>3. k \in BKeys => Home(th[u].key)' = Home(th[u].key)
        <4>1. k \in BKeys => Home(k)' = Home(k)
          BY <1>9
        <4>2. Home(th[u].key)' = Home(k)'
          BY <3>1, <3>2 DEF Home, ChildOf
        <4>3. QED
          BY <3>2, <4>1, <4>2
      <3>4. QED
        BY <3>1, <3>2, <3>3 DEF Stands
    <2>3. QED
      BY <2>1, <2>2
  <1>12. QED
    BY <1>3, <1>8, <1>10, <1>11 DEF BTreeInv

LEMMA KeptInsertLeaf ==
  ASSUME BTreeInv, NEW t \in Threads, InsertLeaf(t)
  PROVE  BTreeInv'
  <1>1. PICK n : n = th[t].curr
    OBVIOUS
  <1>2. /\ th[t].pc = "descend" /\ node[n].leaf
        /\ node' = [node EXCEPT ![n] = Leaf(insert_into_leaf(n, th[t].key, th[t].val))]
        /\ Released(t) /\ Inserted(t) /\ UNCHANGED <<root, readers>>
    BY <1>1 DEF InsertLeaf
  <1>3. n = Home(th[t].key) /\ th[t].key \in BKeys
    BY <1>1, <1>2, AtHome
  <1>4. QED
    BY <1>2, <1>3, PutInLeaf

(* While the only leaf is locked, the other threads are not under way. *)
LEMMA OthersOutside ==
  ASSUME BTreeInv, NEW t \in Threads, th[t].pc = "only", CanLock(root),
         NEW u \in Threads, u # t
  PROVE  th[u].pc \in {"idle", "found"}
  <1>1. /\ LatchesSound /\ Tree /\ Latched(t) /\ Stands(t) /\ Latched(u) /\ Stands(u)
        /\ th[u].pc \in Steps /\ t # NoOne
    BY Thread DEF BTreeInv
  <1>2. /\ root = FirstLeaf /\ writer[RootLatch] = t /\ readers[RootLatch] = {}
        /\ readers[root] = {} /\ RootLatch \in Latches /\ root \in Latches
    BY <1>1, InnerRoot DEF Stands, Latched, CanLock, LatchesSound, RootLatch, Latches
  <1>3. th[u].pc # "search"
    BY <1>1, <1>2 DEF Latched
  <1>4. th[u].pc \notin {"only", "insert"}
    BY <1>1, <1>2 DEF Latched
  <1>5. th[u].pc # "descend"
    BY <1>1, <1>2 DEF Stands, FirstLeaf, NewRoot
  <1>6. th[u].pc # "down"
    <2>1. SUFFICES ASSUME th[u].pc = "down" PROVE FALSE
      OBVIOUS
    <2>2. th[u].key \in BKeys /\ th[u].curr \in {root, Home(th[u].key)}
      BY <1>1, <2>1 DEF Stands
    <2>3. th[u].curr = root
      BY <1>1, <1>2, <2>2, HomeIsLeaf
    <2>4. QED
      BY <1>1, <1>2, <2>1, <2>3 DEF Latched
  <1>7. QED
    BY <1>1, <1>3, <1>4, <1>5, <1>6 DEF Steps

(* The split of the only leaf. *)
LEMMA SplitTree ==
  ASSUME NEW data, DOMAIN data \subseteq BKeys, IsFiniteSet(DOMAIN data),
         Cardinality(DOMAIN data) > 1,
         NEW s, s = CHOOSE k \in Upper(data) : \A j \in Upper(data) : k <= j,
         root' = NewRoot, DOMAIN node' = {FirstLeaf, NewLeaf, NewRoot},
         node'[FirstLeaf] = Part(data, DOMAIN data \ Upper(data)),
         node'[NewLeaf] = Part(data, Upper(data)),
         node'[NewRoot] = Inner(s, FirstLeaf, NewLeaf)
  PROVE  /\ Tree'
         /\ \A k \in BKeys :
              Lookup(Home(k), k)' = IF k \in DOMAIN data THEN data[k] ELSE 0
  <1>1. DOMAIN data \subseteq Int
    BY BTreeAssumption
  <1>2. PICK U : U = Upper(data)
    OBVIOUS
  <1>3. s \in DOMAIN data /\ \A k \in DOMAIN data : k \in U <=> k >= s
    <2>1. PICK x \in DOMAIN data :
             /\ x = CHOOSE k \in Upper(data) : \A j \in Upper(data) : k <= j
             /\ \A k \in DOMAIN data : k \in Upper(data) <=> k >= x
      BY <1>1, SplitKeys
    <2>2. x = s
      BY <2>1
    <2>3. QED
      BY <1>2, <2>1, <2>2
  <1>4. U \subseteq DOMAIN data
    BY <1>2 DEF Upper
  <1>5. /\ DOMAIN node' = {FirstLeaf, NewLeaf, NewRoot}
        /\ node'[FirstLeaf] = Part(data, DOMAIN data \ U)
        /\ node'[NewLeaf] = Part(data, U)
        /\ node'[NewRoot] = Inner(s, FirstLeaf, NewLeaf)
    BY <1>2
  <1>6. /\ node'[FirstLeaf].leaf = TRUE /\ node'[NewLeaf].leaf = TRUE
        /\ node'[FirstLeaf].data = [k \in DOMAIN data \ U |-> data[k]]
        /\ node'[NewLeaf].data = [k \in U |-> data[k]]
        /\ node'[FirstLeaf] = Leaf(node'[FirstLeaf].data)
        /\ node'[NewLeaf] = Leaf(node'[NewLeaf].data)
    <2>1. PICK lower : lower = [k \in DOMAIN data \ U |-> data[k]]
      OBVIOUS
    <2>2. PICK upper : upper = [k \in U |-> data[k]]
      OBVIOUS
    <2>3. node'[FirstLeaf] = Leaf(lower) /\ node'[NewLeaf] = Leaf(upper)
      BY <1>5, <2>1, <2>2 DEF Part
    <2>4. /\ node'[FirstLeaf].leaf = TRUE /\ node'[NewLeaf].leaf = TRUE
          /\ node'[FirstLeaf].data = lower /\ node'[NewLeaf].data = upper
      BY <2>3 DEF Leaf
    <2>5. QED
      BY <2>1, <2>2, <2>3, <2>4
  <1>7. Tree'
    <2>1. IsFiniteSet(U) /\ IsFiniteSet(DOMAIN data \ U)
      BY <1>4, FS_Subset
    <2>2. IsLeaf(FirstLeaf)' /\ IsLeaf(NewLeaf)'
      BY <1>4, <1>6, <2>1 DEF IsLeaf
    <2>3. s \in BKeys
      BY <1>3
    <2>4. QED
      BY <1>5, <2>2, <2>3 DEF Tree
  <1>8. ASSUME NEW k \in BKeys
        PROVE  Lookup(Home(k), k)' = IF k \in DOMAIN data THEN data[k] ELSE 0
    <2>1. k \in Int /\ s \in Int
      BY <1>1, <1>3, BTreeAssumption
    <2>2. Home(k)' = ChildOf(NewRoot, k)'
      <3>1. node'[NewRoot].leaf = FALSE
        BY <1>5 DEF Inner
      <3>2. QED
        BY <3>1 DEF Home
    <2>3. ChildOf(NewRoot, k)' = IF k >= s THEN NewLeaf ELSE FirstLeaf
      <3>1. Inner(s, FirstLeaf, NewLeaf).children[1 + Cardinality(
              {i \in DOMAIN Inner(s, FirstLeaf, NewLeaf).keys : k >= Inner(s, FirstLeaf, NewLeaf).keys[i]})]
              = IF k >= s THEN NewLeaf ELSE FirstLeaf
        BY <2>1, ChildOfInner, Zenon
      <3>2. node'[NewRoot] = Inner(s, FirstLeaf, NewLeaf)
        BY <1>5
      <3>3. QED
        BY <3>1, <3>2, Zenon DEF ChildOf
    <2>4. CASE k >= s
      <3>1. Home(k)' = NewLeaf
        BY <2>2, <2>3, <2>4
      <3>2. Lookup(Home(k), k)' = IF k \in U THEN data[k] ELSE 0
        BY <1>6, <3>1 DEF Lookup
      <3>3. QED
        BY <1>3, <1>4, <2>4, <3>2
    <2>5. CASE ~(k >= s)
      <3>1. Home(k)' = FirstLeaf
        BY <2>2, <2>3, <2>5
      <3>2. Lookup(Home(k), k)' = IF k \in DOMAIN data \ U THEN data[k] ELSE 0
        BY <1>6, <3>1 DEF Lookup
      <3>3. QED
        BY <1>3, <2>5, <3>2
    <2>6. QED
      BY <2>4, <2>5
  <1>9. QED
    BY <1>7, <1>8

LEMMA KeptInsertOnly ==
  ASSUME BTreeInv, NEW t \in Threads, InsertOnly(t)
  PROVE  BTreeInv'
  <1>1. PICK key : key = th[t].key
    OBVIOUS
  <1>2. PICK data : data = insert_into_leaf(root, key, th[t].val)
    OBVIOUS
  <1>3. th[t].pc = "only" /\ CanLock(root) /\ Released(t) /\ Inserted(t) /\ UNCHANGED readers
    BY DEF InsertOnly
  <1>4. Tree /\ KeysHome /\ key \in BKeys /\ root = FirstLeaf
    BY <1>1, <1>3, Thread DEF BTreeInv, Stands
  <1>5. IsLeaf(FirstLeaf) /\ \A k \in BKeys : Home(k) = FirstLeaf
    BY <1>4, HomeIsLeaf
  <1>6. CASE Cardinality(DOMAIN data) <= MaxKeys
    <2>1. node' = [node EXCEPT ![root] = Leaf(insert_into_leaf(root, th[t].key, th[t].val))]
      BY <1>1, <1>2, <1>6 DEF InsertOnly
    <2>2. root' = root
      BY <1>1, <1>2, <1>6 DEF InsertOnly
    <2>3. th[t].key \in BKeys /\ UNCHANGED <<root, readers>>
      BY <1>1, <1>3, <1>4, <2>2
    <2>4. PICK h : h = Home(th[t].key)
      OBVIOUS
    <2>5. h = root
      BY <1>1, <1>4, <1>5, <2>4
    <2>6. node' = [node EXCEPT ![h] = Leaf(insert_into_leaf(h, th[t].key, th[t].val))]
      BY <2>1, <2>5
    <2>7. QED
      BY <1>3, <2>3, <2>4, <2>6, PutInLeaf
  <1>7. CASE ~(Cardinality(DOMAIN data) <= MaxKeys)
    <2>1. PICK s : s = CHOOSE k \in Upper(data) : \A j \in Upper(data) : k <= j
      OBVIOUS
    <2>2. /\ root' = NewRoot
          /\ node' = [n \in {root, NewLeaf, NewRoot} |->
                        CASE n = root -> Part(data, DOMAIN data \ Upper(data))
                          [] n = NewLeaf -> Part(data, Upper(data))
                          [] n = NewRoot -> Inner(s, root, NewLeaf)]
      BY <1>1, <1>2, <1>7, <2>1 DEF InsertOnly
    <2>3. /\ DOMAIN node' = {FirstLeaf, NewLeaf, NewRoot}
          /\ node'[FirstLeaf] = Part(data, DOMAIN data \ Upper(data))
          /\ node'[NewLeaf] = Part(data, Upper(data))
          /\ node'[NewRoot] = Inner(s, FirstLeaf, NewLeaf)
      BY <1>4, <2>2 DEF FirstLeaf, NewLeaf, NewRoot
    <2>4. /\ DOMAIN data \subseteq BKeys /\ IsFiniteSet(DOMAIN data)
          /\ key \in DOMAIN data /\ data[key] = th[t].val
          /\ \A k \in BKeys \ {key} :
               (IF k \in DOMAIN data THEN data[k] ELSE 0) = Lookup(FirstLeaf, k)
      BY <1>2, <1>4, <1>5, NewData
    <2>5. Cardinality(DOMAIN data) > 1
      BY <1>7, <2>4, FS_CardinalityType, BTreeAssumption
    <2>6. /\ Tree'
          /\ \A k \in BKeys :
               Lookup(Home(k), k)' = IF k \in DOMAIN data THEN data[k] ELSE 0
      BY <2>1, <2>2, <2>3, <2>4, <2>5, SplitTree
    <2>7. /\ BTreeTypes' /\ LatchesSound' /\ th'[t].pc = "idle"
          /\ map'[key] = th[t].val
          /\ \A k \in BKeys \ {key} : map'[k] = map[k]
          /\ \A u \in Threads \ {t} : th'[u].pc = th[u].pc
          /\ \A u \in Threads : Latched(u)' /\ Answers(u)'
      BY <1>1, <1>3, <1>4, AfterInsert
    <2>8. KeysHome'
      <3>1. ASSUME NEW k \in BKeys
            PROVE  Lookup(Home(k), k)' = map'[k]
        <4>1. CASE k = key
          BY <2>4, <2>6, <2>7, <4>1
        <4>2. CASE k # key
          <5>1. Lookup(FirstLeaf, k) = map[k]
            BY <1>4, <1>5 DEF KeysHome
          <5>2. QED
            BY <2>4, <2>6, <2>7, <4>2, <5>1
        <4>3. QED
          BY <4>1, <4>2
      <3>2. QED
        BY <3>1 DEF KeysHome
    <2>9. ASSUME NEW u \in Threads
          PROVE  Stands(u)'
      <3>1. th'[u].pc \in {"idle", "found"}
        BY <1>3, <2>7, OthersOutside
      <3>2. QED
        BY <3>1 DEF Stands
    <2>10. QED
      BY <2>6, <2>7, <2>8, <2>9 DEF BTreeInv
  <1>8. QED
    BY <1>6, <1>7

-----------------------------------------------------------------------------
(* Somebody always gets the latch he waits for: one at a leaf, else one at  *)
(* the inner root, else anyone.                                             *)
LEMMA SomeoneMoves ==
  ASSUME BTreeInv
  PROVE  \E t \in Threads : Moves(t)
  <1>1. SUFFICES ASSUME \A t \in Threads : ~Moves(t)
                 PROVE  FALSE
    OBVIOUS
  <1>2. BTreeTypes /\ Tree
    BY DEF BTreeInv
  <1>3. \A t \in Threads : th[t].pc \in Steps \ {"idle", "found"}
    <2>1. ASSUME NEW t \in Threads, th[t].pc \in {"idle", "found"}
          PROVE  Moves(t)
      BY <2>1 DEF Moves
    <2>2. QED
      BY <1>1, <2>1, Thread
  (* Nobody is at a leaf. *)
  <1>4. ASSUME NEW t \in Threads, th[t].pc \in {"down", "descend"}
        PROVE  ~node[th[t].curr].leaf /\ th[t].curr = NewRoot /\ root = NewRoot
               /\ th[t].key \in BKeys
    <2>1. ~node[th[t].curr].leaf
      <3>1. CASE th[t].pc = "down"
        BY <1>1, <3>1 DEF Moves
      <3>2. CASE th[t].pc = "descend"
        BY <1>1, <3>2 DEF Moves
      <3>3. QED
        BY <1>4, <3>1, <3>2
    <2>2. th[t].key \in BKeys /\ th[t].curr \in {root, Home(th[t].key)}
      BY <1>4, Thread DEF Stands
    <2>3. QED
      BY <1>2, <2>1, <2>2, HomeIsLeaf
  <1>5. ASSUME NEW l \in {FirstLeaf, NewLeaf}
        PROVE  CanShare(l) /\ CanLock(l)
    <2>1. l \in Latches /\ l # RootLatch /\ l # NewRoot
      BY DEF FirstLeaf, NewLeaf, Latches, RootLatch, NewRoot
    <2>2. ASSUME NEW u \in Threads
          PROVE  u \notin readers[l] /\ writer[l] # u
      BY <1>4, <2>1, Thread DEF Latched
    <2>3. readers[l] = {} /\ writer[l] = NoOne
      BY <1>2, <2>1, <2>2 DEF BTreeTypes
    <2>4. QED
      BY <2>3 DEF CanShare, CanLock
  (* Nobody is at the inner root. *)
  <1>6. ASSUME NEW t \in Threads, th[t].pc \in {"down", "descend"}
        PROVE  FALSE
    <2>1. /\ th[t].curr = NewRoot /\ root = NewRoot /\ th[t].key \in BKeys
      BY <1>4, <1>6
    <2>2. ChildOf(th[t].curr, th[t].key) \in {FirstLeaf, NewLeaf}
      BY <1>2, <2>1, HomeIsLeaf
    <2>3. CanShare(ChildOf(th[t].curr, th[t].key)) /\ CanLock(ChildOf(th[t].curr, th[t].key))
      BY <1>5, <2>2
    <2>4. CASE th[t].pc = "down"
      BY <1>1, <2>3, <2>4 DEF Moves
    <2>5. CASE th[t].pc = "descend"
      BY <1>1, <2>3, <2>5 DEF Moves
    <2>6. QED
      BY <1>6, <2>4, <2>5
  <1>7. CanShare(root) /\ CanLock(root)
    <2>1. root \in Latches /\ root # RootLatch
      BY <1>2, InnerRoot DEF FirstLeaf, NewRoot, RootLatch
    <2>2. ASSUME NEW u \in Threads
          PROVE  u \notin readers[root] /\ writer[root] # u
      BY <1>6, <2>1, Thread DEF Latched
    <2>3. readers[root] = {} /\ writer[root] = NoOne
      BY <1>2, <2>1, <2>2 DEF BTreeTypes
    <2>4. QED
      BY <2>3 DEF CanShare, CanLock
  <1>8. PICK t \in Threads : TRUE
    BY BTreeAssumption
  <1>9. th[t].pc \in {"search", "only", "insert"}
    BY <1>3, <1>6 DEF Steps
  <1>10. th[t].curr = root
    BY <1>9, Thread DEF Stands
  <1>11. Moves(t)
    <2>1. CASE th[t].pc = "search"
      BY <1>7, <1>10, <2>1 DEF Moves
    <2>2. CASE th[t].pc \in {"only", "insert"}
      BY <1>7, <1>10, <2>2 DEF Moves
    <2>3. QED
      BY <1>9, <2>1, <2>2
  <1>12. QED
    BY <1>1, <1>11

LEMMA BTreeStarts ==
  ASSUME BTreeInit
  PROVE  BTreeInv
  <1>1. /\ root = FirstLeaf /\ node = [n \in {FirstLeaf} |-> Leaf(<<>>)]
        /\ writer = [l \in Latches |-> NoOne] /\ readers = [l \in Latches |-> {}]
        /\ th = [t \in Threads |-> Idle] /\ map = [k \in BKeys |-> 0]
    BY DEF BTreeInit
  <1>2. Idle \in Locals /\ Idle.pc = "idle"
    BY DEF Idle, Locals, Steps, BValues, Latches
  <1>3. BTreeTypes
    BY <1>1, <1>2 DEF BTreeTypes, BValues
  <1>4. LatchesSound
    BY <1>1 DEF LatchesSound
  <1>5. node[FirstLeaf] = Leaf(<<>>) /\ node[FirstLeaf].data = <<>> /\ node[FirstLeaf].leaf = TRUE
    BY <1>1 DEF Leaf
  <1>6. DOMAIN node[FirstLeaf].data = {}
    BY <1>5
  <1>7. Tree
    <2>1. IsFiniteSet(DOMAIN node[FirstLeaf].data)
      BY <1>6, FS_EmptySet
    <2>2. IsLeaf(FirstLeaf)
      BY <1>5, <1>6, <2>1 DEF IsLeaf
    <2>3. QED
      BY <1>1, <2>2 DEF Tree
  <1>8. KeysHome
    BY <1>1, <1>5, <1>6 DEF KeysHome, Home, Lookup
  <1>9. ASSUME NEW t \in Threads
        PROVE  Latched(t) /\ Stands(t) /\ Answers(t)
    <2>1. th[t].pc = "idle" /\ \A l \in Latches : readers[l] = {} /\ writer[l] # t
      BY <1>1, <1>2, BTreeAssumption
    <2>2. QED
      BY <2>1 DEF Latched, Stands, Answers
  <1>10. QED
    BY <1>3, <1>4, <1>7, <1>8, <1>9 DEF BTreeInv

LEMMA BTreeKept ==
  ASSUME BTreeInv, [BTreeNext]_btreeVars
  PROVE  BTreeInv'
  <1>1. CASE BTreeNext
    <2>1. PICK t \in Threads :
             \/ \E key \in BKeys :
                  SearchRoot(t, key) \/ \E val \in BVals : InsertRoot(t, key, val)
             \/ SearchLatch(t) \/ SearchDown(t) \/ SearchLeaf(t) \/ SearchReturn(t)
             \/ InsertOnly(t) \/ InsertLatch(t) \/ InsertDown(t) \/ InsertLeaf(t)
      BY <1>1 DEF BTreeNext
    <2>2. QED
      BY <2>1, KeptSearchRoot, KeptSearchLatch, KeptSearchDown, KeptSearchLeaf,
         KeptSearchReturn, KeptInsertRoot, KeptInsertOnly, KeptInsertLatch, KeptInsertDown,
         KeptInsertLeaf, Zenon
  <1>2. CASE UNCHANGED btreeVars
    <2>1. UNCHANGED <<root, node, map>> /\ UNCHANGED writer /\ UNCHANGED readers /\ UNCHANGED th
      BY <1>2 DEF btreeVars
    <2>2. BTreeTypes' /\ LatchesSound'
      BY <2>1 DEF BTreeInv, BTreeTypes, LatchesSound
    <2>3. Tree' /\ KeysHome'
      BY <2>1, SteadyTree DEF BTreeInv
    <2>4. ASSUME NEW u \in Threads
          PROVE  Latched(u)' /\ Stands(u)' /\ Answers(u)'
      <3>1. Latched(u) /\ Stands(u) /\ Answers(u) /\ th[u].curr \in Latches
        BY Thread
      <3>2. QED
        BY <2>1, <3>1, OtherThread
    <2>5. QED
      BY <2>2, <2>3, <2>4 DEF BTreeInv
  <1>3. QED
    BY <1>1, <1>2

(***************************************************************************)
(* In every tree, with any number of threads, keys and insertions, searches*)
(* return a value of their time, no key is lost or misplaced by the split, *)
(* and threads never all wait (search and insert).                         *)
(***************************************************************************)
THEOREM IndexIsSound == BTreeSpec => []IndexSound
  <1>1. BTreeInv => IndexSound
    <2>1. SUFFICES ASSUME BTreeInv PROVE IndexSound
      OBVIOUS
    <2>2. \A t \in Threads : th[t].pc = "found" => th[t].val \in th[t].may
      BY <2>1, Thread DEF Answers
    <2>3. \A k \in BKeys :
            Lookup(IF node[root].leaf THEN root ELSE ChildOf(root, k), k) = map[k]
      BY <2>1 DEF BTreeInv, KeysHome, Home
    <2>4. QED
      BY <2>1, <2>2, <2>3, SomeoneMoves DEF IndexSound
  <1>2. BTreeInit => BTreeInv
    BY BTreeStarts
  <1>3. BTreeInv /\ [BTreeNext]_btreeVars => BTreeInv'
    BY BTreeKept
  <1>4. QED
    BY <1>1, <1>2, <1>3, PTL DEF BTreeSpec

-----------------------------------------------------------------------------
(* The LSM tree engine: its tables, its skip list, and the two together.   *)

(* The first position from low on that is high or has a key that is not below key. *)
FirstFrom(keys, key, low, high, p) ==
  /\ p \in low .. high /\ (p < high => keys[p] >= key)
  /\ \A q \in low .. p - 1 : keys[q] < key

(* There is such a position in every window.                               *)
LEMMA FirstExists ==
  ASSUME NEW n \in Nat, NEW keys \in [1 .. n -> Int], NEW key \in Int,
         NEW low \in 1 .. n + 1, NEW high \in 1 .. n + 1, low <= high
  PROVE  \E p : FirstFrom(keys, key, low, high, p)
  <1> DEFINE T == {p \in low .. high : p = high \/ keys[p] >= key}
  <1>1. T \in SUBSET Nat /\ high \in T
    OBVIOUS
  <1>2. PICK p \in T : \A q \in T : p <= q
    BY <1>1, LeastNumber
  <1>3. p \in low .. high /\ (p < high => keys[p] >= key)
    OBVIOUS
  <1>4. ASSUME NEW q \in low .. p - 1
        PROVE  keys[q] < key
    <2>1. q \in low .. high /\ q # high /\ q \in 1 .. n /\ ~(p <= q)
      BY <1>3
    <2>2. ~(keys[q] >= key)
      BY <1>2, <2>1
    <2>3. keys[q] \in Int
      BY <2>1
    <2>4. QED
      BY <2>2, <2>3
  <1>5. QED
    BY <1>3, <1>4 DEF FirstFrom

(* There is only one.                                                      *)
LEMMA FirstUnique ==
  ASSUME NEW n \in Nat, NEW keys \in [1 .. n -> Int], NEW key \in Int,
         NEW low \in 1 .. n + 1, NEW high \in 1 .. n + 1,
         NEW p, FirstFrom(keys, key, low, high, p), NEW q, FirstFrom(keys, key, low, high, q)
  PROVE  p = q
  <1>1. \A x, y : FirstFrom(keys, key, low, high, x) /\ FirstFrom(keys, key, low, high, y) => ~(x < y)
    <2> SUFFICES ASSUME NEW x, NEW y, FirstFrom(keys, key, low, high, x), FirstFrom(keys, key, low, high, y), x < y
                 PROVE  FALSE
      OBVIOUS
    <2>1. x \in low .. high /\ y \in low .. high
      BY DEF FirstFrom
    <2>2. x \in low .. y - 1 /\ x < high /\ x \in 1 .. n
      BY <2>1
    <2>3. keys[x] >= key /\ keys[x] < key /\ keys[x] \in Int
      BY <2>2 DEF FirstFrom
    <2>4. QED
      BY <2>3
  <1>2. p \in low .. high /\ q \in low .. high
    BY DEF FirstFrom
  <1>3. ~(p < q) /\ ~(q < p)
    BY <1>1
  <1>4. QED
    BY <1>2, <1>3

(* The first position of the half that the bisection keeps is that of the  *)
(* whole window.                                                           *)
LEMMA FirstHalf ==
  ASSUME NEW n \in Nat, NEW keys \in [1 .. n -> Int], NEW key \in Int,
         \A i, j \in 1 .. n : i < j => keys[i] <= keys[j],
         NEW low \in 1 .. n + 1, NEW high \in 1 .. n + 1, NEW mid \in low .. high - 1, NEW p
  PROVE  /\ keys[mid] >= key /\ FirstFrom(keys, key, low, mid, p) => FirstFrom(keys, key, low, high, p)
         /\ keys[mid] < key /\ FirstFrom(keys, key, mid + 1, high, p) => FirstFrom(keys, key, low, high, p)
  <1>1. mid \in 1 .. n
    OBVIOUS
  <1>2. ASSUME keys[mid] >= key, FirstFrom(keys, key, low, mid, p)
        PROVE  FirstFrom(keys, key, low, high, p)
    <2>1. p \in low .. mid
      BY <1>2 DEF FirstFrom
    <2>2. p \in low .. high /\ (p = mid \/ p < mid)
      BY <2>1
    <2>3. QED
      BY <1>2, <2>2 DEF FirstFrom
  <1>3. ASSUME keys[mid] < key, FirstFrom(keys, key, mid + 1, high, p)
        PROVE  FirstFrom(keys, key, low, high, p)
    <2>1. p \in mid + 1 .. high
      BY <1>3 DEF FirstFrom
    <2>2. p \in low .. high
      BY <2>1
    <2>3. ASSUME NEW q \in low .. p - 1
          PROVE  keys[q] < key
      <3>1. CASE q \in mid + 1 .. p - 1
        BY <1>3, <3>1 DEF FirstFrom
      <3>2. CASE q <= mid
        <4>1. q \in 1 .. n /\ keys[q] \in Int /\ keys[mid] \in Int
          BY <1>1, <3>2
        <4>2. keys[q] <= keys[mid]
          BY <1>1, <3>2, <4>1
        <4>3. QED
          BY <1>3, <4>1, <4>2
      <3>3. QED
        BY <2>1, <3>1, <3>2
    <2>4. QED
      BY <1>3, <2>2, <2>3 DEF FirstFrom
  <1>4. QED
    BY <1>2, <1>3

(* The bisection returns the first position whose key is not below key,    *)
(* however the window is halved.                                           *)
LEMMA LowerBoundIs ==
  ASSUME NEW n \in Nat, NEW keys \in [1 .. n -> Int], NEW key \in Int,
         \A i, j \in 1 .. n : i < j => keys[i] <= keys[j]
  PROVE  FirstFrom(keys, key, 1, n + 1, LowerBound(keys, key))
  <1> DEFINE W == (1 .. n + 1) \X (1 .. n + 1)
             part(w) == LET mid == w[1] + (w[2] - w[1]) \div 2
                        IN  IF keys[mid] >= key THEN <<w[1], mid>> ELSE <<mid + 1, w[2]>>
             run(f) == [w \in W |-> IF w[1] >= w[2] THEN w[2] ELSE f[part(w)]]
             at == CHOOSE f : f = run(f)
             first(w) == CHOOSE p : FirstFrom(keys, key, w[1], w[2], p)
             g == [w \in W |-> IF w[1] >= w[2] THEN w[2] ELSE first(w)]
  <1>1. Len(keys) = n
    <2>1. keys \in Seq(Int) /\ DOMAIN keys = 1 .. n
      BY SeqDef
    <2>2. QED
      BY <2>1, LenProperties
  <1>2. LowerBound(keys, key) = at[<<1, n + 1>>]
    BY <1>1 DEF LowerBound
  <1>3. ASSUME NEW w \in W, w[1] < w[2]
        PROVE  /\ part(w) \in W /\ part(w)[2] - part(w)[1] < w[2] - w[1] /\ part(w)[2] - part(w)[1] \in Nat
               /\ \A p : FirstFrom(keys, key, part(w)[1], part(w)[2], p) => FirstFrom(keys, key, w[1], w[2], p)
    <2>1. PICK low \in 1 .. n + 1, high \in 1 .. n + 1 : w[1] = low /\ w[2] = high
      OBVIOUS
    <2>2. PICK mid : mid = low + (high - low) \div 2
      OBVIOUS
    <2>3. mid \in low .. high - 1 /\ mid \in 1 .. n
      BY <1>3, <2>1, <2>2
    <2>4. CASE keys[mid] >= key
      <3>1. part(w) = <<low, mid>>
        BY <2>1, <2>2, <2>4
      <3>2. <<low, mid>> \in W /\ mid - low < high - low /\ mid - low \in Nat
        BY <2>3
      <3>3. \A p : FirstFrom(keys, key, low, mid, p) => FirstFrom(keys, key, low, high, p)
        BY <2>3, <2>4, FirstHalf
      <3> HIDE DEF part
      <3>4. QED
        BY <2>1, <3>1, <3>2, <3>3
    <2>5. CASE ~(keys[mid] >= key)
      <3>1. part(w) = <<mid + 1, high>>
        BY <2>1, <2>2, <2>5
      <3>2. <<mid + 1, high>> \in W /\ high - (mid + 1) < high - low /\ high - (mid + 1) \in Nat
        BY <2>3
      <3>3. keys[mid] < key
        BY <2>3, <2>5
      <3>4. \A p : FirstFrom(keys, key, mid + 1, high, p) => FirstFrom(keys, key, low, high, p)
        BY <2>3, <3>3, FirstHalf
      <3> HIDE DEF part
      <3>5. QED
        BY <2>1, <3>1, <3>2, <3>4
    <2>6. QED
      BY <2>4, <2>5
  <1>4. \A w \in W : w[1] \in 1 .. n + 1 /\ w[2] \in 1 .. n + 1
    OBVIOUS
  <1>5. \A w \in W : w[1] <= w[2] => FirstFrom(keys, key, w[1], w[2], first(w))
    <2>1. \A w \in W : w[1] <= w[2] => \E p : FirstFrom(keys, key, w[1], w[2], p)
      BY <1>4, FirstExists
    <2>2. QED
      BY <2>1
  <1> HIDE DEF part, W, first
  <1>6. ASSUME NEW w \in W, ~(w[1] >= w[2])
        PROVE  first(w) = g[part(w)]
    <2>1. w[1] < w[2] /\ w[1] <= w[2]
      BY <1>4, <1>6
    <2>2. PICK v \in W : v = part(w)
      BY <1>3, <2>1
    <2>3. v[1] <= v[2] /\ \A p : FirstFrom(keys, key, v[1], v[2], p) => FirstFrom(keys, key, w[1], w[2], p)
      <3>1. v[2] - v[1] \in Nat
        BY <1>3, <2>1, <2>2
      <3>2. v[1] <= v[2]
        BY <1>4, <3>1
      <3>3. QED
        BY <1>3, <2>1, <2>2, <3>2
    <2>4. FirstFrom(keys, key, v[1], v[2], g[v])
      <3>1. CASE v[1] < v[2]
        <4>1. g[v] = first(v)
          BY <1>4, <3>1
        <4>2. QED
          BY <1>5, <2>3, <4>1
      <3>2. CASE v[1] = v[2]
        <4>1. g[v] = v[2]
          BY <1>4, <3>2
        <4>2. PICK x \in 1 .. n + 1 : x = v[1] /\ x = v[2]
          BY <1>4, <3>2
        <4>3. FirstFrom(keys, key, x, x, x)
          BY DEF FirstFrom
        <4>4. QED
          BY <4>1, <4>2, <4>3
      <3>3. QED
        BY <1>4, <2>3, <3>1, <3>2
    <2>5. FirstFrom(keys, key, w[1], w[2], g[v])
      BY <2>3, <2>4
    <2>6. FirstFrom(keys, key, w[1], w[2], first(w))
      BY <1>5, <2>1
    <2>7. first(w) = g[v]
      <3>1. PICK lo \in 1 .. n + 1, hi \in 1 .. n + 1 : lo = w[1] /\ hi = w[2]
        BY <1>4
      <3>2. PICK a, b : a = first(w) /\ b = g[v]
        OBVIOUS
      <3>3. FirstFrom(keys, key, lo, hi, a) /\ FirstFrom(keys, key, lo, hi, b)
        BY <2>5, <2>6, <3>1, <3>2
      <3>4. a = b
        BY <3>1, <3>3, FirstUnique
      <3>5. QED
        BY <3>2, <3>4
    <2>8. QED
      BY <2>2, <2>7
  <1>7. g = run(g)
    <2>1. \A w \in W : g[w] = IF w[1] >= w[2] THEN w[2] ELSE g[part(w)]
      BY <1>6
    <2> HIDE DEF g
    <2>2. DOMAIN g = W /\ g = [w \in W |-> g[w]]
      BY DEF g
    <2>3. QED
      BY <2>1, <2>2
  <1> HIDE DEF g
  <1>8. at = run(at)
    BY <1>7
  <1> HIDE DEF at
  <1>9. \A w \in W : at[w] = g[w]
    <2> DEFINE T == {w \in W : w[1] < w[2] /\ at[w] # g[w]}
               D == {w[2] - w[1] : w \in T}
    <2>1. \A w \in W : /\ at[w] = IF w[1] >= w[2] THEN w[2] ELSE at[part(w)]
                       /\ g[w] = IF w[1] >= w[2] THEN w[2] ELSE g[part(w)]
      BY <1>7, <1>8
    <2>2. \A w \in W : at[w] # g[w] => w \in T
      BY <1>4, <2>1
    <2> SUFFICES ASSUME T # {} PROVE FALSE
      BY <2>2
    <2>3. \A w \in T : w \in W /\ w[1] < w[2] /\ at[w] # g[w]
      OBVIOUS
    <2> HIDE DEF T
    <2>4. D \in SUBSET Nat /\ D # {}
      <3>1. \A w \in T : w[2] - w[1] \in Nat
        BY <1>4, <2>3
      <3>2. QED
        BY <3>1
    <2>5. PICK d \in D : \A e \in D : d <= e
      BY <2>4, LeastNumber
    <2>6. PICK w \in T : d = w[2] - w[1]
      OBVIOUS
    <2>7. w \in W /\ w[1] < w[2] /\ at[w] # g[w] /\ ~(w[1] >= w[2])
      BY <1>4, <2>3
    <2>8. at[part(w)] # g[part(w)] /\ part(w) \in W
      BY <1>3, <2>1, <2>7
    <2>9. part(w) \in T
      BY <2>2, <2>8
    <2>10. part(w)[2] - part(w)[1] \in D
      BY <2>9
    <2>11. w[2] - w[1] <= part(w)[2] - part(w)[1]
      BY <2>5, <2>6, <2>10
    <2>12. QED
      BY <1>3, <1>4, <2>7, <2>8, <2>11
  <1>10. PICK w \in W : w = <<1, n + 1>> /\ w[1] = 1 /\ w[2] = n + 1
    <2>1. 1 \in 1 .. n + 1 /\ n + 1 \in 1 .. n + 1
      OBVIOUS
    <2>2. <<1, n + 1>> \in W
      BY <2>1 DEF W
    <2>3. <<1, n + 1>>[1] = 1 /\ <<1, n + 1>>[2] = n + 1
      OBVIOUS
    <2>4. QED
      BY <2>2, <2>3
  <1>11. FirstFrom(keys, key, 1, n + 1, g[w])
    <2>1. CASE w[1] < w[2]
      <3>1. g[w] = first(w)
        BY <1>4, <2>1 DEF g
      <3>2. QED
        BY <1>4, <1>5, <1>10, <2>1, <3>1
    <2>2. CASE n = 0
      <3>1. g[w] = 1
        BY <1>10, <2>2 DEF g
      <3>2. FirstFrom(keys, key, 1, 1, 1)
        BY DEF FirstFrom
      <3>3. QED
        BY <2>2, <3>1, <3>2
    <2>3. QED
      BY <1>10, <2>1, <2>2
  <1>12. QED
    BY <1>2, <1>9, <1>10, <1>11

(* Records in the order of their keys. *)
Sorted(n, recs) ==
  /\ recs \in [1 .. n -> Key \X Value]
  /\ \A a, b \in 1 .. n : a < b => recs[a][1] < recs[b][1]

(* The parts of a record.                                                  *)
LEMMA SortedKey ==
  ASSUME NEW n \in Nat, NEW recs, Sorted(n, recs), NEW a \in 1 .. n
  PROVE  recs[a][1] \in Key /\ recs[a][1] \in Int /\ recs[a][2] \in Value
  BY SkipListAssumption DEF Sorted, Key

(* Positions are ordered as their keys are: no key occurs twice.           *)
LEMMA SortedOnce ==
  ASSUME NEW n \in Nat, NEW recs, Sorted(n, recs), NEW a \in 1 .. n, NEW b \in 1 .. n,
         recs[a][1] <= recs[b][1]
  PROVE  a <= b
  <1> SUFFICES ASSUME b < a PROVE FALSE
    OBVIOUS
  <1>1. recs[b][1] < recs[a][1]
    BY DEF Sorted
  <1>2. recs[a][1] \in Int /\ recs[b][1] \in Int
    BY SortedKey
  <1>3. QED
    BY <1>1, <1>2

(* A scan returns the value of the one record that has the key.            *)
LEMMA ScanIs ==
  ASSUME NEW n \in Nat, NEW recs, Sorted(n, recs), NEW key
  PROVE  /\ \A j \in 1 .. n : recs[j][1] = key => ScanOf(recs, key) = recs[j][2]
         /\ (\A j \in 1 .. n : recs[j][1] # key) => ScanOf(recs, key) = NotFound
  <1>1. DOMAIN recs = 1 .. n
    BY DEF Sorted
  <1>2. ASSUME NEW j \in 1 .. n, recs[j][1] = key
        PROVE  ScanOf(recs, key) = recs[j][2]
    <2>1. PICK c \in 1 .. n : recs[c][1] = key /\ ScanOf(recs, key) = recs[c][2]
      BY <1>1, <1>2 DEF ScanOf
    <2>2. c <= j /\ j <= c
      <3>1. recs[j][1] \in Int /\ recs[c][1] \in Int
        BY SortedKey
      <3>2. recs[j][1] <= recs[c][1] /\ recs[c][1] <= recs[j][1]
        BY <1>2, <2>1, <3>1
      <3>3. QED
        BY <3>2, SortedOnce
    <2>3. QED
      BY <2>1, <2>2
  <1>3. ASSUME \A j \in 1 .. n : recs[j][1] # key
        PROVE  ScanOf(recs, key) = NotFound
    BY <1>1, <1>3 DEF ScanOf
  <1>4. QED
    BY <1>2, <1>3

(* The search of one block finds what a scan of it finds.                  *)
LEMMA LookUpIs ==
  ASSUME NEW n \in Nat, NEW recs, Sorted(n, recs), NEW key \in Key
  PROVE  LookUp(recs, key) = ScanOf(recs, key)
  <1>0. DOMAIN recs = 1 .. n /\ key \in Int
    BY SkipListAssumption DEF Sorted, Key
  <1>1. PICK keys : keys = [i \in 1 .. n |-> recs[i][1]]
    OBVIOUS
  <1>2. keys \in [1 .. n -> Int] /\ \A i \in 1 .. n : keys[i] = recs[i][1]
    BY <1>1, SortedKey
  <1>3. \A i, j \in 1 .. n : i < j => keys[i] <= keys[j]
    <2> SUFFICES ASSUME NEW i \in 1 .. n, NEW j \in 1 .. n, i < j PROVE keys[i] <= keys[j]
      OBVIOUS
    <2>1. recs[i][1] < recs[j][1]
      BY DEF Sorted
    <2>2. keys[i] \in Int /\ keys[j] \in Int
      BY <1>2
    <2>3. QED
      BY <1>2, <2>1, <2>2
  <1>4. PICK it : it = LowerBound(keys, key)
    OBVIOUS
  <1>5. FirstFrom(keys, key, 1, n + 1, it)
    BY <1>0, <1>2, <1>3, <1>4, LowerBoundIs
  <1>6. LookUp(recs, key) = IF it \in 1 .. n /\ recs[it][1] = key THEN recs[it][2] ELSE NotFound
    BY <1>0, <1>1, <1>4 DEF LookUp
  <1>7. CASE \E j \in 1 .. n : recs[j][1] = key
    <2>1. PICK j \in 1 .. n : recs[j][1] = key
      BY <1>7
    <2>2. it \in 1 .. n + 1
      BY <1>5 DEF FirstFrom
    <2>3. ~(j < it)
      <3> SUFFICES ASSUME j < it PROVE FALSE
        OBVIOUS
      <3>1. j \in 1 .. it - 1
        BY <2>2
      <3>2. keys[j] < key
        BY <1>5, <3>1 DEF FirstFrom
      <3>3. QED
        BY <1>0, <1>2, <2>1, <3>2
    <2>4. it \in 1 .. n /\ it <= j
      BY <2>2, <2>3
    <2>5. keys[it] >= key
      BY <1>5, <2>4 DEF FirstFrom
    <2>6. recs[j][1] <= recs[it][1]
      BY <1>0, <1>2, <2>1, <2>4, <2>5
    <2>7. j <= it
      BY <2>4, <2>6, SortedOnce
    <2>8. it = j
      BY <2>4, <2>7
    <2>9. QED
      BY <1>6, <2>1, <2>8, ScanIs
  <1>8. CASE \A j \in 1 .. n : recs[j][1] # key
    BY <1>6, <1>8, ScanIs
  <1>9. QED
    BY <1>7, <1>8

(* Multiples of the block size are ordered as their factors are.           *)
LEMMA Multiples ==
  ASSUME NEW R \in Nat \ {0}, NEW a \in Int, NEW b \in Int
  PROVE  /\ a * R \in Int /\ b * R \in Int
         /\ a <= b => a * R <= b * R
         /\ a < b => a * R + R <= b * R
         /\ a * R < b * R => a < b
  <1>1. a * R \in Int /\ b * R \in Int /\ (b - a) * R = b * R - a * R
    OBVIOUS
  <1>2. \A d \in Nat : d * R >= 0
    OBVIOUS
  <1>3. ASSUME a <= b PROVE a * R <= b * R
    <2>1. b - a \in Nat
      BY <1>3
    <2>2. (b - a) * R >= 0
      BY <1>2, <2>1
    <2>3. QED
      BY <1>1, <2>2
  <1>4. ASSUME a < b PROVE a * R + R <= b * R
    <2>1. b - a - 1 \in Nat
      BY <1>4
    <2>2. (b - a - 1) * R >= 0
      BY <1>2, <2>1
    <2>3. (b - a - 1) * R = b * R - a * R - R
      OBVIOUS
    <2>4. QED
      BY <1>1, <2>2, <2>3
  <1>5. ASSUME b <= a PROVE b * R <= a * R
    <2>1. a - b \in Nat
      BY <1>5
    <2>2. (a - b) * R >= 0
      BY <1>2, <2>1
    <2>3. (a - b) * R = a * R - b * R
      OBVIOUS
    <2>4. QED
      BY <1>1, <2>2, <2>3
  <1>6. ASSUME a * R < b * R PROVE a < b
    BY <1>1, <1>5, <1>6
  <1>7. QED
    BY <1>1, <1>3, <1>4, <1>6

(* The blocks of n records: each lies within them and is not empty, the    *)
(* next one begins behind it, and every record is in one, the last block's *)
(* perhaps fewer ones included.                                            *)
LEMMA RecordBlocks ==
  ASSUME NEW n \in Nat
  PROVE  /\ BlockCount(n) \in Nat
         /\ \A b \in 1 .. BlockCount(n) :
              /\ LowOf(b) \in Nat /\ CountOf(b, n) \in Nat \ {0} /\ LowOf(b) + CountOf(b, n) <= n
              /\ \A c \in 1 .. BlockCount(n) : b < c => LowOf(b) + CountOf(b, n) <= LowOf(c)
         /\ \A j \in 1 .. n : \E b \in 1 .. BlockCount(n) :
              LowOf(b) < j /\ j <= LowOf(b) + CountOf(b, n)
  <1>1. PICK R \in Nat \ {0} : R = RecordsPerBlock
    BY TableAssumption
  <1>2. PICK B : B = BlockCount(n)
    OBVIOUS
  <1>3. B \in Nat /\ n <= B * R /\ B * R < n + R /\ B * R \in Int
    <2>1. PICK a \in Nat : a = n + R - 1
      OBVIOUS
    <2>2. PICK x : x = a \div R
      OBVIOUS
    <2>3. x \in Int /\ a % R \in 0 .. R - 1 /\ a = R * x + (a % R)
      BY <2>2
    <2>4. x * R \in Int /\ R * x = x * R /\ 0 * R = 0
      BY <2>3
    <2>5. ~(x < 0)
      <3> SUFFICES ASSUME x < 0 PROVE FALSE
        OBVIOUS
      <3>1. x * R + R <= 0
        BY <2>3, <2>4, Multiples
      <3>2. QED
        BY <2>3, <2>4, <3>1
    <2>6. B = x
      BY <1>1, <1>2, <2>1, <2>2 DEF BlockCount
    <2>7. QED
      BY <2>1, <2>3, <2>4, <2>5, <2>6
  <1>4. \A b \in 1 .. B : LowOf(b) = (b - 1) * R /\ LowOf(b) \in Int
    BY <1>1, <1>3 DEF LowOf
  <1>5. ASSUME NEW b \in 1 .. B
        PROVE  /\ LowOf(b) \in Nat /\ LowOf(b) < n /\ LowOf(b) + R <= B * R
               /\ CountOf(b, n) = IF n - LowOf(b) < R THEN n - LowOf(b) ELSE R
    <2>1. b - 1 \in Nat /\ b - 1 < B /\ 0 <= b - 1
      BY <1>3
    <2>2. LowOf(b) + R <= B * R
      BY <1>3, <1>4, <2>1, Multiples
    <2>3. 0 * R = 0 /\ 0 * R <= LowOf(b)
      BY <1>3, <1>4, <2>1, Multiples
    <2>4. LowOf(b) \in Nat /\ LowOf(b) < n
      BY <1>3, <1>4, <2>2, <2>3
    <2>5. CountOf(b, n) = IF n - LowOf(b) < R THEN n - LowOf(b) ELSE R
      BY <1>1 DEF CountOf
    <2>6. QED
      BY <2>2, <2>4, <2>5
  <1>6. \A b \in 1 .. B : LowOf(b) \in Nat /\ CountOf(b, n) \in Nat \ {0} /\ LowOf(b) + CountOf(b, n) <= n
                          /\ CountOf(b, n) <= R
    BY <1>5
  <1>7. ASSUME NEW b \in 1 .. B, NEW c \in 1 .. B, b < c
        PROVE  LowOf(b) + CountOf(b, n) <= LowOf(c)
    <2>1. b - 1 \in Int /\ c - 1 \in Int /\ b - 1 < c - 1
      BY <1>3, <1>7
    <2>2. LowOf(b) + R <= LowOf(c)
      BY <1>4, <2>1, Multiples
    <2>3. QED
      BY <1>4, <1>6, <2>2
  <1>8. ASSUME NEW j \in 1 .. n
        PROVE  \E b \in 1 .. B : LowOf(b) < j /\ j <= LowOf(b) + CountOf(b, n)
    <2>1. PICK a \in Nat : a = j - 1
      OBVIOUS
    <2>2. PICK x : x = a \div R
      OBVIOUS
    <2>3. x \in Int /\ a % R \in 0 .. R - 1 /\ a = R * x + (a % R)
      BY <2>2
    <2>4. x * R \in Int /\ R * x = x * R /\ 0 * R = 0
      BY <2>3
    <2>5. ~(x < 0)
      <3> SUFFICES ASSUME x < 0 PROVE FALSE
        OBVIOUS
      <3>1. x * R + R <= 0
        BY <2>3, <2>4, Multiples
      <3>2. QED
        BY <2>3, <2>4, <3>1
    <2>6. x * R < B * R
      BY <1>3, <2>1, <2>3, <2>4
    <2>7. x < B
      BY <1>3, <2>3, <2>6, Multiples
    <2>8. PICK b \in 1 .. B : b - 1 = x
      BY <1>3, <2>3, <2>5, <2>7
    <2>9. LowOf(b) = x * R
      BY <1>4, <2>8
    <2>10. LowOf(b) < j /\ j <= LowOf(b) + R
      BY <2>1, <2>3, <2>4, <2>9
    <2>11. j <= LowOf(b) + CountOf(b, n)
      BY <1>5, <2>10
    <2>12. QED
      BY <2>10, <2>11
  <1>9. QED
    BY <1>2, <1>3, <1>6, <1>7, <1>8

(* get() of a table finds what a scan of its records finds: a key that is  *)
(* there sets its bits of the filter, and its block is the first whose     *)
(* last key is not below it.                                               *)
LEMMA TableFinds ==
  ASSUME NEW n \in Nat, NEW recs, Sorted(n, recs), NEW h, NEW key \in Key
  PROVE  table_get(build(recs, h), key, h) = ScanOf(recs, key)
  <1>0. DOMAIN recs = 1 .. n /\ key \in Int /\ Len(recs) = n
    <2>1. recs \in Seq(Key \X Value) /\ DOMAIN recs = 1 .. n
      BY SeqDef DEF Sorted
    <2>2. QED
      BY <2>1, LenProperties, SkipListAssumption DEF Key
  <1>1. PICK tb : tb = build(recs, h)
    OBVIOUS
  <1>2. PICK B \in Nat : B = BlockCount(n)
    BY RecordBlocks
  <1>3. PICK idx : idx = IndexOf(recs)
    OBVIOUS
  <1>4. /\ DOMAIN idx = 1 .. B
        /\ \A b \in 1 .. B : /\ idx[b].last_key = recs[LowOf(b) + CountOf(b, n)][1]
                             /\ idx[b].offset = LowOf(b) /\ idx[b].count = CountOf(b, n)
    BY <1>0, <1>2, <1>3 DEF IndexOf
  <1>5. tb.records = recs /\ tb.index = idx /\ tb.bloom = bloom_add(recs, h)
    BY <1>1, <1>3 DEF build
  <1>6. PICK lasts : lasts = [b \in 1 .. B |-> idx[b].last_key]
    OBVIOUS
  <1>7. \A b \in 1 .. B : /\ LowOf(b) \in Nat /\ CountOf(b, n) \in Nat \ {0}
                          /\ LowOf(b) + CountOf(b, n) \in 1 .. n
                          /\ lasts[b] = recs[LowOf(b) + CountOf(b, n)][1] /\ lasts[b] \in Int
    <2>1. \A b \in 1 .. B : LowOf(b) \in Nat /\ CountOf(b, n) \in Nat \ {0} /\ LowOf(b) + CountOf(b, n) <= n
      BY <1>2, RecordBlocks
    <2>2. \A b \in 1 .. B : LowOf(b) + CountOf(b, n) \in 1 .. n
      BY <2>1
    <2>3. \A b \in 1 .. B : lasts[b] = recs[LowOf(b) + CountOf(b, n)][1]
      BY <1>4, <1>6
    <2>4. QED
      BY <2>1, <2>2, <2>3, SortedKey
  <1>8. lasts \in [1 .. B -> Int]
    BY <1>6, <1>7
  <1>9. \A i, j \in 1 .. B : i < j => lasts[i] <= lasts[j]
    <2> SUFFICES ASSUME NEW i \in 1 .. B, NEW j \in 1 .. B, i < j PROVE lasts[i] <= lasts[j]
      OBVIOUS
    <2>1. LowOf(i) + CountOf(i, n) <= LowOf(j)
      BY <1>2, RecordBlocks
    <2>2. PICK x \in 1 .. n : x = LowOf(i) + CountOf(i, n)
      BY <1>7
    <2>3. PICK y \in 1 .. n : y = LowOf(j) + CountOf(j, n)
      BY <1>7
    <2>4. x < y
      BY <1>7, <2>1, <2>2, <2>3
    <2>5. recs[x][1] < recs[y][1]
      BY <2>4 DEF Sorted
    <2>6. lasts[i] < lasts[j]
      BY <1>7, <2>2, <2>3, <2>5
    <2>7. QED
      BY <1>7, <2>6
  <1>10. PICK block : block = LowerBound(lasts, key)
    OBVIOUS
  <1>11. FirstFrom(lasts, key, 1, B + 1, block)
    BY <1>0, <1>8, <1>9, <1>10, LowerBoundIs
  <1>12. table_get(tb, key, h) = IF bloom_contains(bloom_add(recs, h), h[key]) /\ block \in 1 .. B
                                 THEN LookUp(BlockOf(tb, block), key) ELSE NotFound
    BY <1>4, <1>5, <1>6, <1>10 DEF table_get
  <1>13. ASSUME block \in 1 .. B
         PROVE  /\ Sorted(CountOf(block, n), BlockOf(tb, block))
                /\ \A i \in 1 .. CountOf(block, n) :
                     BlockOf(tb, block)[i] = recs[LowOf(block) + i] /\ LowOf(block) + i \in 1 .. n
    <2>1. PICK lo \in Nat, co \in Nat \ {0} : lo = LowOf(block) /\ co = CountOf(block, n)
      BY <1>7, <1>13
    <2>2. lo + co \in 1 .. n
      BY <1>7, <1>13, <2>1
    <2>3. PICK sub : sub = SubSeq(recs, lo + 1, lo + co)
      OBVIOUS
    <2>4. BlockOf(tb, block) = sub
      BY <1>4, <1>5, <1>13, <2>1, <2>3 DEF BlockOf
    <2>5. \A i \in lo + 1 .. lo + co : i \in 1 .. n
      BY <2>2
    <2>6. \A i \in lo + 1 .. lo + co : recs[i] \in Key \X Value
      BY <2>5 DEF Sorted
    <2>7. lo + 1 \in Int /\ lo + co \in Int /\ lo + 1 <= lo + co /\ (lo + co) - (lo + 1) + 1 = co
      OBVIOUS
    <2>8. sub \in Seq(Key \X Value) /\ Len(sub) = co /\ \A i \in 1 .. co : sub[i] = recs[lo + 1 + i - 1]
      BY <2>3, <2>6, <2>7, SubSeqProperties
    <2>9. \A i \in 1 .. co : sub[i] = recs[lo + i] /\ lo + i \in 1 .. n
      <3> SUFFICES ASSUME NEW i \in 1 .. co PROVE sub[i] = recs[lo + i] /\ lo + i \in 1 .. n
        OBVIOUS
      <3>1. lo + 1 + i - 1 = lo + i /\ lo + i \in 1 .. n
        BY <2>2
      <3>2. QED
        BY <2>8, <3>1
    <2>10. sub \in [1 .. co -> Key \X Value]
      BY <2>8, LenProperties
    <2>11. ASSUME NEW a \in 1 .. co, NEW b \in 1 .. co, a < b
           PROVE  sub[a][1] < sub[b][1]
      <3>1. PICK x \in 1 .. n, y \in 1 .. n : x = lo + a /\ y = lo + b
        BY <2>9
      <3>2. x < y
        BY <2>11, <3>1
      <3>3. recs[x][1] < recs[y][1]
        BY <3>2 DEF Sorted
      <3>4. QED
        BY <2>9, <3>1, <3>3
    <2>12. Sorted(co, sub)
      BY <2>10, <2>11 DEF Sorted
    <2>13. QED
      BY <2>1, <2>4, <2>9, <2>12
  <1>14. ASSUME block \in 1 .. B
         PROVE  LookUp(BlockOf(tb, block), key) = ScanOf(BlockOf(tb, block), key)
    BY <1>7, <1>13, <1>14, LookUpIs
  <1>15. CASE \A j \in 1 .. n : recs[j][1] # key
    <2>1. ScanOf(recs, key) = NotFound
      BY <1>15, ScanIs
    <2>2. ASSUME block \in 1 .. B
          PROVE  ScanOf(BlockOf(tb, block), key) = NotFound
      <3>1. \A i \in 1 .. CountOf(block, n) : BlockOf(tb, block)[i][1] # key
        BY <1>13, <1>15, <2>2
      <3>2. QED
        BY <1>7, <1>13, <2>2, <3>1, ScanIs
    <2>3. QED
      BY <1>1, <1>12, <1>14, <2>1, <2>2
  <1>16. CASE \E j \in 1 .. n : recs[j][1] = key
    <2>1. PICK j \in 1 .. n : recs[j][1] = key
      BY <1>16
    <2>2. bloom_contains(bloom_add(recs, h), h[key])
      BY <1>0, <2>1 DEF bloom_contains, bloom_add
    <2>3. PICK b \in 1 .. B : LowOf(b) < j /\ j <= LowOf(b) + CountOf(b, n)
      BY <1>2, RecordBlocks
    <2>4. block \in 1 .. B + 1
      BY <1>11 DEF FirstFrom
    <2>5. ~(b < block)
      <3> SUFFICES ASSUME b < block PROVE FALSE
        OBVIOUS
      <3>1. b \in 1 .. block - 1
        BY <2>4
      <3>2. lasts[b] < key
        BY <1>11, <3>1 DEF FirstFrom
      <3>3. PICK x \in 1 .. n : x = LowOf(b) + CountOf(b, n)
        BY <1>7
      <3>4. recs[x][1] <= recs[j][1]
        BY <1>0, <1>7, <2>1, <3>2, <3>3
      <3>5. x <= j /\ x = j
        <4>1. x <= j
          BY <3>4, SortedOnce
        <4>2. j <= x
          BY <2>3, <3>3
        <4>3. QED
          BY <4>1, <4>2
      <3>6. lasts[b] = key
        BY <1>7, <2>1, <3>3, <3>5
      <3>7. QED
        BY <1>0, <3>2, <3>6
    <2>6. block \in 1 .. B
      BY <2>4, <2>5
    <2>7. ~(block < b)
      <3> SUFFICES ASSUME block < b PROVE FALSE
        OBVIOUS
      <3>1. lasts[block] >= key
        BY <1>11, <2>6 DEF FirstFrom
      <3>2. PICK x \in 1 .. n : x = LowOf(block) + CountOf(block, n)
        BY <1>7, <2>6
      <3>3. x <= LowOf(b)
        BY <1>2, <2>6, <3>2, RecordBlocks
      <3>4. x < j
        BY <1>7, <2>3, <3>3
      <3>5. recs[x][1] < recs[j][1]
        BY <3>4 DEF Sorted
      <3>6. QED
        BY <1>0, <1>7, <2>1, <2>6, <3>1, <3>2, <3>5
    <2>8. block = b
      BY <2>4, <2>5, <2>7
    <2>9. PICK i \in 1 .. CountOf(b, n) : j = LowOf(b) + i
      <3>1. j - LowOf(b) \in 1 .. CountOf(b, n) /\ j = LowOf(b) + (j - LowOf(b))
        BY <1>7, <2>3
      <3>2. QED
        BY <3>1
    <2>10. BlockOf(tb, block)[i] = recs[j]
      BY <1>13, <2>6, <2>8, <2>9
    <2>11. ScanOf(BlockOf(tb, block), key) = recs[j][2]
      BY <1>7, <1>13, <2>1, <2>6, <2>8, <2>10, ScanIs
    <2>12. ScanOf(recs, key) = recs[j][2]
      BY <2>1, ScanIs
    <2>13. QED
      BY <1>1, <1>12, <1>14, <2>2, <2>6, <2>11, <2>12
  <1>17. QED
    BY <1>15, <1>16

(* A bounded set of integers has a greatest element.                       *)
LEMMA GreatestOf ==
  ASSUME NEW N \in Int, NEW T \in SUBSET Int, T # {}, \A x \in T : x <= N
  PROVE  \E x \in T : \A y \in T : y <= x
  <1> DEFINE D == {N - x : x \in T}
  <1>1. D \in SUBSET Nat /\ D # {}
    <2>1. \A x \in T : N - x \in Nat
      OBVIOUS
    <2>2. QED
      BY <2>1
  <1>2. PICK d \in D : \A e \in D : d <= e
    BY <1>1, LeastNumber
  <1>3. PICK x \in T : d = N - x
    OBVIOUS
  <1>4. ASSUME NEW y \in T PROVE y <= x
    <2>1. N - y \in D
      OBVIOUS
    <2>2. N - x <= N - y
      BY <1>2, <1>3, <2>1
    <2>3. x \in Int /\ y \in Int
      OBVIOUS
    <2>4. QED
      BY <2>2, <2>3
  <1>5. QED
    BY <1>4

Places == Key \cup {HeadNode}

(* The links f of one level run through the nodes S in the order of their keys. *)
Links(f, S) ==
  /\ \A n \in S \cup {HeadNode} : f[n] # Nil => f[n] \in S /\ n < f[n]
  /\ \A n \in S \cup {HeadNode}, s \in S : n < s => f[n] # Nil /\ f[n] <= s
  /\ \A n \in Key \ S : f[n] = Nil

(* The last node before key. *)
Before(S, key, p) ==
  p \in S \cup {HeadNode} /\ p < key /\ \A s \in S : s < key => s <= p

(* head_ and nullptr are no keys, and head_ is before every key.           *)
LEMMA PlaceTypes ==
  /\ Key \subseteq Nat /\ Key \subseteq Int /\ HeadNode \in Int /\ Nil \in Int
  /\ \A k \in Key : HeadNode < k /\ k # HeadNode /\ k # Nil /\ k <= MaxKey
  /\ MaxKey \in Nat /\ HeadNode # Nil /\ HeadNode <= MaxKey
  BY SkipListAssumption DEF Key, HeadNode, Nil

(* There is a last node before a key.                                      *)
LEMMA BeforeExists ==
  ASSUME NEW S \in SUBSET Key, NEW key \in Key
  PROVE  \E p : Before(S, key, p)
  <1> DEFINE T == {x \in S \cup {HeadNode} : x < key}
  <1>1. T \in SUBSET Int /\ HeadNode \in T /\ MaxKey \in Int
    <2>1. HeadNode < key /\ MaxKey \in Int /\ S \cup {HeadNode} \subseteq Int
      BY PlaceTypes
    <2>2. QED
      BY <2>1
  <1>2. \A x \in T : x <= MaxKey
    BY PlaceTypes
  <1>3. PICK p \in T : \A y \in T : y <= p
    BY <1>1, <1>2, GreatestOf
  <1>4. QED
    BY <1>3 DEF Before

(* There is only one.                                                      *)
LEMMA BeforeUnique ==
  ASSUME NEW S \in SUBSET Key, NEW key \in Key, NEW p, Before(S, key, p), NEW q, Before(S, key, q)
  PROVE  p = q
  <1>1. p \in Int /\ q \in Int /\ p \in S \cup {HeadNode} /\ q \in S \cup {HeadNode}
    BY PlaceTypes DEF Before
  <1>2. p <= q /\ q <= p
    BY <1>1, PlaceTypes DEF Before
  <1>3. QED
    BY <1>1, <1>2

(* The walk along a level from any node before key ends in the last one.   *)
LEMMA AdvanceIs ==
  ASSUME NEW m, NEW i, NEW S \in SUBSET Key, NEW key \in Key, NEW n \in S \cup {HeadNode}, n < key,
         NEW f, f = [c \in Places |-> m.forward[c][i]], Links(f, S)
  PROVE  Before(S, key, Advance(m, n, i, key))
  <1> DEFINE run(w) == [c \in Places |-> IF f[c] # Nil /\ f[c] < key THEN w[f[c]] ELSE c]
             at == CHOOSE w : w = run(w)
  <1>1. Advance(m, n, i, key) = at[n]
    <2>1. \A c \in Places : m.forward[c][i] = f[c]
      OBVIOUS
    <2>2. Advance(m, n, i, key) =
            (CHOOSE w : w = [c \in Places |->
               IF m.forward[c][i] # Nil /\ m.forward[c][i] < key THEN w[m.forward[c][i]] ELSE c])[n]
      BY DEF Advance, Places
    <2>3. \A w : [c \in Places |->
               IF m.forward[c][i] # Nil /\ m.forward[c][i] < key THEN w[m.forward[c][i]] ELSE c] = run(w)
      BY <2>1
    <2>4. QED
      BY <2>2, <2>3
  <1>2. PICK p : Before(S, key, p)
    BY BeforeExists
  <1>3. \A c \in Places : f[c] # Nil /\ f[c] < key => c \in S \cup {HeadNode} /\ f[c] \in S /\ f[c] \in Places /\ c < f[c]
    BY DEF Links, Places
  <1> DEFINE g == [c \in Places |-> IF f[c] # Nil /\ f[c] < key THEN p ELSE c]
  <1>4. ASSUME NEW c \in S \cup {HeadNode}, c < key, ~(f[c] # Nil /\ f[c] < key)
        PROVE  c = p
    <2>1. ASSUME NEW s \in S, s < key
          PROVE  s <= c
      <3> SUFFICES ASSUME c < s PROVE FALSE
        BY PlaceTypes
      <3>1. f[c] # Nil /\ f[c] <= s
        BY DEF Links
      <3>2. f[c] \in S
        BY <3>1 DEF Links
      <3>3. f[c] \in Int /\ s \in Int /\ key \in Int
        BY <3>2, PlaceTypes
      <3>4. QED
        BY <1>4, <2>1, <3>1, <3>3
    <2>2. Before(S, key, c)
      BY <1>4, <2>1 DEF Before
    <2>3. QED
      BY <1>2, <2>2, BeforeUnique
  <1>5. g = run(g)
    <2>1. ASSUME NEW c \in Places, f[c] # Nil /\ f[c] < key
          PROVE  g[f[c]] = p
      <3>1. f[c] \in S /\ f[c] \in Places
        BY <1>3, <2>1
      <3>2. CASE f[f[c]] # Nil /\ f[f[c]] < key
        BY <3>1, <3>2
      <3>3. CASE ~(f[f[c]] # Nil /\ f[f[c]] < key)
        BY <1>4, <2>1, <3>1, <3>3
      <3>4. QED
        BY <3>2, <3>3
    <2>2. \A c \in Places : g[c] = IF f[c] # Nil /\ f[c] < key THEN g[f[c]] ELSE c
      BY <2>1
    <2> HIDE DEF g
    <2>3. g = [c \in Places |-> g[c]]
      BY DEF g
    <2>4. QED
      BY <2>2, <2>3
  <1>6. \A c \in S \cup {HeadNode} : c < key => g[c] = p
    BY <1>4 DEF Places
  <1> HIDE DEF g
  <1>7. at = run(at)
    BY <1>5
  <1> HIDE DEF at
  <1>8. \A c \in Places : at[c] = g[c]
    <2> DEFINE T == {c \in Places : at[c] # g[c]}
    <2> SUFFICES ASSUME T # {} PROVE FALSE
      OBVIOUS
    <2>1. T \in SUBSET Int /\ \A c \in T : c <= MaxKey
      BY PlaceTypes DEF Places
    <2> HIDE DEF T
    <2>2. PICK c \in T : \A d \in T : d <= c
      <3>1. MaxKey \in Int
        BY PlaceTypes
      <3>2. QED
        BY <2>1, <3>1, GreatestOf
    <2> USE DEF T
    <2>3. c \in Places /\ at[c] # g[c]
      OBVIOUS
    <2>4. /\ at[c] = IF f[c] # Nil /\ f[c] < key THEN at[f[c]] ELSE c
          /\ g[c] = IF f[c] # Nil /\ f[c] < key THEN g[f[c]] ELSE c
      BY <1>5, <1>7, <2>3
    <2>5. f[c] # Nil /\ f[c] < key /\ at[f[c]] # g[f[c]]
      BY <2>3, <2>4
    <2>6. f[c] \in T /\ c < f[c]
      BY <1>3, <2>3, <2>5
    <2>7. f[c] <= c
      BY <2>2, <2>6
    <2>8. QED
      BY <2>1, <2>6, <2>7
  <1>9. at[n] = p
    BY <1>6, <1>8 DEF Places
  <1>10. QED
    BY <1>1, <1>2, <1>9

(* A memtable whose level i runs through the nodes S[i]. *)
LevelOf(m, i) == [c \in Places |-> m.forward[c][i]]
MemInv(m, S) ==
  /\ m \in [forward : [Places -> [Levels -> Key \cup {Nil}]], value : [Key -> Value \cup {NotFound}],
            current_level : 1 .. MaxLevel, size : Nat, byte_size : Int]
  /\ S \in [Levels -> SUBSET Key]
  /\ \A i \in Levels : Links(LevelOf(m, i), S[i])
  /\ \A i, j \in Levels : i <= j => S[j] \subseteq S[i]
  /\ \A i \in Levels : m.current_level <= i => S[i] = {}
  /\ m.size = Cardinality(S[0])
  /\ \A k \in S[0] : m.value[k] \in Value

(* The search down the levels leaves each one in the last node before key: *)
(* where it leaves a level is a node of the level below.                   *)
LEMMA UpdateIs ==
  ASSUME NEW m, NEW S, MemInv(m, S), NEW key \in Key
  PROVE  \A i \in 0 .. m.current_level - 1 : Before(S[i], key, Update(m, key)[i])
  <1>1. PICK L \in 1 .. MaxLevel : L = m.current_level
    BY DEF MemInv
  <1> DEFINE run(w) == [i \in 0 .. L - 1 |-> Advance(m, IF i = L - 1 THEN HeadNode ELSE w[i + 1], i, key)]
             at == CHOOSE w : w = run(w)
             g == [i \in 0 .. L - 1 |-> CHOOSE p : Before(S[i], key, p)]
  <1>2. Update(m, key) = at
    BY <1>1 DEF Update
  <1>3. \A i \in 0 .. L - 1 : i \in Levels /\ S[i] \in SUBSET Key /\ Links(LevelOf(m, i), S[i])
    BY SkipListAssumption DEF MemInv, Levels
  <1>4. \A i \in 0 .. L - 1 : Before(S[i], key, g[i])
    BY <1>3, BeforeExists
  <1> HIDE DEF g
  <1>5. ASSUME NEW i \in 0 .. L - 1
        PROVE  g[i] = Advance(m, IF i = L - 1 THEN HeadNode ELSE g[i + 1], i, key)
    <2>1. PICK n : n = IF i = L - 1 THEN HeadNode ELSE g[i + 1]
      OBVIOUS
    <2>2. n \in S[i] \cup {HeadNode} /\ n < key
      <3>1. CASE i = L - 1
        BY <2>1, <3>1, PlaceTypes
      <3>2. CASE i # L - 1
        <4>1. i + 1 \in 0 .. L - 1 /\ i <= i + 1
          BY <3>2
        <4>2. n \in S[i + 1] \cup {HeadNode} /\ n < key
          BY <1>4, <2>1, <3>2, <4>1 DEF Before
        <4>3. S[i + 1] \subseteq S[i]
          BY <1>3, <4>1 DEF MemInv
        <4>4. QED
          BY <4>2, <4>3
      <3>3. QED
        BY <3>1, <3>2
    <2>3. PICK f : f = [c \in Places |-> m.forward[c][i]]
      OBVIOUS
    <2>4. Links(f, S[i])
      BY <1>3, <2>3 DEF LevelOf
    <2>5. Before(S[i], key, Advance(m, n, i, key))
      BY <1>3, <2>2, <2>3, <2>4, AdvanceIs
    <2>6. g[i] = Advance(m, n, i, key)
      BY <1>3, <1>4, <2>5, BeforeUnique
    <2>7. QED
      BY <2>1, <2>6
  <1>6. g = run(g)
    <2>1. g = [i \in 0 .. L - 1 |-> g[i]]
      BY DEF g
    <2>2. QED
      BY <1>5, <2>1
  <1>7. at = run(at)
    BY <1>6
  <1> HIDE DEF at
  <1>8. \A i \in 0 .. L - 1 : at[i] = g[i]
    <2> DEFINE T == {i \in 0 .. L - 1 : at[i] # g[i]}
    <2> SUFFICES ASSUME T # {} PROVE FALSE
      OBVIOUS
    <2>1. T \in SUBSET Int /\ (\A i \in T : i <= L) /\ L \in Int
      OBVIOUS
    <2>2. PICK i \in T : \A j \in T : j <= i
      BY <2>1, GreatestOf
    <2>3. i \in 0 .. L - 1 /\ at[i] # g[i]
      OBVIOUS
    <2>4. /\ at[i] = Advance(m, IF i = L - 1 THEN HeadNode ELSE at[i + 1], i, key)
          /\ g[i] = Advance(m, IF i = L - 1 THEN HeadNode ELSE g[i + 1], i, key)
      BY <1>5, <1>7, <2>3
    <2>5. i # L - 1 /\ at[i + 1] # g[i + 1]
      BY <2>3, <2>4
    <2>6. i + 1 \in T
      BY <2>3, <2>5
    <2>7. i + 1 <= i
      BY <2>2, <2>6
    <2>8. QED
      BY <2>3, <2>7
  <1>9. QED
    BY <1>1, <1>2, <1>4, <1>8

(* A new node is linked behind the last node before it on every level, the *)
(* ones above current_level_ included, where that is head_.                *)
LEMMA PredecessorIs ==
  ASSUME NEW m, NEW S, MemInv(m, S), NEW key \in Key, NEW i \in Levels
  PROVE  Before(S[i], key, Predecessor(m, key, i))
  <1>1. i \in Nat /\ m.current_level \in Int
    BY SkipListAssumption DEF Levels, MemInv
  <1>2. CASE i < m.current_level
    <2>1. i \in 0 .. m.current_level - 1
      BY <1>1, <1>2
    <2>2. QED
      BY <1>2, <2>1, UpdateIs DEF Predecessor
  <1>3. CASE ~(i < m.current_level)
    <2>1. S[i] = {}
      BY <1>1, <1>3 DEF MemInv
    <2>2. Predecessor(m, key, i) = HeadNode
      BY <1>3 DEF Predecessor
    <2>3. QED
      BY <2>1, <2>2, PlaceTypes DEF Before
  <1>4. QED
    BY <1>2, <1>3

(* The search ends at key exactly when the lowest level has it.            *)
LEMMA FoundIs ==
  ASSUME NEW m, NEW S, MemInv(m, S), NEW key \in Key
  PROVE  Found(m, key) = key <=> key \in S[0]
  <1>1. 0 \in 0 .. m.current_level - 1 /\ 0 \in Levels
    BY SkipListAssumption DEF MemInv, Levels
  <1>2. PICK p : p = Update(m, key)[0]
    OBVIOUS
  <1>3. Before(S[0], key, p)
    BY <1>1, <1>2, UpdateIs
  <1>4. PICK f : f = LevelOf(m, 0)
    OBVIOUS
  <1>5. Links(f, S[0]) /\ S[0] \in SUBSET Key
    BY <1>1, <1>4 DEF MemInv
  <1>6. p \in S[0] \cup {HeadNode} /\ p \in Places
    BY <1>3, <1>5 DEF Before, Places
  <1>7. Found(m, key) = f[p]
    BY <1>2, <1>4, <1>6 DEF Found, LevelOf
  <1>8. ASSUME f[p] = key PROVE key \in S[0]
    BY <1>5, <1>6, <1>8, PlaceTypes DEF Links
  <1>9. ASSUME key \in S[0] PROVE f[p] = key
    <2>1. p < key
      BY <1>3 DEF Before
    <2>2. f[p] # Nil /\ f[p] <= key
      BY <1>5, <1>6, <1>9, <2>1 DEF Links
    <2>3. f[p] \in S[0] /\ p < f[p]
      BY <1>5, <1>6, <2>2 DEF Links
    <2>4. ~(f[p] < key)
      <3> SUFFICES ASSUME f[p] < key PROVE FALSE
        OBVIOUS
      <3>1. f[p] <= p
        BY <1>3, <2>3 DEF Before
      <3>2. f[p] \in Int /\ p \in Int
        BY <1>5, <1>6, <2>3, PlaceTypes
      <3>3. QED
        BY <2>3, <3>1, <3>2
    <2>5. f[p] \in Int /\ key \in Int
      BY <1>5, <2>3, PlaceTypes
    <2>6. QED
      BY <2>2, <2>4, <2>5
  <1>10. QED
    BY <1>7, <1>8, <1>9

(* get of the memtable.                                                    *)
LEMMA MemGetIs ==
  ASSUME NEW m, NEW S, MemInv(m, S), NEW key \in Key
  PROVE  mem_get(m, key) = IF key \in S[0] THEN m.value[key] ELSE NotFound
  BY FoundIs DEF mem_get

(* A new node behind the last one before it keeps the order of a level.    *)
LEMMA LinkIn ==
  ASSUME NEW f, NEW S \in SUBSET Key, Links(f, S), NEW key \in Key, key \notin S,
         NEW p, Before(S, key, p), NEW g,
         \A n \in Places : g[n] = IF n = key THEN f[p] ELSE IF n = p THEN key ELSE f[n]
  PROVE  Links(g, S \cup {key})
  <1>1. p \in S \cup {HeadNode} /\ p < key /\ p # key /\ p \in Places /\ key \in Places /\ p \in Int
    BY PlaceTypes DEF Before, Places
  <1>2. g[key] = f[p] /\ g[p] = key
    BY <1>1
  <1>3. \A n \in S \cup {HeadNode} : n # p => g[n] = f[n]
    BY PlaceTypes DEF Places
  <1>4. f[p] # Nil => f[p] \in S /\ key < f[p]
    <2> SUFFICES ASSUME f[p] # Nil PROVE f[p] \in S /\ key < f[p]
      OBVIOUS
    <2>1. f[p] \in S /\ p < f[p]
      BY <1>1 DEF Links
    <2>2. f[p] \in Int /\ key \in Int /\ f[p] # key
      BY <2>1, PlaceTypes
    <2>3. ~(f[p] < key)
      <3> SUFFICES ASSUME f[p] < key PROVE FALSE
        OBVIOUS
      <3>1. f[p] <= p
        BY <2>1 DEF Before
      <3>2. QED
        BY <1>1, <2>1, <2>2, <3>1
    <2>4. QED
      BY <2>1, <2>2, <2>3
  <1>5. ASSUME NEW n \in S \cup {key} \cup {HeadNode}, g[n] # Nil
        PROVE  g[n] \in S \cup {key} /\ n < g[n]
    <2>1. CASE n = key
      BY <1>2, <1>4, <1>5, <2>1
    <2>2. CASE n = p
      BY <1>1, <1>2, <2>2
    <2>3. CASE n # key /\ n # p
      BY <1>3, <1>5, <2>3 DEF Links
    <2>4. QED
      BY <2>1, <2>2, <2>3
  <1>6. ASSUME NEW n \in S \cup {key} \cup {HeadNode}, NEW s \in S \cup {key}, n < s
        PROVE  g[n] # Nil /\ g[n] <= s
    <2>0. n \in Int /\ s \in Int /\ key \in Int
      BY PlaceTypes
    <2>1. CASE n = key
      <3>1. s \in S /\ p < s
        BY <1>1, <1>6, <2>0, <2>1
      <3>2. QED
        BY <1>1, <1>2, <2>1, <3>1 DEF Links
    <2>2. CASE n = p
      <3>1. s = key \/ (s \in S /\ ~(s < key))
        <4>1. s \in S /\ s < key => s <= p
          BY DEF Before
        <4>2. QED
          BY <1>1, <1>6, <2>0, <2>2, <4>1
      <3>2. key <= s
        BY <2>0, <3>1
      <3>3. QED
        BY <1>2, <2>2, <3>2, PlaceTypes
    <2>3. CASE n # key /\ n # p
      <3>1. n \in S \cup {HeadNode} /\ g[n] = f[n]
        BY <1>3, <2>3
      <3>2. CASE s \in S
        BY <1>6, <3>1, <3>2 DEF Links
      <3>3. CASE s = key
        <4>1. n <= p
          <5>1. CASE n \in S
            BY <1>6, <3>3, <5>1 DEF Before
          <5>2. CASE n = HeadNode
            BY <1>1, <5>2, PlaceTypes
          <5>3. QED
            BY <3>1, <5>1, <5>2
        <4>2. n < p /\ p \in S
          <5>1. n < p
            BY <1>1, <2>0, <2>3, <4>1
          <5>2. p # HeadNode
            <6>1. HeadNode <= n
              BY <3>1, PlaceTypes
            <6>2. QED
              BY <2>0, <5>1, <6>1, PlaceTypes
          <5>3. QED
            BY <1>1, <5>1, <5>2
        <4>3. f[n] # Nil /\ f[n] <= p
          BY <3>1, <4>2 DEF Links
        <4>4. f[n] \in Int
          BY <3>1, <4>3, PlaceTypes DEF Links
        <4>5. QED
          BY <1>1, <2>0, <3>1, <3>3, <4>3, <4>4
      <3>4. QED
        BY <3>2, <3>3
    <2>4. QED
      BY <2>1, <2>2, <2>3
  <1>7. ASSUME NEW n \in Key \ (S \cup {key})
        PROVE  g[n] = Nil
    <2>1. n # p /\ n # key /\ n \in Places
      BY <1>1, PlaceTypes DEF Places
    <2>2. QED
      BY <2>1 DEF Links
  <1>8. QED
    BY <1>5, <1>6, <1>7 DEF Links

(* put keeps the levels ordered and nested, and adds key to the lowest.    *)
LEMMA MemPutIs ==
  ASSUME NEW m, NEW S, MemInv(m, S), NEW key \in Key, NEW v \in Value, NEW new_level \in RandomLevels
  PROVE  /\ mem_put(m, key, v, new_level).value = [m.value EXCEPT ![key] = v]
         /\ \E S2 : MemInv(mem_put(m, key, v, new_level), S2) /\ S2[0] = S[0] \cup {key}
  <1>0. 0 \in Levels /\ Levels \subseteq Nat /\ new_level \in 1 .. MaxLevel /\ MaxLevel \in Nat
    BY SkipListAssumption DEF Levels, RandomLevels
  <1>1. PICK m2 : m2 = mem_put(m, key, v, new_level)
    OBVIOUS
  <1>2. /\ m.forward \in [Places -> [Levels -> Key \cup {Nil}]] /\ m.value \in [Key -> Value \cup {NotFound}]
        /\ m.current_level \in 1 .. MaxLevel /\ m.size \in Nat /\ m.byte_size \in Int
    BY DEF MemInv
  <1>3. PICK value2 : value2 = [m.value EXCEPT ![key] = v]
    OBVIOUS
  <1>4. value2 \in [Key -> Value \cup {NotFound}] /\ value2[key] = v /\ \A k \in Key : k # key => value2[k] = m.value[k]
    BY <1>2, <1>3
  <1>5. CASE key \in S[0]
    <2>1. m2 = [m EXCEPT !.value[key] = v]
      BY <1>1, <1>5, FoundIs DEF mem_put
    <2>2. /\ m2 \in [forward : [Places -> [Levels -> Key \cup {Nil}]], value : [Key -> Value \cup {NotFound}],
                     current_level : 1 .. MaxLevel, size : Nat, byte_size : Int]
          /\ m2.forward = m.forward /\ m2.value = value2 /\ m2.current_level = m.current_level /\ m2.size = m.size
      BY <1>2, <1>3, <1>4, <2>1 DEF MemInv
    <2>3. \A i \in Levels : LevelOf(m2, i) = LevelOf(m, i)
      BY <2>2 DEF LevelOf
    <2>4. S[0] \subseteq Key
      BY <1>0 DEF MemInv
    <2>5. \A k \in S[0] : m2.value[k] \in Value
      BY <1>4, <2>2, <2>4 DEF MemInv
    <2>6. MemInv(m2, S)
      BY <2>2, <2>3, <2>5 DEF MemInv
    <2>7. S[0] = S[0] \cup {key}
      BY <1>5
    <2>8. QED
      BY <1>1, <1>3, <2>2, <2>6, <2>7
  <1>6. CASE key \notin S[0]
    <2>1. PICK f2 : f2 = Linked(m, key, new_level)
      OBVIOUS
    <2>2. PICK cl : cl = IF new_level > m.current_level THEN new_level ELSE m.current_level
      OBVIOUS
    <2>3. cl \in 1 .. MaxLevel /\ new_level <= cl /\ m.current_level <= cl
      BY <1>0, <1>2, <2>2
    <2>4. m2 = [forward |-> f2, value |-> value2, current_level |-> cl, size |-> m.size + 1,
                byte_size |-> m.byte_size + NodeBytes + new_level]
      BY <1>1, <1>3, <1>6, <2>1, <2>2, FoundIs DEF mem_put
    <2>5. PICK S2 : S2 = [i \in Levels |-> IF i < new_level THEN S[i] \cup {key} ELSE S[i]]
      OBVIOUS
    <2>6. S \in [Levels -> SUBSET Key]
      BY DEF MemInv
    <2>7. S2 \in [Levels -> SUBSET Key] /\ \A i \in Levels : S2[i] = IF i < new_level THEN S[i] \cup {key} ELSE S[i]
      BY <2>5, <2>6
    <2>8. S2[0] = S[0] \cup {key}
      BY <1>0, <2>7
    <2>9. \A i \in Levels : Predecessor(m, key, i) \in S[i] \cup {HeadNode} /\ Predecessor(m, key, i) \in Places
      BY <2>6, PredecessorIs DEF Before, Places
    <2>10. ASSUME NEW n \in Places, NEW i \in Levels
           PROVE  f2[n][i] = IF i < new_level /\ n = key THEN m.forward[Predecessor(m, key, i)][i]
                             ELSE IF i < new_level /\ n = Predecessor(m, key, i) THEN key
                             ELSE m.forward[n][i]
      <3>1. f2[n][i] = CASE i < new_level /\ n = key -> m.forward[Predecessor(m, key, i)][i]
                         [] i < new_level /\ n = Predecessor(m, key, i) -> key
                         [] OTHER -> m.forward[n][i]
        BY <2>1 DEF Linked, Places
      <3>2. Predecessor(m, key, i) # key
        <4>1. Before(S[i], key, Predecessor(m, key, i))
          BY PredecessorIs
        <4>2. QED
          BY <4>1, PlaceTypes DEF Before
      <3>3. QED
        BY <3>1, <3>2
    <2>11. f2 \in [Places -> [Levels -> Key \cup {Nil}]]
      <3>1. \A n \in Places, i \in Levels : f2[n][i] \in Key \cup {Nil}
        <4> SUFFICES ASSUME NEW n \in Places, NEW i \in Levels PROVE f2[n][i] \in Key \cup {Nil}
          OBVIOUS
        <4>1. m.forward[n][i] \in Key \cup {Nil} /\ m.forward[Predecessor(m, key, i)][i] \in Key \cup {Nil}
          BY <1>2, <2>9
        <4>2. QED
          BY <2>10, <4>1
      <3>2. PICK e : e = [n \in Places |-> [i \in Levels |-> f2[n][i]]]
        OBVIOUS
      <3>3. e \in [Places -> [Levels -> Key \cup {Nil}]]
        BY <3>1, <3>2
      <3>4. f2 = e
        <4> DEFINE cell(n, i) == CASE i < new_level /\ n = key -> m.forward[Predecessor(m, key, i)][i]
                                   [] i < new_level /\ n = Predecessor(m, key, i) -> key
                                   [] OTHER -> m.forward[n][i]
        <4>1. f2 = [n \in Places |-> [i \in Levels |-> cell(n, i)]]
          BY <2>1 DEF Linked, Places
        <4> HIDE DEF cell
        <4>2. \A n \in Places : f2[n] = [i \in Levels |-> cell(n, i)] /\ e[n] = [i \in Levels |-> f2[n][i]]
          BY <3>2, <4>1
        <4>3. \A n \in Places : f2[n] = e[n]
          BY <4>2
        <4>4. f2 = [n \in Places |-> f2[n]] /\ e = [n \in Places |-> e[n]]
          BY <3>2, <4>1
        <4>5. QED
          BY <4>3, <4>4
      <3>5. QED
        BY <3>3, <3>4
    <2>12. ASSUME NEW i \in Levels
           PROVE  Links(LevelOf(m2, i), S2[i])
      <3>1. PICK f : f = LevelOf(m, i)
        OBVIOUS
      <3>2. PICK g : g = LevelOf(m2, i)
        OBVIOUS
      <3>3. \A n \in Places : f[n] = m.forward[n][i] /\ g[n] = f2[n][i]
        BY <2>4, <3>1, <3>2 DEF LevelOf
      <3>4. Links(f, S[i]) /\ S[i] \in SUBSET Key
        BY <2>6, <3>1 DEF MemInv
      <3>5. CASE i < new_level
        <4>1. PICK p : p = Predecessor(m, key, i)
          OBVIOUS
        <4>2. Before(S[i], key, p) /\ p \in Places
          BY <2>9, <4>1, PredecessorIs
        <4>3. \A n \in Places : g[n] = IF n = key THEN f[p] ELSE IF n = p THEN key ELSE f[n]
          BY <2>10, <3>3, <3>5, <4>1, <4>2
        <4>4. key \notin S[i]
          <5>1. S[i] \subseteq S[0]
            BY <1>0 DEF MemInv
          <5>2. QED
            BY <1>6, <5>1
        <4>5. Links(g, S[i] \cup {key})
          BY <3>4, <4>2, <4>3, <4>4, LinkIn
        <4>6. QED
          BY <2>7, <3>2, <3>5, <4>5
      <3>6. CASE ~(i < new_level)
        <4>1. \A n \in Places : g[n] = f[n]
          BY <2>10, <3>3, <3>6
        <4>2. g = f
          BY <3>1, <3>2, <4>1 DEF LevelOf
        <4>3. QED
          BY <2>7, <3>2, <3>4, <3>6, <4>2
      <3>7. QED
        BY <3>5, <3>6
    <2>13. \A i, j \in Levels : i <= j => S2[j] \subseteq S2[i]
      <3> SUFFICES ASSUME NEW i \in Levels, NEW j \in Levels, i <= j PROVE S2[j] \subseteq S2[i]
        OBVIOUS
      <3>1. S[j] \subseteq S[i] /\ (j < new_level => i < new_level)
        BY <1>0 DEF MemInv
      <3>2. QED
        BY <2>7, <3>1
    <2>14. \A i \in Levels : cl <= i => S2[i] = {}
      <3> SUFFICES ASSUME NEW i \in Levels, cl <= i PROVE S2[i] = {}
        OBVIOUS
      <3>1. m.current_level <= i /\ ~(i < new_level)
        BY <1>0, <1>2, <2>3
      <3>2. QED
        BY <2>7, <3>1 DEF MemInv
    <2>15. m.size + 1 = Cardinality(S2[0])
      <3>1. IsFiniteSet(S[0])
        <4>1. IsFiniteSet(Key) /\ S[0] \subseteq Key
          BY <1>0, <2>6, FS_Interval, SkipListAssumption DEF Key
        <4>2. QED
          BY <4>1, FS_Subset
      <3>2. Cardinality(S[0] \cup {key}) = Cardinality(S[0]) + 1
        BY <1>6, <3>1, FS_AddElement
      <3>3. QED
        BY <2>8, <3>2 DEF MemInv
    <2>16. \A k \in S2[0] : value2[k] \in Value
      <3>1. S[0] \subseteq Key /\ \A k \in S[0] : m.value[k] \in Value
        BY <1>0, <2>6 DEF MemInv
      <3>2. QED
        BY <1>4, <2>8, <3>1
    <2>17. m.size + 1 \in Nat /\ m.byte_size + NodeBytes + new_level \in Int
      BY <1>0, <1>2, SkipListAssumption
    <2>18. m2 \in [forward : [Places -> [Levels -> Key \cup {Nil}]], value : [Key -> Value \cup {NotFound}],
                   current_level : 1 .. MaxLevel, size : Nat, byte_size : Int]
      BY <1>4, <2>3, <2>4, <2>11, <2>17
    <2>19. m2.value = value2 /\ m2.current_level = cl /\ m2.size = m.size + 1
      BY <2>4
    <2>20. MemInv(m2, S2)
      BY <2>7, <2>12, <2>13, <2>14, <2>15, <2>16, <2>18, <2>19 DEF MemInv
    <2>21. QED
      BY <1>1, <1>3, <2>8, <2>19, <2>20
  <1>7. QED
    BY <1>5, <1>6

(* The empty memtable has empty levels.                                    *)
LEMMA EmptyIs ==
  MemInv(EmptyMemTable, [i \in Levels |-> {}])
  <1>0. 0 \in Levels
    BY SkipListAssumption DEF Levels
  <1>1. EmptyMemTable \in [forward : [Places -> [Levels -> Key \cup {Nil}]], value : [Key -> Value \cup {NotFound}],
                           current_level : 1 .. MaxLevel, size : Nat, byte_size : Int]
    BY SkipListAssumption DEF EmptyMemTable, Places
  <1>2. EmptyMemTable.size = 0 /\ \A i \in Levels, c \in Places : EmptyMemTable.forward[c][i] = Nil
    BY DEF EmptyMemTable, Places
  <1>3. \A i \in Levels : Links(LevelOf(EmptyMemTable, i), {})
    BY <1>2 DEF Links, LevelOf, Places
  <1>4. Cardinality({}) = 0
    BY FS_EmptySet
  <1>5. QED
    BY <1>0, <1>1, <1>2, <1>3, <1>4 DEF MemInv

(* q lists the keys of A in order. *)
Lists(q, A) ==
  q \in Seq(Key) /\ Ascending(q) /\ NodesOf(q) = A /\ Len(q) = Cardinality(A) /\ IsFiniteSet(A)

(* The empty list.                                                         *)
LEMMA ListsEmpty ==
  Lists(<< >>, {})
  <1>1. << >> \in Seq(Key) /\ Len(<< >>) = 0
    BY EmptySeq
  <1>2. DOMAIN << >> = {}
    OBVIOUS
  <1>3. Cardinality({}) = 0 /\ IsFiniteSet({})
    BY FS_EmptySet
  <1>4. NodesOf(<< >>) = {}
    BY <1>2 DEF NodesOf
  <1>5. Ascending(<< >>)
    BY <1>2 DEF Ascending
  <1>6. QED
    BY <1>1, <1>3, <1>4, <1>5 DEF Lists

(* A list with a key in front that is below all of it.                     *)
LEMMA ListsCons ==
  ASSUME NEW q, NEW A, Lists(q, A), NEW n \in Key, \A a \in A : n < a
  PROVE  Lists(<<n>> \o q, {n} \cup A)
  <1>0. PICK len \in Nat : len = Len(q)
    BY LenProperties DEF Lists
  <1>1. q \in Seq(Key) /\ DOMAIN q = 1 .. len
    BY <1>0, LenProperties DEF Lists
  <1>2. <<n>> \in Seq(Key) /\ Len(<<n>>) = 1 /\ <<n>>[1] = n
    OBVIOUS
  <1>3. PICK r : r = <<n>> \o q
    OBVIOUS
  <1>4. r \in Seq(Key) /\ Len(r) = 1 + len /\ \A i \in 1 .. 1 + len : r[i] = IF i <= 1 THEN <<n>>[i] ELSE q[i - 1]
    BY <1>0, <1>1, <1>2, <1>3, ConcatProperties
  <1>5. DOMAIN r = 1 .. len + 1
    BY <1>4, LenProperties
  <1>6. r[1] = n /\ \A i \in 2 .. len + 1 : r[i] = q[i - 1] /\ i - 1 \in 1 .. len
    BY <1>2, <1>4
  <1>7. \A i \in 1 .. len : q[i] \in A /\ q[i] \in Int /\ n < q[i] /\ n \in Int
    <2>1. \A i \in 1 .. len : q[i] \in A /\ q[i] \in Key
      BY <1>0, <1>1, ElementOfSeq DEF Lists, NodesOf
    <2>2. QED
      BY <2>1, PlaceTypes
  <1>8. Ascending(r)
    <2> SUFFICES ASSUME NEW a \in 1 .. len + 1, NEW b \in 1 .. len + 1, a < b PROVE r[a] < r[b]
      BY <1>5 DEF Ascending
    <2>1. b \in 2 .. len + 1 /\ b - 1 \in 1 .. len
      OBVIOUS
    <2>2. CASE a = 1
      BY <1>6, <1>7, <2>1, <2>2
    <2>3. CASE a # 1
      <3>1. a \in 2 .. len + 1 /\ a - 1 \in 1 .. len /\ a - 1 < b - 1
        BY <2>1, <2>3
      <3>2. q[a - 1] < q[b - 1]
        BY <1>1, <2>1, <3>1 DEF Lists, Ascending
      <3>3. QED
        BY <1>6, <2>1, <3>1, <3>2
    <2>4. QED
      BY <2>2, <2>3
  <1>9. NodesOf(r) = {n} \cup A
    <2>1. A = {q[j] : j \in 1 .. len}
      BY <1>1 DEF Lists, NodesOf
    <2>2. \A i \in 1 .. len + 1 : r[i] \in {n} \cup A
      <3> SUFFICES ASSUME NEW i \in 1 .. len + 1 PROVE r[i] \in {n} \cup A
        OBVIOUS
      <3>1. i = 1 \/ i \in 2 .. len + 1
        OBVIOUS
      <3>2. QED
        BY <1>6, <1>7, <3>1
    <2>3. \A j \in 1 .. len : r[j + 1] = q[j] /\ j + 1 \in 1 .. len + 1
      <3> SUFFICES ASSUME NEW j \in 1 .. len PROVE r[j + 1] = q[j] /\ j + 1 \in 1 .. len + 1
        OBVIOUS
      <3>1. j + 1 \in 2 .. len + 1 /\ j + 1 - 1 = j
        OBVIOUS
      <3>2. QED
        BY <1>6, <3>1
    <2>4. 1 \in 1 .. len + 1
      OBVIOUS
    <2>5. \A x \in {n} \cup A : \E i \in 1 .. len + 1 : x = r[i]
      BY <1>6, <2>1, <2>3, <2>4
    <2>6. NodesOf(r) = {r[i] : i \in 1 .. len + 1}
      BY <1>5 DEF NodesOf
    <2>7. QED
      BY <2>2, <2>5, <2>6
  <1>10. n \notin A
    <2>1. A = {q[j] : j \in 1 .. len}
      BY <1>1 DEF Lists, NodesOf
    <2>2. \A j \in 1 .. len : q[j] # n
      BY <1>7
    <2>3. QED
      BY <2>1, <2>2
  <1>11. Cardinality(A \cup {n}) = len + 1 /\ IsFiniteSet(A \cup {n}) /\ A \cup {n} = {n} \cup A
    BY <1>0, <1>10, FS_AddElement DEF Lists
  <1>12. Len(r) = Cardinality({n} \cup A) /\ IsFiniteSet({n} \cup A)
    <2>1. Cardinality({n} \cup A) = len + 1 /\ IsFiniteSet({n} \cup A)
      BY <1>11, Zenon
    <2>2. Len(r) = len + 1
      BY <1>4
    <2>3. QED
      BY <2>1, <2>2, Zenon
  <1>13. QED
    BY <1>3, <1>4, <1>8, <1>9, <1>12 DEF Lists

(* Following the links of a level from the head visits its nodes in order. *)
(* The walk is defined by recursion along the links, which only go up.     *)
LEMMA ChainIs ==
  ASSUME NEW m, NEW i, NEW S \in SUBSET Key, Links(LevelOf(m, i), S),
         \A n \in Places : m.forward[n][i] \in Key \cup {Nil}
  PROVE  Lists(Chain(m, i), S)
  <1> DEFINE D == Key \cup {Nil}
             run(w) == [n \in D |-> IF n = Nil THEN << >> ELSE <<n>> \o w[m.forward[n][i]]]
             at == CHOOSE w : w = run(w)
             Upto(w, c) == /\ w \in [D -> Seq(Key)] /\ w[Nil] = << >>
                           /\ \A n \in Key : c <= n => w[n] = <<n>> \o w[m.forward[n][i]]
  <1>1. Chain(m, i) = at[m.forward[HeadNode][i]]
    BY DEF Chain
  <1>2. PICK f : f = LevelOf(m, i)
    OBVIOUS
  <1>3. /\ \A n \in Places : f[n] = m.forward[n][i] /\ f[n] \in D
        /\ Links(f, S)
        /\ \A n \in Key : n \in Places
        /\ HeadNode \in Places /\ \A n \in Key : n # Nil
    BY <1>2, PlaceTypes DEF LevelOf, Places
  <1>4. \A n \in Key : f[n] = Nil \/ (n < f[n] /\ f[n] \in S)
    BY <1>3 DEF Links
  <1>5. \E w : w = run(w)
    <2> DEFINE T == {c \in 0 .. MaxKey + 1 : \E w : Upto(w, c)}
    <2>1. MaxKey + 1 \in T
      <3>1. << >> \in Seq(Key)
        BY EmptySeq
      <3>2. [n \in D |-> << >>] \in [D -> Seq(Key)] /\ [n \in D |-> << >>][Nil] = << >>
        BY <3>1
      <3>3. \A n \in Key : ~(MaxKey + 1 <= n)
        BY PlaceTypes
      <3>4. Upto([n \in D |-> << >>], MaxKey + 1)
        BY <3>2, <3>3
      <3>5. MaxKey + 1 \in 0 .. MaxKey + 1
        BY PlaceTypes
      <3> HIDE DEF Upto
      <3>6. QED
        BY <3>4, <3>5
    <2> HIDE DEF Upto
    <2>2. T \in SUBSET Nat /\ T # {}
      BY <2>1, PlaceTypes
    <2>3. PICK c \in T : \A e \in T : c <= e
      BY <2>2, LeastNumber
    <2>4. PICK w : Upto(w, c)
      OBVIOUS
    <2>5. c \in 0 .. MaxKey + 1 /\ MaxKey \in Nat
      BY PlaceTypes
    <2>6. ~(0 < c)
      <3> SUFFICES ASSUME 0 < c PROVE FALSE
        OBVIOUS
      <3>1. PICK d \in Key : d + 1 = c
        <4>1. c - 1 \in 0 .. MaxKey /\ c - 1 + 1 = c
          BY <2>5
        <4>2. QED
          BY <4>1 DEF Key
      <3>2. PICK s : s = <<d>> \o w[f[d]]
        OBVIOUS
      <3>3. w \in [D -> Seq(Key)] /\ f[d] \in D
        BY <1>3, <2>4 DEF Upto
      <3>4. s \in Seq(Key)
        BY <3>2, <3>3, ConcatProperties
      <3>5. PICK x : x = [w EXCEPT ![d] = s]
        OBVIOUS
      <3>6. x \in [D -> Seq(Key)] /\ x[d] = s /\ \A n \in D : n # d => x[n] = w[n]
        BY <3>3, <3>4, <3>5
      <3>7. x[Nil] = << >>
        BY <1>3, <2>4, <3>6 DEF Upto
      <3>8. f[d] # d
        BY <1>3, <1>4, PlaceTypes
      <3>9. ASSUME NEW n \in Key, d <= n
            PROVE  x[n] = <<n>> \o x[m.forward[n][i]]
        <4>1. CASE n = d
          <5>1. x[f[d]] = w[f[d]]
            BY <3>3, <3>6, <3>8
          <5>2. QED
            BY <1>3, <3>2, <3>6, <4>1, <5>1
        <4>2. CASE n # d
          <5>1. c <= n
            BY <3>1, <3>9, <4>2, <2>5, PlaceTypes
          <5>2. w[n] = <<n>> \o w[m.forward[n][i]]
            BY <2>4, <5>1 DEF Upto
          <5>3. f[n] # d /\ f[n] \in D
            <6>1. f[n] = Nil \/ n < f[n]
              BY <1>4
            <6>2. QED
              BY <1>3, <3>9, <4>2, <6>1, PlaceTypes
          <5>4. x[f[n]] = w[f[n]] /\ x[n] = w[n]
            BY <3>6, <4>2, <5>3
          <5>5. QED
            BY <1>3, <5>2, <5>4
        <4>3. QED
          BY <4>1, <4>2
      <3>10. Upto(x, d)
        BY <3>6, <3>7, <3>9 DEF Upto
      <3>11. d \in T
        <4>1. d \in 0 .. MaxKey + 1
          BY <2>5 DEF Key
        <4>2. QED
          BY <3>10, <4>1
      <3>12. c <= d
        BY <2>3, <3>11
      <3>13. QED
        BY <3>1, <3>12, <2>5, PlaceTypes
    <2>7. \A n \in Key : c <= n
      BY <2>5, <2>6, PlaceTypes
    <2>8. \A n \in D : w[n] = IF n = Nil THEN << >> ELSE <<n>> \o w[m.forward[n][i]]
      BY <2>4, <2>7 DEF Upto
    <2>9. w = [n \in D |-> w[n]]
      BY <2>4 DEF Upto
    <2>10. w = run(w)
      BY <2>8, <2>9
    <2>11. QED
      BY <2>10
  <1>6. at = run(at)
    BY <1>5
  <1> HIDE DEF at
  <1>7. at[Nil] = << >> /\ \A n \in Key : at[n] = <<n>> \o at[f[n]]
    BY <1>3, <1>6
  <1> DEFINE From(n) == {s \in S : n <= s}
  <1>8. \A n \in S : Lists(at[n], From(n))
    <2> DEFINE T == {n \in S : ~Lists(at[n], From(n))}
    <2> SUFFICES ASSUME T # {} PROVE FALSE
      OBVIOUS
    <2>1. T \in SUBSET Int /\ \A c \in T : c <= MaxKey
      BY PlaceTypes
    <2>2. PICK n \in T : \A d \in T : d <= n
      <3> HIDE DEF T
      <3>1. MaxKey \in Int
        BY PlaceTypes
      <3>2. QED
        BY <2>1, <3>1, GreatestOf
    <2>3. n \in S /\ n \in Key /\ n \in Int /\ ~Lists(at[n], From(n))
      BY PlaceTypes
    <2>4. \A s \in S : s \in Int
      BY PlaceTypes
    <2>5. CASE f[n] = Nil
      <3>1. From(n) = {n} \cup {}
        <4>1. \A s \in S : n < s => FALSE
          BY <1>3, <2>3, <2>5 DEF Links
        <4>2. ASSUME NEW s \in S, n <= s
              PROVE  s = n
          <5>1. s \in Int /\ n \in Int /\ ~(n < s)
            BY <2>3, <2>4, <4>1
          <5>2. QED
            BY <4>2, <5>1
        <4>3. n <= n
          BY <2>3
        <4>4. QED
          BY <2>3, <4>2, <4>3
      <3>2. Lists(<<n>> \o << >>, {n} \cup {})
        BY <2>3, ListsEmpty, ListsCons
      <3>3. at[n] = <<n>> \o << >>
        BY <1>7, <2>3, <2>5
      <3>4. QED
        BY <2>3, <3>1, <3>2, <3>3
    <2>6. CASE f[n] # Nil
      <3>1. PICK x : x = f[n]
        OBVIOUS
      <3>2. x \in S /\ n < x /\ x \in Int
        BY <1>4, <2>3, <2>4, <2>6, <3>1
      <3>3. Lists(at[x], From(x))
        <4>1. ~(x <= n)
          BY <2>3, <3>2
        <4>2. x \notin T
          BY <2>2, <4>1
        <4>3. QED
          BY <3>2, <4>2
      <3>4. \A a \in From(x) : n < a
        BY <2>3, <2>4, <3>2
      <3>5. From(n) = {n} \cup From(x)
        <4>1. \A s \in S : n < s => x <= s
          BY <1>3, <2>3, <3>1 DEF Links
        <4>2. ASSUME NEW s \in S
              PROVE  n <= s <=> (s = n \/ x <= s)
          <5>1. s \in Int /\ n \in Int /\ x \in Int /\ (n < s => x <= s) /\ n < x
            BY <2>3, <2>4, <3>2, <4>1
          <5>2. QED
            BY <5>1
        <4>3. QED
          BY <2>3, <4>2
      <3> HIDE DEF From
      <3>6. Lists(<<n>> \o at[x], {n} \cup From(x))
        BY <2>3, <3>3, <3>4, ListsCons
      <3>7. at[n] = <<n>> \o at[x]
        BY <1>7, <2>3, <3>1
      <3>8. QED
        BY <2>3, <3>5, <3>6, <3>7
    <2>7. QED
      BY <2>5, <2>6
  <1>9. PICK x : x = f[HeadNode]
    OBVIOUS
  <1>10. Chain(m, i) = at[x]
    BY <1>1, <1>3, <1>9
  <1>11. CASE x = Nil
    <2>1. S = {}
      <3>1. \A s \in S : HeadNode < s
        BY PlaceTypes
      <3>2. QED
        BY <1>3, <1>9, <1>11, <3>1 DEF Links
    <2>2. QED
      BY <1>7, <1>10, <1>11, <2>1, ListsEmpty
  <1>12. CASE x # Nil
    <2>1. x \in S
      BY <1>3, <1>9, <1>12 DEF Links
    <2>2. \A s \in S : x <= s
      <3>1. \A s \in S : HeadNode < s
        BY PlaceTypes
      <3>2. QED
        BY <1>3, <1>9, <3>1 DEF Links
    <2>3. From(x) = S
      BY <2>2
    <2> HIDE DEF From
    <2>4. QED
      BY <1>8, <1>10, <2>1, <2>3
  <1>13. QED
    BY <1>11, <1>12

(* Every table is what build() makes of records in the order of their keys. *)
TablesBuilt ==
  /\ Len(sstables) \in Nat
  /\ sstables = [t \in 1 .. Len(sstables) |-> build(sstables[t].records, hash)]
  /\ \A t \in 1 .. Len(sstables) :
       LET recs == sstables[t].records IN Len(recs) \in Nat /\ Sorted(Len(recs), recs)

(* The newest table that has key k has v for it; none has it when v is NotFound. *)
Newest(k, v) ==
  \/ /\ v = NotFound
     /\ \A t \in 1 .. Len(sstables) : ScanOf(sstables[t].records, k) = NotFound
  \/ \E t \in 1 .. Len(sstables) :
       /\ ScanOf(sstables[t].records, k) = v /\ v # NotFound
       /\ \A u \in t + 1 .. Len(sstables) : ScanOf(sstables[u].records, k) = NotFound

(* The keys of the memtable have the value put last there, the others in   *)
(* the newest table that has them, but for the lost ones.                  *)
EngineInv ==
  /\ lost \subseteq Key /\ content \in [Key -> Value \cup {NotFound}] /\ TablesBuilt
  /\ \E S \in [Levels -> SUBSET Key] :
       /\ MemInv(memtable, S)
       /\ \A k \in S[0] : memtable.value[k] = content[k]
       /\ \A k \in Key \ (lost \cup S[0]) : Newest(k, content[k])
       /\ S[0] \cap lost = {}

(* get() of any table of the engine.                                       *)
LEMMA TableRead ==
  ASSUME TablesBuilt, NEW t \in 1 .. Len(sstables), NEW k \in Key
  PROVE  table_get(sstables[t], k, hash) = ScanOf(sstables[t].records, k)
  <1>1. PICK recs : recs = sstables[t].records
    OBVIOUS
  <1>2. Len(recs) \in Nat /\ Sorted(Len(recs), recs)
    BY <1>1 DEF TablesBuilt
  <1>3. sstables[t] = build(recs, hash)
    BY <1>1 DEF TablesBuilt
  <1>4. table_get(build(recs, hash), k, hash) = ScanOf(recs, k)
    BY <1>2, TableFinds
  <1>5. QED
    BY <1>1, <1>3, <1>4, Zenon

(* The search from the newest table down ends at the newest that has the   *)
(* key.                                                                    *)
LEMMA NewestRead ==
  ASSUME TablesBuilt, NEW k \in Key, NEW v, Newest(k, v)
  PROVE  SearchTables(k) = v
  <1>1. PICK N \in Nat : N = Len(sstables)
    BY DEF TablesBuilt
  <1>2. PICK scan : scan = [t \in 1 .. N |-> ScanOf(sstables[t].records, k)]
    OBVIOUS
  <1>3. \A t \in 1 .. N : table_get(sstables[t], k, hash) = scan[t] /\ ScanOf(sstables[t].records, k) = scan[t]
    BY <1>1, <1>2, TableRead
  <1> DEFINE run(w) == [t \in 0 .. N |-> IF t = 0 THEN NotFound
                                         ELSE IF scan[t] # NotFound THEN scan[t] ELSE w[t - 1]]
             at == CHOOSE w : w = run(w)
             Upto(w, c) == /\ DOMAIN w = 0 .. N
                           /\ \A t \in 0 .. c : w[t] = IF t = 0 THEN NotFound
                                                       ELSE IF scan[t] # NotFound THEN scan[t] ELSE w[t - 1]
  <1>4. SearchTables(k) = at[N]
    <2>1. \A w : [t \in 0 .. N |-> IF t = 0 THEN NotFound
                   ELSE LET val == table_get(sstables[t], k, hash)
                        IN  IF val # NotFound THEN val ELSE w[t - 1]] = run(w)
      <3>1. \A t \in 0 .. N : t # 0 => t \in 1 .. N
        OBVIOUS
      <3>2. QED
        BY <1>3, <3>1
    <2>2. SearchTables(k) =
            (CHOOSE w : w = [t \in 0 .. N |-> IF t = 0 THEN NotFound
                   ELSE LET val == table_get(sstables[t], k, hash)
                        IN  IF val # NotFound THEN val ELSE w[t - 1]])[N]
      BY <1>1 DEF SearchTables
    <2> HIDE DEF run
    <2>3. QED
      BY <2>1, <2>2
  <1>5. \E w : w = run(w)
    <2> DEFINE T == {c \in 0 .. N : \E w : Upto(w, N - c)}
    <2>1. N \in T
      <3>1. Upto([t \in 0 .. N |-> NotFound], N - N)
        <4>1. N - N = 0 /\ \A t \in 0 .. 0 : t = 0 /\ t \in 0 .. N
          OBVIOUS
        <4>2. QED
          BY <4>1
      <3> HIDE DEF Upto
      <3>2. QED
        BY <3>1
    <2> HIDE DEF Upto
    <2>2. T \in SUBSET Nat /\ T # {}
      BY <2>1
    <2>3. PICK c \in T : \A e \in T : c <= e
      BY <2>2, LeastNumber
    <2>4. PICK w : Upto(w, N - c)
      OBVIOUS
    <2>5. c \in 0 .. N
      OBVIOUS
    <2>6. ~(0 < c)
      <3> SUFFICES ASSUME 0 < c PROVE FALSE
        OBVIOUS
      <3>1. PICK b \in 0 .. N : b = c - 1
        BY <2>5
      <3>2. PICK d \in 1 .. N : d = N - b
        BY <2>5, <3>1
      <3>3. PICK x : x = [w EXCEPT ![d] = IF scan[d] # NotFound THEN scan[d] ELSE w[d - 1]]
        OBVIOUS
      <3>4. DOMAIN w = 0 .. N
        BY <2>4 DEF Upto
      <3>5. /\ DOMAIN x = 0 .. N /\ x[d] = (IF scan[d] # NotFound THEN scan[d] ELSE w[d - 1])
            /\ \A t \in 0 .. N : t # d => x[t] = w[t]
        <4>1. d \in 0 .. N
          OBVIOUS
        <4>2. QED
          BY <3>3, <3>4, <4>1
      <3>6. ASSUME NEW t \in 0 .. d
            PROVE  x[t] = IF t = 0 THEN NotFound
                          ELSE IF scan[t] # NotFound THEN scan[t] ELSE x[t - 1]
        <4>1. CASE t = d
          <5>1. d # 0 /\ d - 1 # d /\ d - 1 \in 0 .. N
            OBVIOUS
          <5>2. x[d - 1] = w[d - 1]
            BY <3>5, <5>1
          <5>3. QED
            BY <3>5, <4>1, <5>1, <5>2
        <4>2. CASE t # d
          <5>1. t \in 0 .. N - c /\ t \in 0 .. N /\ (t # 0 => t - 1 \in 0 .. N /\ t - 1 # d)
            BY <2>5, <3>1, <3>2, <4>2
          <5>2. w[t] = IF t = 0 THEN NotFound
                       ELSE IF scan[t] # NotFound THEN scan[t] ELSE w[t - 1]
            BY <2>4, <5>1 DEF Upto
          <5>3. x[t] = w[t] /\ (t # 0 => x[t - 1] = w[t - 1])
            BY <3>5, <4>2, <5>1
          <5>4. QED
            BY <5>2, <5>3
        <4>3. QED
          BY <4>1, <4>2
      <3>7. Upto(x, N - b)
        BY <3>2, <3>5, <3>6 DEF Upto
      <3>8. c <= b
        BY <2>3, <3>7
      <3>9. QED
        BY <2>5, <3>1, <3>8
    <2>7. N - c = N
      BY <2>5, <2>6
    <2>8. DOMAIN w = 0 .. N /\ \A t \in 0 .. N : w[t] = IF t = 0 THEN NotFound
                                       ELSE IF scan[t] # NotFound THEN scan[t] ELSE w[t - 1]
      BY <2>4, <2>7 DEF Upto
    <2>9. QED
      <3>1. PICK x : x = [t \in 0 .. N |-> w[t]]
        OBVIOUS
      <3>2. \A t \in 0 .. N : x[t] = w[t]
        BY <3>1
      <3>3. \A t \in 0 .. N : t # 0 => t - 1 \in 0 .. N
        OBVIOUS
      <3>4. x = run(x)
        BY <2>8, <3>1, <3>2, <3>3
      <3>5. QED
        BY <3>4
  <1>6. at = run(at)
    BY <1>5
  <1> HIDE DEF at
  <1>7. \A t \in 0 .. N : at[t] = IF t = 0 THEN NotFound ELSE IF scan[t] # NotFound THEN scan[t] ELSE at[t - 1]
    BY <1>6
  <1>8. ASSUME NEW c \in 0 .. N, \A u \in c + 1 .. N : scan[u] = NotFound
        PROVE  at[N] = at[c]
    <2> DEFINE T == {t \in c .. N : at[t] # at[c]}
    <2> SUFFICES ASSUME T # {} PROVE FALSE
      BY SMT
    <2>1. T \in SUBSET Nat
      OBVIOUS
    <2>2. PICK t \in T : \A j \in T : t <= j
      BY <2>1, LeastNumber
    <2>3. t \in c .. N /\ at[t] # at[c]
      OBVIOUS
    <2>4. t # c /\ t \in c + 1 .. N /\ t - 1 \in c .. N /\ t \in 0 .. N /\ t # 0 /\ ~(t <= t - 1)
      BY <2>3
    <2>5. at[t] = at[t - 1]
      BY <1>7, <1>8, <2>4
    <2>6. t - 1 \in T
      BY <2>3, <2>4, <2>5
    <2>7. QED
      BY <2>2, <2>4, <2>6
  <1>9. CASE v = NotFound /\ \A t \in 1 .. N : scan[t] = NotFound
    <2>1. at[N] = at[0]
      <3>1. 0 \in 0 .. N /\ 0 + 1 = 1
        OBVIOUS
      <3>2. QED
        BY <1>8, <1>9, <3>1
    <2>2. at[0] = NotFound
      BY <1>7
    <2>3. QED
      BY <1>4, <1>9, <2>1, <2>2
  <1>10. CASE \E t \in 1 .. N : scan[t] = v /\ v # NotFound /\ \A u \in t + 1 .. N : scan[u] = NotFound
    <2>1. PICK t \in 1 .. N : scan[t] = v /\ v # NotFound /\ \A u \in t + 1 .. N : scan[u] = NotFound
      BY <1>10
    <2>2. t \in 0 .. N /\ t # 0
      OBVIOUS
    <2>3. at[N] = at[t] /\ at[t] = v
      BY <1>7, <1>8, <2>1, <2>2
    <2>4. QED
      BY <1>4, <2>3
  <1>11. \/ v = NotFound /\ \A t \in 1 .. N : scan[t] = NotFound
         \/ \E t \in 1 .. N : scan[t] = v /\ v # NotFound /\ \A u \in t + 1 .. N : scan[u] = NotFound
    <2>1. \A t \in 1 .. N : \A u \in t + 1 .. N : u \in 1 .. N
      OBVIOUS
    <2>2. QED
      BY <1>1, <1>3, <2>1 DEF Newest
  <1>12. QED
    BY <1>9, <1>10, <1>11

(* The chain of a level lists its nodes.                                   *)
LEMMA Chains ==
  ASSUME NEW m, NEW S, MemInv(m, S), NEW i \in Levels
  PROVE  Lists(Chain(m, i), S[i])
  <1>1. S[i] \in SUBSET Key /\ Links(LevelOf(m, i), S[i])
    BY DEF MemInv
  <1>2. \A n \in Places : m.forward[n][i] \in Key \cup {Nil}
    BY DEF MemInv
  <1>3. QED
    BY <1>1, <1>2, ChainIs

(* The levels of the list.                                                 *)
LEMMA LevelZero ==
  0 \in Levels /\ Levels \subseteq Nat /\ \A i \in Levels \ {0} : i - 1 \in Levels /\ i - 1 <= i
  BY SkipListAssumption DEF Levels

(* to_vector() lists the keys of the lowest level with their values.       *)
LEMMA VectorIs ==
  ASSUME NEW m, NEW S, MemInv(m, S)
  PROVE  /\ to_vector(m) \in Seq(Key \X Value) /\ Len(to_vector(m)) \in Nat
         /\ Sorted(Len(to_vector(m)), to_vector(m)) /\ KeysOf(m) = S[0]
         /\ \A k \in Key : ScanOf(to_vector(m), k) = IF k \in S[0] THEN m.value[k] ELSE NotFound
  <1>1. PICK q : q = Chain(m, 0)
    OBVIOUS
  <1>2. Lists(q, S[0])
    BY <1>1, Chains, LevelZero
  <1>3. PICK n \in Nat : n = Len(q)
    BY <1>2, LenProperties DEF Lists
  <1>4. q \in [1 .. n -> Key] /\ DOMAIN q = 1 .. n
    BY <1>2, <1>3, LenProperties DEF Lists
  <1>5. S[0] = {q[j] : j \in 1 .. n} /\ \A a, b \in 1 .. n : a < b => q[a] < q[b]
    BY <1>2, <1>4 DEF Lists, NodesOf, Ascending
  <1>6. PICK recs : recs = to_vector(m)
    OBVIOUS
  <1>7. recs = [j \in 1 .. n |-> <<q[j], m.value[q[j]]>>]
    BY <1>1, <1>4, <1>6 DEF to_vector
  <1>8. \A j \in 1 .. n : q[j] \in S[0] /\ q[j] \in Key /\ m.value[q[j]] \in Value
    BY <1>4, <1>5 DEF MemInv
  <1>9. recs \in [1 .. n -> Key \X Value] /\ DOMAIN recs = 1 .. n
    BY <1>7, <1>8
  <1>10. \A j \in 1 .. n : recs[j][1] = q[j] /\ recs[j][2] = m.value[q[j]]
    BY <1>7
  <1>11. recs \in Seq(Key \X Value) /\ Len(recs) = n
    <2>1. recs \in Seq(Key \X Value)
      BY <1>9, SeqDef
    <2>2. QED
      BY <1>9, <2>1, LenProperties
  <1>12. Sorted(n, recs)
    BY <1>5, <1>9, <1>10 DEF Sorted
  <1>13. KeysOf(m) = S[0]
    <2>1. KeysOf(m) = {recs[j][1] : j \in 1 .. n}
      BY <1>6, <1>9 DEF KeysOf
    <2>2. QED
      BY <1>5, <1>10, <2>1
  <1>14. ASSUME NEW k \in Key
         PROVE  ScanOf(recs, k) = IF k \in S[0] THEN m.value[k] ELSE NotFound
    <2>1. CASE k \in S[0]
      <3>1. PICK j \in 1 .. n : k = q[j]
        BY <1>5, <2>1
      <3>2. recs[j][1] = k /\ recs[j][2] = m.value[k]
        BY <1>10, <3>1
      <3>3. QED
        BY <1>12, <2>1, <3>2, ScanIs
    <2>2. CASE k \notin S[0]
      <3>1. \A j \in 1 .. n : recs[j][1] # k
        BY <1>8, <1>10, <2>2
      <3>2. QED
        BY <1>12, <2>2, <3>1, ScanIs
    <2>3. QED
      BY <2>1, <2>2
  <1>15. QED
    BY <1>6, <1>11, <1>12, <1>13, <1>14

(* A new table on top: its keys are read there, the others where they      *)
(* were.                                                                   *)
LEMMA TableAdded ==
  ASSUME TablesBuilt, NEW recs, Len(recs) \in Nat, Sorted(Len(recs), recs), hash' = hash,
         sstables' = Append(sstables, build(recs, hash))
  PROVE  /\ TablesBuilt'
         /\ \A k \in Key : ScanOf(recs, k) # NotFound => Newest(k, ScanOf(recs, k))'
         /\ \A k \in Key : \A v : ScanOf(recs, k) = NotFound /\ Newest(k, v) => Newest(k, v)'
  <1>1. PICK N \in Nat : N = Len(sstables)
    BY DEF TablesBuilt
  <1>2. PICK old : old = sstables
    OBVIOUS
  <1>3. PICK tb : tb = build(recs, hash)
    OBVIOUS
  <1>4. PICK h : h = hash
    OBVIOUS
  <1>5. DOMAIN old = 1 .. N /\ Len(old) = N /\ \A t \in 1 .. N : old[t] = build(old[t].records, h)
    BY <1>1, <1>2, <1>4 DEF TablesBuilt
  <1>6. \A t \in 1 .. N : Len(old[t].records) \in Nat /\ Sorted(Len(old[t].records), old[t].records)
    BY <1>1, <1>2 DEF TablesBuilt
  <1>7. PICK X : X = {old[t] : t \in 1 .. N} \cup {tb}
    OBVIOUS
  <1>8. old \in Seq(X) /\ tb \in X
    <2>1. old = [t \in 1 .. N |-> old[t]]
      <3>1. old = [t \in 1 .. N |-> build(old[t].records, h)]
        BY <1>1, <1>2, <1>4 DEF TablesBuilt
      <3>2. QED
        BY <3>1
    <2>2. old \in [1 .. N -> X]
      BY <1>7, <2>1
    <2>3. QED
      BY <1>7, <2>2, SeqDef
  <1>9. PICK new : new = Append(old, tb)
    OBVIOUS
  <1>10. /\ new \in Seq(X) /\ Len(new) = N + 1 /\ new[N + 1] = tb
         /\ \A t \in 1 .. N : new[t] = old[t]
    BY <1>5, <1>8, <1>9, AppendProperties
  <1>11. DOMAIN new = 1 .. N + 1 /\ new = [t \in 1 .. N + 1 |-> new[t]]
    BY <1>10, LenProperties
  <1>12. sstables' = new /\ hash' = h
    BY <1>2, <1>3, <1>4, <1>9
  <1>13. tb.records = recs /\ tb = build(recs, h)
    BY <1>3, <1>4 DEF build
  <1>14. ASSUME NEW t \in 1 .. N + 1
         PROVE  /\ new[t] = build(new[t].records, h)
                /\ Len(new[t].records) \in Nat /\ Sorted(Len(new[t].records), new[t].records)
    <2>1. CASE t = N + 1
      BY <1>10, <1>13, <2>1
    <2>2. CASE t \in 1 .. N
      BY <1>5, <1>6, <1>10, <2>2
    <2>3. QED
      BY <2>1, <2>2
  <1>15. new = [t \in 1 .. N + 1 |-> build(new[t].records, h)]
    BY <1>11, <1>14
  <1>16. TablesBuilt'
    <2>1. Len(sstables)' = N + 1
      BY <1>10, <1>12
    <2>2. (sstables = [t \in 1 .. Len(sstables) |-> build(sstables[t].records, hash)])'
      BY <1>12, <1>15, <2>1
    <2>3. QED
      BY <1>12, <1>14, <2>1, <2>2 DEF TablesBuilt
  <1>17. \A t \in 1 .. N : new[t].records = old[t].records
    BY <1>10
  <1>18. ASSUME NEW k \in Key, ScanOf(recs, k) # NotFound
         PROVE  Newest(k, ScanOf(recs, k))'
    <2>1. N + 1 \in 1 .. N + 1 /\ \A u \in N + 1 + 1 .. N + 1 : FALSE
      OBVIOUS
    <2>2. new[N + 1].records = recs
      BY <1>10, <1>13
    <2>3. QED
      BY <1>10, <1>12, <1>18, <2>1, <2>2 DEF Newest
  <1>19. ASSUME NEW k \in Key, NEW v, ScanOf(recs, k) = NotFound, Newest(k, v)
         PROVE  Newest(k, v)'
    <2>1. new[N + 1].records = recs
      BY <1>10, <1>13
    <2>2. \A u \in 1 .. N + 1 : u = N + 1 \/ u \in 1 .. N
      OBVIOUS
    <2>3. CASE v = NotFound /\ \A t \in 1 .. N : ScanOf(old[t].records, k) = NotFound
      <3>1. \A u \in 1 .. N + 1 : ScanOf(new[u].records, k) = NotFound
        BY <1>17, <1>19, <2>1, <2>2, <2>3
      <3>2. QED
        BY <1>10, <1>12, <2>3, <3>1 DEF Newest
    <2>4. CASE \E t \in 1 .. N : /\ ScanOf(old[t].records, k) = v /\ v # NotFound
                                 /\ \A u \in t + 1 .. N : ScanOf(old[u].records, k) = NotFound
      <3>1. PICK t \in 1 .. N : /\ ScanOf(old[t].records, k) = v /\ v # NotFound
                                /\ \A u \in t + 1 .. N : ScanOf(old[u].records, k) = NotFound
        BY <2>4
      <3>2. \A u \in t + 1 .. N + 1 : u = N + 1 \/ (u \in t + 1 .. N /\ u \in 1 .. N)
        OBVIOUS
      <3>3. \A u \in t + 1 .. N + 1 : ScanOf(new[u].records, k) = NotFound
        BY <1>17, <1>19, <2>1, <3>1, <3>2
      <3>4. t \in 1 .. N + 1 /\ ScanOf(new[t].records, k) = v
        BY <1>17, <3>1
      <3>5. QED
        BY <1>10, <1>12, <3>1, <3>3, <3>4 DEF Newest
    <2>5. QED
      BY <1>1, <1>2, <1>19, <2>3, <2>4 DEF Newest
  <1>20. QED
    BY <1>16, <1>18, <1>19

(* A flush of a memtable m, whose keys have the values put last, c: they   *)
(* are in the new table or lost.                                           *)
LEMMA FlushKeeps ==
  ASSUME NEW m, NEW S, MemInv(m, S), S \in [Levels -> SUBSET Key],
         NEW c \in [Key -> Value \cup {NotFound}], TablesBuilt, lost \subseteq Key,
         \A k \in S[0] : m.value[k] = c[k],
         \A k \in Key \ (lost \cup S[0]) : Newest(k, c[k]),
         flush_internal(m), m.size # 0, hash' = hash, content' = c
  PROVE  EngineInv'
  <1>0. S[0] \subseteq Key /\ KeysOf(m) = S[0]
    BY LevelZero, VectorIs
  <1>1. PICK E : E = [i \in Levels |-> {}]
    OBVIOUS
  <1>2. memtable' = EmptyMemTable
    BY DEF flush_internal
  <1>3. MemInv(memtable, E)' /\ E \in [Levels -> SUBSET Key] /\ E[0] = {}
    BY <1>1, <1>2, EmptyIs, LevelZero
  <1>4. CASE sstables' = Append(sstables, build(to_vector(m), hash)) /\ lost' = lost \ S[0]
    <2>1. PICK recs : recs = to_vector(m)
      OBVIOUS
    <2>2. /\ Len(recs) \in Nat /\ Sorted(Len(recs), recs)
          /\ \A k \in Key : ScanOf(recs, k) = IF k \in S[0] THEN m.value[k] ELSE NotFound
      BY <2>1, VectorIs
    <2>3. sstables' = Append(sstables, build(recs, hash))
      BY <1>4, <2>1
    <2>4. /\ TablesBuilt'
          /\ \A k \in Key : ScanOf(recs, k) # NotFound => Newest(k, ScanOf(recs, k))'
          /\ \A k \in Key : \A v : ScanOf(recs, k) = NotFound /\ Newest(k, v) => Newest(k, v)'
      BY <2>2, <2>3, TableAdded
    <2>5. ASSUME NEW k \in Key \ (lost' \cup {})
          PROVE  Newest(k, c[k])'
      <3>1. CASE k \in S[0]
        <4>1. ScanOf(recs, k) = c[k] /\ c[k] \in Value
          BY <2>2, <3>1 DEF MemInv
        <4>2. c[k] # NotFound
          BY <4>1, SkipListAssumption
        <4>3. QED
          BY <2>4, <4>1, <4>2
      <3>2. CASE k \notin S[0]
        <4>1. k \in Key \ (lost \cup S[0]) /\ ScanOf(recs, k) = NotFound
          BY <1>4, <2>2, <2>5, <3>2
        <4>2. Newest(k, c[k])
          BY <4>1
        <4>3. QED
          BY <2>4, <4>1, <4>2
      <3>3. QED
        BY <3>1, <3>2
    <2>6. lost' \subseteq Key
      BY <1>4
    <2>7. QED
      BY <1>3, <2>4, <2>5, <2>6 DEF EngineInv
  <1>5. CASE sstables' = sstables /\ lost' = lost \cup S[0]
    <2>1. TablesBuilt' /\ \A k \in Key : \A v : Newest(k, v) => Newest(k, v)'
      BY <1>5 DEF TablesBuilt, Newest
    <2>2. \A k \in Key \ (lost' \cup {}) : Newest(k, c[k])'
      BY <1>5, <2>1
    <2>3. lost' \subseteq Key
      BY <1>0, <1>5
    <2>4. QED
      BY <1>3, <2>1, <2>2, <2>3 DEF EngineInv
  <1>6. QED
    BY <1>0, <1>4, <1>5 DEF flush_internal

(* The invariant holds at the start.                                       *)
LEMMA EngineInit ==
  Init => EngineInv
  <1> SUFFICES ASSUME Init PROVE EngineInv
    OBVIOUS
  <1>1. PICK E : E = [i \in Levels |-> {}]
    OBVIOUS
  <1>2. MemInv(memtable, E) /\ E \in [Levels -> SUBSET Key] /\ E[0] = {}
    BY <1>1, EmptyIs, LevelZero DEF Init
  <1>3. sstables = << >> /\ lost = {} /\ content = [k \in Key |-> NotFound]
    BY DEF Init
  <1>4. Len(sstables) = 0 /\ 1 .. Len(sstables) = {}
    BY <1>3
  <1>5. << >> = [t \in {} |-> build(sstables[t].records, hash)]
    OBVIOUS
  <1>6. TablesBuilt
    <2>1. sstables = [t \in 1 .. Len(sstables) |-> build(sstables[t].records, hash)]
      BY <1>3, <1>4, <1>5
    <2>2. QED
      BY <1>4, <2>1 DEF TablesBuilt
  <1>7. \A k \in Key : Newest(k, content[k])
    BY <1>3, <1>4 DEF Newest
  <1>8. QED
    BY <1>2, <1>3, <1>6, <1>7 DEF EngineInv

(* Every call keeps the invariant.                                         *)
LEMMA EngineStep ==
  EngineInv /\ [Next]_vars => EngineInv'
  <1> SUFFICES ASSUME EngineInv, [Next]_vars PROVE EngineInv'
    OBVIOUS
  <1>1. PICK S \in [Levels -> SUBSET Key] :
          /\ MemInv(memtable, S)
          /\ \A k \in S[0] : memtable.value[k] = content[k]
          /\ \A k \in Key \ (lost \cup S[0]) : Newest(k, content[k])
          /\ S[0] \cap lost = {}
    BY DEF EngineInv
  <1>2. PICK m : m = memtable
    OBVIOUS
  <1>3. TablesBuilt /\ lost \subseteq Key /\ content \in [Key -> Value \cup {NotFound}] /\ MemInv(m, S)
    BY <1>1, <1>2 DEF EngineInv
  <1>4. ASSUME UNCHANGED <<memtable, sstables, lost, hash, content>>
        PROVE  EngineInv'
    <2>1. memtable' = memtable /\ sstables' = sstables /\ lost' = lost /\ hash' = hash /\ content' = content
      BY <1>4
    <2>2. TablesBuilt'
      BY <1>3, <2>1 DEF TablesBuilt
    <2>3. \A k \in Key \ (lost' \cup S[0]) : Newest(k, content[k])'
      BY <1>1, <2>1 DEF Newest
    <2>4. MemInv(memtable, S)'
      BY <1>2, <1>3, <2>1
    <2>5. QED
      BY <1>1, <1>3, <2>1, <2>2, <2>3, <2>4 DEF EngineInv
  <1>5. ASSUME flush_internal(memtable), UNCHANGED <<hash, content>>
        PROVE  EngineInv'
    <2>1. hash' = hash /\ content' = content
      BY <1>5
    <2>2. CASE m.size = 0
      <3>1. UNCHANGED <<memtable, sstables, lost, hash, content>>
        BY <1>2, <1>5, <2>1, <2>2 DEF flush_internal
      <3>2. QED
        BY <1>4, <3>1
    <2>3. CASE m.size # 0
      <3>1. PICK c \in [Key -> Value \cup {NotFound}] : c = content
        BY <1>3
      <3>2. flush_internal(m)
        BY <1>2, <1>5
      <3>3. \A k \in S[0] : m.value[k] = c[k]
        BY <1>1, <1>2, <3>1
      <3>4. \A k \in Key \ (lost \cup S[0]) : Newest(k, c[k])
        BY <1>1, <3>1
      <3>5. content' = c
        BY <2>1, <3>1
      <3>6. QED
        BY <1>3, <2>1, <2>3, <3>2, <3>3, <3>4, <3>5, FlushKeeps
    <2>4. QED
      BY <2>2, <2>3
  <1>6. ASSUME NEW key \in Key, NEW v \in Value, NEW new_level \in RandomLevels, put(key, v, new_level)
        PROVE  EngineInv'
    <2>1. PICK m2 : m2 = mem_put(m, key, v, new_level)
      OBVIOUS
    <2>2. PICK S2 : MemInv(m2, S2) /\ S2[0] = S[0] \cup {key} /\ m2.value = [m.value EXCEPT ![key] = v]
      BY <1>3, <2>1, MemPutIs
    <2>3. S2 \in [Levels -> SUBSET Key] /\ S2[0] \subseteq Key /\ S[0] \subseteq Key
      BY <2>2, LevelZero DEF MemInv
    <2>4. PICK c : c = [content EXCEPT ![key] = v]
      OBVIOUS
    <2>5. c \in [Key -> Value \cup {NotFound}] /\ c[key] = v /\ \A k \in Key : k # key => c[k] = content[k]
      BY <1>3, <2>4
    <2>6. content' = c /\ hash' = hash
      BY <1>6, <2>4 DEF put
    <2>7. \A k \in S2[0] : m2.value[k] = c[k]
      <3>1. m.value \in [Key -> Value \cup {NotFound}]
        BY <1>3 DEF MemInv
      <3>2. \A k \in S2[0] : m2.value[k] = IF k = key THEN v ELSE m.value[k]
        BY <2>2, <2>3, <3>1
      <3>3. QED
        BY <1>1, <1>2, <2>2, <2>3, <2>5, <3>2
    <2>8. \A k \in Key \ (lost \cup S2[0]) : Newest(k, c[k])
      <3> SUFFICES ASSUME NEW k \in Key \ (lost \cup S2[0]) PROVE Newest(k, c[k])
        OBVIOUS
      <3>1. k # key /\ k \in Key \ (lost \cup S[0])
        BY <2>2
      <3>2. Newest(k, content[k]) /\ c[k] = content[k]
        BY <1>1, <2>5, <3>1
      <3>3. QED
        BY <3>2
    <2>9. CASE m2.byte_size >= Threshold
      <3>1. flush_internal(m2)
        BY <1>2, <1>6, <2>1, <2>9 DEF put
      <3>2. m2.size # 0
        <4>1. IsFiniteSet(S2[0])
          <5>1. IsFiniteSet(Key)
            BY FS_Interval, SkipListAssumption DEF Key
          <5>2. QED
            BY <2>3, <5>1, FS_Subset
        <4>2. Cardinality(S2[0]) # 0
          BY <2>2, <4>1, FS_EmptySet
        <4>3. QED
          BY <2>2, <4>2 DEF MemInv
      <3>3. QED
        BY <1>3, <2>2, <2>3, <2>5, <2>6, <2>7, <2>8, <3>1, <3>2, FlushKeeps
    <2>10. CASE ~(m2.byte_size >= Threshold)
      <3>1. memtable' = m2 /\ lost' = lost \ {key} /\ sstables' = sstables
        BY <1>2, <1>6, <2>1, <2>10 DEF put
      <3>2. TablesBuilt'
        BY <1>3, <2>6, <3>1 DEF TablesBuilt
      <3>3. \A k \in Key \ (lost' \cup S2[0]) : Newest(k, c[k])'
        <4> SUFFICES ASSUME NEW k \in Key \ (lost' \cup S2[0]) PROVE Newest(k, c[k])'
          OBVIOUS
        <4>1. k \in Key \ (lost \cup S2[0])
          BY <2>2, <3>1
        <4>2. PICK x : x = c[k]
          OBVIOUS
        <4>3. Newest(k, x)
          BY <2>8, <4>1, <4>2
        <4>4. Newest(k, x)'
          BY <3>1, <4>3 DEF Newest
        <4>5. QED
          BY <4>2, <4>4
      <3>4. S2[0] \cap lost' = {}
        BY <1>1, <2>2, <3>1
      <3>5. lost' \subseteq Key
        BY <1>3, <3>1
      <3>6. MemInv(memtable, S2)'
        BY <2>2, <3>1
      <3>7. QED
        BY <2>3, <2>5, <2>6, <2>7, <3>1, <3>2, <3>3, <3>4, <3>5, <3>6 DEF EngineInv
    <2>11. QED
      BY <2>9, <2>10
  <1>7. CASE flush_memtable
    BY <1>5, <1>7 DEF flush_memtable
  <1>8. CASE Destroy
    BY <1>5, <1>8 DEF Destroy
  <1>9. CASE UNCHANGED vars
    BY <1>4, <1>9 DEF vars
  <1>10. QED
    BY <1>6, <1>7, <1>8, <1>9 DEF Next

(* The levels of the skip list, from the invariant.                        *)
LEMMA LevelsFollow ==
  EngineInv => LevelsNested
  <1> SUFFICES ASSUME EngineInv PROVE LevelsNested
    OBVIOUS
  <1>1. PICK S \in [Levels -> SUBSET Key] : MemInv(memtable, S)
    BY DEF EngineInv
  <1>2. \A i \in Levels : Lists(Chain(memtable, i), S[i])
    BY <1>1, Chains
  <1>3. \A i \in Levels : Ascending(Chain(memtable, i)) /\ NodesOf(Chain(memtable, i)) = S[i]
    BY <1>2 DEF Lists
  <1>4. \A i \in Levels \ {0} : S[i] \subseteq S[i - 1]
    BY <1>1, LevelZero DEF MemInv
  <1>5. ASSUME NEW i \in Levels, NEW n \in Key, memtable.forward[n][i] # Nil
        PROVE  n \in S[i]
    <2>1. Links(LevelOf(memtable, i), S[i]) /\ LevelOf(memtable, i)[n] = memtable.forward[n][i]
      BY <1>1 DEF MemInv, LevelOf, Places
    <2>2. QED
      BY <1>5, <2>1 DEF Links
  <1>6. Len(Chain(memtable, 0)) = memtable.size
    BY <1>1, <1>2, LevelZero DEF Lists, MemInv
  <1>7. ASSUME NEW i \in memtable.current_level .. MaxLevel - 1
        PROVE  Chain(memtable, i) = << >>
    <2>1. i \in Levels /\ memtable.current_level <= i
      BY <1>1, SkipListAssumption DEF MemInv, Levels
    <2>2. S[i] = {}
      BY <1>1, <2>1 DEF MemInv
    <2>3. Chain(memtable, i) \in Seq(Key) /\ Len(Chain(memtable, i)) = 0
      BY <1>2, <2>1, <2>2, FS_EmptySet DEF Lists
    <2>4. QED
      BY <2>3, EmptySeq
  <1>8. QED
    BY <1>3, <1>4, <1>5, <1>6, <1>7, LevelZero DEF LevelsNested

(* What get returns, from the invariant.                                   *)
LEMMA ReadsFollow ==
  EngineInv => ReadsLatest
  <1> SUFFICES ASSUME EngineInv, NEW k \in Key \ lost PROVE get(k) = content[k]
    BY DEF ReadsLatest
  <1>1. PICK S \in [Levels -> SUBSET Key] :
          /\ MemInv(memtable, S)
          /\ \A x \in S[0] : memtable.value[x] = content[x]
          /\ \A x \in Key \ (lost \cup S[0]) : Newest(x, content[x])
    BY DEF EngineInv
  <1>2. mem_get(memtable, k) = IF k \in S[0] THEN memtable.value[k] ELSE NotFound
    BY <1>1, MemGetIs
  <1>3. CASE k \in S[0]
    <2>1. memtable.value[k] \in Value
      BY <1>1, <1>3 DEF MemInv
    <2>2. QED
      BY <1>1, <1>2, <1>3, <2>1, SkipListAssumption DEF get
  <1>4. CASE k \notin S[0]
    <2>1. Newest(k, content[k]) /\ TablesBuilt
      BY <1>1, <1>4 DEF EngineInv
    <2>2. SearchTables(k) = content[k]
      BY <2>1, NewestRead
    <2>3. QED
      BY <1>2, <1>4, <2>2 DEF get
  <1>5. QED
    BY <1>3, <1>4

(* What tables return, from the invariant.                                 *)
LEMMA LookupsFollow ==
  EngineInv => TableLookup
  <1> SUFFICES ASSUME EngineInv, NEW t \in DOMAIN sstables, NEW k \in Key
               PROVE  table_get(sstables[t], k, hash) = ScanOf(sstables[t].records, k)
    BY DEF TableLookup
  <1>1. TablesBuilt /\ t \in 1 .. Len(sstables)
    BY DEF EngineInv, TablesBuilt
  <1>2. QED
    BY <1>1, TableRead

(* The inductive invariant of LsmEngine's put, flush_memtable and          *)
(* destructor.                                                             *)
THEOREM EngineInvariant == Spec => []EngineInv
  BY EngineInit, EngineStep, PTL DEF Spec

(* For every number of keys and levels and every sequence of random        *)
(* levels, put keeps the levels of the skip list ordered, nested and       *)
(* counted (skiplist_memtable.hpp).                                        *)
THEOREM SkipListOrdered == Spec => []LevelsNested
  BY EngineInvariant, LevelsFollow, PTL

(* For every threshold, block size, hash function and number of flushes,   *)
(* get returns the value put last under every key that no failed flush     *)
(* dropped (lsm_engine.hpp).                                               *)
THEOREM LatestPutRead == Spec => []ReadsLatest
  BY EngineInvariant, ReadsFollow, PTL

(* For every number of records, block size and filter, SSTable::get        *)
(* through the filter, the index and one block finds exactly the records   *)
(* of the table (sstable.hpp).                                             *)
THEOREM TablesFindTheirRecords == Spec => []TableLookup
  BY EngineInvariant, LookupsFollow, PTL

-----------------------------------------------------------------------------
(***************************************************************************)
(* The buddy allocator.                                                    *)
(***************************************************************************)

(* a is a multiple of s. *)
Multiple(a, s) == \E q \in Int : a = q * s

(* Sums and differences of multiples are multiples.                        *)
LEMMA MultipleSum ==
  ASSUME NEW s \in Nat \ {0}, NEW a \in Int, NEW b \in Int, Multiple(a, s), Multiple(b, s)
  PROVE  Multiple(a + b, s) /\ Multiple(a - b, s)
  <1>1. PICK p \in Int, q \in Int : a = p * s /\ b = q * s
    BY DEF Multiple
  <1>2. (p + q) * s = p * s + q * s /\ (p - q) * s = p * s - q * s /\ p + q \in Int /\ p - q \in Int
    OBVIOUS
  <1>3. QED
    BY <1>1, <1>2 DEF Multiple

(* A multiple of a multiple is one.                                        *)
LEMMA MultipleTrans ==
  ASSUME NEW s \in Nat \ {0}, NEW a \in Int, NEW b \in Int, Multiple(a, b), Multiple(b, s)
  PROVE  Multiple(a, s)
  <1>1. PICK p \in Int, q \in Int : a = p * b /\ b = q * s
    BY DEF Multiple
  <1>2. p * (q * s) = (p * q) * s /\ p * q \in Int
    OBVIOUS
  <1>3. QED
    BY <1>1, <1>2 DEF Multiple

(* Between a multiple and the next there is none.                          *)
LEMMA MultipleLess ==
  ASSUME NEW s \in Nat \ {0}, NEW a \in Int, NEW b \in Int, Multiple(a, s), Multiple(b, s), a < b + s
  PROVE  a <= b
  <1>1. PICK p \in Int, q \in Int : a = p * s /\ b = q * s
    BY DEF Multiple
  <1>2. (q + 1) * s = q * s + s /\ q + 1 \in Int
    OBVIOUS
  <1>3. p * s < (q + 1) * s
    BY <1>1, <1>2
  <1>4. p < q + 1
    BY <1>2, <1>3, Multiples
  <1>5. p <= q
    BY <1>4
  <1>6. QED
    BY <1>1, <1>5, Multiples

(* The remainder tells multiples apart, the quotient counts them.          *)
LEMMA MultipleMod ==
  ASSUME NEW s \in Nat \ {0}, NEW a \in Int
  PROVE  /\ a % s = 0 <=> Multiple(a, s)
         /\ \A q \in Int : a = q * s => a \div s = q
  <1>1. PICK x : x = a \div s
    OBVIOUS
  <1>2. PICK r : r = a % s
    OBVIOUS
  <1>3. x \in Int /\ r \in 0 .. s - 1 /\ a = s * x + r
    BY <1>1, <1>2
  <1>4. s * x = x * s /\ x * s \in Int
    BY <1>3
  <1>5. ASSUME r = 0 PROVE Multiple(a, s)
    BY <1>3, <1>4, <1>5 DEF Multiple
  <1>6. ASSUME NEW q \in Int, a = q * s
        PROVE  x = q /\ r = 0
    <2>1. (x + 1) * s = x * s + s /\ x + 1 \in Int /\ q * s \in Int
      BY <1>3
    <2>2. q * s < (x + 1) * s
      BY <1>3, <1>4, <1>6, <2>1
    <2>3. q < x + 1
      BY <2>1, <2>2, Multiples
    <2>4. ~(q < x)
      <3> SUFFICES ASSUME q < x PROVE FALSE
        OBVIOUS
      <3>1. q * s + s <= x * s
        BY <1>3, Multiples
      <3>2. QED
        BY <1>3, <1>4, <1>6, <2>1, <3>1
    <2>5. x = q
      BY <1>3, <2>3, <2>4
    <2>6. QED
      BY <1>3, <1>4, <1>6, <2>5
  <1>7. QED
    BY <1>1, <1>2, <1>5, <1>6 DEF Multiple

(* The sizes of the orders. *)
LEMMA SizeIs ==
  /\ order_to_size \in [Orders -> Nat \ {0}] /\ order_to_size[0] = MinBlock
  /\ \A k \in Orders \ {0} : order_to_size[k] = 2 * order_to_size[k - 1]
  <1>0. PICK N \in Nat : N = MaxOrder
    BY BuddyAssumption
  <1>1. PICK B \in Nat \ {0} : B = MinBlock
    BY BuddyAssumption
  <1>2. Orders = 0 .. N
    BY <1>0 DEF Orders
  <1> DEFINE run(w) == [k \in 0 .. N |-> IF k = 0 THEN B ELSE 2 * w[k - 1]]
             at == CHOOSE w : w = run(w)
             Upto(w, c) == /\ w \in [0 .. N -> Nat \ {0}]
                           /\ \A k \in 0 .. c : w[k] = IF k = 0 THEN B ELSE 2 * w[k - 1]
  <1>3. order_to_size = at
    BY <1>1, <1>2 DEF order_to_size
  <1>4. \E w : w = run(w) /\ w \in [0 .. N -> Nat \ {0}]
    <2> DEFINE T == {c \in 0 .. N : \E w : Upto(w, N - c)}
    <2>1. N \in T
      <3>1. Upto([k \in 0 .. N |-> B], N - N)
        <4>1. N - N = 0 /\ \A k \in 0 .. 0 : k = 0 /\ k \in 0 .. N
          OBVIOUS
        <4>2. QED
          BY <4>1
      <3> HIDE DEF Upto
      <3>2. QED
        BY <3>1
    <2> HIDE DEF Upto
    <2>2. T \in SUBSET Nat
      OBVIOUS
    <2>3. PICK c \in T : \A e \in T : c <= e
      <3> HIDE DEF T
      <3>1. T # {}
        BY <2>1
      <3>2. QED
        BY <2>2, <3>1, LeastNumber
    <2>4. PICK w : Upto(w, N - c)
      OBVIOUS
    <2>5. c \in 0 .. N
      OBVIOUS
    <2>6. ~(0 < c)
      <3> SUFFICES ASSUME 0 < c PROVE FALSE
        OBVIOUS
      <3>1. PICK b \in 0 .. N : b = c - 1
        BY <2>5
      <3>2. PICK d \in 1 .. N : d = N - b
        BY <2>5, <3>1
      <3>3. PICK x : x = [w EXCEPT ![d] = 2 * w[d - 1]]
        OBVIOUS
      <3>4. w \in [0 .. N -> Nat \ {0}] /\ d - 1 \in 0 .. N /\ d \in 0 .. N /\ d # 0 /\ d - 1 # d
        BY <2>4 DEF Upto
      <3>5. 2 * w[d - 1] \in Nat \ {0}
        <4>1. w[d - 1] \in Nat \ {0}
          BY <3>4
        <4>2. QED
          BY <4>1
      <3>6. x \in [0 .. N -> Nat \ {0}] /\ x[d] = 2 * w[d - 1] /\ \A k \in 0 .. N : k # d => x[k] = w[k]
        BY <3>3, <3>4, <3>5
      <3>7. ASSUME NEW k \in 0 .. d
            PROVE  x[k] = IF k = 0 THEN B ELSE 2 * x[k - 1]
        <4>1. CASE k = d
          BY <3>4, <3>6, <4>1
        <4>2. CASE k # d
          <5>1. k \in 0 .. N - c /\ k \in 0 .. N /\ (k # 0 => k - 1 \in 0 .. N /\ k - 1 # d)
            BY <2>5, <3>1, <3>2, <4>2
          <5>2. w[k] = IF k = 0 THEN B ELSE 2 * w[k - 1]
            BY <2>4, <5>1 DEF Upto
          <5>3. x[k] = w[k] /\ (k # 0 => x[k - 1] = w[k - 1])
            BY <3>6, <4>2, <5>1
          <5>4. QED
            BY <5>2, <5>3
        <4>3. QED
          BY <4>1, <4>2
      <3>8. Upto(x, N - b)
        BY <3>2, <3>6, <3>7 DEF Upto
      <3>9. c <= b
        BY <2>3, <3>8
      <3>10. QED
        BY <2>5, <3>1, <3>9
    <2>7. N - c = N
      BY <2>5, <2>6
    <2>8. w \in [0 .. N -> Nat \ {0}] /\ \A k \in 0 .. N : w[k] = IF k = 0 THEN B ELSE 2 * w[k - 1]
      BY <2>4, <2>7 DEF Upto
    <2>9. w = run(w)
      BY <2>8
    <2>10. QED
      BY <2>8, <2>9
  <1>5. PICK w : w = run(w) /\ w \in [0 .. N -> Nat \ {0}]
    BY <1>4
  <1>6. at = run(at)
    BY <1>5
  <1> HIDE DEF at
  <1>7. \A k \in 0 .. N : at[k] = w[k]
    <2> DEFINE T == {k \in 0 .. N : at[k] # w[k]}
    <2> SUFFICES ASSUME T # {} PROVE FALSE
      OBVIOUS
    <2>1. T \in SUBSET Nat
      OBVIOUS
    <2>2. PICK k \in T : \A j \in T : k <= j
      BY <2>1, LeastNumber
    <2>3. k \in 0 .. N /\ at[k] # w[k]
      OBVIOUS
    <2>4. at[k] = (IF k = 0 THEN B ELSE 2 * at[k - 1]) /\ w[k] = (IF k = 0 THEN B ELSE 2 * w[k - 1])
      BY <1>5, <1>6, <2>3
    <2>5. k # 0 /\ k - 1 \in 0 .. N /\ ~(k <= k - 1)
      BY <2>3, <2>4
    <2>6. at[k - 1] = w[k - 1]
      BY <2>2, <2>5
    <2>7. QED
      BY <2>3, <2>4, <2>5, <2>6
  <1>8. at = [k \in 0 .. N |-> at[k]]
    BY <1>6
  <1>9. at \in [0 .. N -> Nat \ {0}]
    BY <1>5, <1>7, <1>8
  <1>10. at[0] = B /\ \A k \in 0 .. N : k # 0 => at[k] = 2 * at[k - 1]
    BY <1>6
  <1>11. QED
    BY <1>1, <1>2, <1>3, <1>9, <1>10

(* The size of an order is a multiple of that of every lower one. *)
LEMMA SizesNest ==
  ASSUME NEW j \in Orders, NEW k \in Orders, j <= k
  PROVE  /\ Multiple(order_to_size[k], order_to_size[j]) /\ order_to_size[j] <= order_to_size[k]
         /\ j < k => 2 * order_to_size[j] <= order_to_size[k]
  <1>0. PICK Z \in [Orders -> Nat \ {0}] : Z = order_to_size
    BY SizeIs
  <1>1. Orders \subseteq Nat /\ \A i \in Orders : i # 0 => i - 1 \in Orders /\ Z[i] = 2 * Z[i - 1]
    BY <1>0, SizeIs, BuddyAssumption DEF Orders
  <1>2. ASSUME NEW i \in Orders
        PROVE  \A l \in Orders : i <= l => Multiple(Z[l], Z[i])
    <2> DEFINE T == {l \in Orders : i <= l /\ ~Multiple(Z[l], Z[i])}
    <2> SUFFICES ASSUME T # {} PROVE FALSE
      OBVIOUS
    <2>1. T \in SUBSET Nat
      BY <1>1
    <2>2. PICK l \in T : \A e \in T : l <= e
      BY <2>1, LeastNumber
    <2>3. l \in Orders /\ i <= l /\ ~Multiple(Z[l], Z[i]) /\ l \in Nat /\ i \in Nat
      BY <1>1
    <2>4. l # i
      <3>1. 1 \in Int /\ Z[i] = 1 * Z[i]
        OBVIOUS
      <3>2. Multiple(Z[i], Z[i])
        BY <3>1 DEF Multiple
      <3>3. QED
        BY <2>3, <3>2
    <2>5. l # 0 /\ i <= l - 1 /\ ~(l <= l - 1) /\ l - 1 \in Orders /\ Z[l] = 2 * Z[l - 1]
      BY <1>1, <2>3, <2>4
    <2>6. Multiple(Z[l - 1], Z[i])
      BY <2>2, <2>5
    <2>7. PICK q \in Int : Z[l - 1] = q * Z[i]
      BY <2>6 DEF Multiple
    <2>8. PICK s \in Nat : s = Z[i]
      OBVIOUS
    <2>9. Z[l] = (2 * q) * s /\ 2 * q \in Int
      <3>1. 2 * (q * s) = (2 * q) * s
        OBVIOUS
      <3>2. QED
        BY <2>5, <2>7, <2>8, <3>1
    <2>10. QED
      BY <2>3, <2>8, <2>9 DEF Multiple
  <1>3. ASSUME NEW i \in Orders, NEW l \in Orders, i <= l
        PROVE  Z[i] <= Z[l]
    <2>1. PICK s \in Nat \ {0}, z \in Nat \ {0} : s = Z[i] /\ z = Z[l]
      OBVIOUS
    <2>2. Multiple(z, s)
      BY <1>2, <1>3, <2>1
    <2>3. Multiple(s, s)
      <3>1. 1 \in Int /\ s = 1 * s
        OBVIOUS
      <3>2. QED
        BY <3>1 DEF Multiple
    <2>4. s < z + s
      OBVIOUS
    <2>5. s <= z
      BY <2>2, <2>3, <2>4, MultipleLess
    <2>6. QED
      BY <2>1, <2>5
  <1>4. ASSUME j < k PROVE 2 * Z[j] <= Z[k]
    <2>1. j + 1 \in Orders /\ j + 1 # 0 /\ j + 1 <= k /\ j + 1 - 1 = j
      BY <1>4, BuddyAssumption DEF Orders
    <2>2. Z[j + 1] = 2 * Z[j]
      BY <1>1, <2>1
    <2>3. QED
      BY <1>3, <2>1, <2>2
  <1>5. QED
    BY <1>0, <1>2, <1>3, <1>4

(* The orders, and the size of each: it doubles from one to the next.      *)
LEMMA OrderTypes ==
  /\ MaxOrder \in Nat /\ MaxOrder \in Orders /\ 0 \in Orders /\ Orders \subseteq Nat
  /\ PoolSize \in Nat \ {0} /\ \A k \in Orders : order_to_size[k] \in Nat \ {0} /\ k <= MaxOrder
  /\ \A k \in Orders : k < MaxOrder => k + 1 \in Orders /\ order_to_size[k + 1] = 2 * order_to_size[k]
  /\ \A k \in Orders : k # 0 => k - 1 \in Orders /\ order_to_size[k] = 2 * order_to_size[k - 1]
  /\ \A k \in Orders : k # MaxOrder => k < MaxOrder
  <1>1. /\ MaxOrder \in Nat /\ MaxOrder \in Orders /\ 0 \in Orders /\ Orders \subseteq Nat
        /\ \A k \in Orders : k <= MaxOrder
        /\ \A k \in Orders : k < MaxOrder => k + 1 \in Orders \ {0} /\ k + 1 - 1 = k
        /\ \A k \in Orders : k # 0 => k - 1 \in Orders
        /\ \A k \in Orders : k # MaxOrder => k < MaxOrder
    BY BuddyAssumption DEF Orders
  <1>2. \A k \in Orders : order_to_size[k] \in Nat \ {0}
    BY SizeIs
  <1>3. PoolSize \in Nat \ {0}
    BY <1>1, <1>2 DEF PoolSize
  <1>4. \A k \in Orders : k < MaxOrder => order_to_size[k + 1] = 2 * order_to_size[k]
    BY <1>1, SizeIs
  <1>5. \A k \in Orders : k # 0 => order_to_size[k] = 2 * order_to_size[k - 1]
    BY SizeIs
  <1>6. QED
    BY <1>1, <1>2, <1>3, <1>4, <1>5

(* The blocks of an order are the multiples of its size in the pool. *)
LEMMA AlignedIs ==
  ASSUME NEW a \in Int, NEW k \in Orders
  PROVE  <<a, k>> \in Aligned <=> a \in 0 .. PoolSize - 1 /\ Multiple(a, order_to_size[k])
  <1>1. PICK z \in Nat \ {0} : z = order_to_size[k]
    BY OrderTypes
  <1>2. PICK mb \in Nat \ {0} : mb = MinBlock
    BY BuddyAssumption
  <1>3. Multiple(z, mb) /\ mb = order_to_size[0]
    <2>1. 0 \in Orders /\ 0 <= k
      BY OrderTypes
    <2>2. QED
      BY <1>1, <1>2, <2>1, SizesNest, SizeIs
  <1>4. <<a, k>> \in Aligned <=> a \in Addresses /\ a % z = 0
    BY <1>1 DEF Aligned
  <1>5. a \in Addresses <=> a \in 0 .. PoolSize - 1 /\ a % mb = 0
    BY <1>2 DEF Addresses
  <1>6. a % z = 0 <=> Multiple(a, z)
    BY MultipleMod
  <1>7. Multiple(a, z) => Multiple(a, mb)
    BY <1>3, MultipleTrans
  <1>8. Multiple(a, mb) <=> a % mb = 0
    BY MultipleMod
  <1>9. QED
    BY <1>1, <1>4, <1>5, <1>6, <1>7, <1>8

(* An aligned block lies within the pool.                                  *)
LEMMA AlignedParts ==
  ASSUME NEW x \in Aligned
  PROVE  /\ x = <<x[1], x[2]>> /\ x[1] \in Addresses /\ x[1] \in Nat /\ x[1] \in Int /\ x[2] \in Orders
         /\ x[1] \in 0 .. PoolSize - 1 /\ Multiple(x[1], order_to_size[x[2]])
         /\ x[1] + order_to_size[x[2]] <= PoolSize
         /\ x[1] \in Span(x[1], x[2]) /\ Span(x[1], x[2]) \subseteq 0 .. PoolSize - 1
  <1>1. x = <<x[1], x[2]>> /\ x[1] \in Addresses /\ x[2] \in Orders
    BY DEF Aligned
  <1>2. PICK a \in Int, k \in Orders : a = x[1] /\ k = x[2]
    BY <1>1, OrderTypes DEF Addresses
  <1>3. a \in 0 .. PoolSize - 1 /\ Multiple(a, order_to_size[k])
    BY <1>1, <1>2, AlignedIs
  <1>4. PICK z \in Nat \ {0} : z = order_to_size[k]
    BY OrderTypes
  <1>5. PICK n \in Nat \ {0} : n = PoolSize
    BY OrderTypes
  <1>6. Multiple(n, z)
    <2>1. k <= MaxOrder /\ MaxOrder \in Orders
      BY OrderTypes
    <2>2. QED
      BY <1>4, <1>5, <2>1, SizesNest DEF PoolSize
  <1>7. a + z <= n
    <2>1. Multiple(z, z)
      <3>1. 1 \in Int /\ z = 1 * z
        OBVIOUS
      <3>2. QED
        BY <3>1 DEF Multiple
    <2>2. Multiple(a + z, z) /\ a + z \in Int
      <3>1. Multiple(a, z) /\ z \in Int
        BY <1>3, <1>4
      <3>2. Multiple(a + z, z)
        BY <2>1, <3>1, MultipleSum
      <3>3. QED
        BY <3>2
    <2>3. a + z < n + z
      BY <1>3, <1>5
    <2>4. QED
      BY <1>6, <2>2, <2>3, MultipleLess
  <1>8. a \in a .. a + z - 1 /\ a .. a + z - 1 \subseteq 0 .. n - 1
    BY <1>3, <1>5, <1>7
  <1>9. a \in Nat
    BY <1>3, <1>5
  <1>10. QED
    BY <1>1, <1>2, <1>3, <1>4, <1>5, <1>7, <1>8, <1>9 DEF Span

(* Two blocks that meet lie one in the other. *)
LEMMA BlocksNest ==
  ASSUME NEW x \in Aligned, NEW y \in Aligned, x[2] <= y[2],
         Span(x[1], x[2]) \cap Span(y[1], y[2]) # {}
  PROVE  /\ Span(x[1], x[2]) \subseteq Span(y[1], y[2])
         /\ y[1] <= x[1] /\ x[1] + order_to_size[x[2]] <= y[1] + order_to_size[y[2]]
  <1>1. PICK a \in Int, j \in Orders : a = x[1] /\ j = x[2] /\ Multiple(a, order_to_size[j])
    BY AlignedParts
  <1>2. PICK b \in Int, k \in Orders : b = y[1] /\ k = y[2] /\ Multiple(b, order_to_size[k])
    BY AlignedParts
  <1>3. PICK s \in Nat \ {0}, z \in Nat \ {0} : s = order_to_size[j] /\ z = order_to_size[k]
    BY OrderTypes
  <1>4. Multiple(a, s) /\ Multiple(b, z) /\ Multiple(z, s)
    BY <1>1, <1>2, <1>3, SizesNest
  <1>5. Multiple(b, s) /\ Multiple(b + z, s) /\ b + z \in Int
    <2>1. Multiple(b, s)
      BY <1>4, MultipleTrans
    <2>2. QED
      BY <1>4, <2>1, MultipleSum
  <1>6. PICK p \in Int : p \in a .. a + s - 1 /\ p \in b .. b + z - 1
    BY <1>1, <1>2, <1>3 DEF Span
  <1>7. b < a + s /\ a < b + z
    BY <1>6
  <1>8. b <= a
    BY <1>4, <1>5, <1>7, MultipleLess
  <1>9. a + s <= b + z
    <2>1. Multiple(s, s)
      <3>1. 1 \in Int /\ s = 1 * s
        OBVIOUS
      <3>2. QED
        BY <3>1 DEF Multiple
    <2>2. Multiple(a + s, s) /\ a + s \in Int
      BY <1>4, <2>1, MultipleSum
    <2>3. a + s < (b + z) + s
      BY <1>7
    <2>4. QED
      BY <1>5, <2>2, <2>3, MultipleLess
  <1>10. a .. a + s - 1 \subseteq b .. b + z - 1
    BY <1>8, <1>9
  <1>11. QED
    BY <1>1, <1>2, <1>3, <1>8, <1>9, <1>10 DEF Span

(* A block and its buddy are the halves of a block of the next order. *)
LEMMA Halves ==
  ASSUME NEW a \in Int, NEW k \in Orders, k < MaxOrder, <<a, k + 1>> \in Aligned
  PROVE  LET z == order_to_size[k] IN
         /\ <<a, k>> \in Aligned /\ <<a + z, k>> \in Aligned
         /\ Span(a, k) \cup Span(a + z, k) = Span(a, k + 1) /\ Span(a, k) \cap Span(a + z, k) = {}
         /\ Buddy(a, k) = a + z /\ Buddy(a + z, k) = a
  <1>1. PICK z \in Nat \ {0} : z = order_to_size[k]
    BY OrderTypes
  <1>2. k + 1 \in Orders /\ order_to_size[k + 1] = 2 * z
    BY <1>1, OrderTypes
  <1>3. PICK n \in Nat \ {0} : n = PoolSize
    BY OrderTypes
  <1>4. PICK y : y = <<a, k + 1>>
    OBVIOUS
  <1>5. y \in Aligned /\ y[1] = a /\ y[2] = k + 1
    BY <1>4
  <1>6. a \in 0 .. n - 1 /\ Multiple(a, 2 * z) /\ a + 2 * z <= n
    BY <1>2, <1>3, <1>5, AlignedParts
  <1>7. PICK q \in Int : a = q * (2 * z)
    BY <1>6 DEF Multiple
  <1>8. q * (2 * z) = (2 * q) * z /\ (2 * q + 1) * z = (2 * q) * z + z /\ 2 * q \in Int /\ 2 * q + 1 \in Int
    OBVIOUS
  <1>9. a = (2 * q) * z /\ a + z = (2 * q + 1) * z
    BY <1>7, <1>8
  <1>10. Multiple(a, z) /\ Multiple(a + z, z) /\ a + z \in Int /\ a + z \in 0 .. n - 1
    BY <1>6, <1>8, <1>9 DEF Multiple
  <1>11. <<a, k>> \in Aligned /\ <<a + z, k>> \in Aligned
    BY <1>1, <1>3, <1>6, <1>10, AlignedIs
  <1>12. /\ (a .. a + z - 1) \cup (a + z .. a + z + z - 1) = a .. a + 2 * z - 1
         /\ (a .. a + z - 1) \cap (a + z .. a + z + z - 1) = {}
    OBVIOUS
  <1>13. Span(a, k) \cup Span(a + z, k) = Span(a, k + 1) /\ Span(a, k) \cap Span(a + z, k) = {}
    BY <1>1, <1>2, <1>12 DEF Span
  <1>14. a \div z = 2 * q /\ (a + z) \div z = 2 * q + 1
    BY <1>8, <1>9, <1>10, MultipleMod
  <1>15. (2 * q) % 2 = 0 /\ (2 * q + 1) % 2 = 1
    OBVIOUS
  <1>16. Buddy(a, k) = a + z
    BY <1>1, <1>14, <1>15 DEF Buddy
  <1>17. Buddy(a + z, k) = a
    <2>1. Buddy(a + z, k) = a + z - z
      BY <1>1, <1>14, <1>15 DEF Buddy
    <2>2. QED
      BY <2>1
  <1>18. QED
    BY <1>1, <1>11, <1>13, <1>16, <1>17

(* The lower of a block and its buddy is the block of the next order they  *)
(* make, as deallocate() computes it.                                      *)
LEMMA BuddyIs ==
  ASSUME NEW a \in Int, NEW k \in Orders, k < MaxOrder, <<a, k>> \in Aligned
  PROVE  \E m \in Int :
           /\ <<m, k + 1>> \in Aligned /\ m = (IF a < Buddy(a, k) THEN a ELSE Buddy(a, k))
           /\ \/ a = m /\ Buddy(a, k) = m + order_to_size[k]
              \/ a = m + order_to_size[k] /\ Buddy(a, k) = m
  <1>1. PICK z \in Nat \ {0} : z = order_to_size[k]
    BY OrderTypes
  <1>2. k + 1 \in Orders /\ order_to_size[k + 1] = 2 * z
    BY <1>1, OrderTypes
  <1>3. a \in 0 .. PoolSize - 1 /\ Multiple(a, z)
    BY <1>1, AlignedIs
  <1>4. PICK q \in Int : a = q * z
    BY <1>3 DEF Multiple
  <1>5. a \div z = q
    BY <1>4, MultipleMod
  <1>6. CASE q % 2 = 0
    <2>1. PICK r \in Int : q = 2 * r
      <3>1. q \div 2 \in Int /\ q = 2 * (q \div 2) + (q % 2)
        OBVIOUS
      <3>2. QED
        BY <1>6, <3>1
    <2>2. (2 * r) * z = r * (2 * z)
      OBVIOUS
    <2>3. Multiple(a, 2 * z)
      BY <1>4, <2>1, <2>2 DEF Multiple
    <2>4. <<a, k + 1>> \in Aligned
      BY <1>2, <1>3, <2>3, AlignedIs
    <2>5. Buddy(a, k) = a + z
      BY <1>1, <1>5, <1>6 DEF Buddy
    <2>6. a < a + z
      OBVIOUS
    <2>7. QED
      BY <1>1, <2>4, <2>5, <2>6
  <1>7. CASE q % 2 # 0
    <2>1. PICK r \in Int : q = 2 * r + 1
      <3>1. q \div 2 \in Int /\ q = 2 * (q \div 2) + (q % 2) /\ q % 2 \in 0 .. 1
        OBVIOUS
      <3>2. QED
        BY <1>7, <3>1
    <2>2. (2 * r + 1) * z - z = r * (2 * z) /\ (2 * r + 1) * z \in Int
      OBVIOUS
    <2>3. Multiple(a - z, 2 * z) /\ a - z \in Int /\ a - z = r * (2 * z)
      BY <1>4, <2>1, <2>2 DEF Multiple
    <2>4. a - z \in 0 .. PoolSize - 1
      <3>1. ~(q < 0)
        <4> SUFFICES ASSUME q < 0 PROVE FALSE
          OBVIOUS
        <4>1. q * z + z <= 0 * z /\ 0 * z = 0
          BY Multiples
        <4>2. QED
          BY <1>3, <1>4, <4>1, OrderTypes
      <3>2. 1 <= q
        BY <2>1, <3>1
      <3>3. 1 * z <= q * z /\ 1 * z = z
        BY <3>2, Multiples
      <3>4. QED
        BY <1>3, <1>4, <3>3, OrderTypes
    <2>5. <<a - z, k + 1>> \in Aligned
      BY <1>2, <2>3, <2>4, AlignedIs
    <2>6. Buddy(a, k) = a - z
      BY <1>1, <1>5, <1>7 DEF Buddy
    <2>7. ~(a < a - z) /\ a = (a - z) + z
      OBVIOUS
    <2>8. QED
      BY <1>1, <2>3, <2>5, <2>6, <2>7
  <1>8. QED
    BY <1>6, <1>7

(* Blocks that do not meet, and blocks that also fill the pool. *)
Disjoint(P) == \A x, y \in P : x # y => Span(x[1], x[2]) \cap Span(y[1], y[2]) = {}
Partition(P) ==
  /\ P \subseteq Aligned /\ Disjoint(P)
  /\ Covered(P) = 0 .. PoolSize - 1

(* No two buddies are free. *)
NoFreeBuddies(F) == \A x \in F : x[2] < MaxOrder => <<Buddy(x[1], x[2]), x[2]>> \notin F

(* A byte is covered by the block it lies in.                              *)
LEMMA CoveredIs ==
  ASSUME NEW P, NEW p
  PROVE  p \in Covered(P) <=> \E x \in P : p \in Span(x[1], x[2])
  BY DEF Covered

(* Blocks are replaced by others on the same bytes. *)
LEMMA Replace ==
  ASSUME NEW P, Partition(P), NEW X \in SUBSET P, NEW Q \in SUBSET Aligned,
         Disjoint(Q), Covered(Q) = Covered(X)
  PROVE  Partition((P \ X) \cup Q) /\ (P \ X) \cap Q = {}
  <1>1. ASSUME NEW x \in P \ X, NEW p \in Span(x[1], x[2])
        PROVE  p \notin Covered(Q)
    <2> SUFFICES ASSUME p \in Covered(X) PROVE FALSE
      OBVIOUS
    <2>1. PICK y \in X : p \in Span(y[1], y[2])
      BY CoveredIs
    <2>2. x # y /\ x \in P /\ y \in P
      OBVIOUS
    <2>3. QED
      BY <1>1, <2>1, <2>2 DEF Partition, Disjoint
  <1>2. ASSUME NEW x \in P \ X, NEW y \in Q
        PROVE  Span(x[1], x[2]) \cap Span(y[1], y[2]) = {}
    <2> SUFFICES ASSUME NEW p \in Span(x[1], x[2]), p \in Span(y[1], y[2]) PROVE FALSE
      OBVIOUS
    <2>1. p \in Covered(Q)
      BY CoveredIs
    <2>2. QED
      BY <1>1, <2>1
  <1>3. (P \ X) \cap Q = {}
    <2> SUFFICES ASSUME NEW x \in P \ X, x \in Q PROVE FALSE
      OBVIOUS
    <2>1. x[1] \in Span(x[1], x[2])
      BY AlignedParts
    <2>2. QED
      BY <1>2, <2>1
  <1>4. \A x, y \in (P \ X) \cup Q : x # y => Span(x[1], x[2]) \cap Span(y[1], y[2]) = {}
    <2> SUFFICES ASSUME NEW x \in (P \ X) \cup Q, NEW y \in (P \ X) \cup Q, x # y
                 PROVE  Span(x[1], x[2]) \cap Span(y[1], y[2]) = {}
      OBVIOUS
    <2>1. CASE x \in P \ X /\ y \in P \ X
      BY <2>1 DEF Partition, Disjoint
    <2>2. CASE x \in P \ X /\ y \in Q
      BY <1>2, <2>2
    <2>3. CASE x \in Q /\ y \in P \ X
      <3>1. Span(y[1], y[2]) \cap Span(x[1], x[2]) = {}
        BY <1>2, <2>3
      <3>2. QED
        BY <3>1
    <2>4. CASE x \in Q /\ y \in Q
      BY <2>4 DEF Disjoint
    <2>5. QED
      BY <2>1, <2>2, <2>3, <2>4
  <1>5. Covered((P \ X) \cup Q) = Covered(P)
    <2>1. ASSUME NEW p \in Covered(P)
          PROVE  p \in Covered((P \ X) \cup Q)
      <3>1. PICK x \in P : p \in Span(x[1], x[2])
        BY <2>1, CoveredIs
      <3>2. CASE x \in X
        <4>1. p \in Covered(X)
          BY <3>1, <3>2, CoveredIs
        <4>2. PICK y \in Q : p \in Span(y[1], y[2])
          BY <4>1, CoveredIs
        <4>3. QED
          BY <4>2, CoveredIs
      <3>3. CASE x \notin X
        BY <3>1, <3>3, CoveredIs
      <3>4. QED
        BY <3>2, <3>3
    <2>2. ASSUME NEW p \in Covered((P \ X) \cup Q)
          PROVE  p \in Covered(P)
      <3>1. PICK x \in (P \ X) \cup Q : p \in Span(x[1], x[2])
        BY <2>2, CoveredIs
      <3>2. CASE x \in P
        BY <3>1, <3>2, CoveredIs
      <3>3. CASE x \in Q
        <4>1. p \in Covered(X)
          BY <3>1, <3>3, CoveredIs
        <4>2. PICK y \in X : p \in Span(y[1], y[2])
          BY <4>1, CoveredIs
        <4>3. QED
          BY <4>2, CoveredIs
      <3>4. QED
        BY <3>1, <3>2, <3>3
    <2>3. QED
      BY <2>1, <2>2
  <1>6. QED
    BY <1>3, <1>4, <1>5 DEF Partition, Disjoint

(* A block is split down to a lower order. *)
Pieces(b, order, from) == {<<b + order_to_size[k], k>> : k \in order .. from - 1}
SplitBlocks(b, order, from) == {<<b, order>>} \cup Pieces(b, order, from)

(* What allocate() splits a block into are disjoint blocks on its bytes.   *)
LEMMA SplitIs ==
  ASSUME NEW b \in Int, NEW order \in Orders, NEW from \in Orders, order <= from, <<b, from>> \in Aligned
  PROVE  /\ SplitBlocks(b, order, from) \in SUBSET Aligned
         /\ Covered(SplitBlocks(b, order, from)) = Covered({<<b, from>>})
         /\ Disjoint(SplitBlocks(b, order, from))
         /\ \A k \in order .. from : <<b, k>> \in Aligned
         /\ <<b, order>> \notin Pieces(b, order, from)
  <1>1. PICK Q : Q = {<<b, order>>} \cup Pieces(b, order, from)
    OBVIOUS
  <1>0. PICK Z : Z = order_to_size
    OBVIOUS
  <1>2. \A k \in order .. from : k \in Orders /\ Z[k] \in Nat \ {0} /\ Z[k] <= Z[from]
    <2>1. order \in Nat /\ from \in Nat /\ from <= MaxOrder /\ MaxOrder \in Nat
      BY OrderTypes
    <2>2. \A k \in order .. from : k \in Orders /\ k <= from
      BY <2>1 DEF Orders
    <2>3. QED
      BY <1>0, <2>2, OrderTypes, SizesNest
  <1>3. \A k \in order .. from - 1 : k \in order .. from /\ k + 1 \in order .. from /\ Z[k + 1] = 2 * Z[k] /\ k < MaxOrder
    <2>1. order \in Nat /\ from \in Nat /\ from <= MaxOrder /\ MaxOrder \in Nat
      BY OrderTypes
    <2>2. \A k \in order .. from - 1 : k \in order .. from /\ k + 1 \in order .. from /\ k < MaxOrder
      BY <2>1
    <2>3. QED
      BY <1>0, <1>2, <2>2, OrderTypes
  <1>4. PICK n \in Nat \ {0} : n = PoolSize
    BY OrderTypes
  <1>5. b \in 0 .. n - 1 /\ Multiple(b, Z[from]) /\ b + Z[from] <= n
    <2>1. PICK y : y = <<b, from>>
      OBVIOUS
    <2>2. y \in Aligned /\ y[1] = b /\ y[2] = from
      BY <2>1
    <2>3. QED
      BY <1>0, <1>4, <2>2, AlignedParts
  <1>6. ASSUME NEW k \in order .. from
        PROVE  <<b, k>> \in Aligned
    <2>1. k \in Orders /\ k <= from /\ from \in Orders
      BY <1>2, OrderTypes
    <2>2. PICK s \in Nat \ {0}, z \in Nat \ {0} : s = Z[k] /\ z = Z[from]
      BY <1>2, OrderTypes, <1>0
    <2>3. Multiple(z, s) /\ Multiple(b, z)
      BY <1>0, <1>5, <2>1, <2>2, SizesNest
    <2>4. Multiple(b, s)
      BY <2>3, MultipleTrans
    <2>5. QED
      BY <1>0, <1>4, <1>5, <2>1, <2>2, <2>4, AlignedIs
  <1>7. ASSUME NEW k \in order .. from - 1
        PROVE  <<b + Z[k], k>> \in Aligned /\ Span(b + Z[k], k) = b + Z[k] .. b + Z[k + 1] - 1
    <2>1. k \in Orders /\ k < MaxOrder /\ <<b, k + 1>> \in Aligned
      BY <1>2, <1>3, <1>6
    <2>2. <<b + Z[k], k>> \in Aligned
      BY <1>0, <2>1, Halves
    <2>3. PICK z \in Nat \ {0} : z = Z[k]
      BY <1>2, <1>3
    <2>4. b + z + z - 1 = b + 2 * z - 1
      OBVIOUS
    <2>5. Span(b + z, k) = b + z .. b + 2 * z - 1
      BY <1>0, <2>3, <2>4 DEF Span
    <2>6. QED
      BY <1>3, <2>2, <2>3, <2>5
  <1>8. Q \in SUBSET Aligned
    <2>1. order \in order .. from
      BY OrderTypes
    <2>2. QED
      BY <1>0, <1>1, <1>6, <1>7, <2>1 DEF Pieces
  <1>9. \A j, k \in order .. from : j <= k => Z[j] <= Z[k]
    BY <1>0, <1>2, SizesNest
  <1>10. Span(b, order) = b .. b + Z[order] - 1 /\ Span(b, from) = b .. b + Z[from] - 1
    BY <1>0 DEF Span
  <1>11. ASSUME NEW p \in Span(b, from)
         PROVE  \E x \in Q : p \in Span(x[1], x[2])
    <2>0. p \in Int /\ b <= p /\ p < b + Z[from]
      <3>1. Z[from] \in Nat
        BY <1>0, OrderTypes
      <3>2. QED
        BY <1>10, <1>11, <3>1
    <2>1. CASE p < b + Z[order]
      <3>1. Z[order] \in Nat
        BY <1>0, OrderTypes
      <3>2. p \in Span(b, order)
        BY <1>10, <2>0, <2>1, <3>1
      <3>3. PICK x : x = <<b, order>>
        OBVIOUS
      <3>4. x \in Q /\ x[1] = b /\ x[2] = order
        BY <1>1, <3>3
      <3>5. QED
        BY <3>2, <3>4
    <2>2. CASE ~(p < b + Z[order])
      <3> DEFINE T == {k \in order .. from : p < b + Z[k]}
      <3>1. T \in SUBSET Nat /\ from \in T
        BY <2>0, OrderTypes
      <3>2. PICK k \in T : \A e \in T : k <= e
        BY <3>1, LeastNumber
      <3>3. k \in order .. from /\ p < b + Z[k] /\ k # order /\ order \in Nat /\ from \in Nat
        BY <2>2, OrderTypes
      <3>4. PICK j \in order .. from - 1 : j + 1 = k
        <4>1. k - 1 \in order .. from - 1 /\ k - 1 + 1 = k
          BY <3>3
        <4>2. QED
          BY <4>1
      <3>5. ~(k <= j) /\ j \in order .. from
        BY <3>3, <3>4
      <3>6. ~(p < b + Z[j])
        BY <3>2, <3>5
      <3>7. p \in Span(b + Z[j], j)
        <4>1. Z[j] \in Nat /\ Z[k] \in Nat
          BY <1>2, <3>3, <3>5
        <4>2. p \in b + Z[j] .. b + Z[k] - 1
          BY <2>0, <3>3, <3>6, <4>1
        <4>3. QED
          BY <1>7, <3>4, <4>2
      <3>8. PICK x : x = <<b + Z[j], j>>
        OBVIOUS
      <3>9. x \in Q /\ x[1] = b + Z[j] /\ x[2] = j
        BY <1>0, <1>1, <3>4, <3>8 DEF Pieces
      <3>10. QED
        BY <3>7, <3>9
    <2>3. QED
      BY <2>1, <2>2
  <1>12. ASSUME NEW x \in Q
         PROVE  Span(x[1], x[2]) \subseteq Span(b, from)
    <2>1. CASE x = <<b, order>>
      <3>1. x[1] = b /\ x[2] = order /\ order \in order .. from
        BY <2>1, OrderTypes
      <3>2. Z[order] <= Z[from] /\ Z[order] \in Nat /\ Z[from] \in Nat
        BY <1>2, <3>1, <1>0, OrderTypes
      <3>3. b .. b + Z[order] - 1 \subseteq b .. b + Z[from] - 1
        BY <3>2
      <3>4. QED
        BY <1>10, <3>1, <3>3
    <2>2. CASE x # <<b, order>>
      <3>1. PICK k \in order .. from - 1 : x = <<b + Z[k], k>>
        BY <1>0, <1>1, <2>2 DEF Pieces
      <3>2. x[1] = b + Z[k] /\ x[2] = k
        BY <3>1
      <3>3. k \in order .. from /\ k + 1 \in order .. from
        BY <1>3
      <3>4. Z[k] \in Nat /\ Z[k + 1] \in Nat /\ Z[k + 1] <= Z[from] /\ Z[from] \in Nat
        BY <1>2, <3>3, <1>0, OrderTypes
      <3>5. b + Z[k] .. b + Z[k + 1] - 1 \subseteq b .. b + Z[from] - 1
        BY <3>4
      <3>6. QED
        BY <1>7, <1>10, <3>2, <3>5
    <2>3. QED
      BY <2>1, <2>2
  <1>13. Covered(Q) = Covered({<<b, from>>})
    <2>1. Covered({<<b, from>>}) = Span(b, from)
      <3>1. <<b, from>>[1] = b /\ <<b, from>>[2] = from
        OBVIOUS
      <3>2. QED
        BY <3>1 DEF Covered
    <2>2. Covered(Q) = Span(b, from)
      BY <1>11, <1>12, CoveredIs
    <2>3. QED
      BY <2>1, <2>2
  <1>14. ASSUME NEW j \in order .. from - 1, NEW k \in order .. from - 1, j < k
         PROVE  Span(b + Z[j], j) \cap Span(b + Z[k], k) = {}
    <2>1. j + 1 \in order .. from /\ k \in order .. from /\ j + 1 <= k /\ j \in order .. from /\ k + 1 \in order .. from
      BY <1>3, <1>14, OrderTypes
    <2>2. Z[j + 1] <= Z[k] /\ Z[j + 1] \in Nat /\ Z[k] \in Nat /\ Z[j] \in Nat /\ Z[k + 1] \in Nat
      BY <1>2, <1>9, <2>1
    <2>3. (b + Z[j] .. b + Z[j + 1] - 1) \cap (b + Z[k] .. b + Z[k + 1] - 1) = {}
      BY <2>2
    <2>4. QED
      BY <1>7, <2>3
  <1>15. ASSUME NEW k \in order .. from - 1
         PROVE  Span(b, order) \cap Span(b + Z[k], k) = {} /\ b + Z[k] # b
    <2>1. order \in order .. from /\ k \in order .. from /\ k + 1 \in order .. from /\ order <= k
      BY <1>3, OrderTypes
    <2>2. Z[order] <= Z[k] /\ Z[order] \in Nat /\ Z[k] \in Nat \ {0} /\ Z[k + 1] \in Nat
      BY <1>2, <1>9, <2>1
    <2>3. (b .. b + Z[order] - 1) \cap (b + Z[k] .. b + Z[k + 1] - 1) = {} /\ b + Z[k] # b
      BY <2>2
    <2>4. QED
      BY <1>7, <1>10, <2>3
  <1>16. ASSUME NEW x \in Q, NEW y \in Q, x # y
         PROVE  Span(x[1], x[2]) \cap Span(y[1], y[2]) = {}
    <2>1. \A w \in Q : \/ w = <<b, order>> /\ w[1] = b /\ w[2] = order
                       \/ \E k \in order .. from - 1 : w = <<b + Z[k], k>> /\ w[1] = b + Z[k] /\ w[2] = k
      BY <1>0, <1>1 DEF Pieces
    <2>2. CASE x = <<b, order>>
      <3>1. PICK k \in order .. from - 1 : y[1] = b + Z[k] /\ y[2] = k
        BY <1>16, <2>1, <2>2
      <3>2. x[1] = b /\ x[2] = order
        BY <2>2
      <3>3. QED
        BY <1>15, <3>1, <3>2
    <2>3. CASE y = <<b, order>>
      <3>1. PICK k \in order .. from - 1 : x[1] = b + Z[k] /\ x[2] = k
        BY <1>16, <2>1, <2>3
      <3>2. y[1] = b /\ y[2] = order
        BY <2>3
      <3>3. Span(b, order) \cap Span(b + Z[k], k) = {}
        BY <1>15
      <3>4. QED
        BY <3>1, <3>2, <3>3
    <2>4. CASE x # <<b, order>> /\ y # <<b, order>>
      <3>1. PICK j \in order .. from - 1 : x = <<b + Z[j], j>> /\ x[1] = b + Z[j] /\ x[2] = j
        BY <2>1, <2>4
      <3>2. PICK k \in order .. from - 1 : y = <<b + Z[k], k>> /\ y[1] = b + Z[k] /\ y[2] = k
        BY <2>1, <2>4
      <3>3. j # k
        BY <1>16, <3>1, <3>2
      <3>4. j < k \/ k < j
        BY <3>3, OrderTypes
      <3>5. CASE j < k
        BY <1>14, <3>1, <3>2, <3>5
      <3>6. CASE k < j
        <4>1. Span(b + Z[k], k) \cap Span(b + Z[j], j) = {}
          BY <1>14, <3>6
        <4>2. QED
          BY <3>1, <3>2, <4>1
      <3>7. QED
        BY <3>4, <3>5, <3>6
    <2>5. QED
      BY <2>2, <2>3, <2>4
  <1>17. <<b, order>> \notin Pieces(b, order, from)
    BY <1>0, <1>15 DEF Pieces
  <1>18. Disjoint(Q)
    BY <1>16 DEF Disjoint
  <1>19. Q = SplitBlocks(b, order, from)
    BY <1>1 DEF SplitBlocks
  <1>20. QED
    BY <1>6, <1>8, <1>13, <1>17, <1>18, <1>19

(* The addresses in a free list. *)
Elems(s) == {s[i] : i \in DOMAIN s}

(* A free list: each address is in it once. *)
FreeList(s) == s \in Seq(Addresses) /\ IsInjective(s)

(* A free list as a function, with the test deallocate() makes of it.      *)
LEMMA FreeListIs ==
  ASSUME NEW s, FreeList(s)
  PROVE  /\ Len(s) \in Nat /\ DOMAIN s = 1 .. Len(s) /\ s \in [1 .. Len(s) -> Addresses]
         /\ Elems(s) \subseteq Addresses
         /\ \A i, j \in 1 .. Len(s) : s[i] = s[j] => i = j
         /\ \A a : a \in Elems(s) <=> \E i \in 1 .. Len(s) : s[i] = a
         /\ \A a : Contains(s, a) <=> a \in Elems(s)
         /\ s # <<>> => Len(s) # 0
  <1>1. s \in Seq(Addresses)
    BY DEF FreeList
  <1>2. Len(s) \in Nat /\ DOMAIN s = 1 .. Len(s) /\ s \in [1 .. Len(s) -> Addresses]
    BY <1>1, LenProperties
  <1>3. \A i, j \in 1 .. Len(s) : s[i] = s[j] => i = j
    BY <1>2 DEF FreeList, IsInjective
  <1>4. \A a : a \in Elems(s) <=> \E i \in 1 .. Len(s) : s[i] = a
    BY <1>2 DEF Elems
  <1>5. \A a : Contains(s, a) <=> a \in Elems(s)
    BY <1>4 DEF Contains
  <1>6. Elems(s) \subseteq Addresses
    BY <1>2, <1>4
  <1>7. s # <<>> => Len(s) # 0
    BY <1>1
  <1>8. QED
    BY <1>2, <1>3, <1>4, <1>5, <1>6, <1>7

(* push_back of an address that is not in the list.                        *)
LEMMA Pushed ==
  ASSUME NEW s, FreeList(s), NEW a \in Addresses, a \notin Elems(s)
  PROVE  FreeList(Append(s, a)) /\ Elems(Append(s, a)) = Elems(s) \cup {a}
  <1>1. PICK n \in Nat : n = Len(s)
    BY FreeListIs
  <1>2. PICK t : t = Append(s, a)
    OBVIOUS
  <1>3. /\ t \in Seq(Addresses) /\ Len(t) = n + 1 /\ DOMAIN t = 1 .. n + 1
        /\ \A i \in 1 .. n : t[i] = s[i]
        /\ t[n + 1] = a
    <2>1. s \in Seq(Addresses)
      BY DEF FreeList
    <2>2. t \in Seq(Addresses) /\ Len(t) = n + 1
      BY <1>1, <1>2, <2>1, AppendProperties
    <2>3. \A i \in 1 .. n : t[i] = s[i]
      BY <1>1, <1>2, <2>1, AppendProperties
    <2>4. t[n + 1] = a
      BY <1>1, <1>2, <2>1, AppendProperties
    <2>5. QED
      BY <2>2, <2>3, <2>4, LenProperties
  <1>4. \A i \in 1 .. n + 1 : i \in 1 .. n \/ i = n + 1
    OBVIOUS
  <1>5. \A i \in 1 .. n : t[i] # a
    BY <1>1, <1>3, FreeListIs
  <1>6. ASSUME NEW i \in 1 .. n + 1, NEW j \in 1 .. n + 1, t[i] = t[j]
        PROVE  i = j
    <2>1. CASE i \in 1 .. n /\ j \in 1 .. n
      BY <1>1, <1>3, <1>6, <2>1, FreeListIs
    <2>2. CASE ~(i \in 1 .. n /\ j \in 1 .. n)
      BY <1>3, <1>4, <1>5, <1>6, <2>2
    <2>3. QED
      BY <2>1, <2>2
  <1>7. FreeList(t)
    BY <1>3, <1>6 DEF FreeList, IsInjective
  <1>8. Elems(t) = Elems(s) \cup {a}
    <2>1. ASSUME NEW e \in Elems(t) PROVE e \in Elems(s) \cup {a}
      <3>1. PICK i \in 1 .. n + 1 : t[i] = e
        BY <1>3, <2>1 DEF Elems
      <3>2. QED
        BY <1>1, <1>3, <1>4, <3>1, FreeListIs
    <2>2. ASSUME NEW e \in Elems(s) PROVE e \in Elems(t)
      <3>1. PICK i \in 1 .. n : s[i] = e
        BY <1>1, <2>2, FreeListIs
      <3>2. i \in 1 .. n + 1 /\ t[i] = e
        BY <1>3, <3>1
      <3>3. QED
        BY <1>3, <3>2 DEF Elems
    <2>3. a \in Elems(t)
      <3>1. n + 1 \in 1 .. n + 1
        OBVIOUS
      <3>2. QED
        BY <1>3, <3>1 DEF Elems
    <2>4. QED
      BY <2>1, <2>2, <2>3
  <1>9. QED
    BY <1>2, <1>7, <1>8

(* Without the entry at position t. *)
LEMMA Dropped ==
  ASSUME NEW s, FreeList(s), NEW t \in 1 .. Len(s), NEW R \in Seq(Addresses), Len(R) = Len(s) - 1,
         \A i \in 1 .. Len(s) - 1 : R[i] = IF i < t THEN s[i] ELSE s[i + 1]
  PROVE  FreeList(R) /\ Elems(R) = Elems(s) \ {s[t]} /\ s[t] \in Elems(s)
  <1>1. PICK n \in Nat : n = Len(s)
    BY FreeListIs
  <1>2. DOMAIN R = 1 .. n - 1
    BY <1>1, LenProperties
  <1>3. \A i \in 1 .. n - 1 : (i < t => i \in 1 .. n /\ i # t /\ R[i] = s[i])
    BY <1>1
  <1>4. \A i \in 1 .. n - 1 : (~(i < t) => i + 1 \in 1 .. n /\ i + 1 # t /\ R[i] = s[i + 1])
    BY <1>1
  <1>5. \A i, j \in 1 .. n : s[i] = s[j] => i = j
    BY <1>1, FreeListIs
  <1>6. ASSUME NEW i \in 1 .. n - 1, NEW j \in 1 .. n - 1, R[i] = R[j]
        PROVE  i = j
    <2>1. CASE i < t /\ j < t
      BY <1>3, <1>5, <1>6, <2>1
    <2>2. CASE ~(i < t) /\ ~(j < t)
      <3>1. i + 1 = j + 1
        BY <1>4, <1>5, <1>6, <2>2
      <3>2. QED
        BY <3>1
    <2>3. CASE i < t /\ ~(j < t)
      <3>1. i = j + 1
        BY <1>3, <1>4, <1>5, <1>6, <2>3
      <3>2. QED
        BY <1>1, <2>3, <3>1
    <2>4. CASE ~(i < t) /\ j < t
      <3>1. j = i + 1
        BY <1>3, <1>4, <1>5, <1>6, <2>4
      <3>2. QED
        BY <1>1, <2>4, <3>1
    <2>5. QED
      BY <2>1, <2>2, <2>3, <2>4
  <1>7. FreeList(R)
    BY <1>2, <1>6 DEF FreeList, IsInjective
  <1>8. ASSUME NEW e \in Elems(R) PROVE e \in Elems(s) \ {s[t]}
    <2>1. PICK i \in 1 .. n - 1 : R[i] = e
      BY <1>2, <1>8 DEF Elems
    <2>2. PICK j \in 1 .. n : j # t /\ e = s[j]
      BY <1>3, <1>4, <2>1
    <2>3. s[j] # s[t]
      BY <1>1, <1>5, <2>2
    <2>4. QED
      BY <1>1, <2>2, <2>3, FreeListIs
  <1>9. ASSUME NEW e \in Elems(s), e # s[t] PROVE e \in Elems(R)
    <2>1. PICK i \in 1 .. n : s[i] = e /\ i # t
      BY <1>1, <1>9, FreeListIs
    <2>2. CASE i < t
      <3>1. i \in 1 .. n - 1 /\ R[i] = e
        BY <1>1, <1>3, <2>1, <2>2
      <3>2. QED
        BY <1>2, <3>1 DEF Elems
    <2>3. CASE ~(i < t)
      <3>1. PICK j \in 1 .. n - 1 : j + 1 = i /\ ~(j < t)
        <4>1. i - 1 \in 1 .. n - 1 /\ i - 1 + 1 = i /\ ~(i - 1 < t)
          BY <1>1, <2>1, <2>3
        <4>2. QED
          BY <4>1
      <3>2. R[j] = e
        BY <1>4, <2>1, <3>1
      <3>3. QED
        BY <1>2, <3>2 DEF Elems
    <2>4. QED
      BY <2>2, <2>3
  <1>10. s[t] \in Elems(s)
    BY FreeListIs
  <1>11. QED
    BY <1>7, <1>8, <1>9, <1>10

(* back() and pop_back().                                                  *)
LEMMA Popped ==
  ASSUME NEW s, FreeList(s), s # <<>>
  PROVE  FreeList(Front(s)) /\ Last(s) \in Elems(s) /\ Elems(Front(s)) = Elems(s) \ {Last(s)}
  <1>1. s \in Seq(Addresses)
    BY DEF FreeList
  <1>2. PICK n \in Nat : n = Len(s) /\ n # 0
    BY FreeListIs
  <1>3. PICK R : R = Front(s)
    OBVIOUS
  <1>4. R \in Seq(Addresses) /\ Len(R) = n - 1 /\ \A i \in 1 .. n - 1 : R[i] = s[i]
    BY <1>1, <1>2, <1>3 DEF Front
  <1>5. n \in 1 .. n /\ \A i \in 1 .. n - 1 : i < n
    BY <1>2
  <1>6. \A i \in 1 .. n - 1 : R[i] = IF i < n THEN s[i] ELSE s[i + 1]
    BY <1>4, <1>5
  <1>7. FreeList(R) /\ Elems(R) = Elems(s) \ {s[n]} /\ s[n] \in Elems(s)
    BY <1>2, <1>4, <1>5, <1>6, Dropped
  <1>8. QED
    BY <1>2, <1>3, <1>7 DEF Last

(* find and erase.                                                         *)
LEMMA Erased ==
  ASSUME NEW s, FreeList(s), NEW a, a \in Elems(s)
  PROVE  FreeList(RemoveFirst(s, a)) /\ Elems(RemoveFirst(s, a)) = Elems(s) \ {a}
  <1>1. s \in Seq(Addresses)
    BY DEF FreeList
  <1>2. PICK n \in Nat : n = Len(s)
    BY FreeListIs
  <1>3. PICK t \in 1 .. n : s[t] = a
    BY <1>2, FreeListIs
  <1>4. PICK I : I = {i \in 1 .. n : s[i] = a}
    OBVIOUS
  <1>5. I = {t}
    BY <1>2, <1>3, <1>4, FreeListIs
  <1>6. Min(I) = t
    BY <1>5, <1>3 DEF Min
  <1>7. SelectInSeq(s, LAMBDA v : v = a) = t
    BY <1>2, <1>4, <1>5, <1>6 DEF SelectInSeq
  <1>8. PICK R : R = RemoveAt(s, t)
    OBVIOUS
  <1>9. RemoveFirst(s, a) = R
    BY <1>2, <1>3, <1>7, <1>8 DEF RemoveFirst
  <1> DEFINE x == SubSeq(s, 1, t - 1)
             y == SubSeq(s, t + 1, n)
  <1>10. n \in Nat /\ t \in Nat /\ 1 <= t /\ t <= n
    OBVIOUS
  <1>11. x \in Seq(Addresses) /\ Len(x) = t - 1 /\ \A i \in 1 .. t - 1 : x[i] = s[i]
    BY <1>1, <1>2, <1>10
  <1>12. y \in Seq(Addresses) /\ Len(y) = n - t /\ \A i \in 1 .. n - t : y[i] = s[i + t]
    BY <1>1, <1>2, <1>10
  <1>13. R = x \o y
    BY <1>2, <1>8 DEF RemoveAt
  <1> HIDE DEF x, y
  <1>14. R \in Seq(Addresses) /\ Len(R) = n - 1
    <2>1. R \in Seq(Addresses) /\ Len(R) = Len(x) + Len(y)
      BY <1>11, <1>12, <1>13, ConcatProperties
    <2>2. (t - 1) + (n - t) = n - 1
      BY <1>10
    <2>3. QED
      BY <1>11, <1>12, <2>1, <2>2
  <1>15. ASSUME NEW i \in 1 .. n - 1
         PROVE  R[i] = IF i < t THEN s[i] ELSE s[i + 1]
    <2>1. CASE i < t
      BY <1>10, <1>11, <1>12, <1>13, <2>1
    <2>2. CASE ~(i < t)
      <3>1. R[i] = y[i - (t - 1)]
        BY <1>10, <1>11, <1>12, <1>13, <2>2
      <3>2. i - (t - 1) \in 1 .. n - t /\ (i - (t - 1)) + t = i + 1
        BY <1>10, <2>2
      <3>3. QED
        BY <1>12, <2>2, <3>1, <3>2
    <2>3. QED
      BY <2>1, <2>2
  <1>16. FreeList(R) /\ Elems(R) = Elems(s) \ {s[t]}
    BY <1>2, <1>14, <1>15, Dropped
  <1>17. QED
    BY <1>3, <1>9, <1>16

(* The blocks in the free lists. *)
LEMMA BlocksInIs ==
  ASSUME NEW lists, NEW x
  PROVE  x \in BlocksIn(lists) <=> \E k \in Orders : \E a \in Elems(lists[k]) : x = <<a, k>>
  BY DEF BlocksIn, Elems

(* A block is free when its address is in the list of its order.           *)
LEMMA BlockIn ==
  ASSUME NEW lists, NEW a, NEW k
  PROVE  <<a, k>> \in BlocksIn(lists) <=> k \in Orders /\ a \in Elems(lists[k])
  BY BlocksInIs

(* size_to_order() finds an order.                                         *)
LEMMA OrderOf ==
  ASSUME NEW bytes \in Int
  PROVE  size_to_order(bytes) \in Orders
  <1> DEFINE T == {k \in Orders : order_to_size[k] >= bytes \/ k = MaxOrder}
  <1>1. T \in SUBSET Nat /\ MaxOrder \in T
    BY OrderTypes
  <1>2. PICK k \in T : \A j \in T : k <= j
    <2> HIDE DEF T
    <2>1. T # {}
      BY <1>1
    <2>2. QED
      BY <1>1, <2>1, LeastNumber
  <1>3. k \in Orders /\ k \in Nat /\ k <= MaxOrder /\ MaxOrder \in Nat
    BY OrderTypes
  <1>4. ASSUME NEW j \in 0 .. k - 1
        PROVE  order_to_size[j] < bytes
    <2>1. j \in Orders /\ ~(k <= j) /\ j # MaxOrder
      BY <1>3 DEF Orders
    <2>2. ~(order_to_size[j] >= bytes)
      BY <1>2, <2>1
    <2>3. order_to_size[j] \in Nat
      BY <2>1, OrderTypes
    <2>4. QED
      BY <2>2, <2>3
  <1>5. \E i \in Orders : /\ order_to_size[i] >= bytes \/ i = MaxOrder
                          /\ \A j \in 0 .. i - 1 : order_to_size[j] < bytes
    BY <1>3, <1>4
  <1>6. QED
    BY <1>5 DEF size_to_order

(* A block that lies in one of its own or a lower order is that block. *)
LEMMA SameBlock ==
  ASSUME NEW x \in Aligned, NEW y \in Aligned, y[2] <= x[2], Span(x[1], x[2]) \subseteq Span(y[1], y[2])
  PROVE  x = y
  <1>1. PICK a \in Int, j \in Orders : a = x[1] /\ j = x[2] /\ x = <<a, j>> /\ a \in Span(x[1], x[2])
    BY AlignedParts
  <1>2. PICK b \in Int, k \in Orders : b = y[1] /\ k = y[2] /\ y = <<b, k>>
    BY AlignedParts
  <1>3. PICK s \in Nat \ {0}, z \in Nat \ {0} : s = order_to_size[j] /\ z = order_to_size[k]
    BY OrderTypes
  <1>4. Span(a, j) = a .. a + s - 1 /\ Span(b, k) = b .. b + z - 1
    BY <1>3 DEF Span
  <1>5. a \in a .. a + s - 1 /\ a + s - 1 \in a .. a + s - 1
    OBVIOUS
  <1>6. a \in b .. b + z - 1 /\ a + s - 1 \in b .. b + z - 1
    BY <1>1, <1>2, <1>4, <1>5
  <1>7. k <= j /\ j \in Nat /\ k \in Nat
    BY <1>1, <1>2, OrderTypes
  <1>8. Span(y[1], y[2]) \cap Span(x[1], x[2]) # {}
    BY <1>1
  <1>9. a <= b
    BY <1>1, <1>2, <1>8, BlocksNest
  <1>10. a = b /\ s <= z
    BY <1>6, <1>9
  <1>11. ~(k < j)
    <2> SUFFICES ASSUME k < j PROVE FALSE
      OBVIOUS
    <2>1. 2 * z <= s
      BY <1>3, <1>7, SizesNest
    <2>2. QED
      BY <1>10, <2>1
  <1>12. k = j
    BY <1>7, <1>11
  <1>13. QED
    BY <1>1, <1>2, <1>10, <1>12

(* The buddy of the buddy is the block itself.                             *)
LEMMA BuddyTwice ==
  ASSUME NEW a \in Int, NEW k \in Orders, k < MaxOrder, <<a, k>> \in Aligned
  PROVE  /\ Buddy(a, k) \in Int /\ <<Buddy(a, k), k>> \in Aligned
         /\ Buddy(Buddy(a, k), k) = a /\ Buddy(a, k) # a
  <1>1. PICK z \in Nat \ {0} : z = order_to_size[k]
    BY OrderTypes
  <1>2. PICK m \in Int : /\ <<m, k + 1>> \in Aligned
                         /\ \/ a = m /\ Buddy(a, k) = m + z
                            \/ a = m + z /\ Buddy(a, k) = m
    BY <1>1, BuddyIs
  <1>3. /\ <<m, k>> \in Aligned /\ <<m + z, k>> \in Aligned
        /\ Buddy(m, k) = m + z /\ Buddy(m + z, k) = m
    BY <1>1, <1>2, Halves
  <1>4. m + z # m /\ m + z \in Int
    OBVIOUS
  <1>5. QED
    BY <1>2, <1>3, <1>4

(* Where no two buddies are free, a block that is wholly free lies in one  *)
(* free block.                                                             *)
LEMMA FreeMaximal ==
  ASSUME NEW F \in SUBSET Aligned, NoFreeBuddies(F), NEW x \in Aligned, Span(x[1], x[2]) \subseteq Covered(F)
  PROVE  \E y \in F : Span(x[1], x[2]) \subseteq Span(y[1], y[2])
  <1> DEFINE Bad(w) == /\ w \in Aligned /\ Span(w[1], w[2]) \subseteq Covered(F)
                       /\ \A y \in F : ~(Span(w[1], w[2]) \subseteq Span(y[1], y[2]))
             T == {k \in Orders : \E w : Bad(w) /\ w[2] = k}
  <1> SUFFICES ASSUME Bad(x) PROVE FALSE
    OBVIOUS
  <1>1. x[2] \in T
    <2>1. x[2] \in Orders
      BY AlignedParts
    <2> HIDE DEF Bad
    <2>2. QED
      BY <2>1
  <1>2. T \in SUBSET Nat
    BY OrderTypes
  <1>3. PICK k \in T : \A j \in T : k <= j
    <2> HIDE DEF T
    <2>1. T # {}
      BY <1>1
    <2>2. QED
      BY <1>2, <2>1, LeastNumber
  <1>4. PICK w : Bad(w) /\ w[2] = k
    <2> HIDE DEF Bad
    <2>1. QED
      OBVIOUS
  <1>5. k \in Orders /\ k \in Nat
    BY <1>2
  <1>6. PICK a \in Int : a = w[1] /\ w = <<a, k>> /\ a \in Span(a, k)
    BY <1>4, AlignedParts
  <1>7. PICK y0 \in F : a \in Span(y0[1], y0[2])
    BY <1>4, <1>6, CoveredIs
  <1>8. ~(k <= y0[2]) /\ y0 \in Aligned /\ y0[2] \in Orders
    <2>1. Span(w[1], w[2]) \cap Span(y0[1], y0[2]) # {}
      BY <1>4, <1>6, <1>7
    <2>2. ASSUME k <= y0[2] PROVE FALSE
      BY <1>4, <2>1, <2>2, BlocksNest
    <2>3. QED
      BY <2>2, AlignedParts
  <1>9. k # 0
    <2>1. PICK i \in Nat : i = y0[2]
      BY <1>8, OrderTypes
    <2>2. ~(k <= i)
      BY <1>8, <2>1
    <2>3. QED
      BY <2>2
  <1>10. PICK j \in Orders : j + 1 = k /\ j < MaxOrder /\ ~(k <= j) /\ \A i \in Orders : ~(k <= i) => i <= j
    <2>1. k - 1 \in Orders /\ k - 1 + 1 = k /\ k <= MaxOrder /\ MaxOrder \in Nat /\ Orders \subseteq Nat
      BY <1>5, <1>9, OrderTypes
    <2>2. k - 1 < MaxOrder /\ ~(k <= k - 1) /\ \A i \in Orders : ~(k <= i) => i <= k - 1
      BY <1>5, <2>1
    <2>3. QED
      BY <2>1, <2>2
  <1>11. PICK z \in Nat \ {0} : z = order_to_size[j]
    BY OrderTypes
  <1>12. /\ <<a, j>> \in Aligned /\ <<a + z, j>> \in Aligned
         /\ Span(a, j) \cup Span(a + z, j) = Span(a, k) /\ Buddy(a, j) = a + z
    <2>1. <<a, j + 1>> \in Aligned
      BY <1>4, <1>6, <1>10
    <2>2. QED
      BY <1>10, <1>11, <2>1, Halves
  <1>13. ASSUME NEW c \in Int, <<c, j>> \in Aligned, Span(c, j) \subseteq Span(a, k)
         PROVE  <<c, j>> \in F
    <2>1. PICK v \in Aligned : v = <<c, j>> /\ v[1] = c /\ v[2] = j
      <3>1. <<c, j>>[1] = c /\ <<c, j>>[2] = j
        OBVIOUS
      <3>2. QED
        BY <1>13, <3>1
    <2>2. ~Bad(v)
      <3> HIDE DEF Bad
      <3>1. QED
        BY <1>3, <1>10, <2>1
    <2>3. Span(v[1], v[2]) \subseteq Covered(F)
      BY <1>4, <1>6, <1>13, <2>1
    <2>4. PICK y \in F : Span(v[1], v[2]) \subseteq Span(y[1], y[2])
      BY <2>2, <2>3
    <2>5. y \in Aligned /\ y[2] \in Orders
      BY AlignedParts
    <2>6. ~(k <= y[2])
      <3> SUFFICES ASSUME k <= y[2] PROVE FALSE
        OBVIOUS
      <3>1. c \in Span(c, j)
        BY <2>1, AlignedParts
      <3>2. Span(w[1], w[2]) \cap Span(y[1], y[2]) # {}
        BY <1>4, <1>6, <1>13, <2>1, <2>4, <3>1
      <3>3. QED
        BY <1>4, <2>5, <3>2, BlocksNest
    <2>7. y[2] <= v[2]
      BY <1>10, <2>1, <2>5, <2>6
    <2>8. v = y
      BY <2>4, <2>5, <2>7, SameBlock
    <2>9. QED
      BY <2>1, <2>8
  <1>14. <<a, j>> \in F /\ <<a + z, j>> \in F
    BY <1>12, <1>13
  <1>15. <<a, j>>[1] = a /\ <<a, j>>[2] = j
    OBVIOUS
  <1>16. QED
    BY <1>10, <1>12, <1>14, <1>15 DEF NoFreeBuddies

-----------------------------------------------------------------------------
(* What callers hold, as blocks. *)
Used(h) == {<<a, size_to_order(h[a])>> : a \in {x \in Addresses : h[x] # 0}}

Put(h, a, b) == [h EXCEPT ![a] = b]

(* A block is handed out.                                                  *)
LEMMA UsedPut ==
  ASSUME NEW h \in [Addresses -> 0 .. PoolSize], NEW a \in Addresses, h[a] = 0, NEW b \in 1 .. PoolSize
  PROVE  /\ Put(h, a, b) \in [Addresses -> 0 .. PoolSize]
         /\ Used(Put(h, a, b)) = Used(h) \cup {<<a, size_to_order(b)>>}
  <1>1. PICK g : g = Put(h, a, b)
    OBVIOUS
  <1>2. b \in 0 .. PoolSize /\ b # 0
    BY OrderTypes
  <1>3. g \in [Addresses -> 0 .. PoolSize] /\ g[a] = b /\ \A x \in Addresses : x # a => g[x] = h[x]
    BY <1>1, <1>2 DEF Put
  <1>4. Used(g) = Used(h) \cup {<<a, size_to_order(b)>>}
    BY <1>2, <1>3 DEF Used
  <1>5. QED
    BY <1>1, <1>3, <1>4

(* A block is given back.                                                  *)
LEMMA UsedDrop ==
  ASSUME NEW h \in [Addresses -> 0 .. PoolSize], NEW a \in Addresses, h[a] # 0
  PROVE  /\ Put(h, a, 0) \in [Addresses -> 0 .. PoolSize]
         /\ <<a, size_to_order(h[a])>> \in Used(h)
         /\ Used(Put(h, a, 0)) = Used(h) \ {<<a, size_to_order(h[a])>>}
  <1>1. PICK g : g = Put(h, a, 0)
    OBVIOUS
  <1>2. 0 \in 0 .. PoolSize
    BY OrderTypes
  <1>3. g \in [Addresses -> 0 .. PoolSize] /\ g[a] = 0 /\ \A x \in Addresses : x # a => g[x] = h[x]
    BY <1>1, <1>2 DEF Put
  <1>4. Used(g) = Used(h) \ {<<a, size_to_order(h[a])>>}
    BY <1>2, <1>3 DEF Used
  <1>5. <<a, size_to_order(h[a])>> \in Used(h)
    BY DEF Used
  <1>6. QED
    BY <1>1, <1>3, <1>4, <1>5

(* The bytes of one more block. *)
LEMMA Tally ==
  ASSUME NEW U \in SUBSET Aligned, NEW x \in Aligned, x \notin U,
         \A u \in U : Span(x[1], x[2]) \cap Span(u[1], u[2]) = {}
  PROVE  /\ Cardinality(Covered(U \cup {x})) = Cardinality(Covered(U)) + order_to_size[x[2]]
         /\ Cardinality(Covered(U)) \in Nat
  <1>1. PICK a \in Int, k \in Orders : a = x[1] /\ k = x[2]
    BY AlignedParts
  <1>2. PICK z \in Nat \ {0} : z = order_to_size[k]
    BY OrderTypes
  <1>3. PICK S : S = a .. a + z - 1
    OBVIOUS
  <1>4. Span(x[1], x[2]) = S
    BY <1>1, <1>2, <1>3 DEF Span
  <1>5. IsFiniteSet(S) /\ Cardinality(S) = z
    <2>1. a + z - 1 \in Int /\ ~(a > a + z - 1) /\ a + z - 1 - a + 1 = z
      OBVIOUS
    <2>2. IsFiniteSet(S) /\ Cardinality(S) = a + z - 1 - a + 1
      BY <1>3, <2>1, FS_Interval
    <2>3. QED
      BY <2>1, <2>2
  <1>6. PICK C : C = Covered(U)
    OBVIOUS
  <1>7. IsFiniteSet(C)
    <2>1. C \subseteq 0 .. PoolSize - 1
      <3> SUFFICES ASSUME NEW p \in C PROVE p \in 0 .. PoolSize - 1
        OBVIOUS
      <3>1. PICK u \in U : p \in Span(u[1], u[2])
        BY <1>6, CoveredIs
      <3>2. QED
        BY <3>1, AlignedParts
    <2>2. IsFiniteSet(0 .. PoolSize - 1)
      BY FS_Interval, OrderTypes
    <2>3. QED
      BY <2>1, <2>2, FS_Subset
  <1>8. C \cap S = {}
    BY <1>4, <1>6, CoveredIs
  <1>9. Covered(U \cup {x}) = C \cup S
    BY <1>4, <1>6 DEF Covered
  <1>10. Cardinality({}) = 0 /\ Cardinality(C) \in Nat /\ Cardinality(C \cup S) = Cardinality(C) + Cardinality(S) - Cardinality({})
    BY <1>5, <1>7, <1>8, FS_Union, FS_EmptySet, FS_CardinalityType
  <1>11. Cardinality(C \cup S) = Cardinality(C) + z
    BY <1>5, <1>10
  <1>12. z = order_to_size[x[2]]
    BY <1>1, <1>2
  <1>13. QED
    BY <1>6, <1>9, <1>10, <1>11, <1>12, Zenon

(* The free lists of all orders. *)
FreeLists(L) == L \in [Orders -> Seq(Addresses)] /\ \A k \in Orders : IsInjective(L[k])

(* Each list is a free list.                                               *)
LEMMA ListsAre ==
  ASSUME NEW L
  PROVE  FreeLists(L) <=> /\ L = [k \in Orders |-> L[k]]
                      /\ \A k \in Orders : FreeList(L[k])
  BY DEF FreeLists, FreeList

(* The empty list.                                                         *)
LEMMA EmptyList ==
  FreeList(<<>>) /\ Elems(<<>>) = {}
  <1>1. <<>> \in Seq(Addresses) /\ DOMAIN <<>> = {}
    OBVIOUS
  <1>2. QED
    BY <1>1 DEF FreeList, Elems, IsInjective

(* One more block in the lists.                                            *)
LEMMA ListPut ==
  ASSUME NEW L, FreeLists(L), NEW k \in Orders, NEW a \in Addresses, <<a, k>> \notin BlocksIn(L)
  PROVE  LET M == [L EXCEPT ![k] = Append(@, a)] IN FreeLists(M) /\ BlocksIn(M) = BlocksIn(L) \cup {<<a, k>>}
  <1>1. PICK M : M = [L EXCEPT ![k] = Append(@, a)]
    OBVIOUS
  <1>2. L = [j \in Orders |-> L[j]] /\ \A j \in Orders : FreeList(L[j])
    BY ListsAre
  <1>3. a \notin Elems(L[k])
    BY BlockIn
  <1>4. FreeList(Append(L[k], a)) /\ Elems(Append(L[k], a)) = Elems(L[k]) \cup {a}
    BY <1>2, <1>3, Pushed
  <1>5. M = [j \in Orders |-> M[j]] /\ M[k] = Append(L[k], a) /\ \A j \in Orders : j # k => M[j] = L[j]
    BY <1>1, <1>2
  <1>6. \A j \in Orders : FreeList(M[j])
    BY <1>2, <1>4, <1>5
  <1>7. FreeLists(M)
    BY <1>5, <1>6, ListsAre
  <1>8. BlocksIn(M) = BlocksIn(L) \cup {<<a, k>>}
    <2>1. ASSUME NEW x \in BlocksIn(M) PROVE x \in BlocksIn(L) \cup {<<a, k>>}
      <3>1. PICK j \in Orders : \E c \in Elems(M[j]) : x = <<c, j>>
        BY <2>1, BlocksInIs
      <3>2. PICK c \in Elems(M[j]) : x = <<c, j>>
        BY <3>1
      <3>3. c \in Elems(L[j]) \/ (c = a /\ j = k)
        BY <1>4, <1>5, <3>2
      <3>4. QED
        BY <3>2, <3>3, BlockIn
    <2>2. ASSUME NEW x \in BlocksIn(L) PROVE x \in BlocksIn(M)
      <3>1. PICK j \in Orders : \E c \in Elems(L[j]) : x = <<c, j>>
        BY <2>2, BlocksInIs
      <3>2. PICK c \in Elems(L[j]) : x = <<c, j>>
        BY <3>1
      <3>3. c \in Elems(M[j])
        BY <1>4, <1>5, <3>2
      <3>4. QED
        BY <3>2, <3>3, BlockIn
    <2>3. <<a, k>> \in BlocksIn(M)
      BY <1>4, <1>5, BlockIn
    <2>4. QED
      BY <2>1, <2>2, <2>3
  <1>9. QED
    BY <1>1, <1>7, <1>8

(* One block less in the lists.                                            *)
LEMMA ListDrop ==
  ASSUME NEW L, FreeLists(L), NEW k \in Orders, NEW a, <<a, k>> \in BlocksIn(L)
  PROVE  LET M == [L EXCEPT ![k] = RemoveFirst(@, a)] IN FreeLists(M) /\ BlocksIn(M) = BlocksIn(L) \ {<<a, k>>}
  <1>1. PICK M : M = [L EXCEPT ![k] = RemoveFirst(@, a)]
    OBVIOUS
  <1>2. L = [j \in Orders |-> L[j]] /\ \A j \in Orders : FreeList(L[j])
    BY ListsAre
  <1>3. a \in Elems(L[k])
    BY BlockIn
  <1>4. FreeList(RemoveFirst(L[k], a)) /\ Elems(RemoveFirst(L[k], a)) = Elems(L[k]) \ {a}
    BY <1>2, <1>3, Erased
  <1>5. M = [j \in Orders |-> M[j]] /\ M[k] = RemoveFirst(L[k], a) /\ \A j \in Orders : j # k => M[j] = L[j]
    BY <1>1, <1>2
  <1>6. \A j \in Orders : FreeList(M[j])
    BY <1>2, <1>4, <1>5
  <1>7. FreeLists(M)
    BY <1>5, <1>6, ListsAre
  <1>8. BlocksIn(M) = BlocksIn(L) \ {<<a, k>>}
    BY <1>4, <1>5, BlocksInIs
  <1>9. QED
    BY <1>1, <1>7, <1>8

(* The inductive invariant, of the lists, the counter and what is held. *)
Sound(L, n, h) ==
  /\ FreeLists(L) /\ h \in [Addresses -> 0 .. PoolSize]
  /\ BlocksIn(L) \cap Used(h) = {} /\ Partition(BlocksIn(L) \cup Used(h))
  /\ n = Cardinality(Covered(Used(h)))
  /\ NoFreeBuddies(BlocksIn(L))

(* The free lists once block b of order from is split down to order. *)
SplitLists(L, b, order, from) ==
  [k \in Orders |-> IF k = from THEN Front(L[k])
                    ELSE IF k \in order .. from - 1
                         THEN Append(L[k], b + order_to_size[k]) ELSE L[k]]
NoneFree(L, order, from) == \A k \in order .. from - 1 : L[k] = <<>>

(* allocate() keeps the invariant: the lists between the order asked for   *)
(* and the one found are empty, so a half split off has no free buddy.     *)
LEMMA AllocateSound ==
  ASSUME NEW L, NEW n, NEW h, Sound(L, n, h), NEW bytes \in 1 .. PoolSize,
         NEW order \in Orders, order = size_to_order(bytes), NEW from \in Orders, order <= from,
         L[from] # <<>>, NoneFree(L, order, from),
         NEW b, b = Last(L[from]),
         NEW M, M = SplitLists(L, b, order, from)
  PROVE  Sound(M, n + order_to_size[order], Put(h, b, bytes))
  <1>0. PICK Z : Z = order_to_size
    OBVIOUS
  <1>1. PICK F : F = BlocksIn(L)
    OBVIOUS
  <1>2. PICK U : U = Used(h)
    OBVIOUS
  <1>3. /\ h \in [Addresses -> 0 .. PoolSize] /\ F \cap U = {} /\ Partition(F \cup U) /\ NoFreeBuddies(F)
        /\ n = Cardinality(Covered(U))
    BY <1>1, <1>2 DEF Sound
  <1>4. L = [j \in Orders |-> L[j]] /\ \A j \in Orders : FreeList(L[j])
    BY ListsAre DEF Sound
  <1>5. FreeList(Front(L[from])) /\ b \in Elems(L[from]) /\ Elems(Front(L[from])) = Elems(L[from]) \ {b}
    BY <1>4, Popped
  <1>6. PICK x : x = <<b, from>>
    OBVIOUS
  <1>7. x \in F /\ x \in Aligned /\ x \notin U
    BY <1>1, <1>3, <1>5, <1>6, BlockIn DEF Partition
  <1>8. x[1] = b /\ x[2] = from
    BY <1>6
  <1>9. b \in Int /\ b \in Addresses /\ b \in Span(b, from)
    BY <1>7, <1>8, AlignedParts
  <1>10. PICK y : y = <<b, order>>
    OBVIOUS
  <1>11. PICK Pc : Pc = Pieces(b, order, from)
    OBVIOUS
  <1>12. PICK Q : Q = SplitBlocks(b, order, from)
    OBVIOUS
  <1>13. /\ Q \in SUBSET Aligned /\ Covered(Q) = Covered({x}) /\ Disjoint(Q)
         /\ \A k \in order .. from : <<b, k>> \in Aligned
         /\ y \notin Pc /\ Q = {y} \cup Pc
    <2>1. <<b, from>> \in Aligned
      BY <1>6, <1>7
    <2>2. /\ SplitBlocks(b, order, from) \in SUBSET Aligned
          /\ Covered(SplitBlocks(b, order, from)) = Covered({<<b, from>>})
          /\ Disjoint(SplitBlocks(b, order, from))
          /\ \A k \in order .. from : <<b, k>> \in Aligned
          /\ <<b, order>> \notin Pieces(b, order, from)
      BY <1>9, <2>1, SplitIs
    <2>3. Q = {y} \cup Pc
      BY <1>10, <1>11, <1>12 DEF SplitBlocks
    <2>4. QED
      BY <1>6, <1>10, <1>11, <1>12, <2>2, <2>3, Zenon
  <1>14. PICK P : P = (F \cup U) \ {x}
    OBVIOUS
  <1>15. Partition(P \cup Q) /\ P \cap Q = {}
    <2>1. {x} \in SUBSET (F \cup U)
      BY <1>7
    <2>2. PICK A : A = F \cup U
      OBVIOUS
    <2>3. PICK X : X = {x}
      OBVIOUS
    <2>4. Partition(A) /\ X \in SUBSET A /\ Q \in SUBSET Aligned /\ Disjoint(Q) /\ Covered(Q) = Covered(X)
      BY <1>3, <1>13, <2>1, <2>2, <2>3
    <2>5. Partition((A \ X) \cup Q) /\ (A \ X) \cap Q = {}
      BY <2>4, Replace
    <2>6. P = A \ X
      BY <1>14, <2>2, <2>3
    <2>7. QED
      BY <2>5, <2>6
  <1>16. y \in Aligned /\ y[1] = b /\ y[2] = order /\ b \in Span(b, order)
    <2>1. y \in Aligned /\ y[1] = b /\ y[2] = order
      BY <1>10, <1>13, <1>13
    <2>2. QED
      BY <2>1, AlignedParts
  \* The lists.
  <1>17. \A k \in order .. from - 1 : k \in Orders /\ k # from /\ k \in order .. from /\ k < MaxOrder /\ k + 1 \in order .. from
    <2>1. order \in Nat /\ from \in Nat /\ from <= MaxOrder /\ MaxOrder \in Nat
      BY OrderTypes
    <2>2. QED
      BY <2>1 DEF Orders
  <1>18. ASSUME NEW k \in order .. from - 1
         PROVE  /\ <<b + Z[k], k>> \in Pc /\ b + Z[k] \in Addresses /\ M[k] = Append(L[k], b + Z[k])
                /\ FreeList(M[k]) /\ Elems(M[k]) = {b + Z[k]} /\ Elems(L[k]) = {}
                /\ Buddy(b + Z[k], k) = b /\ b + Z[k] \in Int
    <2>1. <<b + Z[k], k>> \in Pc
      BY <1>0, <1>11 DEF Pieces
    <2>2. b + Z[k] \in Addresses
      <3>1. PICK v \in Aligned : v = <<b + Z[k], k>>
        BY <1>13, <1>13, <2>1
      <3>2. v[1] = b + Z[k] /\ v[1] \in Addresses
        BY <3>1, AlignedParts
      <3>3. QED
        BY <3>2
    <2>3. M[k] = Append(L[k], b + Z[k])
      BY <1>0, <1>17 DEF SplitLists
    <2>4. L[k] = <<>>
      BY DEF NoneFree
    <2>5. FreeList(L[k]) /\ Elems(L[k]) = {}
      BY <2>4, EmptyList
    <2>6. FreeList(M[k]) /\ Elems(M[k]) = {b + Z[k]}
      <3>1. PICK c \in Addresses : c = b + Z[k]
        BY <2>2
      <3>2. c \notin Elems(L[k])
        BY <2>5
      <3>3. FreeList(Append(L[k], c)) /\ Elems(Append(L[k], c)) = Elems(L[k]) \cup {c}
        BY <2>5, <3>2, Pushed
      <3>4. QED
        BY <2>3, <2>5, <3>1, <3>3
    <2>7. Buddy(b + Z[k], k) = b
      BY <1>0, <1>9, <1>13, <1>17, Halves
    <2>8. b + Z[k] \in Int
      BY <2>2, OrderTypes DEF Addresses
    <2>9. QED
      BY <2>1, <2>2, <2>3, <2>5, <2>6, <2>7, <2>8
  <1>19. ASSUME NEW k \in Orders, k # from, k \notin order .. from - 1
         PROVE  M[k] = L[k]
    BY <1>19 DEF SplitLists
  <1>20. M[from] = Front(L[from])
    BY DEF SplitLists
  <1>21. FreeLists(M)
    <2>1. M = [k \in Orders |-> M[k]]
      BY DEF SplitLists
    <2>2. \A k \in Orders : FreeList(M[k])
      BY <1>4, <1>5, <1>18, <1>19, <1>20
    <2>3. QED
      BY <2>1, <2>2, ListsAre
  <1>22. PICK G : G = BlocksIn(M)
    OBVIOUS
  <1>23. G = (F \ {x}) \cup Pc
    <2>1. ASSUME NEW v \in G PROVE v \in (F \ {x}) \cup Pc
      <3>0. PICK k \in Orders : \E a \in Elems(M[k]) : v = <<a, k>>
        <4>1. v \in BlocksIn(M)
          BY <1>22, <2>1
        <4>2. QED
          BY <4>1, BlocksInIs
      <3>1. PICK a \in Elems(M[k]) : v = <<a, k>>
        BY <3>0
      <3>2. CASE k = from
        <4>1. a \in Elems(L[k]) /\ a # b
          BY <1>5, <1>20, <3>1, <3>2
        <4>2. v \in F
          BY <1>1, <3>1, <4>1, BlockIn
        <4>3. QED
          BY <1>6, <3>1, <4>1, <4>2
      <3>3. CASE k \in order .. from - 1
        BY <1>18, <3>1, <3>3
      <3>4. CASE k # from /\ k \notin order .. from - 1
        <4>1. a \in Elems(L[k])
          BY <1>19, <3>1, <3>4
        <4>2. v \in F
          BY <1>1, <3>1, <4>1, BlockIn
        <4>3. QED
          BY <1>6, <3>1, <3>4, <4>2
      <3>5. QED
        BY <3>2, <3>3, <3>4
    <2>2. ASSUME NEW v \in F, v # x PROVE v \in G
      <3>0. PICK k \in Orders : \E a \in Elems(L[k]) : v = <<a, k>>
        BY <1>1, <2>2, BlocksInIs
      <3>1. PICK a \in Elems(L[k]) : v = <<a, k>>
        BY <3>0
      <3>2. a \in Elems(M[k])
        <4>1. CASE k = from
          BY <1>5, <1>6, <1>20, <2>2, <3>1, <4>1
        <4>2. CASE k \in order .. from - 1
          BY <1>18, <3>1, <4>2
        <4>3. CASE k # from /\ k \notin order .. from - 1
          BY <1>19, <3>1, <4>3
        <4>4. QED
          BY <4>1, <4>2, <4>3
      <3>3. QED
        BY <1>22, <3>1, <3>2, BlockIn
    <2>3. ASSUME NEW v \in Pc PROVE v \in G
      <3>1. PICK k \in order .. from - 1 : v = <<b + Z[k], k>>
        BY <1>0, <1>11, <2>3 DEF Pieces
      <3>2. k \in Orders /\ b + Z[k] \in Elems(M[k])
        BY <1>17, <1>18
      <3>3. QED
        BY <1>22, <3>1, <3>2, BlockIn
    <2>4. QED
      BY <2>1, <2>2, <2>3
  \* What is held.
  <1>24. h[b] = 0
    <2> SUFFICES ASSUME h[b] # 0 PROVE FALSE
      OBVIOUS
    <2>1. PICK u : u = <<b, size_to_order(h[b])>>
      OBVIOUS
    <2>2. u \in U
      BY <1>2, <1>3, <1>9, <2>1, UsedDrop
    <2>3. u \in Aligned /\ u[1] = b
      BY <1>3, <2>1, <2>2 DEF Partition
    <2>4. b \in Span(u[1], u[2]) /\ b \in Span(x[1], x[2])
      BY <1>8, <1>9, <2>3, AlignedParts
    <2>5. u # x
      BY <1>7, <2>2
    <2>6. Span(u[1], u[2]) \cap Span(x[1], x[2]) = {}
      BY <1>3, <1>7, <2>2, <2>5 DEF Partition, Disjoint
    <2>7. QED
      BY <2>4, <2>6
  <1>25. PICK V : V = Used(Put(h, b, bytes))
    OBVIOUS
  <1>26. V = U \cup {y} /\ Put(h, b, bytes) \in [Addresses -> 0 .. PoolSize]
    <2>1. /\ Put(h, b, bytes) \in [Addresses -> 0 .. PoolSize]
          /\ Used(Put(h, b, bytes)) = Used(h) \cup {<<b, size_to_order(bytes)>>}
      <3>1. h \in [Addresses -> 0 .. PoolSize] /\ b \in Addresses /\ h[b] = 0
        BY <1>3, <1>9, <1>24
      <3>2. QED
        BY <3>1, UsedPut
    <2>2. QED
      BY <1>2, <1>10, <1>25, <2>1, Zenon
  <1>27. G \cup V = P \cup Q
    BY <1>7, <1>13, <1>14, <1>23, <1>26
  <1>28. G \cap V = {}
    BY <1>3, <1>7, <1>13, <1>13, <1>14, <1>15, <1>23, <1>26
  <1>29. Cardinality(Covered(V)) = n + order_to_size[order]
    <2>1. U \in SUBSET Aligned
      BY <1>3 DEF Partition
    <2>2. y \notin U
      BY <1>7, <1>13, <1>14, <1>15
    <2>3. \A u \in U : Span(y[1], y[2]) \cap Span(u[1], u[2]) = {}
      <3> SUFFICES ASSUME NEW u \in U PROVE Span(y[1], y[2]) \cap Span(u[1], u[2]) = {}
        OBVIOUS
      <3>1. u \in P \cup Q /\ y \in P \cup Q /\ y # u
        BY <1>7, <1>13, <1>14, <2>2
      <3>2. QED
        BY <1>15, <3>1 DEF Partition, Disjoint
    <2>4. QED
      BY <1>3, <1>16, <1>26, <2>1, <2>2, <2>3, Tally
  <1>30. ASSUME NEW k \in Orders PROVE <<b, k>> \notin G
    <2> SUFFICES ASSUME <<b, k>> \in G PROVE FALSE
      OBVIOUS
    <2>1. PICK v : v = <<b, k>>
      OBVIOUS
    <2>2. v \in G /\ v[1] = b
      BY <2>1
    <2>3. v \in P \cup Q /\ y \in P \cup Q /\ v # y
      BY <1>26, <1>27, <1>28, <2>2
    <2>4. v \in Aligned
      BY <1>15, <2>3 DEF Partition
    <2>5. b \in Span(v[1], v[2]) /\ b \in Span(y[1], y[2])
      BY <1>16, <2>2, <2>4, AlignedParts
    <2>6. Span(v[1], v[2]) \cap Span(y[1], y[2]) = {}
      BY <1>15, <2>3 DEF Partition, Disjoint
    <2>7. QED
      BY <2>5, <2>6
  <1>31. NoFreeBuddies(G)
    <2> SUFFICES ASSUME NEW v \in G, v[2] < MaxOrder, <<Buddy(v[1], v[2]), v[2]>> \in G
                 PROVE  FALSE
      BY DEF NoFreeBuddies
    <2>0. v \in Aligned
      BY <1>15, <1>27 DEF Partition
    <2>1. PICK a \in Int, k \in Orders : a = v[1] /\ k = v[2] /\ v = <<a, k>> /\ k < MaxOrder
      BY <2>0, AlignedParts
    <2>2. PICK c \in Int : c = Buddy(a, k) /\ Buddy(c, k) = a
      BY <2>0, <2>1, BuddyTwice
    <2>3. <<a, k>> \in G /\ <<c, k>> \in G
      BY <2>1, <2>2
    <2>4. CASE <<a, k>> \in Pc
      <3>1. PICK j \in order .. from - 1 : <<a, k>> = <<b + Z[j], j>>
        BY <1>0, <1>11, <2>4 DEF Pieces
      <3>2. a = b + Z[j] /\ k = j
        BY <3>1
      <3>3. c = b
        BY <1>18, <2>2, <3>2
      <3>4. QED
        BY <1>30, <2>3, <3>3
    <2>5. CASE <<c, k>> \in Pc
      <3>1. PICK j \in order .. from - 1 : <<c, k>> = <<b + Z[j], j>>
        BY <1>0, <1>11, <2>5 DEF Pieces
      <3>2. c = b + Z[j] /\ k = j
        BY <3>1
      <3>3. a = b
        BY <1>18, <2>2, <3>2
      <3>4. QED
        BY <1>30, <2>3, <3>3
    <2>6. CASE <<a, k>> \notin Pc /\ <<c, k>> \notin Pc
      <3>1. v \in F /\ <<Buddy(v[1], v[2]), v[2]>> \in F
        BY <1>23, <2>1, <2>2, <2>3, <2>6
      <3>2. QED
        BY <1>3, <3>1 DEF NoFreeBuddies
    <2>7. QED
      BY <2>4, <2>5, <2>6
  <1>32. Partition(G \cup V)
    BY <1>15, <1>27
  <1>33. QED
    BY <1>21, <1>22, <1>25, <1>26, <1>28, <1>29, <1>31, <1>32 DEF Sound

(* One turn of deallocate()'s merging loop, at order k - 1. *)
MergeStep(m, k) ==
  LET b == Buddy(m.block, m.order) IN
  IF m.order = k - 1 /\ Contains(m.lists[k - 1], b)
  THEN [lists |-> [m.lists EXCEPT ![k - 1] = RemoveFirst(@, b)],
        block |-> IF m.block < b THEN m.block ELSE b, order |-> k]
  ELSE m

(* The loop runs through these states. *)
LEMMA MergedRuns ==
  ASSUME NEW L, NEW b, NEW order \in Orders
  PROVE  \E up : /\ up[order] = [lists |-> L, block |-> b, order |-> order]
                 /\ \A k \in order + 1 .. MaxOrder : up[k] = MergeStep(up[k - 1], k)
                 /\ Merged(L, b, order) = up[MaxOrder]
  <1>1. PICK N \in Nat : N = MaxOrder /\ order \in 0 .. N
    BY OrderTypes DEF Orders
  <1>2. PICK first : first = [lists |-> L, block |-> b, order |-> order]
    OBVIOUS
  <1> DEFINE run(w) == [k \in order .. N |-> IF k = order THEN first ELSE MergeStep(w[k - 1], k)]
             at == CHOOSE w : w = run(w)
             Upto(w, c) == /\ w = [k \in order .. N |-> w[k]]
                           /\ \A k \in order .. c : w[k] = IF k = order THEN first ELSE MergeStep(w[k - 1], k)
  <1>3. Merged(L, b, order) = at[N]
    BY <1>1, <1>2 DEF Merged, MergeStep
  <1>4. \E w : w = run(w)
    <2> DEFINE T == {c \in 0 .. N - order : \E w : Upto(w, N - c)}
    <2>1. N - order \in T
      <3>1. Upto([k \in order .. N |-> first], N - (N - order))
        <4>1. N - (N - order) = order /\ \A k \in order .. order : k = order /\ k \in order .. N
          BY <1>1
        <4>2. QED
          BY <4>1
      <3>2. N - order \in 0 .. N - order
        BY <1>1
      <3> HIDE DEF Upto
      <3>3. QED
        BY <3>1, <3>2
    <2> HIDE DEF Upto
    <2>2. T \in SUBSET Nat
      OBVIOUS
    <2>3. PICK c \in T : \A e \in T : c <= e
      <3> HIDE DEF T
      <3>1. T # {}
        BY <2>1
      <3>2. QED
        BY <2>2, <3>1, LeastNumber
    <2>4. PICK w : Upto(w, N - c)
      OBVIOUS
    <2>5. c \in 0 .. N - order
      OBVIOUS
    <2>6. ~(0 < c)
      <3> SUFFICES ASSUME 0 < c PROVE FALSE
        OBVIOUS
      <3>1. PICK e \in 0 .. N - order : e = c - 1
        BY <1>1, <2>5
      <3>2. PICK d \in order + 1 .. N : d = N - e
        BY <1>1, <2>5, <3>1
      <3>3. PICK x : x = [w EXCEPT ![d] = MergeStep(w[d - 1], d)]
        OBVIOUS
      <3>4. w = [k \in order .. N |-> w[k]] /\ d - 1 \in order .. N /\ d \in order .. N /\ d # order /\ d - 1 # d
        BY <1>1, <2>4 DEF Upto
      <3>6. /\ x = [k \in order .. N |-> x[k]] /\ x[d] = MergeStep(w[d - 1], d)
            /\ \A k \in order .. N : k # d => x[k] = w[k]
        BY <3>3, <3>4
      <3>7. ASSUME NEW k \in order .. d
            PROVE  x[k] = IF k = order THEN first ELSE MergeStep(x[k - 1], k)
        <4>1. CASE k = d
          BY <3>4, <3>6, <4>1
        <4>2. CASE k # d
          <5>1. k \in order .. N - c /\ k \in order .. N /\ (k # order => k - 1 \in order .. N /\ k - 1 # d)
            BY <1>1, <2>5, <3>1, <3>2, <4>2
          <5>2. w[k] = IF k = order THEN first ELSE MergeStep(w[k - 1], k)
            BY <2>4, <5>1 DEF Upto
          <5>3. x[k] = w[k] /\ (k # order => x[k - 1] = w[k - 1])
            BY <3>6, <4>2, <5>1
          <5>4. QED
            BY <5>2, <5>3
        <4>3. QED
          BY <4>1, <4>2
      <3>8. Upto(x, N - e)
        BY <3>2, <3>6, <3>7 DEF Upto
      <3>9. c <= e
        BY <2>3, <3>8
      <3>10. QED
        BY <1>1, <2>5, <3>1, <3>9
    <2>7. N - c = N
      BY <1>1, <2>5, <2>6
    <2>8. w = [k \in order .. N |-> w[k]] /\ \A k \in order .. N : w[k] = IF k = order THEN first ELSE MergeStep(w[k - 1], k)
      BY <2>4, <2>7 DEF Upto
    <2>9. w = run(w)
      BY <2>8
    <2>10. QED
      BY <2>9
  <1>5. at = run(at)
    BY <1>4
  <1> HIDE DEF at
  <1>6. at[order] = first
    <2>1. order \in order .. N
      BY <1>1
    <2>2. QED
      BY <1>5, <2>1
  <1>7. ASSUME NEW k \in order + 1 .. N PROVE at[k] = MergeStep(at[k - 1], k)
    <2>1. k \in order .. N /\ k # order
      BY <1>1
    <2>2. QED
      BY <1>5, <2>1
  <1>8. QED
    BY <1>1, <1>2, <1>3, <1>6, <1>7

(* What the loop keeps: the freed block, the free ones and the used ones   *)
(* fill the pool, and a turn that did not merge found no free buddy.       *)
Merging(m, U, k) ==
  /\ FreeLists(m.lists) /\ m.order \in 0 .. k /\ m.order \in Orders /\ m.block \in Int
  /\ BlocksIn(m.lists) \cap U = {} /\ <<m.block, m.order>> \notin BlocksIn(m.lists) \cup U
  /\ Partition((BlocksIn(m.lists) \cup U) \cup {<<m.block, m.order>>})
  /\ NoFreeBuddies(BlocksIn(m.lists))
  /\ m.order < k => <<Buddy(m.block, m.order), m.order>> \notin BlocksIn(m.lists)

(* A turn that merges.                                                     *)
LEMMA JoinedAt ==
  ASSUME NEW m, NEW k, m.order = k - 1, Contains(m.lists[k - 1], Buddy(m.block, m.order))
  PROVE  MergeStep(m, k) =
           [lists |-> [m.lists EXCEPT ![k - 1] = RemoveFirst(@, Buddy(m.block, m.order))],
            block |-> IF m.block < Buddy(m.block, m.order) THEN m.block ELSE Buddy(m.block, m.order),
            order |-> k]
  BY Zenon DEF MergeStep

(* The same, by the order of the block.                                    *)
LEMMA MergeJoins ==
  ASSUME NEW m, NEW j \in Nat, m.order = j, Contains(m.lists[j], Buddy(m.block, j))
  PROVE  MergeStep(m, j + 1) =
           [lists |-> [m.lists EXCEPT ![j] = RemoveFirst(@, Buddy(m.block, j))],
            block |-> IF m.block < Buddy(m.block, j) THEN m.block ELSE Buddy(m.block, j),
            order |-> j + 1]
  <1>1. PICK k : k = j + 1
    OBVIOUS
  <1>2. k - 1 = j
    BY <1>1
  <1>3. m.order = k - 1 /\ Contains(m.lists[k - 1], Buddy(m.block, m.order))
    BY <1>2, Zenon
  <1>4. MergeStep(m, k) =
           [lists |-> [m.lists EXCEPT ![k - 1] = RemoveFirst(@, Buddy(m.block, m.order))],
            block |-> IF m.block < Buddy(m.block, m.order) THEN m.block ELSE Buddy(m.block, m.order),
            order |-> k]
    BY <1>3, JoinedAt, Zenon
  <1>5. QED
    BY <1>1, <1>2, <1>4, Zenon

(* A turn that does not merge.                                             *)
LEMMA StaysAt ==
  ASSUME NEW m, NEW k, ~(m.order = k - 1 /\ Contains(m.lists[k - 1], Buddy(m.block, m.order)))
  PROVE  MergeStep(m, k) = m
  BY Zenon DEF MergeStep

(* The same, by the order of the block.                                    *)
LEMMA MergeStays ==
  ASSUME NEW m, NEW j \in Nat, ~(m.order = j /\ Contains(m.lists[j], Buddy(m.block, j)))
  PROVE  MergeStep(m, j + 1) = m
  <1>1. PICK k : k = j + 1
    OBVIOUS
  <1>2. k - 1 = j
    BY <1>1
  <1>3. ~(m.order = k - 1 /\ Contains(m.lists[k - 1], Buddy(m.block, m.order)))
    BY <1>2, Zenon
  <1>4. MergeStep(m, k) = m
    BY <1>3, StaysAt, Zenon
  <1>5. QED
    BY <1>1, <1>4

(* One turn keeps it: two halves become the block they make.               *)
LEMMA MergeKeeps ==
  ASSUME NEW m, NEW U, NEW j \in Orders, j < MaxOrder, Merging(m, U, j)
  PROVE  Merging(MergeStep(m, j + 1), U, j + 1)
  <1>1. PICK L : L = m.lists
    OBVIOUS
  <1>2. PICK b \in Int : b = m.block
    BY DEF Merging
  <1>3. PICK o \in Orders : o = m.order
    BY DEF Merging
  <1>4. PICK F : F = BlocksIn(L)
    OBVIOUS
  <1>5. /\ FreeLists(L) /\ o \in 0 .. j /\ F \cap U = {} /\ <<b, o>> \notin F \cup U
        /\ Partition((F \cup U) \cup {<<b, o>>}) /\ NoFreeBuddies(F)
        /\ o < j => <<Buddy(b, o), o>> \notin F
    BY <1>1, <1>2, <1>3, <1>4 DEF Merging
  <1>6. j \in Nat /\ o \in Nat /\ j + 1 \in Orders /\ j + 1 - 1 = j
    BY OrderTypes
  <1>7. <<b, o>> \in Aligned
    BY <1>5 DEF Partition
  <1>8. PICK c : c = Buddy(b, o)
    OBVIOUS
  <1>9. \A a : Contains(L[j], a) <=> <<a, j>> \in F
    <2>1. FreeList(L[j])
      BY <1>5, ListsAre
    <2>2. QED
      BY <1>4, <2>1, FreeListIs, BlockIn
  <1>10. CASE o = j /\ <<c, j>> \in F
    <2>1. PICK a : a = IF b < c THEN b ELSE c
      OBVIOUS
    <2>2. PICK M : M = [L EXCEPT ![j] = RemoveFirst(@, c)]
      OBVIOUS
    <2>3. PICK r : r = MergeStep(m, j + 1)
      OBVIOUS
    <2>4. r = [lists |-> M, block |-> a, order |-> j + 1]
      <3>1. m.order = j /\ Contains(m.lists[j], Buddy(m.block, j)) /\ c = Buddy(m.block, j)
        BY <1>1, <1>2, <1>3, <1>8, <1>9, <1>10
      <3>2. r = [lists |-> [m.lists EXCEPT ![j] = RemoveFirst(@, Buddy(m.block, j))],
                 block |-> IF m.block < Buddy(m.block, j) THEN m.block ELSE Buddy(m.block, j),
                 order |-> j + 1]
        BY <1>6, <2>3, <3>1, MergeJoins, Zenon
      <3>3. QED
        BY <1>1, <1>2, <2>1, <2>2, <3>1, <3>2
    <2>5. r.lists = M /\ r.block = a /\ r.order = j + 1
      BY <2>4
    <2>6. PICK G : G = BlocksIn(M)
      OBVIOUS
    <2>7. FreeLists(M) /\ G = F \ {<<c, j>>}
      BY <1>4, <1>5, <1>10, <2>2, <2>6, ListDrop
    <2>8. PICK z \in Nat \ {0} : z = order_to_size[j]
      BY OrderTypes
    <2>9. <<b, j>> \in Aligned /\ c = Buddy(b, j)
      BY <1>7, <1>8, <1>10
    <2>10. a \in Int /\ <<a, j + 1>> \in Aligned
           /\ ((b = a /\ c = a + z) \/ (b = a + z /\ c = a))
      <3>1. PICK e \in Int :
              /\ <<e, j + 1>> \in Aligned /\ e = (IF b < Buddy(b, j) THEN b ELSE Buddy(b, j))
              /\ \/ b = e /\ Buddy(b, j) = e + order_to_size[j]
                 \/ b = e + order_to_size[j] /\ Buddy(b, j) = e
        BY <2>9, BuddyIs
      <3>2. e = a
        BY <2>1, <2>9, <3>1
      <3>3. QED
        BY <2>8, <2>9, <3>1, <3>2
    <2>11. Span(a, j) \cup Span(a + z, j) = Span(a, j + 1)
      BY <2>8, <2>10, Halves
    <2>12. PICK X : X = {<<b, j>>, <<c, j>>}
      OBVIOUS
    <2>13. PICK Q : Q = {<<a, j + 1>>}
      OBVIOUS
    <2>14. Covered(Q) = Span(a, j + 1)
      <3>1. <<a, j + 1>>[1] = a /\ <<a, j + 1>>[2] = j + 1
        OBVIOUS
      <3>2. QED
        BY <2>13, <3>1 DEF Covered
    <2>15. Covered(X) = Span(b, j) \cup Span(c, j)
      <3>1. <<b, j>>[1] = b /\ <<b, j>>[2] = j /\ <<c, j>>[1] = c /\ <<c, j>>[2] = j
        OBVIOUS
      <3>2. QED
        BY <2>12, <3>1 DEF Covered
    <2>16. Covered(Q) = Covered(X)
      BY <2>10, <2>11, <2>14, <2>15
    <2>17. PICK A : A = (F \cup U) \cup {<<b, o>>}
      OBVIOUS
    <2>18. Partition(A) /\ X \in SUBSET A /\ Q \in SUBSET Aligned /\ Disjoint(Q)
      <3>1. Partition(A) /\ X \in SUBSET A
        BY <1>5, <1>10, <2>12, <2>17
      <3>2. Q \in SUBSET Aligned /\ Disjoint(Q)
        BY <2>10, <2>13 DEF Disjoint
      <3>3. QED
        BY <3>1, <3>2
    <2>19. Partition((A \ X) \cup Q) /\ (A \ X) \cap Q = {}
      BY <2>16, <2>18, Replace
    <2>20. A \ X = G \cup U
      BY <1>5, <1>10, <2>7, <2>12, <2>17
    <2>21. Partition((G \cup U) \cup {<<a, j + 1>>}) /\ <<a, j + 1>> \notin G \cup U
      BY <2>13, <2>19, <2>20
    <2>22. G \cap U = {} /\ NoFreeBuddies(G)
      BY <1>5, <2>7 DEF NoFreeBuddies
    <2>23. j + 1 \in 0 .. j + 1 /\ ~(j + 1 < j + 1)
      BY <1>6
    <2>24. Merging(r, U, j + 1)
      BY <1>6, <2>5, <2>6, <2>7, <2>10, <2>21, <2>22, <2>23 DEF Merging
    <2>25. QED
      BY <2>3, <2>24
  <1>11. CASE ~(o = j /\ <<c, j>> \in F)
    <2>1. MergeStep(m, j + 1) = m
      <3>1. ~(m.order = j /\ Contains(m.lists[j], Buddy(m.block, j)))
        BY <1>1, <1>2, <1>3, <1>8, <1>9, <1>11
      <3>2. QED
        BY <1>6, <3>1, MergeStays, Zenon
    <2>2. <<Buddy(b, o), o>> \notin F
      <3>1. CASE o = j
        BY <1>8, <1>11, <3>1
      <3>2. CASE o # j
        <4>1. o < j
          BY <1>5, <1>6, <3>2
        <4>2. QED
          BY <1>5, <4>1
      <3>3. QED
        BY <3>1, <3>2
    <2>3. o \in 0 .. j + 1
      BY <1>5, <1>6
    <2>4. Merging(m, U, j + 1)
      BY <1>1, <1>2, <1>3, <1>4, <1>5, <2>2, <2>3 DEF Merging
    <2>5. QED
      BY <2>1, <2>4
  <1>12. QED
    BY <1>10, <1>11

(* The whole loop. *)
LEMMA MergedKeeps ==
  ASSUME NEW L, NEW b, NEW order \in Orders, NEW U,
         Merging([lists |-> L, block |-> b, order |-> order], U, order)
  PROVE  Merging(Merged(L, b, order), U, MaxOrder)
  <1>1. PICK up : /\ up[order] = [lists |-> L, block |-> b, order |-> order]
                  /\ \A k \in order + 1 .. MaxOrder : up[k] = MergeStep(up[k - 1], k)
                  /\ Merged(L, b, order) = up[MaxOrder]
    BY MergedRuns
  <1>2. PICK N \in Nat : N = MaxOrder /\ order \in 0 .. N
    BY OrderTypes DEF Orders
  <1> DEFINE T == {k \in order .. N : ~Merging(up[k], U, k)}
  <1>3. T = {}
    <2> SUFFICES ASSUME T # {} PROVE FALSE
      OBVIOUS
    <2>1. T \in SUBSET Nat
      BY <1>2
    <2>2. PICK k \in T : \A i \in T : k <= i
      <3> HIDE DEF T
      <3>1. QED
        BY <2>1, LeastNumber
    <2>3. k \in order .. N /\ ~Merging(up[k], U, k)
      OBVIOUS
    <2>4. k # order
      BY <1>1, <2>3
    <2>5. PICK j \in order .. N : j + 1 = k
      <3>1. k - 1 \in order .. N /\ k - 1 + 1 = k
        BY <1>2, <2>3, <2>4
      <3>2. QED
        BY <3>1
    <2>6. j \in Nat /\ k \in order + 1 .. MaxOrder /\ k - 1 = j /\ ~(k <= j) /\ j \in Orders /\ j < MaxOrder
      BY <1>2, <2>3, <2>5 DEF Orders
    <2>7. Merging(up[j], U, j)
      BY <2>2, <2>6
    <2>8. up[k] = MergeStep(up[j], j + 1)
      BY <1>1, <2>5, <2>6
    <2>9. Merging(MergeStep(up[j], j + 1), U, j + 1)
      BY <2>6, <2>7, MergeKeeps
    <2>10. QED
      BY <2>3, <2>5, <2>8, <2>9
  <1>4. N \in order .. N
    BY <1>2
  <1>5. Merging(up[N], U, N)
    BY <1>3, <1>4
  <1>6. QED
    BY <1>1, <1>2, <1>5

(* deallocate() keeps the invariant: the loop ends at the highest order or *)
(* at a block whose buddy is not free.                                     *)
LEMMA DeallocateSound ==
  ASSUME NEW L, NEW n, NEW h, Sound(L, n, h), NEW b \in Addresses, h[b] # 0,
         NEW order, order = size_to_order(h[b]), NEW m, m = Merged(L, b, order),
         NEW M, M = [m.lists EXCEPT ![m.order] = Append(@, m.block)]
  PROVE  Sound(M, n - order_to_size[order], Put(h, b, 0))
  <1>1. PICK F : F = BlocksIn(L)
    OBVIOUS
  <1>2. PICK U : U = Used(h)
    OBVIOUS
  <1>3. PICK V : V = Used(Put(h, b, 0))
    OBVIOUS
  <1>4. /\ h \in [Addresses -> 0 .. PoolSize] /\ F \cap U = {} /\ Partition(F \cup U) /\ NoFreeBuddies(F)
        /\ n = Cardinality(Covered(U)) /\ FreeLists(L)
    BY <1>1, <1>2 DEF Sound
  <1>5. PICK x : x = <<b, order>>
    OBVIOUS
  <1>6. Put(h, b, 0) \in [Addresses -> 0 .. PoolSize] /\ x \in U /\ V = U \ {x}
    <2>1. /\ Put(h, b, 0) \in [Addresses -> 0 .. PoolSize]
          /\ <<b, size_to_order(h[b])>> \in Used(h)
          /\ Used(Put(h, b, 0)) = Used(h) \ {<<b, size_to_order(h[b])>>}
      BY <1>4, UsedDrop
    <2>2. QED
      BY <1>2, <1>3, <1>5, <2>1, Zenon
  <1>7. x \in Aligned /\ x[1] = b /\ x[2] = order
    BY <1>4, <1>5, <1>6 DEF Partition
  <1>8. b \in Int /\ order \in Orders /\ order \in Nat
    BY <1>7, AlignedParts, OrderTypes
  <1>9. PICK m0 : m0 = [lists |-> L, block |-> b, order |-> order]
    OBVIOUS
  <1>10. m0.lists = L /\ m0.block = b /\ m0.order = order
    BY <1>9
  <1>11. Merging(m0, V, order)
    <2>1. (F \cup V) \cup {x} = F \cup U
      BY <1>6
    <2>2. F \cap V = {} /\ x \notin F \cup V
      BY <1>4, <1>6
    <2>3. order \in 0 .. order /\ ~(order < order)
      BY <1>8
    <2>4. QED
      BY <1>1, <1>4, <1>5, <1>8, <1>10, <2>1, <2>2, <2>3 DEF Merging
  <1>12. Merging(m, V, MaxOrder)
    BY <1>8, <1>9, <1>11, MergedKeeps
  <1>13. PICK K : K = m.lists
    OBVIOUS
  <1>14. PICK a \in Int : a = m.block
    BY <1>12 DEF Merging
  <1>15. PICK o \in Orders : o = m.order
    BY <1>12 DEF Merging
  <1>16. PICK G : G = BlocksIn(K)
    OBVIOUS
  <1>17. PICK y : y = <<a, o>>
    OBVIOUS
  <1>18. /\ FreeLists(K) /\ G \cap V = {} /\ y \notin G \cup V
         /\ Partition((G \cup V) \cup {y}) /\ NoFreeBuddies(G)
         /\ o < MaxOrder => <<Buddy(a, o), o>> \notin G
    BY <1>12, <1>13, <1>14, <1>15, <1>16, <1>17 DEF Merging
  <1>19. y \in Aligned /\ y[1] = a /\ y[2] = o /\ a \in Addresses
    <2>1. y \in Aligned /\ y[1] = a /\ y[2] = o
      BY <1>17, <1>18 DEF Partition
    <2>2. QED
      BY <2>1, AlignedParts
  <1>20. PICK H : H = BlocksIn(M)
    OBVIOUS
  <1>21. FreeLists(M) /\ H = G \cup {y}
    <2>1. M = [K EXCEPT ![o] = Append(@, a)]
      BY <1>13, <1>14, <1>15
    <2>2. <<a, o>> \notin BlocksIn(K)
      BY <1>16, <1>17, <1>18
    <2>3. LET R == [K EXCEPT ![o] = Append(@, a)] IN FreeLists(R) /\ BlocksIn(R) = BlocksIn(K) \cup {<<a, o>>}
      BY <1>18, <1>19, <2>2, ListPut
    <2>4. QED
      BY <1>16, <1>17, <1>20, <2>1, <2>3
  <1>22. H \cup V = (G \cup V) \cup {y} /\ H \cap V = {}
    BY <1>18, <1>21
  <1>23. NoFreeBuddies(H)
    <2> SUFFICES ASSUME NEW v \in H, v[2] < MaxOrder, <<Buddy(v[1], v[2]), v[2]>> \in H
                 PROVE  FALSE
      BY DEF NoFreeBuddies
    <2>0. v \in Aligned
      BY <1>18, <1>22 DEF Partition
    <2>1. PICK d \in Int, k \in Orders : d = v[1] /\ k = v[2] /\ v = <<d, k>> /\ k < MaxOrder
      BY <2>0, AlignedParts
    <2>2. PICK c \in Int : c = Buddy(d, k) /\ Buddy(c, k) = d /\ c # d
      BY <2>0, <2>1, BuddyTwice
    <2>3. <<d, k>> \in H /\ <<c, k>> \in H
      BY <2>1, <2>2
    <2>4. CASE <<d, k>> = y
      <3>1. d = a /\ k = o
        BY <1>17, <2>4
      <3>2. <<c, k>> \notin G
        BY <1>18, <2>1, <2>2, <3>1
      <3>3. <<c, k>> # y
        BY <2>2, <2>4
      <3>4. QED
        BY <1>21, <2>3, <3>2, <3>3
    <2>5. CASE <<c, k>> = y
      <3>1. c = a /\ k = o
        BY <1>17, <2>5
      <3>2. <<d, k>> \notin G
        BY <1>18, <2>1, <2>2, <3>1
      <3>3. <<d, k>> # y
        BY <2>2, <2>5
      <3>4. QED
        BY <1>21, <2>3, <3>2, <3>3
    <2>6. CASE <<d, k>> # y /\ <<c, k>> # y
      <3>1. v \in G /\ <<Buddy(v[1], v[2]), v[2]>> \in G
        BY <1>21, <2>1, <2>2, <2>3, <2>6
      <3>2. QED
        BY <1>18, <3>1 DEF NoFreeBuddies
    <2>7. QED
      BY <2>4, <2>5, <2>6
  <1>24. Cardinality(Covered(V)) = n - order_to_size[order]
    <2>1. V \in SUBSET Aligned /\ x \notin V /\ V \cup {x} = U
      BY <1>4, <1>6 DEF Partition
    <2>2. \A u \in V : Span(x[1], x[2]) \cap Span(u[1], u[2]) = {}
      <3> SUFFICES ASSUME NEW u \in V PROVE Span(x[1], x[2]) \cap Span(u[1], u[2]) = {}
        OBVIOUS
      <3>1. u \in F \cup U /\ x \in F \cup U /\ x # u
        BY <1>6
      <3>2. QED
        BY <1>4, <3>1 DEF Partition, Disjoint
    <2>3. /\ Cardinality(Covered(V \cup {x})) = Cardinality(Covered(V)) + order_to_size[x[2]]
          /\ Cardinality(Covered(V)) \in Nat
      BY <1>7, <2>1, <2>2, Tally
    <2>4. n = Cardinality(Covered(V)) + order_to_size[order]
      BY <1>4, <1>7, <2>1, <2>3
    <2>5. PICK s \in Nat : s = order_to_size[order]
      BY <1>8, OrderTypes
    <2>6. QED
      BY <2>3, <2>4, <2>5
  <1>25. Partition(H \cup V)
    BY <1>18, <1>22
  <1>26. QED
    BY <1>3, <1>6, <1>20, <1>21, <1>22, <1>23, <1>24, <1>25 DEF Sound

(* The inductive invariant of the buddy allocator. *)
BuddyInv == Sound(free_lists, allocated_bytes, held)

(* The constructor's one block is the pool.                                *)
LEMMA BuddyStart ==
  BuddyInit => BuddyInv
  <1> SUFFICES ASSUME BuddyInit PROVE BuddyInv
    OBVIOUS
  <1>1. PICK L : L = free_lists
    OBVIOUS
  <1>2. PICK h : h = held
    OBVIOUS
  <1>3. L = [k \in Orders |-> IF k = MaxOrder THEN <<0>> ELSE <<>>] /\ allocated_bytes = 0 /\ h = [a \in Addresses |-> 0]
    BY <1>1, <1>2 DEF BuddyInit
  <1>4. PICK x : x = <<0, MaxOrder>>
    OBVIOUS
  <1>5. x \in Aligned /\ x[1] = 0 /\ x[2] = MaxOrder /\ 0 \in Addresses
    <2>1. 0 \in Int /\ MaxOrder \in Orders /\ 0 \in 0 .. PoolSize - 1
      BY OrderTypes
    <2>2. Multiple(0, order_to_size[MaxOrder])
      <3>1. PICK z \in Nat \ {0} : z = order_to_size[MaxOrder]
        BY OrderTypes
      <3>2. 0 = 0 * z /\ 0 \in Int
        OBVIOUS
      <3>3. QED
        BY <3>1, <3>2 DEF Multiple
    <2>3. x \in Aligned /\ x[1] = 0 /\ x[2] = MaxOrder
      BY <1>4, <2>1, <2>2, AlignedIs
    <2>4. QED
      BY <2>3, AlignedParts
  <1>6. FreeList(<<0>>) /\ Elems(<<0>>) = {0}
    <2>1. PICK s : s = <<0>>
      OBVIOUS
    <2>2. s \in Seq(Addresses) /\ DOMAIN s = {1} /\ s[1] = 0
      BY <1>5, <2>1
    <2>3. FreeList(s) /\ Elems(s) = {0}
      BY <2>2 DEF FreeList, Elems, IsInjective
    <2>4. QED
      BY <2>1, <2>3
  <1>7. L[MaxOrder] = <<0>> /\ \A k \in Orders : k # MaxOrder => L[k] = <<>>
    BY <1>3, OrderTypes
  <1>8. FreeLists(L)
    <2>1. L = [k \in Orders |-> L[k]]
      BY <1>3
    <2>2. \A k \in Orders : FreeList(L[k])
      BY <1>6, <1>7, EmptyList
    <2>3. QED
      BY <2>1, <2>2, ListsAre
  <1>9. PICK F : F = BlocksIn(L)
    OBVIOUS
  <1>10. F = {x}
    <2>1. ASSUME NEW v \in F PROVE v = x
      <3>1. v \in BlocksIn(L)
        BY <1>9
      <3>2. PICK k \in Orders : \E a \in Elems(L[k]) : v = <<a, k>>
        BY <3>1, BlocksInIs
      <3>3. PICK a \in Elems(L[k]) : v = <<a, k>>
        BY <3>2
      <3>4. k = MaxOrder /\ a = 0
        BY <1>6, <1>7, <3>3, EmptyList
      <3>5. QED
        BY <1>4, <3>3, <3>4
    <2>2. x \in F
      BY <1>4, <1>6, <1>7, <1>9, BlockIn, OrderTypes
    <2>3. QED
      BY <2>1, <2>2
  <1>11. PICK U : U = Used(h)
    OBVIOUS
  <1>12. U = {}
    BY <1>3, <1>11 DEF Used
  <1>13. Covered({}) = {} /\ Cardinality({}) = 0
    BY FS_EmptySet DEF Covered
  <1>14. Covered({x}) = 0 .. PoolSize - 1
    <2>1. Covered({x}) = Span(0, MaxOrder)
      BY <1>5 DEF Covered
    <2>2. PICK z \in Nat \ {0} : z = PoolSize
      BY OrderTypes
    <2>3. Span(0, MaxOrder) = 0 .. 0 + z - 1 /\ 0 + z - 1 = z - 1
      BY <2>2 DEF Span, PoolSize
    <2>4. QED
      BY <2>1, <2>2, <2>3
  <1>15. Partition({x}) /\ NoFreeBuddies({x})
    <2>1. Disjoint({x})
      BY DEF Disjoint
    <2>2. ~(x[2] < MaxOrder)
      BY <1>5, OrderTypes
    <2>3. NoFreeBuddies({x})
      BY <2>2 DEF NoFreeBuddies
    <2>4. QED
      BY <1>5, <1>14, <2>1, <2>3 DEF Partition
  <1>16. F \cap U = {} /\ F \cup U = {x}
    BY <1>10, <1>12
  <1>17. h \in [Addresses -> 0 .. PoolSize]
    <2>1. 0 \in 0 .. PoolSize
      BY OrderTypes
    <2>2. QED
      BY <1>3, <2>1
  <1>18. Sound(L, 0, h)
    BY <1>8, <1>9, <1>10, <1>11, <1>12, <1>13, <1>15, <1>16, <1>17 DEF Sound
  <1>19. QED
    BY <1>1, <1>2, <1>3, <1>18 DEF BuddyInv

(* Every call keeps the invariant.                                         *)
LEMMA BuddyStep ==
  BuddyInv /\ [BuddyNext]_buddyVars => BuddyInv'
  <1> SUFFICES ASSUME BuddyInv, [BuddyNext]_buddyVars PROVE BuddyInv'
    OBVIOUS
  <1>1. ASSUME NEW bytes \in 1 .. PoolSize, BuddyAllocate(bytes)
        PROVE  BuddyInv'
    <2> DEFINE order == size_to_order(bytes)
               enough == {k \in order .. MaxOrder : free_lists[k] # <<>>}
               from == CHOOSE k \in enough : \A j \in enough : k <= j
               b == Last(free_lists[from])
    <2>1. /\ enough # {}
          /\ free_lists' = [k \in Orders |->
               IF k = from THEN Front(free_lists[k])
               ELSE IF k \in order .. from - 1
                    THEN Append(free_lists[k], b + order_to_size[k]) ELSE free_lists[k]]
          /\ allocated_bytes' = allocated_bytes + order_to_size[order]
          /\ held' = [held EXCEPT ![b] = bytes]
      BY <1>1, Zenon DEF BuddyAllocate
    <2>2. order \in Orders /\ order \in Nat /\ order = size_to_order(bytes)
      <3>1. bytes \in Int
        BY OrderTypes
      <3>2. order \in Orders
        BY <3>1, OrderOf
      <3> HIDE DEF order
      <3>3. order \in Nat
        BY <3>2, OrderTypes
      <3>4. QED
        BY <3>2, <3>3 DEF order
    <2>5. b = Last(free_lists[from])
      OBVIOUS
    <2> HIDE DEF b
    <2>4. from = CHOOSE k \in enough : \A j \in enough : k <= j
      OBVIOUS
    <2> HIDE DEF from
    <2>3. enough = {k \in order .. MaxOrder : free_lists[k] # <<>>}
      OBVIOUS
    <2> HIDE DEF enough, order
    <2>6. /\ enough # {}
          /\ free_lists' = SplitLists(free_lists, b, order, from)
          /\ allocated_bytes' = allocated_bytes + order_to_size[order]
          /\ held' = Put(held, b, bytes)
      BY <2>1, Zenon DEF SplitLists, Put
    <2>7. enough \in SUBSET Nat
      BY <2>2, <2>3
    <2>8. \E k \in enough : \A j \in enough : k <= j
      BY <2>6, <2>7, LeastNumber
    <2>9. from \in enough /\ \A j \in enough : from <= j
      BY <2>4, <2>8
    <2>10. from \in order .. MaxOrder /\ free_lists[from] # <<>>
      BY <2>3, <2>9
    <2>11. MaxOrder \in Nat /\ from \in Nat /\ order <= from /\ from <= MaxOrder
      BY <2>2, <2>10, OrderTypes
    <2>12. from \in Orders
      BY <2>11 DEF Orders
    <2>13. NoneFree(free_lists, order, from)
      <3> SUFFICES ASSUME NEW k \in order .. from - 1 PROVE free_lists[k] = <<>>
        BY DEF NoneFree
      <3>1. k \in order .. MaxOrder /\ ~(from <= k)
        BY <2>2, <2>11
      <3>2. k \notin enough
        BY <2>9, <3>1
      <3>3. QED
        BY <2>3, <3>1, <3>2
    <2>14. Sound(SplitLists(free_lists, b, order, from), allocated_bytes + order_to_size[order], Put(held, b, bytes))
      BY <2>2, <2>5, <2>10, <2>11, <2>12, <2>13, AllocateSound DEF BuddyInv
    <2>15. QED
      BY <2>6, <2>14 DEF BuddyInv
  <1>2. ASSUME NEW b \in Addresses, BuddyDeallocate(b)
        PROVE  BuddyInv'
    <2>1. PICK order : order = size_to_order(held[b])
      OBVIOUS
    <2>2. PICK m : m = Merged(free_lists, b, order)
      OBVIOUS
    <2>3. PICK M : M = [m.lists EXCEPT ![m.order] = Append(@, m.block)]
      OBVIOUS
    <2>4. /\ held[b] # 0 /\ free_lists' = M
          /\ allocated_bytes' = allocated_bytes - order_to_size[order]
          /\ held' = Put(held, b, 0)
      BY <1>2, <2>1, <2>2, <2>3, Zenon DEF BuddyDeallocate, Put
    <2>5. Sound(M, allocated_bytes - order_to_size[order], Put(held, b, 0))
      BY <2>1, <2>2, <2>3, <2>4, DeallocateSound DEF BuddyInv
    <2>6. QED
      BY <2>4, <2>5 DEF BuddyInv
  <1>3. CASE UNCHANGED buddyVars
    BY <1>3 DEF buddyVars, BuddyInv
  <1>4. QED
    BY <1>1, <1>2, <1>3 DEF BuddyNext

(* The invariant holds in every state of the buddy allocator.              *)
LEMMA BuddyInvariant ==
  BuddySpec => []BuddyInv
  BY BuddyStart, BuddyStep, PTL DEF BuddySpec

(* The invariant is what BuddyPartition asks for.                          *)
LEMMA SoundPartitions ==
  BuddyInv => BuddyPartition
  <1> SUFFICES ASSUME BuddyInv PROVE BuddyPartition
    OBVIOUS
  <1>1. FreeBlocks = BlocksIn(free_lists) /\ UsedBlocks = Used(held)
    BY DEF FreeBlocks, UsedBlocks, Used
  <1>2. /\ FreeLists(free_lists) /\ FreeBlocks \cap UsedBlocks = {} /\ Partition(FreeBlocks \cup UsedBlocks)
        /\ allocated_bytes = Cardinality(Covered(UsedBlocks)) /\ NoFreeBuddies(FreeBlocks)
    BY <1>1 DEF BuddyInv, Sound
  <1>3. \A k \in Orders : IsInjective(free_lists[k])
    BY <1>2 DEF FreeLists
  <1>4. FreeBlocks \in SUBSET Aligned
    BY <1>2 DEF Partition
  <1>5. \A x \in Aligned : Span(x[1], x[2]) \subseteq Covered(FreeBlocks) =>
          \E y \in FreeBlocks : Span(x[1], x[2]) \subseteq Span(y[1], y[2])
    BY <1>2, <1>4, FreeMaximal
  <1>6. \A x, y \in FreeBlocks \cup UsedBlocks : x # y => Span(x[1], x[2]) \cap Span(y[1], y[2]) = {}
    BY <1>2 DEF Partition, Disjoint
  <1>7. Covered(FreeBlocks \cup UsedBlocks) = 0 .. PoolSize - 1
    BY <1>2 DEF Partition
  <1>8. QED
    BY <1>2, <1>3, <1>5, <1>6, <1>7, Zenon DEF BuddyPartition

(* For every block size, every number of orders and any sequence of calls, *)
(* the blocks held and the free blocks partition the pool, allocated_bytes_ *)
(* is what callers hold, and no request is refused for fragments that could *)
(* have been merged (allocate and deallocate, buddy_allocator.hpp:61-138). *)
THEOREM BlocksPartitionPool ==
  BuddySpec => []BuddyPartition
  BY BuddyInvariant, SoundPartitions, PTL

=============================================================================
