-------------------------- MODULE BufferPoolProofs --------------------------
(***************************************************************************)
(* Proofs about BufferPool for every number of frames, clients and pages,  *)
(* every K and every number of failing writes: pointers stay valid, no     *)
(* change to a page is lost, no frame leaks but by a failed write, and the *)
(* victim is the frame that LRU-K names.                                   *)
(***************************************************************************)
EXTENDS BufferPool, FiniteSetTheorems, FunctionTheorems, SequenceTheorems,
        WellFoundedInduction, TLAPS

-----------------------------------------------------------------------------
(* The inductive invariant.                                                *)

(* page_table_ and the page ids of the frames are inverse to each other,   *)
(* and the pages that new_page has yet to hand out are nowhere.            *)
Mapping ==
  /\ \A p \in Page : Resident(p) => frames[page_table[p]].page_id = p
  /\ \A f \in Frame : frames[f].page_id # NoPage => page_table[frames[f].page_id] = f
  /\ \A p \in Page : p >= next_page_id => ~Resident(p) /\ changes[p] = 0

(* The free list holds each frame without a page once.                     *)
FreeFrames ==
  /\ \A f \in Frame : f \in Range(free_list) <=> frames[f].page_id = NoPage
  /\ \A i, j \in 1 .. Len(free_list) : free_list[i] = free_list[j] => i = j
  /\ \A f \in Frame : frames[f].page_id = NoPage => frames[f].pin_count = 0

(* The pointers to a frame. *)
Holders(f) == {cp \in Client \X Page : ptr[cp[1]][cp[2]] = f}

(* A held page is in the frame that the pointer names, only a holder can   *)
(* have changed it, and the pins count the pointers.                       *)
Pins ==
  /\ \A c \in Client, p \in Page : Held(c, p) => page_table[p] = ptr[c][p]
  /\ \A c \in Client, p \in Page : p \in wrote[c] => Held(c, p)
  /\ \A f \in Frame : frames[f].pin_count = Cardinality(Holders(f))

(* The replacer offers frames with a page and no pins.  A pinned frame has *)
(* a node, so that the last unpin_page finds one to mark.                  *)
Evictables ==
  /\ replacer.curr_size = Cardinality(replacer.evictable)
  /\ \A f \in replacer.evictable : frames[f].pin_count = 0 /\ frames[f].page_id # NoPage
  /\ \A f \in Frame : frames[f].pin_count > 0 => replacer.history[f] # << >>
  /\ Cardinality(Stranded) <= fails

(* The frame of a page has every change, and the disk too unless the frame *)
(* is dirty or a client that changed the page has yet to say so.           *)
Pending(p) ==
  /\ Resident(p) /\ status # "closed"
  /\ frames[page_table[p]].is_dirty \/ \E c \in Client : p \in wrote[c]

Saved ==
  \A p \in Page :
    /\ Resident(p) => pages[page_table[p]].tuples = changes[p]
    /\ Pending(p) \/ disk[p].tuples = changes[p]

IndInv == PoolTypeOK /\ Mapping /\ FreeFrames /\ Pins /\ Evictables /\ Saved

-----------------------------------------------------------------------------
(* The free list.                                                          *)

(* Tail takes its first element out of a list without repetitions. *)
LEMMA RangeOfTail ==
  ASSUME NEW s \in Seq(Frame), s # << >>,
         \A i, j \in 1 .. Len(s) : s[i] = s[j] => i = j
  PROVE  /\ Head(s) \in Range(s) /\ Head(s) \in Frame
         /\ Tail(s) \in Seq(Frame) /\ Range(Tail(s)) = Range(s) \ {Head(s)}
         /\ \A i, j \in 1 .. Len(Tail(s)) : Tail(s)[i] = Tail(s)[j] => i = j
  <1>1. Len(s) \in Nat \ {0} /\ DOMAIN s = 1 .. Len(s) /\ 1 \in 1 .. Len(s)
    BY EmptySeq
  <1>2. /\ Head(s) = s[1] /\ Tail(s) \in Seq(Frame) /\ Len(Tail(s)) = Len(s) - 1
        /\ \A i \in 1 .. Len(s) - 1 : Tail(s)[i] = s[i + 1]
        /\ DOMAIN Tail(s) = 1 .. Len(s) - 1
    BY HeadTailProperties
  <1>3. \A i \in 1 .. Len(s) - 1 : i + 1 \in 1 .. Len(s) /\ i + 1 # 1
    BY <1>1
  <1>4. \A i \in 1 .. Len(s) : i = 1 \/ (i - 1 \in 1 .. Len(s) - 1 /\ (i - 1) + 1 = i)
    BY <1>1
  <1>5. Range(Tail(s)) = Range(s) \ {Head(s)}
    <2>1. ASSUME NEW f \in Range(Tail(s)) PROVE f \in Range(s) \ {Head(s)}
      <3>1. PICK i \in 1 .. Len(s) - 1 : f = s[i + 1]
        BY <1>2 DEF Range
      <3>2. QED
        BY <1>1, <1>2, <1>3, <3>1 DEF Range
    <2>2. ASSUME NEW f \in Range(s) \ {Head(s)} PROVE f \in Range(Tail(s))
      <3>1. PICK i \in 1 .. Len(s) : f = s[i] /\ i # 1
        BY <1>1, <1>2 DEF Range
      <3>2. i - 1 \in 1 .. Len(s) - 1 /\ Tail(s)[i - 1] = f
        BY <1>2, <1>4, <3>1
      <3>3. QED
        BY <1>2, <3>2 DEF Range
    <2>3. QED
      BY <2>1, <2>2
  <1>6. ASSUME NEW i \in 1 .. Len(s) - 1, NEW j \in 1 .. Len(s) - 1, Tail(s)[i] = Tail(s)[j]
        PROVE  i = j
    <2>1. i + 1 = j + 1
      BY <1>2, <1>3, <1>6
    <2>2. QED
      BY <1>1, <2>1
  <1>7. Head(s) \in Range(s) /\ Head(s) \in Frame
    BY <1>1, <1>2 DEF Range
  <1>8. QED
    BY <1>2, <1>5, <1>6, <1>7

(* The constructor puts each frame on the free list. *)
LEMMA AllFree ==
  LET s == SetToSeq(Frame)
  IN  /\ s \in Seq(Frame) /\ Range(s) = Frame
      /\ \A i, j \in 1 .. Len(s) : s[i] = s[j] => i = j
  <1> DEFINE n == Cardinality(Frame)
             s == SetToSeq(Frame)
  <1>1. n \in Nat /\ ExistsBijection(1 .. n, Frame)
    BY FrameAssumption, FS_CardinalityType
  <1>2. PICK g \in Bijection(1 .. n, Frame) : TRUE
    BY <1>1 DEF ExistsBijection
  <1>3. g \in [1 .. n -> Frame] /\ IsInjective(g)
    BY <1>2 DEF Bijection, Injection, IsInjective
  <1>4. s \in [1 .. n -> Frame] /\ IsInjective(s)
    BY <1>3 DEF SetToSeq
  <1> HIDE DEF s
  <1>5. \A i, j \in 1 .. n : s[i] = s[j] => i = j
    BY <1>4 DEF IsInjective
  <1>6. IsFiniteSet(1 .. n) /\ Cardinality(1 .. n) = n
    BY <1>1, FS_Interval
  <1>7. s \in Surjection(1 .. n, Frame)
    <2>1. s \in Injection(1 .. n, Frame)
      BY <1>4, <1>5, Fun_IsInj
    <2>2. QED
      BY <1>6, <2>1, FrameAssumption, FS_Injection
  <1>8. Range(s) = Frame
    BY <1>4, <1>7 DEF Range, Surjection
  <1>9. s \in Seq(Frame) /\ Len(s) = n
    BY <1>1, <1>4
  <1>10. QED
    BY <1>5, <1>8, <1>9 DEF s

-----------------------------------------------------------------------------
(* The replacer.                                                           *)

(* What PoolTypeOK says of the replacer. *)
ReplacerOK(r) == r \in Replacer /\ \A f \in Frame : Len(r.history[f]) <= K

LEMMA RecordAccess ==
  ASSUME NEW r, ReplacerOK(r), NEW f \in Frame
  PROVE  LET q == record_access(r, f)
         IN  /\ ReplacerOK(q)
             /\ q.evictable = r.evictable /\ q.curr_size = r.curr_size
             /\ q.history[f] # << >>
             /\ \A g \in Frame : g # f => q.history[g] = r.history[g]
  <1> DEFINE q == record_access(r, f)
             longer == Append(r.history[f], r.now + 1)
             h == IF Len(longer) > K THEN Tail(longer) ELSE longer
  <1>1. /\ r.history \in [Frame -> Seq(Nat)] /\ r.now \in Nat
        /\ r.evictable \in SUBSET Frame /\ r.curr_size \in Int
        /\ \A g \in Frame : Len(r.history[g]) <= K
    BY DEF ReplacerOK, Replacer
  <1>2. /\ longer \in Seq(Nat) /\ Len(longer) = Len(r.history[f]) + 1
        /\ Len(r.history[f]) \in 0 .. K
    <2>1. r.history[f] \in Seq(Nat) /\ r.now + 1 \in Nat /\ Len(r.history[f]) \in Nat
      BY <1>1
    <2>2. QED
      BY <1>1, <2>1, AppendProperties, KAssumption
  <1> HIDE DEF longer
  <1>3. h \in Seq(Nat) /\ h # << >> /\ Len(h) <= K
    <2>1. CASE Len(longer) > K
      <3>1. longer # << >> /\ Len(longer) - 1 = K
        BY <1>2, <2>1, KAssumption
      <3>2. Tail(longer) \in Seq(Nat) /\ Len(Tail(longer)) = K
        BY <1>2, <3>1, HeadTailProperties
      <3>3. ASSUME NEW l \in Seq(Nat), Len(l) = K PROVE l # << >> /\ Len(l) <= K
        BY <3>3, KAssumption
      <3>4. QED
        BY <2>1, <3>2, <3>3
    <2>2. CASE ~(Len(longer) > K)
      BY <1>2, <2>2, KAssumption
    <2>3. QED
      BY <2>1, <2>2
  <1> HIDE DEF h
  <1>4. q = [r EXCEPT !.now = r.now + 1, !.history[f] = h]
    BY DEF record_access, h, longer
  <1> HIDE DEF q
  <1>5. /\ q.now = r.now + 1 /\ q.history = [r.history EXCEPT ![f] = h]
        /\ q.evictable = r.evictable /\ q.curr_size = r.curr_size
        /\ q \in Replacer
    <2>1. q = [history |-> [r.history EXCEPT ![f] = h], evictable |-> r.evictable,
               curr_size |-> r.curr_size, now |-> r.now + 1]
      BY <1>4 DEF Replacer, ReplacerOK
    <2>2. [r.history EXCEPT ![f] = h] \in [Frame -> Seq(Nat)] /\ r.now + 1 \in Nat
      BY <1>1, <1>3
    <2>3. QED
      BY <1>1, <2>1, <2>2 DEF Replacer
  <1>6. /\ q.history[f] = h /\ \A g \in Frame : g # f => q.history[g] = r.history[g]
    BY <1>1, <1>5
  <1>7. QED
    BY <1>1, <1>3, <1>5, <1>6 DEF ReplacerOK, q

(* The replacer q is r with these evictable frames. *)
Marked(q, r, S) ==
  /\ ReplacerOK(q) /\ q.history = r.history
  /\ q.evictable = S /\ q.curr_size = Cardinality(S)

LEMMA SetEvictable ==
  ASSUME NEW r, ReplacerOK(r), NEW f \in Frame, NEW b \in BOOLEAN, r.history[f] # << >>,
         r.curr_size = Cardinality(r.evictable)
  PROVE  Marked(set_evictable(r, f, b), r,
                IF b THEN r.evictable \cup {f} ELSE r.evictable \ {f})
  <1> DEFINE q == set_evictable(r, f, b)
  <1>1. /\ r.history \in [Frame -> Seq(Nat)] /\ r.now \in Nat
        /\ r.evictable \in SUBSET Frame /\ r.curr_size \in Int
        /\ \A g \in Frame : Len(r.history[g]) <= K
    BY DEF ReplacerOK, Replacer
  <1>2. IsFiniteSet(r.evictable)
    BY <1>1, FrameAssumption, FS_Subset
  <1>3. Cardinality(r.evictable) \in Nat
    BY <1>2, FS_CardinalityType
  <1>4. CASE (f \in r.evictable) = b
    <2>1. q = r
      BY <1>4 DEF set_evictable
    <2>2. r.evictable = IF b THEN r.evictable \cup {f} ELSE r.evictable \ {f}
      BY <1>4
    <2>3. QED
      BY <2>1, <2>2 DEF Marked
  <1>5. CASE b /\ f \notin r.evictable
    <2>1. q = [r EXCEPT !.evictable = r.evictable \cup {f}, !.curr_size = r.curr_size + 1]
      BY <1>5 DEF set_evictable
    <2>2. Cardinality(r.evictable \cup {f}) = r.curr_size + 1
      BY <1>2, <1>5, FS_AddElement
    <2>3. /\ q.history = r.history /\ q.evictable = r.evictable \cup {f}
          /\ q.curr_size = r.curr_size + 1 /\ q \in Replacer
      <3>1. q = [history |-> r.history, evictable |-> r.evictable \cup {f},
                 curr_size |-> r.curr_size + 1, now |-> r.now]
        BY <2>1 DEF Replacer, ReplacerOK
      <3>2. r.evictable \cup {f} \in SUBSET Frame /\ r.curr_size + 1 \in Int
        BY <1>1
      <3>3. QED
        BY <1>1, <3>1, <3>2 DEF Replacer
    <2>4. QED
      BY <1>1, <1>5, <2>2, <2>3 DEF ReplacerOK, Marked
  <1>6. CASE ~b /\ f \in r.evictable
    <2>1. q = [r EXCEPT !.evictable = r.evictable \ {f}, !.curr_size = r.curr_size - 1]
      BY <1>6 DEF set_evictable
    <2>2. Cardinality(r.evictable \ {f}) = r.curr_size - 1
      BY <1>2, <1>6, FS_RemoveElement, ZenonT(30)
    <2>3. /\ q.history = r.history /\ q.evictable = r.evictable \ {f}
          /\ q.curr_size = r.curr_size - 1 /\ q \in Replacer
      <3>1. q = [history |-> r.history, evictable |-> r.evictable \ {f},
                 curr_size |-> r.curr_size - 1, now |-> r.now]
        BY <2>1 DEF Replacer, ReplacerOK
      <3>2. r.evictable \ {f} \in SUBSET Frame /\ r.curr_size - 1 \in Int
        BY <1>1
      <3>3. QED
        BY <1>1, <3>1, <3>2 DEF Replacer
    <2>4. QED
      BY <1>1, <1>6, <2>2, <2>3 DEF ReplacerOK, Marked
  <1>7. QED
    BY <1>4, <1>5, <1>6

(* What a pinned frame leaves in the replacer: a node that is not          *)
(* evictable.                                                              *)
PinnedIn(q, r, f) ==
  /\ ReplacerOK(q)
  /\ q.evictable = r.evictable \ {f} /\ q.curr_size = Cardinality(q.evictable)
  /\ q.history[f] # << >>
  /\ \A g \in Frame : g # f => q.history[g] = r.history[g]

LEMMA PinnedNode ==
  ASSUME NEW r, ReplacerOK(r), NEW f \in Frame, r.curr_size = Cardinality(r.evictable)
  PROVE  PinnedIn(Pinned(r, f), r, f)
  <1> DEFINE q == record_access(r, f)
             w == set_evictable(q, f, FALSE)
  <1>1. /\ ReplacerOK(q)
        /\ q.evictable = r.evictable /\ q.curr_size = r.curr_size
        /\ q.history[f] # << >>
        /\ \A g \in Frame : g # f => q.history[g] = r.history[g]
    BY RecordAccess
  <1> HIDE DEF q
  <1>2. Marked(w, q, q.evictable \ {f})
    <2>1. Marked(w, q, IF FALSE THEN q.evictable \cup {f} ELSE q.evictable \ {f})
      BY <1>1, SetEvictable
    <2>2. QED
      BY <2>1
  <1>3. w = Pinned(r, f)
    BY DEF Pinned, q
  <1> HIDE DEF w
  <1>4. QED
    BY <1>1, <1>2, <1>3 DEF PinnedIn, Marked

LEMMA EraseVictim ==
  ASSUME NEW r, ReplacerOK(r), NEW f \in r.evictable, r.curr_size = Cardinality(r.evictable)
  PROVE  LET q == erase_victim(r, f)
         IN  /\ ReplacerOK(q)
             /\ q.evictable = r.evictable \ {f} /\ q.curr_size = Cardinality(q.evictable)
             /\ \A g \in Frame : g # f => q.history[g] = r.history[g]
  <1> DEFINE q == erase_victim(r, f)
  <1>1. /\ r.history \in [Frame -> Seq(Nat)] /\ r.now \in Nat
        /\ r.evictable \in SUBSET Frame /\ r.curr_size \in Int
        /\ \A g \in Frame : Len(r.history[g]) <= K
    BY DEF ReplacerOK, Replacer
  <1>2. << >> \in Seq(Nat) /\ Len(<< >>) = 0
    BY EmptySeq
  <1>3. /\ q.history = [r.history EXCEPT ![f] = << >>]
        /\ q.evictable = r.evictable \ {f} /\ q.curr_size = r.curr_size - 1
        /\ q \in Replacer
    <2>1. q = [history |-> [r.history EXCEPT ![f] = << >>], evictable |-> r.evictable \ {f},
               curr_size |-> r.curr_size - 1, now |-> r.now]
      <3>1. q = [r EXCEPT !.history = [r.history EXCEPT ![f] = << >>],
                          !.evictable = r.evictable \ {f}, !.curr_size = r.curr_size - 1]
        BY DEF erase_victim
      <3>2. QED
        BY <3>1 DEF Replacer, ReplacerOK
    <2>2. /\ [r.history EXCEPT ![f] = << >>] \in [Frame -> Seq(Nat)]
          /\ r.evictable \ {f} \in SUBSET Frame /\ r.curr_size - 1 \in Int
      BY <1>1, <1>2
    <2>3. QED
      BY <1>1, <2>1, <2>2 DEF Replacer
  <1> HIDE DEF q
  <1>4. \A g \in Frame : Len(q.history[g]) <= K /\ (g # f => q.history[g] = r.history[g])
    BY <1>1, <1>2, <1>3, KAssumption
  <1>5. IsFiniteSet(r.evictable)
    BY <1>1, FrameAssumption, FS_Subset
  <1>6. Cardinality(r.evictable \ {f}) = r.curr_size - 1
    BY <1>5, FS_RemoveElement
  <1>7. QED
    BY <1>3, <1>4, <1>6 DEF ReplacerOK, q

(* What find_available_frame returns: a frame without pins, taken off the  *)
(* free list or out of the replacer.                                       *)
Available(a) ==
  /\ a.fid \in Frame /\ frames[a.fid].pin_count = 0
  /\ a.free_list \in Seq(Frame) /\ Range(a.free_list) = Range(free_list) \ {a.fid}
  /\ \A i, j \in 1 .. Len(a.free_list) : a.free_list[i] = a.free_list[j] => i = j
  /\ ReplacerOK(a.replacer)
  /\ a.replacer.evictable = replacer.evictable \ {a.fid}
  /\ a.replacer.curr_size = Cardinality(a.replacer.evictable)
  /\ \A g \in Frame : g # a.fid => a.replacer.history[g] = replacer.history[g]

LEMMA FoundFrame ==
  ASSUME IndInv, NEW a \in find_available_frame
  PROVE  Available(a)
  <1>1. ReplacerOK(replacer) /\ replacer.curr_size = Cardinality(replacer.evictable)
    BY DEF IndInv, PoolTypeOK, Evictables, ReplacerOK
  <1>2. /\ free_list \in Seq(Frame)
        /\ \A i, j \in 1 .. Len(free_list) : free_list[i] = free_list[j] => i = j
    BY DEF IndInv, PoolTypeOK, FreeFrames
  <1>3. replacer.evictable \in SUBSET Frame
    BY <1>1 DEF ReplacerOK, Replacer
  <1>4. CASE free_list # << >>
    <2> DEFINE f == Head(free_list)
    <2>1. a = [fid |-> f, free_list |-> Tail(free_list), replacer |-> replacer]
      BY <1>4 DEF find_available_frame
    <2>2. a.fid = f /\ a.free_list = Tail(free_list) /\ a.replacer = replacer
      BY <2>1
    <2>3. /\ f \in Range(free_list) /\ f \in Frame
          /\ Tail(free_list) \in Seq(Frame) /\ Range(Tail(free_list)) = Range(free_list) \ {f}
          /\ \A i, j \in 1 .. Len(Tail(free_list)) :
               Tail(free_list)[i] = Tail(free_list)[j] => i = j
      BY <1>2, <1>4, RangeOfTail
    <2> HIDE DEF f
    <2>4. frames[f].pin_count = 0 /\ f \notin replacer.evictable
      BY <2>3 DEF IndInv, FreeFrames, Evictables
    <2>5. replacer.evictable \ {f} = replacer.evictable
      BY <2>4
    <2>6. QED
      BY <1>1, <2>2, <2>3, <2>4, <2>5 DEF Available
  <1>5. CASE free_list = << >>
    <2>1. PICK f \in Victims(replacer) : a = [fid |-> f, free_list |-> free_list,
                                             replacer |-> erase_victim(replacer, f)]
      BY <1>5 DEF find_available_frame
    <2>2. a.fid = f /\ a.free_list = free_list /\ a.replacer = erase_victim(replacer, f)
      BY <2>1
    <2>3. f \in replacer.evictable /\ f \in Frame
      BY <1>3, <2>1 DEF Victims
    <2> DEFINE q == erase_victim(replacer, f)
    <2>4. /\ ReplacerOK(q)
          /\ q.evictable = replacer.evictable \ {f} /\ q.curr_size = Cardinality(q.evictable)
          /\ \A g \in Frame : g # f => q.history[g] = replacer.history[g]
      BY <1>1, <2>3, EraseVictim
    <2> HIDE DEF q
    <2>5. a.replacer = q
      BY <2>2 DEF q
    <2>6. frames[f].pin_count = 0
      BY <2>3 DEF IndInv, Evictables
    <2>7. Range(free_list) = {}
      BY <1>5 DEF Range
    <2>8. QED
      BY <1>2, <2>2, <2>3, <2>4, <2>5, <2>6, <2>7, ZenonT(30) DEF Available
  <1>6. QED
    BY <1>4, <1>5

-----------------------------------------------------------------------------
(* The victim of the LRU-K replacer.                                       *)

(* The least-number principle, for sets: the form of induction used here.  *)
LEMMA LeastNumber ==
  ASSUME NEW T \in SUBSET Nat, T # {}
  PROVE  \E x \in T : \A y \in T : x <= y
  <1> DEFINE R == {ss \in Nat \X Nat : ss[1] < ss[2]}
  <1>1. IsWellFoundedOn(OpToRel(<, Nat), Nat)
    BY NatLessThanWellFounded
  <1>2. R = OpToRel(<, Nat)
    BY Zenon DEF OpToRel
  <1> HIDE DEF R
  <1>3. PICK x \in T : \A y \in T : ~(<<y, x>> \in R)
    BY <1>1, <1>2, WFMin
  <1>4. ASSUME NEW y \in T
        PROVE  x <= y
    <2>1. <<y, x>> \in Nat \X Nat /\ <<y, x>>[1] = y /\ <<y, x>>[2] = x
      OBVIOUS
    <2>2. ~(y < x)
      BY <1>3, <2>1, Zenon DEF R
    <2>3. QED
      BY <2>2
  <1>5. QED
    BY <1>4

(* The local variables of victim() after the loop has met the frames of S: *)
(* the oldest of those with fewer than K accesses, else the oldest of all. *)
BestOf(r, S, b) ==
  LET young == {f \in S : Len(r.history[f]) < K}
  IN  /\ b \in [found_inf : BOOLEAN, earliest : Int, max_k : Int, victim_id : SUBSET Frame]
      /\ b.found_inf <=> young # {}
      /\ young # {} => \E f \in Oldest(r, young) :
                          b.victim_id = {f} /\ b.earliest = r.history[f][1]
      /\ young = {} /\ S # {} => \E f \in Oldest(r, S) :
                          b.victim_id = {f} /\ b.max_k = r.now - r.history[f][1]
      /\ S = {} => b.victim_id = {}

LEMMA ScanStepBest ==
  ASSUME NEW r, ReplacerOK(r), NEW S \in SUBSET Frame, NEW f \in Frame,
         \A g \in S \cup {f} : r.history[g] # << >>, NEW b, BestOf(r, S, b)
  PROVE  BestOf(r, S \cup {f}, ScanStep(r, b, f))
  <1> DEFINE h(g) == r.history[g][1]
             U == S \cup {f}
             young == {g \in S : Len(r.history[g]) < K}
             youngU == {g \in U : Len(r.history[g]) < K}
             c == ScanStep(r, b, f)
  <1>1. /\ r.now \in Nat /\ \A g \in U : h(g) \in Nat
        /\ b \in [found_inf : BOOLEAN, earliest : Int, max_k : Int, victim_id : SUBSET Frame]
        /\ b.found_inf <=> young # {}
        /\ young # {} => \E g \in young : /\ \A x \in young : h(g) <= h(x)
                                         /\ b.victim_id = {g} /\ b.earliest = h(g)
        /\ young = {} /\ S # {} => \E g \in S : /\ \A x \in S : h(g) <= h(x)
                                                /\ b.victim_id = {g} /\ b.max_k = r.now - h(g)
        /\ S = {} => b.victim_id = {}
    <2>1. r.now \in Nat /\ r.history \in [Frame -> Seq(Nat)]
      BY DEF ReplacerOK, Replacer
    <2>2. ASSUME NEW g \in U PROVE h(g) \in Nat
      <3>1. r.history[g] \in Seq(Nat) /\ r.history[g] # << >>
        BY <2>1
      <3>2. 1 \in 1 .. Len(r.history[g])
        BY <3>1, EmptySeq
      <3>3. QED
        BY <3>1, <3>2
    <2>3. QED
      BY <2>1, <2>2 DEF BestOf, Oldest
  <1>2. c \in [found_inf : BOOLEAN, earliest : Int, max_k : Int, victim_id : SUBSET Frame]
    <2>1. f \in U /\ h(f) \in Int /\ r.now - h(f) \in Int /\ {f} \in SUBSET Frame
      BY <1>1
    <2>2. \/ c = [b EXCEPT !.found_inf = TRUE, !.earliest = h(f), !.victim_id = {f}]
          \/ c = [b EXCEPT !.max_k = r.now - h(f), !.victim_id = {f}]
          \/ c = b
      BY DEF ScanStep
    <2> HIDE DEF c, h
    <2>3. QED
      BY <1>1, <2>1, <2>2
  <1>3. CASE Len(r.history[f]) < K
    <2>1. youngU = young \cup {f} /\ youngU # {} /\ f \in U
      BY <1>3
    <2>2. \E g \in youngU : /\ \A x \in youngU : h(g) <= h(x)
                            /\ c.victim_id = {g} /\ c.earliest = h(g)
      <3>1. CASE young = {} \/ h(f) < b.earliest
        <4>1. c = [b EXCEPT !.found_inf = TRUE, !.earliest = h(f), !.victim_id = {f}]
          BY <1>1, <1>3, <3>1 DEF ScanStep
        <4>2. c.victim_id = {f} /\ c.earliest = h(f)
          BY <1>1, <4>1
        <4>3. \A x \in youngU : h(f) <= h(x)
          BY <1>1, <2>1, <3>1, SMTT(30)
        <4>4. QED
          BY <2>1, <4>2, <4>3
      <3>2. CASE young # {} /\ ~(h(f) < b.earliest)
        <4>1. c = b
          BY <1>1, <1>3, <3>2 DEF ScanStep
        <4>2. PICK g \in young : /\ \A x \in young : h(g) <= h(x)
                                 /\ b.victim_id = {g} /\ b.earliest = h(g)
          BY <1>1, <3>2
        <4>3. \A x \in youngU : h(g) <= h(x)
          BY <1>1, <2>1, <3>2, <4>2
        <4>4. QED
          BY <2>1, <4>1, <4>2, <4>3
      <3>3. QED
        BY <3>1, <3>2
    <2>3. c.found_inf
      BY <1>1, <1>3 DEF ScanStep
    <2>4. QED
      BY <1>2, <2>1, <2>2, <2>3 DEF BestOf, Oldest
  <1>4. CASE ~(Len(r.history[f]) < K) /\ young # {}
    <2>1. youngU = young /\ c = b
      BY <1>1, <1>4 DEF ScanStep
    <2>2. QED
      BY <1>1, <1>4, <2>1 DEF BestOf, Oldest
  <1>5. CASE ~(Len(r.history[f]) < K) /\ young = {}
    <2>1. youngU = {} /\ f \in U /\ ~b.found_inf
      BY <1>1, <1>5
    <2>2. \E g \in U : /\ \A x \in U : h(g) <= h(x)
                       /\ c.victim_id = {g} /\ c.max_k = r.now - h(g) /\ ~c.found_inf
      <3>1. CASE b.victim_id = {} \/ r.now - h(f) > b.max_k
        <4>1. c = [b EXCEPT !.max_k = r.now - h(f), !.victim_id = {f}]
          BY <1>1, <1>5, <2>1, <3>1 DEF ScanStep
        <4>2. c.victim_id = {f} /\ c.max_k = r.now - h(f) /\ ~c.found_inf
          BY <1>1, <2>1, <4>1
        <4>3. ASSUME NEW x \in S PROVE h(f) <= h(x)
          <5>1. PICK g \in S : /\ \A y \in S : h(g) <= h(y)
                               /\ b.victim_id = {g} /\ b.max_k = r.now - h(g)
            BY <1>1, <1>5, <4>3
          <5>2. h(g) <= h(x) /\ r.now - h(f) > r.now - h(g)
            BY <3>1, <5>1
          <5>3. h(g) \in Nat /\ h(x) \in Nat /\ h(f) \in Nat /\ r.now \in Nat
            BY <1>1
          <5> HIDE DEF h
          <5>4. QED
            BY <5>2, <5>3
        <4>4. QED
          BY <1>1, <2>1, <4>2, <4>3
      <3>2. CASE ~(b.victim_id = {} \/ r.now - h(f) > b.max_k)
        <4>1. c = b
          BY <1>1, <1>5, <2>1, <3>2 DEF ScanStep
        <4>2. PICK g \in S : /\ \A x \in S : h(g) <= h(x)
                             /\ b.victim_id = {g} /\ b.max_k = r.now - h(g)
          BY <1>1, <1>5, <3>2
        <4>3. h(g) \in Nat /\ h(f) \in Nat /\ h(g) <= h(f)
          <5>1. h(g) \in Nat /\ h(f) \in Nat /\ r.now \in Nat
            BY <1>1
          <5>2. ~(r.now - h(f) > r.now - h(g))
            BY Zenon, <3>2, <4>2
          <5> HIDE DEF h
          <5>3. QED
            BY <5>1, <5>2
        <4>4. QED
          BY <2>1, <4>1, <4>2, <4>3
      <3>3. QED
        BY <3>1, <3>2
    <2>3. QED
      BY <1>2, <2>1, <2>2 DEF BestOf, Oldest
  <1>6. QED
    BY <1>3, <1>4, <1>5

(* The loop of victim() ends with the best of all frames in the list. *)
LEMMA ScanFinds ==
  ASSUME NEW r, ReplacerOK(r), NEW order \in Seq(Frame),
         \A j \in 1 .. Len(order) : r.history[order[j]] # << >>
  PROVE  \E b : BestOf(r, Range(order), b) /\ Scan(r, order) = b.victim_id
  <1> DEFINE n == Len(order)
             start == [found_inf |-> FALSE, earliest |-> 0, max_k |-> 0, victim_id |-> {}]
             after(f, i) == IF i = 0 THEN start ELSE ScanStep(r, f[i - 1], order[i])
             run(f) == [i \in 0 .. n |-> after(f, i)]
             best == CHOOSE f : f = run(f)
             upTo(f, m) == f = [i \in 0 .. m |-> f[i]] /\ \A i \in 0 .. m : f[i] = after(f, i)
             met(i) == {order[j] : j \in 1 .. i}
  <1>1. n \in Nat /\ \A j \in 1 .. n : order[j] \in Frame
    OBVIOUS
  <1>2. \E f : upTo(f, n)
    <2> DEFINE T == {m \in 0 .. n : ~ \E f : upTo(f, m)}
    <2>0. T \in SUBSET (0 .. n)
      BY Zenon
    <2>1. ASSUME NEW m \in T, \A y \in T : m <= y
          PROVE  FALSE
      <3>1. CASE m = 0
        <4> DEFINE f == [i \in 0 .. 0 |-> start]
        <4>1. upTo(f, 0)
          OBVIOUS
        <4>2. QED
          BY <3>1, <4>1
      <3>2. CASE m # 0
        <4>1. m \in 1 .. n /\ m - 1 \in 0 .. n /\ m - 1 \notin T
          <5> HIDE DEF T
          <5>1. m \in 1 .. n
            BY <1>1, <2>0, <2>1, <3>2
          <5>2. QED
            BY <1>1, <2>1, <5>1
        <4>2. PICK f : upTo(f, m - 1)
          BY <4>1
        <4> DEFINE last == ScanStep(r, f[m - 1], order[m])
                   g == [i \in 0 .. m |-> IF i = m THEN last ELSE f[i]]
        <4>3. \A i \in 0 .. m - 1 : g[i] = f[i] /\ f[i] = after(f, i)
          <5>1. \A i \in 0 .. m - 1 : f[i] = after(f, i)
            BY <4>2, Zenon
          <5>2. \A i \in 0 .. m - 1 : i \in 0 .. m /\ i # m
            BY <4>1
          <5> HIDE DEF after, last
          <5>3. QED
            BY <5>1, <5>2
        <4>4. g[m] = last /\ g = [i \in 0 .. m |-> g[i]]
          BY <4>1
        <4>5. ASSUME NEW i \in 0 .. m
              PROVE  g[i] = after(g, i)
          <5> HIDE DEF g
          <5>1. CASE i = m
            <6>1. m # 0 /\ g[m - 1] = f[m - 1]
              BY <4>1, <4>3
            <6>2. QED
              BY <4>4, <5>1, <6>1
          <5>2. CASE i # m /\ i # 0
            <6>1. i \in 0 .. m - 1 /\ i - 1 \in 0 .. m - 1
              BY <4>1, <5>2
            <6>2. g[i - 1] = f[i - 1] /\ g[i] = after(f, i)
              BY <4>3, <6>1
            <6>3. QED
              BY <5>2, <6>2
          <5>3. CASE i # m /\ i = 0
            <6>1. i \in 0 .. m - 1
              BY <4>1, <5>3
            <6>2. QED
              BY <4>3, <5>3, <6>1
          <5>4. QED
            BY <5>1, <5>2, <5>3
        <4>6. upTo(g, m)
          BY <4>4, <4>5
        <4>7. QED
          BY <4>6
      <3>3. QED
        BY <3>1, <3>2
    <2>2. T = {}
      <3> HIDE DEF upTo
      <3>1. T \in SUBSET Nat
        BY <1>1
      <3> HIDE DEF T
      <3>2. QED
        BY <2>1, <3>1, LeastNumber
    <2>3. QED
      <3> HIDE DEF upTo
      <3>1. n \in 0 .. n
        BY <1>1
      <3>2. QED
        BY <2>2, <3>1
  <1>3. best = run(best)
    <2>1. PICK f : upTo(f, n)
      BY <1>2
    <2>2. f = run(f)
      BY <2>1
    <2>3. QED
      BY <2>2, Zenon
  <1>4. Scan(r, order) = best[n].victim_id
    BY DEF Scan
  <1> HIDE DEF best
  <1>5. \A i \in 0 .. n : best[i] = after(best, i)
    BY <1>3
  <1>6. \A i \in 0 .. n : BestOf(r, met(i), best[i])
    <2> DEFINE T == {m \in 0 .. n : ~BestOf(r, met(m), best[m])}
    <2>0. T \in SUBSET (0 .. n)
      OBVIOUS
    <2>1. ASSUME NEW m \in T, \A y \in T : m <= y
          PROVE  FALSE
      <3>1. CASE m = 0
        <4>1. met(0) = {} /\ best[0] = start
          BY <1>1, <1>5
        <4>2. BestOf(r, {}, start)
          BY DEF BestOf
        <4>3. QED
          BY <3>1, <4>1, <4>2
      <3>2. CASE m # 0
        <4>1. m \in 1 .. n /\ m - 1 \in 0 .. n /\ m - 1 \notin T
          <5> HIDE DEF T
          <5>1. m \in 1 .. n
            BY <1>1, <2>0, <2>1, <3>2
          <5>2. QED
            BY <1>1, <2>1, <5>1
        <4>2. BestOf(r, met(m - 1), best[m - 1])
          BY <4>1
        <4>3. best[m] = ScanStep(r, best[m - 1], order[m])
          BY <1>5, <4>1
        <4>4. \A j \in 1 .. m : j \in 1 .. m - 1 \/ j = m
          BY <4>1
        <4>5. met(m) = met(m - 1) \cup {order[m]}
          BY <4>1, <4>4
        <4>6. \A j \in 1 .. m : j \in 1 .. n
          BY <1>1, <4>1
        <4>7. /\ met(m - 1) \in SUBSET Frame /\ order[m] \in Frame
              /\ \A g \in met(m) : r.history[g] # << >>
          BY <1>1, <4>1, <4>4, <4>6
        <4> HIDE DEF met
        <4>8. BestOf(r, met(m), ScanStep(r, best[m - 1], order[m]))
          BY <4>2, <4>5, <4>7, ScanStepBest
        <4>9. QED
          BY <4>3, <4>8
      <3>3. QED
        BY <3>1, <3>2
    <2>2. T = {}
      <3>1. T \in SUBSET Nat
        BY <1>1
      <3> HIDE DEF T
      <3>2. QED
        BY <2>1, <3>1, LeastNumber
    <2>3. QED
      BY <2>2
  <1>7. met(n) = Range(order)
    BY <1>1 DEF Range
  <1>8. n \in 0 .. n
    BY <1>1
  <1>9. QED
    BY <1>4, <1>6, <1>7, <1>8

-----------------------------------------------------------------------------
(* Pins and frames.                                                        *)

LEMMA HoldersFinite ==
  \A S \in SUBSET (Client \X Page) : IsFiniteSet(S) /\ Cardinality(S) \in Nat
  <1>1. IsFiniteSet(Page)
    BY PoolAssumption, FS_Interval DEF Page
  <1>2. IsFiniteSet(Client \X Page)
    BY <1>1, FrameAssumption, FS_Product
  <1>3. QED
    BY <1>2, FS_Subset, FS_CardinalityType

LEMMA FramesFinite ==
  \A S \in SUBSET Frame : IsFiniteSet(S) /\ Cardinality(S) \in Nat
  BY FrameAssumption, FS_Subset, FS_CardinalityType

(* A page id is not one of no page, and a page is in one frame only. *)
LEMMA PageOfFrame ==
  ASSUME IndInv, NEW f \in Frame
  PROVE  /\ frames[f].page_id \in Page \/ frames[f].page_id = NoPage
         /\ NoPage \notin Page
         /\ \A p \in Page : page_table[p] = f => frames[f].page_id = p
         /\ \A p \in Page : frames[f].page_id = p => page_table[p] = f
  <1>1. NoPage \notin Page
    BY PoolAssumption DEF NoPage, Page
  <1>2. frames[f].page_id \in Page \cup {NoPage} /\ f # NoFrame
    BY FrameAssumption DEF IndInv, PoolTypeOK, FrameMeta
  <1>3. QED
    BY <1>1, <1>2 DEF IndInv, Mapping, Resident

(* Nobody holds or has changed the page of a frame without pins. *)
LEMMA Unheld ==
  ASSUME IndInv, NEW f \in Frame, frames[f].pin_count = 0
  PROVE  /\ \A c \in Client, p \in Page : ptr[c][p] # f
         /\ \A c \in Client, p \in Page : page_table[p] = f => p \notin wrote[c]
  <1>1. Holders(f) = {}
    <2>1. Cardinality(Holders(f)) = 0 /\ IsFiniteSet(Holders(f))
      BY HoldersFinite DEF IndInv, Pins, Holders
    <2>2. QED
      BY <2>1, FS_EmptySet
  <1>2. \A c \in Client, p \in Page : ptr[c][p] # f
    <2>1. ASSUME NEW c \in Client, NEW p \in Page, ptr[c][p] = f PROVE FALSE
      <3>1. <<c, p>> \in Holders(f)
        BY <2>1 DEF Holders
      <3>2. QED
        BY <1>1, <3>1
    <2>2. QED
      BY <2>1
  <1>3. QED
    BY <1>2 DEF IndInv, Pins

-----------------------------------------------------------------------------
(* new_page, and fetch_page of a page that is in no frame.                 *)

(* The effect of Install on the state, by element. *)
Installed(c, p, f, image) ==
  LET q == frames[f].page_id
  IN  /\ \A x \in Page : page_table'[x] = IF x = p THEN f
                                          ELSE IF x = q THEN NoFrame ELSE page_table[x]
      /\ \A x \in Page : disk'[x] = IF Dirty(f) /\ x = q THEN pages[f] ELSE disk[x]
      /\ \A g \in Frame : g # f => frames'[g] = frames[g] /\ pages'[g] = pages[g]
      /\ frames'[f].page_id = p /\ frames'[f].pin_count = 1 /\ ~frames'[f].is_dirty
      /\ pages'[f] = image
      /\ \A d \in Client, x \in Page : ptr'[d][x] = IF d = c /\ x = p THEN f ELSE ptr[d][x]
      /\ UNCHANGED <<wrote, changes, fails, status>>

LEMMA InstallEffect ==
  ASSUME IndInv, NEW c \in Client, NEW p \in Page, NEW a, Available(a), NEW image \in Image,
         Install(c, p, a, image), next_page_id' \in 0 .. MaxPages
  PROVE  PoolTypeOK' /\ Installed(c, p, a.fid, image) /\ PinnedIn(replacer', a.replacer, a.fid)
  <1> DEFINE f == a.fid
             q == frames[f].page_id
             row == [page_id |-> p, pin_count |-> 1, is_dirty |-> FALSE]
             to == [ptr[c] EXCEPT ![p] = f]
  <1>1. f \in Frame /\ f \in Frame \cup {NoFrame} /\ PoolTypeOK
    BY DEF IndInv, Available
  <1>2. /\ disk' = IF Dirty(f) THEN [disk EXCEPT ![q] = pages[f]] ELSE disk
        /\ page_table' = [x \in Page |-> IF x = p THEN f ELSE IF x = q THEN NoFrame
                                         ELSE page_table[x]]
        /\ pages' = [pages EXCEPT ![f] = image] /\ frames' = [frames EXCEPT ![f] = row]
        /\ free_list' = a.free_list /\ replacer' = Pinned(a.replacer, f)
        /\ ptr' = [ptr EXCEPT ![c] = to]
        /\ UNCHANGED <<wrote, changes, fails, status>>
    BY DEF Install, WriteBack
  <1>3. PinnedIn(replacer', a.replacer, f)
    BY <1>1, <1>2, PinnedNode DEF Available
  <1>4. row \in FrameMeta
    BY DEF FrameMeta
  <1>5. to \in [Page -> Frame \cup {NoFrame}] /\ \A x \in Page : to[x] = IF x = p THEN f ELSE ptr[c][x]
    BY <1>1 DEF PoolTypeOK
  <1> HIDE DEF to, row
  <1>6. PoolTypeOK'
    <2>1. free_list' \in Seq(Frame) /\ replacer' \in Replacer
          /\ \A g \in Frame : Len(replacer'.history[g]) <= K
      BY <1>2, <1>3 DEF Available, PinnedIn, ReplacerOK
    <2>2. page_table' \in [Page -> Frame \cup {NoFrame}]
      BY <1>1, <1>2 DEF PoolTypeOK
    <2>3. frames' \in [Frame -> FrameMeta]
      BY <1>1, <1>2, <1>4 DEF PoolTypeOK
    <2>4. pages' \in [Frame -> Image]
      BY <1>1, <1>2 DEF PoolTypeOK
    <2>5. disk' \in [Page -> Image]
      BY <1>1, <1>2 DEF PoolTypeOK
    <2>6. ptr' \in [Client -> [Page -> Frame \cup {NoFrame}]]
      BY <1>1, <1>2, <1>5 DEF PoolTypeOK
    <2>7. QED
      BY <1>1, <1>2, <2>1, <2>2, <2>3, <2>4, <2>5, <2>6 DEF PoolTypeOK
  <1>7. \A x \in Page : disk'[x] = IF Dirty(f) /\ x = q THEN pages[f] ELSE disk[x]
    BY <1>1, <1>2 DEF PoolTypeOK
  <1>8. /\ \A g \in Frame : g # f => frames'[g] = frames[g] /\ pages'[g] = pages[g]
        /\ frames'[f] = row /\ pages'[f] = image
    BY <1>1, <1>2 DEF PoolTypeOK
  <1>9. \A d \in Client, x \in Page : ptr'[d][x] = IF d = c /\ x = p THEN f ELSE ptr[d][x]
    BY <1>1, <1>2, <1>5 DEF PoolTypeOK
  <1>10. Installed(c, p, f, image)
    <2>1. frames'[f].page_id = p /\ frames'[f].pin_count = 1 /\ ~frames'[f].is_dirty
      BY <1>8 DEF row
    <2>2. \A x \in Page : page_table'[x] = IF x = p THEN f ELSE IF x = q THEN NoFrame
                                           ELSE page_table[x]
      BY <1>2
    <2>3. QED
      BY <1>2, <1>7, <1>8, <1>9, <2>1, <2>2 DEF Installed
  <1>11. QED
    BY <1>3, <1>6, <1>10

LEMMA InstallKeeps ==
  ASSUME IndInv, NEW c \in Client, NEW p \in Page, NEW a \in find_available_frame,
         NEW image \in Image, Install(c, p, a, image), Open,
         ~Resident(p), image.tuples = changes[p],
         next_page_id' \in 0 .. MaxPages, next_page_id <= next_page_id', p < next_page_id'
  PROVE  IndInv'
  <1> DEFINE f == a.fid
             q == frames[f].page_id
  <1>1. Available(a) /\ f \in Frame /\ f # NoFrame /\ frames[f].pin_count = 0
    BY FoundFrame, FrameAssumption DEF Available
  <1>2. PoolTypeOK' /\ Installed(c, p, f, image) /\ PinnedIn(replacer', a.replacer, f)
    BY <1>1, InstallEffect
  <1>3. /\ q \in Page \/ q = NoPage
        /\ NoPage \notin Page
        /\ \A x \in Page : page_table[x] = f => q = x
        /\ \A x \in Page : q = x => page_table[x] = f
    BY <1>1, PageOfFrame
  <1>4. p # q /\ page_table[p] = NoFrame
    BY <1>1, <1>3 DEF Resident
  <1>5. /\ \A d \in Client, x \in Page : ptr[d][x] # f
        /\ \A d \in Client, x \in Page : page_table[x] = f => x \notin wrote[d]
    BY <1>1, Unheld
  <1>6. ~Held(c, p) /\ \A d \in Client : ~Held(d, p) /\ p \notin wrote[d]
    BY <1>4 DEF IndInv, Pins, Held
  <1> HIDE DEF f
  <1>7. Mapping'
    <2>1. ASSUME NEW x \in Page, page_table'[x] # NoFrame PROVE frames'[page_table'[x]].page_id = x
      <3>1. CASE x = p
        BY <1>2, <3>1 DEF Installed
      <3>2. CASE x # p
        <4>1. x # q /\ page_table'[x] = page_table[x]
          BY <1>2, <2>1, <3>2 DEF Installed
        <4>2. page_table[x] # f /\ page_table[x] \in Frame /\ page_table[x] # NoFrame
          BY <1>3, <2>1, <4>1 DEF IndInv, PoolTypeOK
        <4>3. frames'[page_table[x]] = frames[page_table[x]]
          BY <1>2, <4>2 DEF Installed
        <4>4. QED
          BY <4>1, <4>2, <4>3 DEF IndInv, Mapping, Resident
      <3>3. QED
        BY <3>1, <3>2
    <2>2. ASSUME NEW g \in Frame, frames'[g].page_id # NoPage
          PROVE  page_table'[frames'[g].page_id] = g
      <3>1. CASE g = f
        BY <1>2, <3>1 DEF Installed
      <3>2. CASE g # f
        <4> DEFINE x == frames[g].page_id
        <4>1. frames'[g] = frames[g] /\ x # NoPage
          BY <1>2, <2>2, <3>2 DEF Installed
        <4>2. x \in Page /\ page_table[x] = g
          BY <4>1, PageOfFrame
        <4>3. x # q /\ x # p
          BY <1>3, <1>4, <3>2, <4>2, FrameAssumption
        <4>4. QED
          BY <1>2, <4>1, <4>2, <4>3 DEF Installed
      <3>3. QED
        BY <3>1, <3>2
    <2>3. ASSUME NEW x \in Page, x >= next_page_id'
          PROVE  page_table'[x] = NoFrame /\ changes'[x] = 0
      <3>1. x # p /\ x >= next_page_id
        BY <2>3, PoolAssumption DEF Page, IndInv, PoolTypeOK
      <3>2. page_table[x] = NoFrame /\ changes[x] = 0
        BY <3>1 DEF IndInv, Mapping, Resident
      <3>3. QED
        BY <1>2, <3>1, <3>2 DEF Installed
    <2>4. QED
      BY <2>1, <2>2, <2>3 DEF Mapping, Resident
  <1>8. FreeFrames'
    <2>1. /\ free_list' = a.free_list /\ Range(a.free_list) = Range(free_list) \ {f}
          /\ \A i, j \in 1 .. Len(a.free_list) : a.free_list[i] = a.free_list[j] => i = j
      BY <1>1 DEF Install, Available, f
    <2>2. Range(free_list') = Range(free_list) \ {f}
      BY <2>1
    <2>3. frames'[f].page_id # NoPage
      BY <1>2, <1>3 DEF Installed
    <2>4. \A g \in Frame : g # f => frames'[g] = frames[g]
      BY <1>2 DEF Installed
    <2>5. QED
      BY <2>1, <2>2, <2>3, <2>4 DEF IndInv, FreeFrames
  <1>9. Pins'
    <2>1. ASSUME NEW d \in Client, NEW x \in Page, ptr'[d][x] # NoFrame
          PROVE  page_table'[x] = ptr'[d][x]
      <3>1. CASE d = c /\ x = p
        BY <1>2, <3>1 DEF Installed
      <3>2. CASE ~(d = c /\ x = p)
        <4>1. ptr'[d][x] = ptr[d][x]
          BY <1>2, <3>2 DEF Installed
        <4>2. page_table[x] = ptr[d][x] /\ x # p
          BY <1>6, <2>1, <4>1 DEF IndInv, Pins, Held
        <4>3. x # q
          BY <1>3, <1>5, <4>2
        <4>4. QED
          BY <1>2, <4>1, <4>2, <4>3 DEF Installed
      <3>3. QED
        BY <3>1, <3>2
    <2>2. ASSUME NEW d \in Client, NEW x \in Page, x \in wrote'[d] PROVE ptr'[d][x] # NoFrame
      <3>1. x \in wrote[d] /\ x # p
        BY <1>2, <1>6, <2>2 DEF Installed
      <3>2. QED
        BY <1>2, <3>1 DEF Installed, IndInv, Pins, Held
    <2>3. ASSUME NEW g \in Frame PROVE frames'[g].pin_count = Cardinality(Holders(g)')
      <3>1. CASE g = f
        <4>1. Holders(g)' = {<<c, p>>}
          BY <1>2, <1>5, <3>1 DEF Holders, Installed
        <4>2. Cardinality({<<c, p>>}) = 1
          BY FS_Singleton
        <4>3. frames'[f].pin_count = 1
          BY <1>2 DEF Installed
        <4>4. QED
          BY <3>1, <4>1, <4>2, <4>3
      <3>2. CASE g # f
        <4>1. ptr[c][p] = NoFrame /\ g # NoFrame
          BY <1>6, FrameAssumption DEF Held
        <4>2. Holders(g)' = Holders(g)
          BY <1>2, <3>2, <4>1 DEF Holders, Installed
        <4>3. frames'[g] = frames[g]
          BY <1>2, <3>2 DEF Installed
        <4>4. QED
          BY <4>2, <4>3 DEF IndInv, Pins
      <3>3. QED
        BY <3>1, <3>2
    <2>4. QED
      BY <2>1, <2>2, <2>3 DEF Pins, Held
  <1>10. Evictables'
    <2>1. /\ replacer'.evictable = replacer.evictable \ {f}
          /\ replacer'.curr_size = Cardinality(replacer'.evictable)
          /\ replacer'.history[f] # << >>
          /\ \A g \in Frame : g # f => replacer'.history[g] = replacer.history[g]
      BY <1>1, <1>2 DEF PinnedIn, Available, f
    <2>2. \A g \in Frame : g # f => frames'[g] = frames[g]
      BY <1>2 DEF Installed
    <2>3. replacer.evictable \in SUBSET Frame
      BY DEF IndInv, PoolTypeOK, Replacer
    <2>4. Cardinality(Stranded') <= fails'
      <3>1. Range(free_list') = Range(free_list) \ {f}
        BY <1>1 DEF Install, Available, f
      <3>2. frames'[f].pin_count # 0
        BY <1>2 DEF Installed
      <3>3. Stranded' \in SUBSET Stranded
        BY <2>1, <2>2, <3>1, <3>2 DEF Stranded
      <3>4. Stranded \in SUBSET Frame
        BY DEF Stranded
      <3>5. IsFiniteSet(Stranded) /\ Cardinality(Stranded) \in Nat /\ Cardinality(Stranded') \in Nat
        BY <3>3, <3>4, FramesFinite
      <3>6. Cardinality(Stranded') <= Cardinality(Stranded)
        BY <3>3, <3>5, FS_Subset
      <3>7. fails' = fails /\ fails \in Nat /\ Cardinality(Stranded) <= fails
        BY <1>2 DEF Installed, IndInv, PoolTypeOK, Evictables
      <3>8. QED
        BY <3>5, <3>6, <3>7
    <2>5. QED
      BY <2>1, <2>2, <2>3, <2>4 DEF IndInv, Evictables
  <1>11. Saved'
    <2>1. ASSUME NEW x \in Page
          PROVE  /\ page_table'[x] # NoFrame => pages'[page_table'[x]].tuples = changes'[x]
                 /\ Pending(x)' \/ disk'[x].tuples = changes'[x]
      <3>1. changes' = changes /\ wrote' = wrote /\ status' = status /\ status = "open"
        BY <1>2 DEF Installed, Open
      <3>2. CASE x = p
        <4>1. page_table'[x] = f /\ pages'[f] = image /\ disk'[x] = disk[x]
          BY <1>2, <1>4, <3>2 DEF Installed
        <4>2. ~Pending(x)
          BY <1>4, <3>2 DEF Pending, Resident
        <4>3. QED
          BY <3>1, <3>2, <4>1, <4>2 DEF IndInv, Saved
      <3>3. CASE x = q
        <4>1. page_table'[x] = NoFrame /\ page_table[x] = f
          BY <1>2, <1>3, <1>4, <3>3 DEF Installed
        <4>2. pages[f].tuples = changes[x]
          BY <1>1, <4>1 DEF IndInv, Saved, Resident
        <4>3. CASE frames[f].is_dirty
          <5>1. Dirty(f)
            BY <1>3, <3>3, <4>3 DEF Dirty
          <5>2. disk'[x] = pages[f]
            BY <1>2, <3>3, <5>1 DEF Installed
          <5>3. QED
            BY <3>1, <4>1, <4>2, <5>2
        <4>4. CASE ~frames[f].is_dirty
          <5>1. ~Pending(x)
            BY <1>5, <4>1, <4>4 DEF Pending
          <5>2. disk'[x] = disk[x]
            BY <1>2, <4>4 DEF Installed, Dirty
          <5>3. QED
            BY <3>1, <4>1, <5>1, <5>2 DEF IndInv, Saved
        <4>5. QED
          BY <4>3, <4>4
      <3>4. CASE x # p /\ x # q
        <4>1. page_table'[x] = page_table[x] /\ disk'[x] = disk[x]
          BY <1>2, <3>4 DEF Installed
        <4>2. page_table[x] # f
          BY <1>3, <3>4
        <4>3. page_table[x] # NoFrame => /\ frames'[page_table[x]] = frames[page_table[x]]
                                         /\ pages'[page_table[x]] = pages[page_table[x]]
          BY <1>2, <4>2 DEF Installed, IndInv, PoolTypeOK
        <4>4. Pending(x) => Pending(x)'
          BY <3>1, <4>1, <4>3 DEF Pending, Resident
        <4>5. QED
          BY <3>1, <4>1, <4>3, <4>4 DEF IndInv, Saved, Resident
      <3>5. QED
        BY <3>2, <3>3, <3>4
    <2>2. QED
      BY <2>1 DEF Saved, Resident
  <1>12. QED
    BY <1>2, <1>7, <1>8, <1>9, <1>10, <1>11 DEF IndInv

-----------------------------------------------------------------------------
(* Steps that only write pages to disk.                                    *)

(* The frames keep their pages and pins; only is_dirty may change. *)
SamePins ==
  \A f \in Frame : /\ frames'[f].page_id = frames[f].page_id
                   /\ frames'[f].pin_count = frames[f].pin_count

LEMMA DiskStepKeeps ==
  ASSUME IndInv, PoolTypeOK', SamePins, fails <= fails',
         UNCHANGED <<free_list, page_table, pages, replacer, next_page_id, ptr, wrote, changes>>,
         \A p \in Page : Pending(p)' \/ disk'[p].tuples = changes[p]
  PROVE  IndInv'
  <1>1. Mapping'
    <2>1. \A p \in Page : page_table[p] # NoFrame => page_table[p] \in Frame
      BY DEF IndInv, PoolTypeOK
    <2>2. QED
      BY <2>1 DEF IndInv, Mapping, SamePins, Resident
  <1>2. FreeFrames'
    BY DEF IndInv, FreeFrames, SamePins
  <1>3. Pins'
    BY DEF IndInv, Pins, SamePins, Held, Holders
  <1>4. Evictables'
    <2>1. Stranded' = Stranded
      BY DEF Stranded, SamePins
    <2>2. Stranded \in SUBSET Frame
      BY DEF Stranded
    <2>3. Cardinality(Stranded) \in Nat /\ fails \in Nat /\ fails' \in Nat
      BY <2>2, FramesFinite DEF IndInv, PoolTypeOK
    <2>4. Cardinality(Stranded') <= fails'
      BY <2>1, <2>3 DEF IndInv, Evictables
    <2>5. replacer.evictable \in SUBSET Frame
      BY DEF IndInv, PoolTypeOK, Replacer
    <2>6. QED
      BY <2>4, <2>5 DEF IndInv, Evictables, SamePins
  <1>5. Saved'
    BY DEF IndInv, Saved, Resident
  <1>6. QED
    BY <1>1, <1>2, <1>3, <1>4, <1>5 DEF IndInv

(* A failing pwrite of page p keeps the disk's type and the other pages,   *)
(* and does not tear a page that is the same on disk.                      *)
LEMMA FailedWriteEffect ==
  ASSUME IndInv, NEW d \in [Page -> Image], NEW p \in Page, Resident(p), FailedWrite(d, p)
  PROVE  /\ disk' \in [Page -> Image] /\ fails' = fails + 1 /\ fails' \in Nat
         /\ \A x \in Page : x # p => disk'[x] = d[x]
         /\ d[p].tuples = pages[page_table[p]].tuples => disk'[p].tuples = d[p].tuples
  <1> DEFINE new == pages[page_table[p]]
             part == Partial(d[p], new)
  <1>1. new \in Image /\ d[p] \in Image
    BY DEF IndInv, PoolTypeOK, Resident
  <1>2. new.id \in Page /\ new.tuples \in Nat \cup {Torn} /\ d[p].tuples \in Nat \cup {Torn}
    BY <1>1 DEF Image
  <1>3. part \in Image
    BY <1>2 DEF Partial, Image
  <1>4. d[p].tuples = new.tuples => part.tuples = d[p].tuples
    BY DEF Partial
  <1> HIDE DEF part
  <1>5. disk' = d \/ disk' = [d EXCEPT ![p] = part]
    BY DEF FailedWrite, part
  <1>6. fails' = fails + 1 /\ fails' \in Nat
    BY DEF FailedWrite, IndInv, PoolTypeOK
  <1>7. QED
    BY <1>3, <1>4, <1>5, <1>6

LEMMA FlushPageKeeps ==
  ASSUME IndInv, NEW p \in Page, flush_page(p)
  PROVE  IndInv'
  <1> DEFINE f == page_table[p]
  <1>1. /\ f \in Frame /\ PoolTypeOK /\ status = "open"
        /\ disk' = [disk EXCEPT ![p] = pages[f]]
        /\ frames' = [frames EXCEPT ![f].is_dirty = FALSE]
        /\ UNCHANGED <<free_list, page_table, pages, replacer, next_page_id, ptr, wrote,
                       changes, fails, status>>
    BY DEF flush_page, IndInv, PoolTypeOK, Resident, clients, Open
  <1> HIDE DEF f
  <1>2. /\ disk' \in [Page -> Image] /\ disk'[p] = pages[f]
        /\ \A x \in Page : x # p => disk'[x] = disk[x]
    BY <1>1 DEF PoolTypeOK
  <1>3. /\ frames' \in [Frame -> FrameMeta]
        /\ \A g \in Frame : g # f => frames'[g] = frames[g]
        /\ SamePins
    BY <1>1, ZenonT(30) DEF PoolTypeOK, SamePins, FrameMeta
  <1>4. PoolTypeOK'
    BY <1>1, <1>2, <1>3 DEF PoolTypeOK
  <1>5. ASSUME NEW x \in Page PROVE Pending(x)' \/ disk'[x].tuples = changes[x]
    <2>1. CASE x = p
      BY <1>2, <2>1 DEF IndInv, Saved, flush_page, f
    <2>2. CASE x # p
      <3>1. page_table[x] # NoFrame => page_table[x] # f /\ page_table[x] \in Frame
        <4>1. frames[f].page_id = p
          BY DEF IndInv, Mapping, flush_page, f
        <4>2. QED
          BY <1>1, <2>2, <4>1 DEF IndInv, Mapping, PoolTypeOK, Resident
      <3>2. Pending(x) => Pending(x)'
        BY <1>1, <1>3, <3>1 DEF Pending, Resident
      <3>3. QED
        BY <1>2, <2>2, <3>2 DEF IndInv, Saved
    <2>3. QED
      BY <2>1, <2>2
  <1>6. fails <= fails'
    BY <1>1 DEF PoolTypeOK
  <1>7. QED
    BY <1>1, <1>3, <1>4, <1>5, <1>6, DiskStepKeeps

LEMMA FlushPageThrowsKeeps ==
  ASSUME IndInv, NEW p \in Page, flush_page_throws(p)
  PROVE  IndInv'
  <1>1. /\ PoolTypeOK /\ Resident(p) /\ FailedWrite(disk, p)
        /\ UNCHANGED <<free_list, page_table, frames, pages, replacer, next_page_id, ptr, wrote,
                       changes, status>>
    BY DEF flush_page_throws, IndInv, clients, pool
  <1>2. /\ disk' \in [Page -> Image] /\ fails' = fails + 1 /\ fails' \in Nat
        /\ \A x \in Page : x # p => disk'[x] = disk[x]
        /\ disk[p].tuples = pages[page_table[p]].tuples => disk'[p].tuples = disk[p].tuples
    BY <1>1, FailedWriteEffect DEF PoolTypeOK
  <1>3. PoolTypeOK'
    BY <1>1, <1>2 DEF PoolTypeOK
  <1>4. ASSUME NEW x \in Page PROVE Pending(x)' \/ disk'[x].tuples = changes[x]
    <2>1. Pending(x)' = Pending(x)
      BY <1>1 DEF Pending, Resident
    <2>2. x = p => pages[page_table[p]].tuples = changes[x]
      BY <1>1 DEF IndInv, Saved
    <2>3. QED
      BY <1>2, <2>1, <2>2 DEF IndInv, Saved
  <1>5. fails <= fails' /\ SamePins
    BY <1>1, <1>2 DEF PoolTypeOK, SamePins
  <1>6. QED
    BY <1>1, <1>3, <1>4, <1>5, DiskStepKeeps

(* The loop of flush_all_pages over a set of the dirty pages. *)
LEMMA FlushedEffect ==
  ASSUME IndInv, NEW S \in SUBSET DirtyPages, Flushed(S)
  PROVE  /\ frames' \in [Frame -> FrameMeta]
         /\ SamePins
         /\ \A f \in Frame : frames'[f].is_dirty <=> frames[f].is_dirty /\ frames[f].page_id \notin S
         /\ WrittenTo(S) \in [Page -> Image]
         /\ \A p \in S : WrittenTo(S)[p] = pages[page_table[p]]
         /\ \A p \in Page : p \notin S => WrittenTo(S)[p] = disk[p]
  <1>1. PoolTypeOK /\ S \subseteq Page
    BY DEF IndInv, DirtyPages
  <1>2. ASSUME NEW f \in Frame
        PROVE  /\ frames'[f] \in FrameMeta
               /\ frames'[f].page_id = frames[f].page_id
               /\ frames'[f].pin_count = frames[f].pin_count
               /\ frames'[f].is_dirty <=> frames[f].is_dirty /\ frames[f].page_id \notin S
    <2>1. frames'[f] = [frames[f] EXCEPT !.is_dirty = @ /\ frames[f].page_id \notin S]
      BY DEF Flushed
    <2>2. frames[f] \in FrameMeta
      BY <1>1 DEF PoolTypeOK
    <2>3. QED
      BY <2>1, <2>2 DEF FrameMeta
  <1>3. frames' \in [Frame -> FrameMeta]
    BY <1>2 DEF Flushed
  <1>4. \A p \in S : pages[page_table[p]] \in Image
    BY <1>1 DEF PoolTypeOK, DirtyPages, Resident
  <1>5. WrittenTo(S) \in [Page -> Image]
    BY <1>1, <1>4 DEF WrittenTo, PoolTypeOK
  <1>6. QED
    BY <1>1, <1>2, <1>3, <1>5 DEF WrittenTo, SamePins

(* With status' open this is a call of flush_all_pages, with status'       *)
(* closed the destructor's, which runs when no client holds a page.        *)
LEMMA FlushAllKeeps ==
  ASSUME IndInv, flush_all_pages, Open, status' \in {"open", "closed"},
         status' = "closed" => Idle
  PROVE  IndInv'
  <1> DEFINE S == DirtyPages
  <1>1. /\ PoolTypeOK /\ disk' = WrittenTo(S) /\ Flushed(S) /\ status = "open"
        /\ UNCHANGED <<free_list, page_table, pages, replacer, next_page_id, ptr, wrote,
                       changes, fails>>
    BY DEF flush_all_pages, IndInv, clients, Open
  <1>2. /\ frames' \in [Frame -> FrameMeta]
        /\ SamePins
        /\ \A f \in Frame : frames'[f].is_dirty <=> frames[f].is_dirty /\ frames[f].page_id \notin S
        /\ WrittenTo(S) \in [Page -> Image]
        /\ \A p \in S : WrittenTo(S)[p] = pages[page_table[p]]
        /\ \A p \in Page : p \notin S => WrittenTo(S)[p] = disk[p]
    BY <1>1, FlushedEffect
  <1>3. \A p \in Page : p \in S <=> Resident(p) /\ frames[page_table[p]].is_dirty
    BY DEF DirtyPages
  <1> HIDE DEF S
  <1>4. PoolTypeOK'
    BY <1>1, <1>2 DEF PoolTypeOK
  <1>5. ASSUME NEW x \in Page PROVE Pending(x)' \/ disk'[x].tuples = changes[x]
    <2>1. CASE x \in S
      <3>1. Resident(x) /\ disk'[x] = pages[page_table[x]]
        BY <1>1, <1>2, <1>3, <2>1
      <3>2. QED
        BY <3>1 DEF IndInv, Saved
    <2>2. CASE x \notin S /\ Pending(x)
      <3>1. PICK c \in Client : x \in wrote[c]
        BY <1>3, <2>2 DEF Pending
      <3>2. Held(c, x)
        BY <3>1 DEF IndInv, Pins
      <3>3. status' # "closed"
        BY <3>2 DEF Idle
      <3>4. QED
        BY <1>1, <2>2, <3>1, <3>3 DEF Pending, Resident
    <2>3. CASE x \notin S /\ ~Pending(x)
      BY <1>1, <1>2, <2>3 DEF IndInv, Saved
    <2>4. QED
      BY <2>1, <2>2, <2>3
  <1>6. fails <= fails'
    BY <1>1 DEF PoolTypeOK
  <1>7. QED
    BY <1>1, <1>2, <1>4, <1>5, <1>6, DiskStepKeeps

LEMMA FlushAllThrowsKeeps ==
  ASSUME IndInv, flush_all_throws, Open, status' \in {"open", "terminated"}
  PROVE  IndInv'
  <1>1. PICK S \in SUBSET DirtyPages, p \in DirtyPages :
          /\ p \notin S /\ FailedWrite(WrittenTo(S), p) /\ Flushed(S)
          /\ UNCHANGED <<free_list, page_table, pages, replacer, next_page_id, clients>>
    BY DEF flush_all_throws
  <1>2. /\ PoolTypeOK /\ status = "open"
        /\ UNCHANGED <<free_list, page_table, pages, replacer, next_page_id, ptr, wrote, changes>>
    BY <1>1 DEF IndInv, clients, Open
  <1>3. /\ frames' \in [Frame -> FrameMeta]
        /\ SamePins
        /\ \A f \in Frame : frames'[f].is_dirty <=> frames[f].is_dirty /\ frames[f].page_id \notin S
        /\ WrittenTo(S) \in [Page -> Image]
        /\ \A x \in S : WrittenTo(S)[x] = pages[page_table[x]]
        /\ \A x \in Page : x \notin S => WrittenTo(S)[x] = disk[x]
    BY <1>1, FlushedEffect
  <1>4. /\ p \in Page /\ Resident(p) /\ frames[page_table[p]].is_dirty
        /\ \A x \in S : x \in Page /\ Resident(x)
    BY DEF DirtyPages
  <1>5. /\ disk' \in [Page -> Image] /\ fails' = fails + 1 /\ fails' \in Nat
        /\ \A x \in Page : x # p => disk'[x] = WrittenTo(S)[x]
    BY <1>1, <1>3, <1>4, FailedWriteEffect
  <1>6. PoolTypeOK'
    BY <1>2, <1>3, <1>5 DEF PoolTypeOK
  <1>7. ASSUME NEW x \in Page PROVE Pending(x)' \/ disk'[x].tuples = changes[x]
    <2>1. CASE x \in S
      <3>1. Resident(x) /\ disk'[x] = pages[page_table[x]]
        BY <1>1, <1>3, <1>4, <1>5, <2>1
      <3>2. QED
        BY <3>1 DEF IndInv, Saved
    <2>2. ASSUME x \notin S, Pending(x) PROVE Pending(x)'
      <3>1. page_table[x] \in Frame /\ frames[page_table[x]].page_id = x
        BY <2>2 DEF Pending, Resident, IndInv, PoolTypeOK, Mapping
      <3>2. frames'[page_table[x]].is_dirty <=> frames[page_table[x]].is_dirty
        BY <1>3, <2>2, <3>1
      <3>3. QED
        BY <1>2, <2>2, <3>2 DEF Pending, Resident
    <2>3. CASE x = p
      <3>1. Pending(p)
        BY <1>2, <1>4 DEF Pending
      <3>2. QED
        BY <1>1, <2>2, <2>3, <3>1
    <2>4. CASE x \notin S /\ ~Pending(x) /\ x # p
      BY <1>3, <1>5, <2>4 DEF IndInv, Saved
    <2>5. QED
      BY <2>1, <2>2, <2>3, <2>4
  <1>8. fails <= fails'
    BY <1>2, <1>5 DEF PoolTypeOK
  <1>9. QED
    BY <1>2, <1>3, <1>6, <1>7, <1>8, DiskStepKeeps

-----------------------------------------------------------------------------
(* A write-back that throws: the frame has lost its place, the page not.   *)
LEMMA InstallFailsKeeps ==
  ASSUME IndInv, NEW a \in find_available_frame, InstallFails(a), Open,
         next_page_id' \in 0 .. MaxPages, next_page_id <= next_page_id'
  PROVE  IndInv'
  <1> DEFINE f == a.fid
             q == frames[f].page_id
  <1>1. Available(a) /\ f \in Frame
    BY FoundFrame DEF Available
  <1>2. /\ PoolTypeOK /\ Dirty(f) /\ FailedWrite(disk, q)
        /\ free_list' = a.free_list /\ replacer' = a.replacer
        /\ UNCHANGED <<page_table, frames, pages, ptr, wrote, changes, status>>
    BY DEF InstallFails, IndInv, clients
  <1>3. q \in Page /\ page_table[q] = f /\ Resident(q) /\ frames[f].is_dirty /\ q # NoPage
    BY <1>1, <1>2, PageOfFrame, FrameAssumption DEF Dirty, Resident
  <1>4. /\ disk' \in [Page -> Image] /\ fails' = fails + 1 /\ fails' \in Nat
        /\ \A x \in Page : x # q => disk'[x] = disk[x]
    BY <1>2, <1>3, FailedWriteEffect DEF PoolTypeOK
  <1>5. /\ free_list' \in Seq(Frame) /\ Range(free_list') = Range(free_list) \ {f}
        /\ \A i, j \in 1 .. Len(free_list') : free_list'[i] = free_list'[j] => i = j
        /\ ReplacerOK(replacer')
        /\ replacer'.evictable = replacer.evictable \ {f}
        /\ replacer'.curr_size = Cardinality(replacer'.evictable)
        /\ \A g \in Frame : g # f => replacer'.history[g] = replacer.history[g]
        /\ frames[f].pin_count = 0
    BY <1>1, <1>2 DEF Available
  <1> HIDE DEF f
  <1>6. PoolTypeOK'
    BY <1>2, <1>4, <1>5 DEF PoolTypeOK, ReplacerOK
  <1>7. Mapping'
    <2>1. \A x \in Page : x >= next_page_id' => x >= next_page_id
      BY PoolAssumption DEF Page, IndInv, PoolTypeOK
    <2>2. QED
      BY <1>2, <2>1 DEF IndInv, Mapping, Resident
  <1>8. FreeFrames'
    <2>1. f \notin Range(free_list)
      BY <1>1, <1>3 DEF IndInv, FreeFrames, f
    <2>2. Range(free_list') = Range(free_list)
      BY <1>5, <2>1
    <2>3. QED
      BY <1>2, <1>5, <2>2 DEF IndInv, FreeFrames
  <1>9. Pins'
    BY <1>2 DEF IndInv, Pins, Held, Holders
  <1>10. Evictables'
    <2>1. Stranded' \in SUBSET (Stranded \cup {f}) /\ Stranded \in SUBSET Frame
      BY <1>2, <1>5 DEF Stranded
    <2>2. IsFiniteSet(Stranded) /\ Cardinality(Stranded) \in Nat
      BY <2>1, FramesFinite
    <2>3. /\ IsFiniteSet(Stranded \cup {f})
          /\ Cardinality(Stranded \cup {f}) = Cardinality(Stranded)
             \/ Cardinality(Stranded \cup {f}) = Cardinality(Stranded) + 1
      BY <2>2, FS_AddElement
    <2>4. Cardinality(Stranded') <= Cardinality(Stranded \cup {f}) /\ Cardinality(Stranded') \in Nat
      BY <2>1, <2>3, FS_Subset, FS_CardinalityType
    <2>5. Cardinality(Stranded) <= fails /\ fails \in Nat
      BY <1>2 DEF IndInv, Evictables, PoolTypeOK
    <2>6. Cardinality(Stranded') <= fails'
      BY <1>4, <2>2, <2>3, <2>4, <2>5
    <2>7. \A g \in Frame : frames[g].pin_count > 0 => replacer'.history[g] # << >>
      BY <1>5 DEF IndInv, Evictables
    <2>8. QED
      BY <1>2, <1>5, <2>6, <2>7 DEF IndInv, Evictables
  <1>11. Saved'
    <2>1. ASSUME NEW x \in Page PROVE Pending(x)' \/ disk'[x].tuples = changes[x]
      <3>1. Pending(x)' = Pending(x)
        BY <1>2 DEF Pending, Resident
      <3>2. Pending(q)
        BY <1>2, <1>3 DEF Pending, Open, f
      <3>3. QED
        BY <1>4, <3>1, <3>2 DEF IndInv, Saved
    <2>2. QED
      BY <1>2, <2>1 DEF IndInv, Saved, Resident
  <1>12. QED
    BY <1>6, <1>7, <1>8, <1>9, <1>10, <1>11 DEF IndInv

-----------------------------------------------------------------------------
(* fetch_page of a page in a frame, unpin_page, and changes to a page.     *)

(* Client c gets (to = f) or gives back (to = NoFrame) its pointer to page *)
(* p in frame f.                                                           *)
Repinned(c, p, f, to) ==
  /\ \A g \in Frame : g # f => frames'[g] = frames[g]
  /\ frames'[f].page_id = frames[f].page_id
  /\ \/ to = f /\ ptr[c][p] = NoFrame /\ frames'[f].pin_count = frames[f].pin_count + 1
     \/ to = NoFrame /\ ptr[c][p] = f /\ frames'[f].pin_count = frames[f].pin_count - 1
  /\ \A d \in Client, x \in Page : ptr'[d][x] = IF d = c /\ x = p THEN to ELSE ptr[d][x]
  /\ UNCHANGED <<free_list, page_table, pages, disk, next_page_id, changes, fails, status>>

LEMMA RepinnedKeeps ==
  ASSUME IndInv, NEW c \in Client, NEW p \in Page, NEW f \in Frame, page_table[p] = f,
         NEW to, Repinned(c, p, f, to)
  PROVE  /\ Mapping' /\ FreeFrames'
         /\ \A d \in Client, x \in Page : ptr'[d][x] # NoFrame => page_table'[x] = ptr'[d][x]
         /\ \A g \in Frame : frames'[g].pin_count = Cardinality(Holders(g)')
  <1>1. /\ frames[f].page_id = p /\ f # NoFrame
        /\ \A g \in Frame : frames'[g].page_id = frames[g].page_id
    BY FrameAssumption, PageOfFrame DEF Repinned
  <1>2. Mapping'
    <2>1. \A x \in Page : page_table[x] # NoFrame => page_table[x] \in Frame
      BY DEF IndInv, PoolTypeOK
    <2>2. QED
      BY <1>1, <2>1 DEF IndInv, Mapping, Repinned, Resident
  <1>3. FreeFrames'
    <2>1. frames'[f].page_id # NoPage
      BY <1>1, PageOfFrame
    <2>2. QED
      BY <1>1, <2>1 DEF IndInv, FreeFrames, Repinned
  <1>4. \A d \in Client, x \in Page : ptr'[d][x] # NoFrame => page_table'[x] = ptr'[d][x]
    BY DEF IndInv, Pins, Held, Repinned
  <1>5. ASSUME NEW g \in Frame PROVE frames'[g].pin_count = Cardinality(Holders(g)')
    <2>0. /\ IsFiniteSet(Holders(g)) /\ Cardinality(Holders(g)) \in Nat
          /\ frames[g].pin_count = Cardinality(Holders(g))
      BY HoldersFinite DEF Holders, IndInv, Pins
    <2>1. CASE g # f
      <3>1. ptr[c][p] # g /\ to # g /\ g # NoFrame
        BY <2>1, FrameAssumption DEF Repinned
      <3>2. Holders(g)' = Holders(g)
        BY <3>1 DEF Holders, Repinned
      <3>3. QED
        BY <2>0, <2>1, <3>2 DEF Repinned
    <2>2. CASE g = f /\ to = f
      <3>1. ptr[c][p] = NoFrame /\ frames'[g].pin_count = frames[g].pin_count + 1
        BY <1>1, <2>2 DEF Repinned
      <3>2. Holders(g)' = Holders(g) \cup {<<c, p>>} /\ <<c, p>> \notin Holders(g)
        BY <1>1, <2>2, <3>1 DEF Holders, Repinned
      <3>3. Cardinality(Holders(g) \cup {<<c, p>>}) = Cardinality(Holders(g)) + 1
        BY <2>0, <3>2, FS_AddElement
      <3>4. QED
        BY <2>0, <3>1, <3>2, <3>3
    <2>3. CASE g = f /\ to # f
      <3>1. to = NoFrame /\ ptr[c][p] = f /\ frames'[g].pin_count = frames[g].pin_count - 1
        BY <2>3 DEF Repinned
      <3>2. Holders(g)' = Holders(g) \ {<<c, p>>} /\ <<c, p>> \in Holders(g)
        BY <1>1, <2>3, <3>1 DEF Holders, Repinned
      <3>3. Cardinality(Holders(g) \ {<<c, p>>}) = Cardinality(Holders(g)) - 1
        BY <2>0, <3>2, FS_RemoveElement
      <3>4. QED
        BY <2>0, <3>1, <3>2, <3>3
    <2>4. QED
      BY <2>1, <2>2, <2>3
  <1>6. QED
    BY <1>2, <1>3, <1>4, <1>5

(* Evictables needs of a step that strands no frame. *)
LEMMA NoneStranded ==
  ASSUME IndInv, Stranded' \in SUBSET Stranded, fails' = fails
  PROVE  Cardinality(Stranded') <= fails'
  <1>1. Stranded \in SUBSET Frame
    BY DEF Stranded
  <1>2. /\ IsFiniteSet(Stranded) /\ Cardinality(Stranded) \in Nat
        /\ Cardinality(Stranded') \in Nat
    BY <1>1, FramesFinite
  <1>3. Cardinality(Stranded') <= Cardinality(Stranded)
    BY <1>2, FS_Subset
  <1>4. QED
    BY <1>2, <1>3 DEF IndInv, Evictables, PoolTypeOK

LEMMA FetchHitKeeps ==
  ASSUME IndInv, NEW c \in Client, NEW p \in Page, FetchHit(c, p)
  PROVE  IndInv'
  <1> DEFINE f == page_table[p]
             to == [ptr[c] EXCEPT ![p] = f]
  <1>1. /\ PoolTypeOK /\ f \in Frame /\ f # NoFrame /\ ptr[c][p] = NoFrame
        /\ frames' = [frames EXCEPT ![f].pin_count = @ + 1]
        /\ replacer' = Pinned(replacer, f)
        /\ ptr' = [ptr EXCEPT ![c] = to]
        /\ UNCHANGED <<free_list, page_table, pages, disk, next_page_id, wrote, changes,
                       fails, status>>
    BY DEF FetchHit, IndInv, PoolTypeOK, Resident, Held
  <1>2. PinnedIn(replacer', replacer, f)
    BY <1>1, PinnedNode DEF IndInv, PoolTypeOK, Evictables, ReplacerOK
  <1>3. /\ \A g \in Frame : g # f => frames'[g] = frames[g]
        /\ frames'[f].page_id = frames[f].page_id
        /\ frames'[f].is_dirty = frames[f].is_dirty
        /\ frames'[f].pin_count = frames[f].pin_count + 1
        /\ frames' \in [Frame -> FrameMeta]
    <2> DEFINE row == [frames[f] EXCEPT !.pin_count = @ + 1]
    <2>1. /\ row \in FrameMeta /\ row.page_id = frames[f].page_id
          /\ row.is_dirty = frames[f].is_dirty /\ row.pin_count = frames[f].pin_count + 1
      <3>1. frames[f] \in FrameMeta
        BY <1>1 DEF PoolTypeOK
      <3>2. QED
        BY <3>1 DEF FrameMeta
    <2>2. frames' = [frames EXCEPT ![f] = row]
      BY <1>1
    <2> HIDE DEF row
    <2>3. QED
      BY <1>1, <2>1, <2>2 DEF PoolTypeOK
  <1>4. /\ to \in [Page -> Frame \cup {NoFrame}]
        /\ \A x \in Page : to[x] = IF x = p THEN f ELSE ptr[c][x]
    BY <1>1 DEF PoolTypeOK
  <1> HIDE DEF f, to
  <1>5. /\ \A d \in Client, x \in Page : ptr'[d][x] = IF d = c /\ x = p THEN f ELSE ptr[d][x]
        /\ ptr' \in [Client -> [Page -> Frame \cup {NoFrame}]]
    BY <1>1, <1>4 DEF PoolTypeOK
  <1>6. PoolTypeOK'
    BY <1>1, <1>2, <1>3, <1>5 DEF PoolTypeOK, PinnedIn, ReplacerOK
  <1>7. Repinned(c, p, f, f)
    BY <1>1, <1>3, <1>5 DEF Repinned
  <1>8. /\ Mapping' /\ FreeFrames'
        /\ \A d \in Client, x \in Page : ptr'[d][x] # NoFrame => page_table'[x] = ptr'[d][x]
        /\ \A g \in Frame : frames'[g].pin_count = Cardinality(Holders(g)')
    BY <1>1, <1>7, RepinnedKeeps DEF f
  <1>9. Pins'
    <2>1. \A d \in Client, x \in Page : x \in wrote'[d] => ptr'[d][x] # NoFrame
      BY <1>1, <1>5 DEF IndInv, Pins, Held
    <2>2. QED
      BY <1>8, <2>1 DEF Pins, Held
  <1>10. Evictables'
    <2>1. frames'[f].pin_count # 0 /\ frames[f].pin_count \in Nat
      BY <1>1, <1>3 DEF PoolTypeOK, FrameMeta
    <2>2. Stranded' \in SUBSET Stranded
      BY <1>1, <1>2, <1>3, <2>1 DEF Stranded, PinnedIn
    <2>3. Cardinality(Stranded') <= fails'
      BY <1>1, <2>2, NoneStranded
    <2>4. replacer.evictable \in SUBSET Frame
      BY <1>1 DEF PoolTypeOK, Replacer
    <2>5. \A g \in replacer'.evictable : frames'[g].pin_count = 0 /\ frames'[g].page_id # NoPage
      BY <1>2, <1>3, <2>4 DEF IndInv, Evictables, PinnedIn
    <2>6. \A g \in Frame : frames'[g].pin_count > 0 => replacer'.history[g] # << >>
      BY <1>2, <1>3 DEF IndInv, Evictables, PinnedIn
    <2>7. QED
      BY <1>2, <2>3, <2>5, <2>6 DEF Evictables, PinnedIn
  <1>11. Saved'
    <2>1. \A x \in Page : page_table[x] # NoFrame =>
                            frames'[page_table[x]].is_dirty = frames[page_table[x]].is_dirty
      BY <1>1, <1>3 DEF PoolTypeOK
    <2>2. \A x \in Page : Pending(x) => Pending(x)'
      BY <1>1, <2>1 DEF Pending, Resident
    <2>3. QED
      BY <1>1, <2>2 DEF IndInv, Saved, Resident
  <1>12. QED
    BY <1>6, <1>8, <1>9, <1>10, <1>11 DEF IndInv

LEMMA UnpinKeeps ==
  ASSUME IndInv, NEW c \in Client, NEW p \in Page, NEW b \in BOOLEAN, unpin_page(c, p, b)
  PROVE  IndInv'
  <1> DEFINE f == page_table[p]
             pins == frames[f].pin_count - 1
             to == [ptr[c] EXCEPT ![p] = NoFrame]
  <1>1. /\ PoolTypeOK /\ f \in Frame /\ f # NoFrame /\ ptr[c][p] # NoFrame
        /\ p \in wrote[c] => b
        /\ frames[f].pin_count \in Nat /\ frames[f].pin_count > 0
        /\ frames' = [frames EXCEPT ![f].pin_count = pins, ![f].is_dirty = @ \/ b]
        /\ replacer' = Unpinned(f, pins)
        /\ ptr' = [ptr EXCEPT ![c] = to]
        /\ wrote' = [wrote EXCEPT ![c] = wrote[c] \ {p}]
        /\ UNCHANGED <<free_list, page_table, pages, disk, next_page_id, changes,
                       fails, status>>
    BY DEF unpin_page, IndInv, PoolTypeOK, FrameMeta, Resident, Held
  <1>2. ptr[c][p] = f
    BY <1>1 DEF IndInv, Pins, Held
  <1>3. /\ \A g \in Frame : g # f => frames'[g] = frames[g]
        /\ frames'[f].page_id = frames[f].page_id
        /\ frames'[f].is_dirty = (frames[f].is_dirty \/ b)
        /\ frames'[f].pin_count = pins /\ pins \in Nat
        /\ frames' \in [Frame -> FrameMeta]
    <2>1. pins \in Nat
      BY <1>1
    <2> HIDE DEF pins
    <2> DEFINE row == [frames[f] EXCEPT !.pin_count = pins, !.is_dirty = @ \/ b]
    <2>2. /\ row \in FrameMeta /\ row.page_id = frames[f].page_id
          /\ row.is_dirty = (frames[f].is_dirty \/ b) /\ row.pin_count = pins
      BY <1>1, <2>1 DEF PoolTypeOK, FrameMeta
    <2>3. frames' = [frames EXCEPT ![f] = row]
      BY <1>1
    <2> HIDE DEF row
    <2>4. QED
      BY <1>1, <2>1, <2>2, <2>3 DEF PoolTypeOK
  <1>4. /\ to \in [Page -> Frame \cup {NoFrame}]
        /\ \A x \in Page : to[x] = IF x = p THEN NoFrame ELSE ptr[c][x]
    BY <1>1 DEF PoolTypeOK
  <1>5. Marked(replacer', replacer,
               IF pins = 0 THEN replacer.evictable \cup {f} ELSE replacer.evictable)
    <2>1. ReplacerOK(replacer) /\ replacer.curr_size = Cardinality(replacer.evictable)
      BY DEF IndInv, PoolTypeOK, Evictables, ReplacerOK
    <2>2. replacer.history[f] # << >>
      BY <1>1 DEF IndInv, Evictables
    <2>3. CASE pins = 0
      <3>1. Marked(set_evictable(replacer, f, TRUE), replacer,
                   IF TRUE THEN replacer.evictable \cup {f} ELSE replacer.evictable \ {f})
        BY <1>1, <2>1, <2>2, SetEvictable
      <3>2. replacer' = set_evictable(replacer, f, TRUE)
        BY <1>1, <2>3 DEF Unpinned
      <3>3. QED
        BY <2>3, <3>1, <3>2
    <2>4. CASE pins # 0
      BY <1>1, <2>1, <2>4 DEF Unpinned, Marked
    <2>5. QED
      BY <2>3, <2>4
  <1> HIDE DEF f, to, pins
  <1>6. /\ \A d \in Client, x \in Page : ptr'[d][x] = IF d = c /\ x = p THEN NoFrame ELSE ptr[d][x]
        /\ ptr' \in [Client -> [Page -> Frame \cup {NoFrame}]]
    BY <1>1, <1>4 DEF PoolTypeOK
  <1>7. /\ wrote' \in [Client -> SUBSET Page]
        /\ \A d \in Client, x \in Page : x \in wrote'[d] <=> x \in wrote[d] /\ ~(d = c /\ x = p)
    BY <1>1 DEF PoolTypeOK
  <1>8. PoolTypeOK'
    BY <1>1, <1>3, <1>5, <1>6, <1>7 DEF PoolTypeOK, Marked, ReplacerOK
  <1>9. Repinned(c, p, f, NoFrame)
    BY <1>1, <1>2, <1>3, <1>6 DEF Repinned, pins
  <1>10. /\ Mapping' /\ FreeFrames'
         /\ \A d \in Client, x \in Page : ptr'[d][x] # NoFrame => page_table'[x] = ptr'[d][x]
         /\ \A g \in Frame : frames'[g].pin_count = Cardinality(Holders(g)')
    BY <1>1, <1>9, RepinnedKeeps DEF f
  <1>11. Pins'
    <2>1. \A d \in Client, x \in Page : x \in wrote'[d] => ptr'[d][x] # NoFrame
      BY <1>6, <1>7 DEF IndInv, Pins, Held
    <2>2. QED
      BY <1>10, <2>1 DEF Pins, Held
  <1>12. Evictables'
    <2>1. /\ replacer'.evictable = IF pins = 0 THEN replacer.evictable \cup {f}
                                   ELSE replacer.evictable
          /\ replacer'.curr_size = Cardinality(replacer'.evictable)
          /\ replacer'.history = replacer.history
          /\ f \notin replacer.evictable /\ replacer.evictable \in SUBSET Frame
      BY <1>1, <1>5 DEF Marked, IndInv, Evictables, PoolTypeOK, Replacer
    <2>2. Stranded' \in SUBSET Stranded
      BY <1>1, <1>3, <2>1 DEF Stranded
    <2>3. Cardinality(Stranded') <= fails'
      BY <1>1, <2>2, NoneStranded
    <2>4. frames[f].page_id # NoPage
      BY <1>1, PageOfFrame DEF f
    <2>5. \A g \in replacer'.evictable : frames'[g].pin_count = 0 /\ frames'[g].page_id # NoPage
      BY <1>3, <2>1, <2>4 DEF IndInv, Evictables
    <2>6. \A g \in Frame : frames'[g].pin_count > 0 => replacer'.history[g] # << >>
      BY <1>1, <1>3, <2>1 DEF IndInv, Evictables
    <2>7. QED
      BY <2>1, <2>3, <2>5, <2>6 DEF Evictables
  <1>13. Saved'
    <2>1. ASSUME NEW x \in Page, Pending(x) PROVE Pending(x)'
      <3>1. page_table[x] \in Frame
        BY <1>1, <2>1 DEF PoolTypeOK, Pending, Resident
      <3>2. CASE x = p
        <4>1. frames'[f].is_dirty \/ \E d \in Client : x \in wrote'[d]
          BY <1>1, <1>3, <1>7, <2>1, <3>2 DEF Pending, f
        <4>2. QED
          BY <1>1, <2>1, <3>2, <4>1 DEF Pending, Resident, f
      <3>3. CASE x # p
        <4>1. page_table[x] # f
          BY <1>1, <3>1, <3>3, PageOfFrame DEF f
        <4>2. frames'[page_table[x]] = frames[page_table[x]]
          BY <1>3, <3>1, <4>1
        <4>3. QED
          BY <1>1, <1>7, <2>1, <3>3, <4>2 DEF Pending, Resident
      <3>4. QED
        BY <3>2, <3>3
    <2>2. QED
      BY <1>1, <2>1 DEF IndInv, Saved, Resident
  <1>14. QED
    BY <1>8, <1>10, <1>11, <1>12, <1>13 DEF IndInv

LEMMA ChangeKeeps ==
  ASSUME IndInv, NEW c \in Client, NEW p \in Page, Change(c, p)
  PROVE  IndInv'
  <1> DEFINE f == page_table[p]
  <1>1. /\ PoolTypeOK /\ status = "open" /\ ptr[c][p] # NoFrame /\ f = ptr[c][p] /\ f \in Frame
        /\ pages' = [pages EXCEPT ![f].tuples = @ + 1]
        /\ wrote' = [wrote EXCEPT ![c] = @ \cup {p}]
        /\ changes' = [changes EXCEPT ![p] = @ + 1]
        /\ UNCHANGED <<free_list, page_table, frames, replacer, disk, next_page_id, ptr,
                       fails, status>>
    BY DEF Change, IndInv, PoolTypeOK, Pins, Held, Open
  <1>2. pages[f].tuples = changes[p] /\ changes[p] \in Nat /\ changes[p] + 1 \in Nat
    BY <1>1 DEF IndInv, Saved, Resident, PoolTypeOK
  <1> HIDE DEF f
  <1>3. /\ pages' \in [Frame -> Image] /\ pages'[f].tuples = changes[p] + 1
        /\ \A g \in Frame : g # f => pages'[g] = pages[g]
    <2> DEFINE new == [pages[f] EXCEPT !.tuples = changes[p] + 1]
    <2>1. pages[f] \in Image
      BY <1>1 DEF PoolTypeOK
    <2>2. pages' = [pages EXCEPT ![f] = new]
      BY <1>1, <1>2
    <2>3. new \in Image /\ new.tuples = changes[p] + 1
      BY <1>2, <2>1 DEF Image
    <2>4. f \in Frame /\ pages \in [Frame -> Image]
      BY <1>1 DEF PoolTypeOK
    <2> HIDE DEF new
    <2>5. /\ pages' \in [Frame -> Image] /\ pages'[f] = new
          /\ \A g \in Frame : g # f => pages'[g] = pages[g]
      BY <2>2, <2>3, <2>4
    <2>6. QED
      BY <2>3, <2>5
  <1>4. /\ changes' \in [Page -> Nat] /\ changes'[p] = changes[p] + 1
        /\ \A x \in Page : x # p => changes'[x] = changes[x]
    BY <1>1, <1>2 DEF PoolTypeOK
  <1>5. /\ wrote' \in [Client -> SUBSET Page] /\ p \in wrote'[c]
        /\ \A d \in Client, x \in Page : x \in wrote'[d] <=> x \in wrote[d] \/ (d = c /\ x = p)
    BY <1>1 DEF PoolTypeOK
  <1>6. PoolTypeOK'
    BY <1>1, <1>3, <1>4, <1>5 DEF PoolTypeOK
  <1>7. Mapping'
    <2>1. p < next_page_id /\ \A x \in Page : x >= next_page_id => changes'[x] = changes[x]
      BY <1>1, <1>4, PoolAssumption DEF IndInv, Mapping, Resident, PoolTypeOK, Page, f
    <2>2. QED
      BY <1>1, <2>1 DEF IndInv, Mapping, Resident
  <1>8. FreeFrames'
    BY <1>1 DEF IndInv, FreeFrames
  <1>9. Pins'
    BY <1>1, <1>5 DEF IndInv, Pins, Held, Holders
  <1>10. Evictables'
    BY <1>1 DEF IndInv, Evictables, Stranded
  <1>11. Saved'
    <2>1. ASSUME NEW x \in Page
          PROVE  /\ page_table[x] # NoFrame => pages'[page_table[x]].tuples = changes'[x]
                 /\ Pending(x)' \/ disk[x].tuples = changes'[x]
      <3>1. CASE x = p
        BY <1>1, <1>3, <1>4, <1>5, <3>1 DEF Pending, Resident, f
      <3>2. CASE x # p
        <4>1. page_table[x] # NoFrame => page_table[x] # f /\ page_table[x] \in Frame
          BY <1>1, <3>2, PageOfFrame, ZenonT(30) DEF PoolTypeOK, f
        <4>2. Pending(x) => Pending(x)'
          BY <1>1, <1>5 DEF Pending, Resident
        <4>3. QED
          BY <1>3, <1>4, <3>2, <4>1, <4>2 DEF IndInv, Saved, Resident
      <3>3. QED
        BY <3>1, <3>2
    <2>2. QED
      BY <1>1, <2>1 DEF Saved, Resident
  <1>12. QED
    BY <1>6, <1>7, <1>8, <1>9, <1>10, <1>11 DEF IndInv

-----------------------------------------------------------------------------
(* The theorems.                                                           *)

LEMMA InitInv == PoolInit => IndInv
  <1> SUFFICES ASSUME PoolInit PROVE IndInv
    OBVIOUS
  <1>1. /\ free_list \in Seq(Frame) /\ Range(free_list) = Frame
        /\ \A i, j \in 1 .. Len(free_list) : free_list[i] = free_list[j] => i = j
    BY AllFree DEF PoolInit
  <1>2. /\ \A f \in Frame : /\ frames[f].page_id = NoPage /\ frames[f].pin_count = 0
                            /\ ~frames[f].is_dirty
        /\ \A p \in Page : page_table[p] = NoFrame /\ changes[p] = 0 /\ disk[p] = ZeroPage
        /\ \A c \in Client, p \in Page : ptr[c][p] = NoFrame /\ p \notin wrote[c]
    BY DEF PoolInit
  <1>3. PoolTypeOK
    <2>1. replacer \in Replacer /\ \A f \in Frame : Len(replacer.history[f]) <= K
      <3>1. << >> \in Seq(Nat) /\ Len(<< >>) = 0
        BY EmptySeq
      <3>2. QED
        BY <3>1, KAssumption DEF PoolInit, EmptyReplacer, Replacer
    <2>2. pages \in [Frame -> Image] /\ disk \in [Page -> Image]
      <3>1. 0 \in Page
        BY PoolAssumption DEF Page
      <3>2. ZeroPage \in Image
        BY <3>1 DEF ZeroPage, Image
      <3>3. QED
        BY <3>2 DEF PoolInit
    <2>3. frames \in [Frame -> FrameMeta]
      BY DEF PoolInit, FrameMeta
    <2>4. next_page_id \in 0 .. MaxPages
      BY PoolAssumption DEF PoolInit
    <2>5. QED
      BY <1>1, <2>1, <2>2, <2>3, <2>4 DEF PoolInit, PoolTypeOK
  <1>4. Mapping /\ FreeFrames /\ Saved
    BY <1>1, <1>2 DEF Mapping, FreeFrames, Saved, Resident, Pending, ZeroPage
  <1>5. Pins
    <2>1. \A f \in Frame : Holders(f) = {}
      BY <1>2, FrameAssumption DEF Holders
    <2>2. QED
      BY <1>2, <2>1, FS_EmptySet DEF Pins, Held
  <1>6. Evictables
    <2>1. replacer.evictable = {} /\ replacer.curr_size = 0 /\ fails = 0
      BY DEF PoolInit, EmptyReplacer
    <2>2. Stranded = {}
      BY <1>1 DEF Stranded
    <2>3. QED
      BY <1>2, <2>1, <2>2, FS_EmptySet DEF Evictables
  <1>7. QED
    BY <1>3, <1>4, <1>5, <1>6 DEF IndInv

LEMMA NextInv == IndInv /\ [PoolNext]_poolVars => IndInv'
  <1> SUFFICES ASSUME IndInv, [PoolNext]_poolVars PROVE IndInv'
    OBVIOUS
  <1>1. /\ next_page_id \in 0 .. MaxPages /\ disk \in [Page -> Image]
        /\ \A p \in Page : ~Resident(p) => disk[p].tuples = changes[p]
    BY DEF IndInv, PoolTypeOK, Saved, Pending
  <1>2. ASSUME NEW c \in Client, new_page(c) PROVE IndInv'
    <2>1. PICK a \in find_available_frame : Install(c, next_page_id, a, Fresh(next_page_id))
      BY <1>2 DEF new_page
    <2>2. /\ next_page_id \in Page /\ next_page_id' \in 0 .. MaxPages
          /\ next_page_id <= next_page_id' /\ next_page_id < next_page_id'
          /\ next_page_id >= next_page_id /\ Open
      BY <1>1, <1>2, PoolAssumption DEF new_page, CanAccess, Page
    <2>3. Fresh(next_page_id) \in Image /\ Fresh(next_page_id).tuples = 0
      BY <2>2 DEF Fresh, Image
    <2>4. ~Resident(next_page_id) /\ changes[next_page_id] = 0
      BY <2>2 DEF IndInv, Mapping
    <2>5. QED
      BY <2>1, <2>2, <2>3, <2>4, InstallKeeps
  <1>3. ASSUME NEW c \in Client, NEW p \in Page, FetchMiss(c, p) PROVE IndInv'
    <2>1. PICK a \in find_available_frame : Install(c, p, a, disk[p])
      BY <1>3 DEF FetchMiss
    <2>2. /\ next_page_id' \in 0 .. MaxPages /\ next_page_id <= next_page_id'
          /\ p < next_page_id' /\ Open /\ ~Resident(p)
      BY <1>1, <1>3 DEF FetchMiss, CanAccess
    <2>3. disk[p] \in Image /\ disk[p].tuples = changes[p]
      BY <1>1, <2>2
    <2>4. QED
      BY <2>1, <2>2, <2>3, InstallKeeps
  <1>4. CASE new_page_throws
    <2>1. PICK a \in find_available_frame : InstallFails(a)
      BY <1>4 DEF new_page_throws
    <2>2. next_page_id' \in 0 .. MaxPages /\ next_page_id <= next_page_id' /\ Open
      BY <1>1, <1>4, PoolAssumption DEF new_page_throws, CanAccess
    <2>3. QED
      BY <2>1, <2>2, InstallFailsKeeps
  <1>5. ASSUME NEW p \in Page, FetchThrows(p) PROVE IndInv'
    <2>1. PICK a \in find_available_frame : InstallFails(a)
      BY <1>5 DEF FetchThrows
    <2>2. next_page_id' \in 0 .. MaxPages /\ next_page_id <= next_page_id' /\ Open
      BY <1>1, <1>5 DEF FetchThrows, CanAccess
    <2>3. QED
      BY <2>1, <2>2, InstallFailsKeeps
  <1>6. CASE FlushAll \/ Destroy
    BY <1>6, FlushAllKeeps DEF FlushAll, Destroy, Open
  <1>7. CASE FlushAllThrows \/ DestroyThrows
    BY <1>7, FlushAllThrowsKeeps DEF FlushAllThrows, DestroyThrows, Open
  <1>8. CASE UNCHANGED poolVars
    <2>1. UNCHANGED <<free_list, page_table, frames, pages, replacer, disk, next_page_id, ptr,
                      wrote, changes, fails, status>>
      BY <1>8 DEF poolVars, pool, clients
    <2>2. PoolTypeOK' /\ SamePins /\ fails <= fails'
      BY <2>1 DEF IndInv, PoolTypeOK, SamePins
    <2>3. \A p \in Page : Pending(p)' \/ disk'[p].tuples = changes[p]
      BY <2>1 DEF IndInv, Saved, Pending, Resident
    <2>4. QED
      BY <2>1, <2>2, <2>3, DiskStepKeeps
  <1>9. QED
    BY <1>2, <1>3, <1>4, <1>5, <1>6, <1>7, <1>8, FetchHitKeeps, UnpinKeeps, ChangeKeeps,
       FlushPageKeeps, FlushPageThrowsKeeps DEF PoolNext

LEMMA Invariance == PoolSpec => []IndInv
  BY InitInv, NextInv, PTL DEF PoolSpec

(* The variables of the buffer pool keep their types. *)
THEOREM TypeCorrect == PoolSpec => []PoolTypeOK
  <1>1. IndInv => PoolTypeOK
    BY DEF IndInv
  <1>2. QED
    BY <1>1, Invariance, PTL

(* No eviction, flush or failing write takes a page out of the frame that  *)
(* a client's pointer leads to, and pin_count counts the pointers.         *)
THEOREM PointersStayValid == PoolSpec => []PointersValid
  <1>1. IndInv => PointersValid
    <2> SUFFICES ASSUME IndInv PROVE PointersValid
      OBVIOUS
    <2>1. ASSUME NEW c \in Client, NEW p \in Page, Held(c, p)
          PROVE  page_table[p] = ptr[c][p] /\ frames[ptr[c][p]].page_id = p
      BY <2>1 DEF IndInv, Pins, Mapping, Held, Resident
    <2>2. QED
      BY <2>1 DEF IndInv, Pins, Holders, PointersValid
  <1>2. QED
    BY <1>1, Invariance, PTL

(* No change to a page is lost, whatever is evicted and however many       *)
(* writes fail; after the destructor every change is on disk.              *)
THEOREM ChangesKept == PoolSpec => []NoLostChange
  <1>1. IndInv => NoLostChange
    BY DEF IndInv, Saved, Pending, NoLostChange
  <1>2. QED
    BY <1>1, Invariance, PTL

(* curr_size_ counts the evictable frames, none of which is pinned, and a  *)
(* frame is lost to the pool only by a failed write, one frame for each.   *)
THEOREM NoFrameLeaks == PoolSpec => []FramesAccounted
  <1>1. IndInv => FramesAccounted
    <2> SUFFICES ASSUME IndInv PROVE FramesAccounted
      OBVIOUS
    <2>1. replacer.evictable \in SUBSET Frame
      BY DEF IndInv, PoolTypeOK, Replacer
    <2>2. \A f \in Frame : frames[f].page_id # NoPage => page_table[frames[f].page_id] = f
      BY DEF IndInv, Mapping
    <2>3. \A f \in Stranded : f \in Frame /\ frames[f].page_id # NoPage
      BY DEF IndInv, FreeFrames, Stranded
    <2>4. QED
      BY <2>1, <2>2, <2>3 DEF IndInv, Evictables, FramesAccounted
  <1>2. QED
    BY <1>1, Invariance, PTL

(* An evictable frame has a node with a history. *)
Nodes(r) == \A f \in r.evictable : r.history[f] # << >>

LEMMA NodesStep ==
  ASSUME IndInv, Nodes(replacer), [PoolNext]_poolVars
  PROVE  Nodes(replacer')
  <1>1. /\ ReplacerOK(replacer) /\ replacer.curr_size = Cardinality(replacer.evictable)
        /\ replacer.evictable \in SUBSET Frame
    BY DEF IndInv, PoolTypeOK, Evictables, ReplacerOK, Replacer
  <1>2. ASSUME NEW a \in find_available_frame
        PROVE  Nodes(a.replacer) /\ a.replacer.evictable \in SUBSET Frame
    BY <1>1, FoundFrame DEF Available, Nodes
  <1>3. ASSUME NEW q, NEW r, NEW f \in Frame, Nodes(r), r.evictable \in SUBSET Frame,
               PinnedIn(q, r, f)
        PROVE  Nodes(q)
    BY <1>3 DEF PinnedIn, Nodes
  <1>4. ASSUME NEW c, NEW p, NEW a \in find_available_frame, NEW image, Install(c, p, a, image)
        PROVE  Nodes(replacer')
    <2>1. /\ a.fid \in Frame /\ ReplacerOK(a.replacer)
          /\ a.replacer.curr_size = Cardinality(a.replacer.evictable)
      BY FoundFrame DEF Available
    <2>2. PinnedIn(Pinned(a.replacer, a.fid), a.replacer, a.fid)
      BY <2>1, PinnedNode
    <2>3. QED
      BY <1>2, <1>3, <1>4, <2>1, <2>2 DEF Install
  <1>5. CASE \E c \in Client : new_page(c)
    BY <1>4, <1>5 DEF new_page
  <1>6. CASE \E c \in Client, p \in Page : FetchMiss(c, p)
    BY <1>4, <1>6 DEF FetchMiss
  <1>7. CASE new_page_throws \/ \E p \in Page : FetchThrows(p)
    BY <1>2, <1>7 DEF new_page_throws, FetchThrows, InstallFails
  <1>8. ASSUME NEW c \in Client, NEW p \in Page, FetchHit(c, p)
        PROVE  Nodes(replacer')
    <2>1. page_table[p] \in Frame /\ replacer' = Pinned(replacer, page_table[p])
      BY <1>8 DEF FetchHit, Resident, IndInv, PoolTypeOK
    <2>2. PinnedIn(Pinned(replacer, page_table[p]), replacer, page_table[p])
      BY <1>1, <2>1, PinnedNode
    <2>3. QED
      BY <1>1, <1>3, <2>1, <2>2
  <1>9. ASSUME NEW c \in Client, NEW p \in Page, NEW d \in BOOLEAN, unpin_page(c, p, d)
        PROVE  Nodes(replacer')
    <2> DEFINE f == page_table[p]
    <2>1. f \in Frame /\ frames[f].pin_count > 0 /\ replacer' = Unpinned(f, frames[f].pin_count - 1)
      BY <1>9 DEF unpin_page, Resident, IndInv, PoolTypeOK
    <2>2. replacer.history[f] # << >>
      BY <2>1 DEF IndInv, Evictables
    <2> HIDE DEF f
    <2>3. Marked(set_evictable(replacer, f, TRUE), replacer,
                 IF TRUE THEN replacer.evictable \cup {f} ELSE replacer.evictable \ {f})
      BY <1>1, <2>1, <2>2, SetEvictable
    <2>4. Nodes(set_evictable(replacer, f, TRUE))
      BY <2>2, <2>3 DEF Marked, Nodes
    <2>5. QED
      BY <2>1, <2>4 DEF Unpinned
  <1>10. CASE UNCHANGED replacer
    BY <1>10
  <1>11. QED
    BY <1>5, <1>6, <1>7, <1>8, <1>9, <1>10
       DEF PoolNext, poolVars, pool, Change, flush_page, flush_page_throws, FlushAll, FlushAllThrows,
           Destroy, DestroyThrows, flush_all_pages, flush_all_throws

(***************************************************************************)
(* For every number of frames, every K and every order in which the hash   *)
(* table lists its nodes, victim() (lru_k_replacer.hpp:54-95) finds the    *)
(* frame that LRU-K names: one with fewer than K accesses before all       *)
(* others, the one with the earliest remembered access among equals.       *)
(***************************************************************************)
THEOREM VictimByPolicy == PoolSpec => []VictimIsLruK
  <1>1. PoolInit => Nodes(replacer)
    BY DEF PoolInit, EmptyReplacer, Nodes
  <1>2. IndInv /\ Nodes(replacer) /\ [PoolNext]_poolVars => Nodes(replacer)'
    BY NodesStep DEF Nodes
  <1>3. IndInv /\ Nodes(replacer) => VictimIsLruK
    <2> SUFFICES ASSUME IndInv, Nodes(replacer), replacer.curr_size > 0,
                        NEW order \in Orders(replacer)
                 PROVE  \E f \in LruK(replacer) : Scan(replacer, order) = {f}
      BY DEF VictimIsLruK
    <2> DEFINE E == replacer.evictable
               n == Cardinality(E)
    <2>1. /\ ReplacerOK(replacer) /\ E \in SUBSET Frame /\ replacer.curr_size = n
      BY DEF IndInv, PoolTypeOK, Evictables, ReplacerOK, Replacer
    <2>2. IsFiniteSet(E) /\ n \in Nat
      BY <2>1, FramesFinite
    <2>3. order \in [1 .. n -> E] /\ \A i, j \in 1 .. n : i # j => order[i] # order[j]
      BY DEF Orders, SetToSeqs
    <2>4. order \in Injection(1 .. n, E)
      BY <2>3 DEF Injection, IsInjective
    <2>5. IsFiniteSet(1 .. n) /\ Cardinality(1 .. n) = n
      BY <2>2, FS_Interval
    <2>6. order \in Surjection(1 .. n, E)
      BY <2>2, <2>4, <2>5, FS_Injection
    <2>7. Range(order) = E
      BY <2>6, Fun_SurjectionProperties
    <2>8. E # {}
      BY <2>1, FS_EmptySet
    <2> HIDE DEF n
    <2>9. order \in Seq(E) /\ Len(order) = n
      BY <2>2, <2>3
    <2>10. order \in Seq(Frame) /\ \A j \in 1 .. Len(order) : replacer.history[order[j]] # << >>
      BY <2>1, <2>3, <2>9 DEF Nodes
    <2>11. PICK b : BestOf(replacer, E, b) /\ Scan(replacer, order) = b.victim_id
      BY <2>1, <2>7, <2>10, ScanFinds
    <2>12. QED
      BY <2>8, <2>11 DEF BestOf, LruK, Young
  <1>4. QED
    BY <1>1, <1>2, <1>3, Invariance, PTL DEF PoolSpec
=============================================================================
