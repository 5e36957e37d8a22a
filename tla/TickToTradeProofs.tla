--------------------------- MODULE TickToTradeProofs ---------------------------
(***************************************************************************)
(* Proofs about the tick-to-trade pipeline, the shared-memory ring and the *)
(* order book behind it, for every capacity, index width and depth, any    *)
(* number of messages, and any number of deaths and restarts of the two    *)
(* processes.                                                              *)
(***************************************************************************)
EXTENDS TickToTrade, FiniteSetTheorems, SequenceTheorems, WellFoundedInduction, TLAPS

-----------------------------------------------------------------------------
(* Arithmetic of the indices.                                              *)

(* Remainders are unique. *)
LEMMA UniqueRemainder ==
  ASSUME NEW M \in Nat \ {0}, NEW p \in Int, NEW q \in Int,
         NEW a \in 0 .. M - 1, NEW b \in 0 .. M - 1, M * p + a = M * q + b
  PROVE  a = b
  <1>1. a - b = M * (q - p) /\ q - p \in Int
    OBVIOUS
  <1>2. a - b < M /\ b - a < M
    OBVIOUS
  <1> DEFINE k == q - p
  <1>3. ~(k >= 1)
    <2> SUFFICES ASSUME k >= 1 PROVE FALSE
      OBVIOUS
    <2>1. M * k >= M
      BY <1>1
    <2>2. QED
      BY <1>1, <1>2, <2>1
  <1>4. ~(k <= -1)
    <2> SUFFICES ASSUME k <= -1 PROVE FALSE
      OBVIOUS
    <2>1. M * k <= -M
      BY <1>1
    <2>2. QED
      BY <1>1, <1>2, <2>1
  <1>5. k = 0
    BY <1>1, <1>3, <1>4
  <1>6. QED
    BY <1>1, <1>5

(* Quotient and remainder. *)
LEMMA Division ==
  ASSUME NEW M \in Nat \ {0}, NEW a \in Int
  PROVE  /\ a % M \in 0 .. M - 1
         /\ \E q \in Int : a = M * q + (a % M)
  <1>1. a % M \in 0 .. M - 1
    OBVIOUS
  <1>2. a \div M \in Int /\ a = M * (a \div M) + (a % M)
    OBVIOUS
  <1>3. QED
    BY <1>1, <1>2

(* How to recognise a remainder. *)
LEMMA RemainderIs ==
  ASSUME NEW M \in Nat \ {0}, NEW q \in Int, NEW a \in Int, NEW b \in 0 .. M - 1,
         a = M * q + b
  PROVE  a % M = b
  <1>1. PICK p \in Int : a = M * p + (a % M)
    BY Division
  <1>2. a % M \in 0 .. M - 1
    BY Division
  <1>3. QED
    BY <1>1, <1>2, UniqueRemainder

Index == 0 .. Word - 1

(* The index after the n-th message is that of message n + 1. *)
LEMMA IndexSuccessor ==
  ASSUME NEW n \in Nat
  PROVE  ((n % Word) + 1) % Word = (n + 1) % Word
  <1>0. Word \in Nat \ {0} /\ n \in Int /\ n + 1 \in Int
    BY RingAssumption
  <1>1. n % Word \in 0 .. Word - 1 /\ (n + 1) % Word \in 0 .. Word - 1
    BY <1>0, Division
  <1>2. PICK q \in Int : n = Word * q + (n % Word)
    BY <1>0, Division, Zenon
  <1>3. CASE (n % Word) + 1 < Word
    <2>1. n + 1 = Word * q + ((n % Word) + 1) /\ (n % Word) + 1 \in 0 .. Word - 1
      BY <1>0, <1>1, <1>2, <1>3
    <2>2. (n + 1) % Word = (n % Word) + 1
      BY <1>0, <2>1, RemainderIs, Zenon
    <2>3. (n % Word) + 1 = Word * 0 + ((n % Word) + 1)
      BY <1>0, <1>1
    <2>4. ((n % Word) + 1) % Word = (n % Word) + 1
      BY <1>0, <2>1, <2>3, RemainderIs
    <2>5. QED
      BY <2>2, <2>4
  <1>4. CASE (n % Word) + 1 = Word
    <2>1. n + 1 = Word * (q + 1) + 0 /\ 0 \in 0 .. Word - 1 /\ q + 1 \in Int
      BY <1>0, <1>2, <1>4
    <2>2. (n + 1) % Word = 0
      BY <1>0, <2>1, RemainderIs, Zenon
    <2>3. (n % Word) + 1 = Word * 1 + 0
      BY <1>0, <1>4
    <2>4. ((n % Word) + 1) % Word = 0
      BY <1>0, <1>1, <2>1, <2>3, RemainderIs
    <2>5. QED
      BY <2>2, <2>4
  <1>5. QED
    BY <1>0, <1>1, <1>3, <1>4

(* The slot of message n is the slot of its index: Capacity divides Word. *)
LEMMA SlotOfIndex ==
  ASSUME NEW n \in Nat
  PROVE  Slot(n % Word) = Slot(n)
  <1>0. /\ Word \in Nat \ {0} /\ Capacity \in Nat \ {0}
        /\ n \in Int /\ Word \in Int
    BY RingAssumption
  <1>1. PICK q \in Int : n = Word * q + (n % Word)
    BY <1>0, Division, Zenon
  <1>2. PICK k \in Int : Word = Capacity * k + (Word % Capacity)
    BY <1>0, Division, Zenon
  <1>3. Word = Capacity * k
    BY <1>0, <1>2, RingAssumption
  <1> DEFINE m == n % Word
  <1>4. m \in 0 .. Word - 1 /\ m \in Int
    BY <1>0, Division
  <1>5. PICK p \in Int : m = Capacity * p + (m % Capacity)
    BY <1>0, <1>4, Division, Zenon
  <1>6. m % Capacity \in 0 .. Capacity - 1
    BY <1>0, <1>4, Division
  <1>7. k * q + p \in Int /\ n = Capacity * (k * q + p) + (m % Capacity)
    <2> HIDE DEF m
    <2>1. Word * q = Capacity * (k * q)
      BY <1>0, <1>3
    <2>2. n = Word * q + m
      BY <1>1 DEF m
    <2>3. k * q \in Int
      OBVIOUS
    <2> DEFINE kq == k * q
    <2>4. n = Capacity * kq + m
      BY <2>1, <2>2
    <2> HIDE DEF kq
    <2>5. kq \in Int
      BY <2>3 DEF kq
    <2>6. Capacity * kq + Capacity * p = Capacity * (kq + p)
      BY <1>0, <2>5
    <2>7. QED
      <3> DEFINE r == m % Capacity
      <3>1. r \in Int /\ m = Capacity * p + r
        BY <1>0, <1>5, <1>6
      <3> HIDE DEF r
      <3>2. n = Capacity * (kq + p) + r
        BY <2>4, <2>5, <2>6, <3>1, <1>0
      <3>3. QED
        BY <2>3, <3>2 DEF kq, r
  <1>8. n % Capacity = m % Capacity
    BY <1>0, <1>6, <1>7, RemainderIs, Zenon
  <1>9. QED
    BY <1>8 DEF Slot

(* Two messages less than a capacity apart are in different slots. *)
LEMMA SlotsDiffer ==
  ASSUME NEW i \in Nat, NEW j \in Nat, i < j, j - i < Capacity
  PROVE  Slot(i) # Slot(j)
  <1>0. Capacity \in Nat \ {0} /\ i \in Int /\ j \in Int
    BY RingAssumption
  <1> SUFFICES ASSUME Slot(i) = Slot(j) PROVE FALSE
    OBVIOUS
  <1>1. PICK p \in Int : i = Capacity * p + (i % Capacity)
    BY <1>0, Division, Zenon
  <1>2. i % Capacity = j % Capacity /\ i % Capacity \in 0 .. Capacity - 1
    BY <1>0, Division DEF Slot
  <1>3. PICK q \in Int : j = Capacity * q + (j % Capacity)
    BY <1>0, Division, Zenon
  <1>4. Capacity * p + (j - i) = Capacity * q + 0
    BY <1>0, <1>1, <1>2, <1>3
  <1>5. j - i \in 0 .. Capacity - 1 /\ 0 \in 0 .. Capacity - 1
    BY <1>0
  <1>6. j - i = 0
    BY <1>0, <1>4, <1>5, UniqueRemainder
  <1>7. QED
    BY <1>6

(* A slot number is a slot of the ring. *)
LEMMA SlotType ==
  ASSUME NEW i \in Nat
  PROVE  Slot(i) \in 0 .. Capacity - 1
  BY RingAssumption DEF Slot

-----------------------------------------------------------------------------
(* One object: what its header, ring and log have to do with each other.   *)

Contents == Msgs \cup {Zeroed, Torn}
Segment == [sized : BOOLEAN, write_index : Index, read_index : Index,
            capacity : {0, Capacity}, ring : [0 .. Capacity - 1 -> Contents]]

Unread(s) == (s.write_index - s.read_index) % Word
First(s, l) == Len(l) - Unread(s)

(* The part of RingSafe about an object, apart from its reader.            *)
RingOf(s, l) ==
  /\ s.write_index = Len(l) % Word
  /\ Unread(s) <= Capacity /\ First(s, l) >= 0
  /\ \A i \in First(s, l) .. Len(l) - 1 : s.ring[Slot(i)] = l[i + 1]

(* The distance from r forward to w on a circle of Word indices, and what  *)
(* a step of either does to it.                                            *)
Ahead(w, r) == IF w >= r THEN w - r ELSE w - r + Word
After(a) == IF a = Word - 1 THEN 0 ELSE a + 1

LEMMA WriterSteps ==
  ASSUME NEW w \in Index, NEW r \in Index, Ahead(w, r) < Word - 1
  PROVE  Ahead(After(w), r) = Ahead(w, r) + 1
  BY RingAssumption DEF Ahead, After, Index

LEMMA ReaderSteps ==
  ASSUME NEW w \in Index, NEW r \in Index, Ahead(w, r) > 0
  PROVE  Ahead(w, After(r)) = Ahead(w, r) - 1
  BY RingAssumption DEF Ahead, After, Index

(* The unread count without the modulus. *)
LEMMA UnreadValue ==
  ASSUME NEW s \in Segment
  PROVE  /\ Unread(s) \in Index
         /\ Unread(s) = Ahead(s.write_index, s.read_index)
  <1> DEFINE w == s.write_index
             r == s.read_index
  <1>0. Word \in Nat \ {0} /\ w \in Index /\ r \in Index
    BY RingAssumption DEF Segment
  <1> HIDE DEF w, r
  <1>1. CASE w >= r
    <2>1. w - r \in 0 .. Word - 1 /\ w - r \in Int /\ w - r = Word * 0 + (w - r)
      BY <1>0, <1>1 DEF Index
    <2>2. (w - r) % Word = w - r
      BY <1>0, <2>1, RemainderIs
    <2>3. QED
      BY <2>1, <2>2, <1>1 DEF Unread, Ahead, w, r, Index
  <1>2. CASE ~(w >= r)
    <2>1. /\ w - r + Word \in 0 .. Word - 1 /\ w - r \in Int
          /\ w - r = Word * (-1) + (w - r + Word)
      BY <1>0, <1>2 DEF Index
    <2>2. (w - r) % Word = w - r + Word
      BY <1>0, <2>1, RemainderIs
    <2>3. QED
      BY <2>1, <2>2, <1>2 DEF Unread, Ahead, w, r, Index
  <1>3. QED
    BY <1>1, <1>2

(* An index and its successor, without the modulus. *)
LEMMA IncValue ==
  ASSUME NEW a \in Index
  PROVE  /\ (a + 1) % Word \in Index
         /\ (a + 1) % Word = After(a)
  <1>0. Word \in Nat \ {0}
    BY RingAssumption
  <1>1. CASE a = Word - 1
    <2>1. a + 1 = Word * 1 + 0 /\ 0 \in 0 .. Word - 1 /\ a + 1 \in Int
      BY <1>0, <1>1
    <2>2. QED
      BY <1>0, <1>1, <2>1, RemainderIs DEF Index, After
  <1>2. CASE a # Word - 1
    <2>1. a + 1 = Word * 0 + (a + 1) /\ a + 1 \in 0 .. Word - 1 /\ a + 1 \in Int
      BY <1>0, <1>2 DEF Index
    <2>2. QED
      BY <1>0, <1>2, <2>1, RemainderIs DEF Index, After
  <1>3. QED
    BY <1>1, <1>2

(* The reader's index is that of the first unread message. *)
LEMMA ReaderIndex ==
  ASSUME NEW s \in Segment, NEW l \in Seq(Msgs), RingOf(s, l)
  PROVE  First(s, l) \in Nat /\ First(s, l) % Word = s.read_index
  <1> DEFINE n == Len(l)
             w == s.write_index
             r == s.read_index
             u == Unread(s)
  <1>0. /\ Word \in Nat \ {0} /\ n \in Int /\ n \in Nat
        /\ w \in Index /\ r \in Index /\ u \in Index /\ w = n % Word /\ n - u >= 0
    BY RingAssumption, UnreadValue DEF Segment, RingOf, First
  <1>1. PICK q \in Int : n = Word * q + (n % Word)
    BY <1>0, Division, Zenon
  <1>2. u = IF w >= r THEN w - r ELSE w - r + Word
    BY UnreadValue DEF Ahead
  <1>3. n - u \in Nat /\ First(s, l) = n - u
    BY <1>0 DEF First, Index
  <1>4. n = Word * q + w
    BY <1>0, <1>1
  <1> HIDE DEF n, w, r, u
  <1>5. r \in 0 .. Word - 1 /\ n - u \in Int
    BY <1>0, <1>3 DEF Index
  <1>6. CASE w >= r
    <2>1. n - u = Word * q + r
      BY <1>0, <1>2, <1>4, <1>6 DEF Index
    <2>2. (n - u) % Word = r
      BY <1>0, <1>5, <2>1, RemainderIs, Zenon
    <2>3. QED
      BY <2>2, <1>3 DEF r
  <1>7. CASE ~(w >= r)
    <2>1. n - u = Word * (q - 1) + r /\ q - 1 \in Int
      BY <1>0, <1>2, <1>4, <1>7 DEF Index
    <2>2. (n - u) % Word = r
      BY <1>0, <1>5, <2>1, RemainderIs, Zenon
    <2>3. QED
      BY <2>2, <1>3 DEF r
  <1>8. QED
    BY <1>6, <1>7

(* RingOf is about the indices and the ring only. *)
LEMMA SameRing ==
  ASSUME NEW s, NEW t, NEW l, t.write_index = s.write_index,
         t.read_index = s.read_index, t.ring = s.ring, RingOf(s, l)
  PROVE  RingOf(t, l)
  BY DEF RingOf, First, Unread

(* A zeroed object is an empty ring. *)
LEMMA BlankRing ==
  Blank \in Segment /\ RingOf(Blank, << >>) /\ Unread(Blank) = 0
  <1>0. {Capacity, Word} \subseteq Nat \ {0}
    BY RingAssumption
  <1>1. Blank \in Segment
    BY <1>0 DEF Blank, Segment, Index, Contents
  <1>2. Blank.write_index = 0 /\ Blank.read_index = 0
    BY DEF Blank
  <1>3. 0 % Word = 0 /\ Unread(Blank) = 0
    <2>1. 0 = Word * 0 + 0 /\ 0 \in 0 .. Word - 1
      BY <1>0
    <2>2. 0 % Word = 0
      BY <1>0, <2>1, RemainderIs
    <2>3. QED
      BY <1>0, <1>1, <1>2, <2>2, UnreadValue DEF Ahead
  <1>4. QED
    BY <1>0, <1>1, <1>2, <1>3 DEF RingOf, First

(* An object whose log is empty has both indices at 0. *)
LEMMA EmptyLog ==
  ASSUME NEW s \in Segment, RingOf(s, << >>)
  PROVE  s.write_index = 0 /\ s.read_index = 0 /\ Unread(s) = 0
  <1>1. Unread(s) \in Index /\ Len(<< >>) = 0
    BY UnreadValue
  <1>2. Unread(s) = 0
    BY <1>1, RingAssumption DEF RingOf, First, Index
  <1>3. s.write_index = 0
    <2>1. s.write_index = 0 % Word
      BY <1>1 DEF RingOf
    <2>2. QED
      BY <2>1, BlankRing DEF RingOf, Blank
  <1>4. s.read_index = 0
    BY <1>2, <1>3, UnreadValue, RingAssumption DEF Segment, Index, Ahead
  <1>5. QED
    BY <1>2, <1>3, <1>4

(* Writing the slot of a message that is not there yet disturbs nothing:   *)
(* there is room for it.                                                   *)
LEMMA SlotWritten ==
  ASSUME NEW s \in Segment, NEW l \in Seq(Msgs), RingOf(s, l),
         Unread(s) < Capacity, NEW t \in Segment,
         t.write_index = s.write_index, t.read_index = s.read_index,
         \A j \in 0 .. Capacity - 1 :
            j # Slot(s.write_index) => t.ring[j] = s.ring[j]
  PROVE  RingOf(t, l) /\ Unread(t) = Unread(s)
  <1>1. Unread(t) = Unread(s) /\ First(t, l) = First(s, l)
    BY DEF Unread, First
  <1>2. Len(l) \in Nat /\ Unread(s) \in Nat /\ First(s, l) \in Nat
    BY UnreadValue, ReaderIndex, RingAssumption DEF Index
  <1>3. Slot(s.write_index) = Slot(Len(l))
    BY <1>2, SlotOfIndex DEF RingOf
  <1>4. ASSUME NEW i \in First(s, l) .. Len(l) - 1
        PROVE  t.ring[Slot(i)] = l[i + 1]
    <2>1. i \in Nat /\ i < Len(l) /\ Len(l) - i < Capacity
      BY <1>2, RingAssumption DEF First
    <2>2. Slot(i) # Slot(Len(l)) /\ Slot(i) \in 0 .. Capacity - 1
      BY <2>1, <1>2, SlotsDiffer, SlotType
    <2>3. s.ring[Slot(i)] = l[i + 1]
      BY DEF RingOf
    <2>4. QED
      BY <1>3, <2>2, <2>3
  <1>5. QED
    BY <1>1, <1>4 DEF RingOf

(* The store of write_index adds the message in the slot to the ring. *)
LEMMA Published ==
  ASSUME NEW s \in Segment, NEW l \in Seq(Msgs), RingOf(s, l),
         Unread(s) < Capacity, NEW m \in Msgs, s.ring[Slot(s.write_index)] = m,
         NEW t \in Segment, t.write_index = (s.write_index + 1) % Word,
         t.read_index = s.read_index, t.ring = s.ring
  PROVE  /\ RingOf(t, Append(l, m)) /\ Unread(t) = Unread(s) + 1
         /\ First(t, Append(l, m)) = First(s, l)
  <1>1. /\ Len(l) \in Nat /\ Unread(s) \in Nat /\ First(s, l) \in Nat
        /\ s.write_index \in Index /\ s.read_index \in Index
        /\ Capacity \in Nat /\ Word \in Nat /\ Capacity < Word
    <2>1. Capacity \in Nat /\ Word \in Nat /\ Capacity < Word
      BY RingAssumption
    <2>2. Unread(s) \in Nat /\ s.write_index \in Index /\ s.read_index \in Index
      BY <2>1, UnreadValue DEF Index, Segment
    <2>3. QED
      BY <2>1, <2>2, ReaderIndex
  <1>2. Len(Append(l, m)) = Len(l) + 1
    OBVIOUS
  <1>3. t.write_index = (Len(l) + 1) % Word
    BY <1>1, IndexSuccessor DEF RingOf
  <1>4. Unread(t) = Unread(s) + 1
    <2>1. /\ Unread(s) = Ahead(s.write_index, s.read_index)
          /\ Unread(t) = Ahead(t.write_index, t.read_index)
      BY UnreadValue
    <2>2. t.write_index = After(s.write_index)
      BY <1>1, IncValue
    <2>3. Ahead(s.write_index, s.read_index) < Word - 1
      BY <1>1, <2>1
    <2>4. QED
      BY <1>1, <2>1, <2>2, <2>3, WriterSteps
  <1>5. First(t, Append(l, m)) = First(s, l)
    BY <1>1, <1>2, <1>4 DEF First
  <1>6. Slot(s.write_index) = Slot(Len(l))
    BY <1>1, SlotOfIndex DEF RingOf
  <1>7. ASSUME NEW i \in First(s, l) .. Len(l)
        PROVE  t.ring[Slot(i)] = Append(l, m)[i + 1]
    <2>1. CASE i = Len(l)
      BY <1>1, <1>6, <2>1
    <2>2. CASE i < Len(l)
      <3>1. i \in First(s, l) .. Len(l) - 1 /\ i + 1 \in 1 .. Len(l)
        BY <1>1, <2>2
      <3>2. s.ring[Slot(i)] = l[i + 1]
        BY <3>1 DEF RingOf
      <3>3. QED
        BY <3>1, <3>2
    <2>3. QED
      BY <1>1, <2>1, <2>2
  <1>8. \A i \in First(t, Append(l, m)) .. Len(Append(l, m)) - 1 :
          t.ring[Slot(i)] = Append(l, m)[i + 1]
    <2>1. Len(Append(l, m)) - 1 = Len(l)
      BY <1>1, <1>2
    <2>2. QED
      BY <2>1, <1>5, <1>7
  <1>9. Unread(t) <= Capacity /\ First(t, Append(l, m)) >= 0
    BY <1>1, <1>4, <1>5
  <1>10. QED
    BY <1>2, <1>3, <1>4, <1>5, <1>8, <1>9 DEF RingOf

(* The store of read_index takes the first unread message off the ring. *)
LEMMA Consumption ==
  ASSUME NEW s \in Segment, NEW l \in Seq(Msgs), RingOf(s, l), Unread(s) > 0,
         NEW t \in Segment, t.read_index = (s.read_index + 1) % Word,
         t.write_index = s.write_index, t.ring = s.ring
  PROVE  RingOf(t, l) /\ Unread(t) = Unread(s) - 1
  <1>1. /\ Len(l) \in Nat /\ Unread(s) \in Nat /\ First(s, l) \in Nat
        /\ s.write_index \in Index /\ s.read_index \in Index
        /\ Capacity \in Nat /\ Word \in Nat /\ Capacity < Word
    <2>1. Capacity \in Nat /\ Word \in Nat /\ Capacity < Word
      BY RingAssumption
    <2>2. Unread(s) \in Nat /\ s.write_index \in Index /\ s.read_index \in Index
      BY <2>1, UnreadValue DEF Index, Segment
    <2>3. QED
      BY <2>1, <2>2, ReaderIndex
  <1>2. Unread(t) = Unread(s) - 1
    <2>1. /\ Unread(s) = Ahead(s.write_index, s.read_index)
          /\ Unread(t) = Ahead(t.write_index, t.read_index)
      BY UnreadValue
    <2>2. t.read_index = After(s.read_index)
      BY <1>1, IncValue
    <2>3. QED
      BY <1>1, <2>1, <2>2, ReaderSteps
  <1>3. First(t, l) = First(s, l) + 1
    BY <1>1, <1>2 DEF First
  <1>4. QED
    BY <1>1, <1>2, <1>3 DEF RingOf

(* The slot the reader copies holds the first unread message. *)
LEMMA FirstMessage ==
  ASSUME NEW s \in Segment, NEW l \in Seq(Msgs), RingOf(s, l), Unread(s) > 0
  PROVE  /\ s.ring[Slot(s.read_index)] = l[First(s, l) + 1]
         /\ First(s, l) + 1 \in 1 .. Len(l)
  <1>1. First(s, l) \in Nat /\ First(s, l) % Word = s.read_index
    BY ReaderIndex
  <1>2. Len(l) \in Nat /\ Unread(s) \in Nat
    BY UnreadValue, RingAssumption DEF Index
  <1>3. First(s, l) \in First(s, l) .. Len(l) - 1
    BY <1>1, <1>2 DEF First
  <1>4. Slot(s.read_index) = Slot(First(s, l))
    BY <1>1, SlotOfIndex
  <1>5. QED
    BY <1>1, <1>2, <1>3, <1>4 DEF RingOf

-----------------------------------------------------------------------------
(* The inductive invariant.                                                *)

ProducerState ==
  [pc : {"down", "opened", "sized", "idle", "writing", "written"},
   at : 0 .. MaxStarts, w : Index, msg : Msgs \cup {Zeroed}]
ConsumerState ==
  [pc : {"down", "idle", "loaded", "copying", "copied"},
   at : 0 .. MaxStarts, r : Index, out : Contents]

ShmTypes ==
  /\ name \in 0 .. MaxStarts
  /\ seg \in [Objects -> Segment]
  /\ producer \in ProducerState /\ consumer \in ConsumerState
  /\ log \in [Objects -> Seq(Msgs)]
  /\ spoiled \subseteq Objects
  /\ budget \in [starts : Nat, attaches : Nat, msgs : Nat]

(* A living process has an object; a living producer's has the name, so    *)
(* only the consumer can outlive the name of its object.                   *)
Places ==
  /\ producer.pc # "down" => producer.at \in Objects /\ name = producer.at
  /\ consumer.pc # "down" => consumer.at \in Objects

(* Every object is a ring again, unless it was truncated under consume().  *)
Rings == \A o \in Objects \ spoiled : RingOf(seg[o], log[o])

(* What a producer knows: nothing was published before create() is done,   *)
(* and from the check for room to the store of write_index nobody else     *)
(* moves that index or takes the room away.                                *)
Writer ==
  LET s == seg[producer.at] IN
  /\ producer.pc \in {"opened", "sized"} => log[producer.at] = << >>
  /\ producer.pc \in {"idle", "writing", "written"} => s.capacity = Capacity
  /\ producer.pc \in {"writing", "written"} =>
       /\ producer.w = s.write_index /\ producer.msg \in Msgs
       /\ producer.at \notin spoiled => Unread(s) < Capacity
  /\ producer.pc = "written" => s.ring[Slot(producer.w)] = producer.msg

(* What a consumer knows, in an object that was not truncated under it:    *)
(* nobody else moves read_index, and the message it saw stays unread.      *)
Reader ==
  LET s == seg[consumer.at] IN
  consumer.at \notin spoiled =>
    /\ consumer.pc \in {"loaded", "copying", "copied"} => consumer.r = s.read_index
    /\ consumer.pc \in {"copying", "copied"} => Unread(s) > 0
    /\ consumer.pc = "copied" =>
         consumer.out = log[consumer.at][First(s, log[consumer.at]) + 1]

IndInv == ShmTypes /\ Places /\ Rings /\ Writer /\ Reader

(* The same, object by object, for the state before a step. *)
LEMMA Facts ==
  ASSUME IndInv
  PROVE  /\ \A o \in Objects : seg[o] \in Segment /\ log[o] \in Seq(Msgs)
         /\ \A o \in Objects \ spoiled : RingOf(seg[o], log[o])
         /\ producer.pc # "down" => producer.at \in Objects
         /\ consumer.pc # "down" => consumer.at \in Objects
         /\ producer.w \in Index /\ consumer.r \in Index
         /\ producer.at \in 0 .. MaxStarts /\ consumer.at \in 0 .. MaxStarts
  BY DEF IndInv, ShmTypes, ProducerState, ConsumerState, Places, Rings

LEMMA InitStep ==
  ASSUME Init
  PROVE  IndInv
  <1>0. {Capacity, Word, MaxStarts} \subseteq Nat \ {0}
    BY RingAssumption
  <1>1. << >> \in Seq(Msgs)
    OBVIOUS
  <1>2. ShmTypes
    BY <1>0, <1>1, BlankRing
    DEF Init, ShmTypes, ProducerState, ConsumerState, NoProducer, NoConsumer, Index,
        Contents, Objects
  <1>3. Rings
    BY BlankRing DEF Init, Rings
  <1>4. QED
    BY <1>2, <1>3 DEF Init, IndInv, Places, Writer, Reader, NoProducer, NoConsumer

LEMMA CreateOpenStep ==
  ASSUME IndInv, CreateOpen
  PROVE  IndInv'
  <1>0. MaxStarts \in Nat \ {0}
    BY RingAssumption
  <1> DEFINE o == IF name = 0 THEN budget.starts + 1 ELSE name
  <1>1. o \in Objects
    BY <1>0 DEF IndInv, ShmTypes, CreateOpen, Objects
  <1>2. /\ producer.pc = "down" /\ name' = o /\ consumer' = consumer
        /\ seg' = [seg EXCEPT ![o] = Blank]
        /\ log' = [log EXCEPT ![o] = << >>]
        /\ producer' = [producer EXCEPT !.pc = "opened", !.at = o]
        /\ spoiled' = IF consumer.at = o /\ consumer.pc \notin {"down", "idle"}
                      THEN spoiled \cup {o} ELSE spoiled
        /\ budget' = [budget EXCEPT !.starts = @ + 1]
    BY DEF CreateOpen
  <1> HIDE DEF o
  <1>3. /\ seg'[o] = Blank /\ log'[o] = << >>
        /\ \A p \in Objects \ {o} : seg'[p] = seg[p] /\ log'[p] = log[p]
    BY <1>1, <1>2 DEF IndInv, ShmTypes
  <1>4. producer'.pc = "opened" /\ producer'.at = o
    BY <1>2 DEF IndInv, ShmTypes, ProducerState
  <1>5. ShmTypes'
    <2>1. o \in 0 .. MaxStarts
      BY <1>0, <1>1 DEF Objects
    <2>2. seg' \in [Objects -> Segment]
      BY <1>1, <1>2, BlankRing DEF IndInv, ShmTypes
    <2>3. log' \in [Objects -> Seq(Msgs)]
      <3>1. << >> \in Seq(Msgs)
        OBVIOUS
      <3>2. QED
        BY <1>1, <1>2, <3>1 DEF IndInv, ShmTypes
    <2>4. producer' \in ProducerState
      BY <1>2, <2>1 DEF IndInv, ShmTypes, ProducerState
    <2>5. budget' \in [starts : Nat, attaches : Nat, msgs : Nat]
      BY <1>2 DEF IndInv, ShmTypes
    <2>6. spoiled' \subseteq Objects
      BY <1>1, <1>2 DEF IndInv, ShmTypes
    <2>7. QED
      BY <1>2, <2>1, <2>2, <2>3, <2>4, <2>5, <2>6 DEF IndInv, ShmTypes
  <1>6. Rings'
    BY <1>1, <1>2, <1>3, BlankRing, Facts DEF Rings
  <1>7. Writer'
    BY <1>3, <1>4 DEF Writer
  <1>8. Reader'
    <2>1. CASE consumer.pc \in {"down", "idle"}
      BY <1>2, <2>1 DEF Reader
    <2>2. CASE consumer.at = o
      BY <1>2, <2>1, <2>2 DEF Reader
    <2>3. CASE consumer.at # o /\ consumer.pc # "down"
      <3>1. /\ consumer.at \in Objects \ {o}
            /\ consumer.at \notin spoiled' => consumer.at \notin spoiled
        BY <1>2, <2>3, Facts
      <3>2. QED
        BY <1>2, <1>3, <3>1 DEF IndInv, Reader
    <2>4. QED
      BY <2>1, <2>2, <2>3
  <1>9. Places'
    BY <1>1, <1>2, <1>4 DEF IndInv, Places
  <1>10. QED
    BY <1>5, <1>6, <1>7, <1>8, <1>9 DEF IndInv

LEMMA CreateSizeStep ==
  ASSUME IndInv, CreateSize
  PROVE  IndInv'
  <1> DEFINE o == producer.at
  <1>1. /\ producer.pc = "opened" /\ seg' = [seg EXCEPT ![o].sized = TRUE]
        /\ producer' = [producer EXCEPT !.pc = "sized"]
        /\ name' = name /\ consumer' = consumer /\ log' = log
        /\ spoiled' = spoiled /\ budget' = budget
    BY DEF CreateSize
  <1>2. o \in Objects
    BY <1>1, Facts
  <1>3. /\ producer'.pc = "sized" /\ producer'.at = producer.at
        /\ producer' \in ProducerState
    BY <1>1 DEF IndInv, ShmTypes, ProducerState
  <1> HIDE DEF o
  <1>4. seg' \in [Objects -> Segment]
    BY <1>1, <1>2, ZenonT(30) DEF IndInv, ShmTypes, Segment
  <1>5. \A p \in Objects : /\ seg'[p].write_index = seg[p].write_index
                           /\ seg'[p].read_index = seg[p].read_index
                           /\ seg'[p].ring = seg[p].ring
    BY <1>1, <1>2 DEF IndInv, ShmTypes, Segment
  <1>6. ShmTypes'
    BY <1>1, <1>3, <1>4 DEF IndInv, ShmTypes
  <1>7. Rings'
    BY <1>1, <1>5 DEF IndInv, Rings, RingOf, First, Unread
  <1>8. Writer'
    BY <1>1, <1>3 DEF IndInv, Writer
  <1>9. Reader'
    BY <1>1, <1>5, Facts DEF IndInv, Reader, First, Unread
  <1>10. Places'
    BY <1>1, <1>3 DEF IndInv, Places
  <1>11. QED
    BY <1>6, <1>7, <1>8, <1>9, <1>10 DEF IndInv

LEMMA CreateInitStep ==
  ASSUME IndInv, CreateInit
  PROVE  IndInv'
  <1> DEFINE o == producer.at
             t == [seg[o] EXCEPT !.write_index = 0, !.read_index = 0,
                                 !.capacity = Capacity]
  <1>0. 0 \in Index
    BY RingAssumption DEF Index
  <1>1. /\ producer.pc = "sized"
        /\ seg' = [seg EXCEPT ![o].write_index = 0, ![o].read_index = 0,
                              ![o].capacity = Capacity]
        /\ producer' = [producer EXCEPT !.pc = "idle"]
        /\ name' = name /\ consumer' = consumer /\ log' = log
        /\ spoiled' = spoiled /\ budget' = budget
    BY DEF CreateInit
  <1>2. o \in Objects /\ seg[o] \in Segment /\ log[o] = << >>
    BY <1>1, Facts DEF IndInv, Writer
  <1>3. /\ producer'.pc = "idle" /\ producer'.at = producer.at
        /\ producer' \in ProducerState
    BY <1>1 DEF IndInv, ShmTypes, ProducerState
  <1>4. /\ t \in Segment /\ t.write_index = 0 /\ t.read_index = 0
        /\ t.capacity = Capacity /\ t.ring = seg[o].ring
    BY <1>0, <1>2 DEF Segment
  <1>5. seg'[o] = t /\ \A p \in Objects \ {o} : seg'[p] = seg[p]
    BY <1>1, <1>2 DEF IndInv, ShmTypes, Segment
  <1> HIDE DEF o, t
  <1>6. seg' \in [Objects -> Segment]
    <2>1. DOMAIN seg' = Objects /\ seg' = [p \in Objects |-> seg'[p]]
      BY <1>1 DEF IndInv, ShmTypes
    <2>2. \A p \in Objects : seg'[p] \in Segment
      BY <1>4, <1>5, Facts
    <2>3. QED
      BY <2>1, <2>2
  <1>7. ASSUME o \notin spoiled
        PROVE  /\ t.write_index = seg[o].write_index
               /\ t.read_index = seg[o].read_index
    <2>1. RingOf(seg[o], << >>)
      BY <1>2, <1>7, Facts
    <2>2. QED
      BY <1>2, <1>4, <2>1, EmptyLog
  <1>8. ShmTypes'
    BY <1>1, <1>3, <1>6 DEF IndInv, ShmTypes
  <1>9. \A p \in Objects \ spoiled : /\ seg'[p].write_index = seg[p].write_index
                                     /\ seg'[p].read_index = seg[p].read_index
                                     /\ seg'[p].ring = seg[p].ring
    BY <1>4, <1>5, <1>7
  <1>10. Rings'
    <2>1. \A p \in Objects \ spoiled : RingOf(seg'[p], log[p])
      BY <1>9, Facts, SameRing
    <2>2. QED
      BY <1>1, <2>1 DEF Rings
  <1>11. Writer'
    BY <1>1, <1>3, <1>4, <1>5 DEF Writer, o
  <1>12. Reader'
    BY <1>1, <1>9, Facts DEF IndInv, Reader, First, Unread
  <1>13. Places'
    BY <1>1, <1>3 DEF IndInv, Places
  <1>14. QED
    BY <1>8, <1>10, <1>11, <1>12, <1>13 DEF IndInv

(* An object is given back: it is blank, and no process is in it. *)
LEMMA FreeStep ==
  ASSUME IndInv, NEW o \in Objects, Free(o)
  PROVE  /\ seg' \in [Objects -> Segment] /\ log' \in [Objects -> Seq(Msgs)]
         /\ spoiled' \subseteq Objects
         /\ \A p \in Objects \ {o} : /\ seg'[p] = seg[p] /\ log'[p] = log[p]
                                     /\ p \in spoiled' <=> p \in spoiled
         /\ Rings'
  <1>1. /\ seg' = [seg EXCEPT ![o] = Blank]
        /\ log' = [log EXCEPT ![o] = << >>]
        /\ spoiled' = spoiled \ {o}
    BY DEF Free
  <1>2. << >> \in Seq(Msgs)
    OBVIOUS
  <1>3. seg' \in [Objects -> Segment] /\ log' \in [Objects -> Seq(Msgs)]
    BY <1>1, <1>2, BlankRing DEF IndInv, ShmTypes
  <1>4. /\ seg'[o] = Blank /\ log'[o] = << >>
        /\ \A p \in Objects \ {o} : seg'[p] = seg[p] /\ log'[p] = log[p]
    BY <1>1 DEF IndInv, ShmTypes
  <1>5. Rings'
    BY <1>1, <1>4, BlankRing, Facts DEF Rings
  <1>6. spoiled' \subseteq Objects
    BY <1>1 DEF IndInv, ShmTypes
  <1>7. QED
    BY <1>1, <1>3, <1>4, <1>5, <1>6

LEMMA DestroyStep ==
  ASSUME IndInv, Destroy
  PROVE  IndInv'
  <1> DEFINE o == producer.at
  <1>1. /\ producer.pc = "idle" /\ producer' = NoProducer /\ name' = 0
        /\ IF consumer.at = o THEN Keep ELSE Free(o)
        /\ consumer' = consumer /\ budget' = budget
    BY DEF Destroy
  <1>2. o \in Objects
    BY <1>1, Facts
  <1> HIDE DEF o
  <1>3. /\ NoProducer \in ProducerState /\ NoProducer.pc = "down"
        /\ 0 \in 0 .. MaxStarts
    BY RingAssumption DEF NoProducer, ProducerState, Index
  <1>4. CASE consumer.at = o
    <2>1. seg' = seg /\ log' = log /\ spoiled' = spoiled
      BY <1>1, <1>4 DEF Keep
    <2>2. ShmTypes'
      BY <1>1, <1>3, <2>1 DEF IndInv, ShmTypes
    <2>3. Rings' /\ Reader'
      BY <1>1, <2>1 DEF IndInv, Rings, Reader
    <2>4. Writer' /\ Places'
      BY <1>1, <1>3 DEF IndInv, Writer, Places
    <2>5. QED
      BY <2>2, <2>3, <2>4 DEF IndInv
  <1>5. CASE consumer.at # o
    <2>1. Free(o)
      BY <1>1, <1>5
    <2>2. /\ seg' \in [Objects -> Segment] /\ log' \in [Objects -> Seq(Msgs)]
          /\ spoiled' \subseteq Objects
          /\ \A p \in Objects \ {o} : /\ seg'[p] = seg[p] /\ log'[p] = log[p]
                                      /\ p \in spoiled' <=> p \in spoiled
          /\ Rings'
      BY <1>2, <2>1, FreeStep
    <2>3. ShmTypes'
      BY <1>1, <1>3, <2>2 DEF IndInv, ShmTypes
    <2>4. Reader'
      <3>1. CASE consumer.pc = "down"
        BY <1>1, <3>1 DEF Reader
      <3>2. CASE consumer.pc # "down"
        <4>1. consumer.at \in Objects \ {o}
          BY <3>2, <1>5, Facts
        <4>2. QED
          BY <1>1, <2>2, <4>1 DEF IndInv, Reader
      <3>3. QED
        BY <3>1, <3>2
    <2>5. Writer' /\ Places'
      BY <1>1, <1>3 DEF IndInv, Writer, Places
    <2>6. QED
      BY <2>2, <2>3, <2>4, <2>5 DEF IndInv
  <1>6. QED
    BY <1>4, <1>5

LEMMA ProducerDiesStep ==
  ASSUME IndInv, ProducerDies
  PROVE  IndInv'
  <1>1. /\ producer' = NoProducer /\ name' = name /\ seg' = seg
        /\ consumer' = consumer /\ log' = log /\ spoiled' = spoiled
        /\ budget' = budget
    BY DEF ProducerDies
  <1>2. NoProducer \in ProducerState /\ NoProducer.pc = "down"
    BY RingAssumption DEF NoProducer, ProducerState, Index
  <1>3. ShmTypes'
    BY <1>1, <1>2 DEF IndInv, ShmTypes
  <1>4. Rings' /\ Reader'
    BY <1>1 DEF IndInv, Rings, Reader
  <1>5. Writer' /\ Places'
    BY <1>1, <1>2 DEF IndInv, Writer, Places
  <1>6. QED
    BY <1>3, <1>4, <1>5 DEF IndInv

LEMMA ConsumerDiesStep ==
  ASSUME IndInv, ConsumerDies
  PROVE  IndInv'
  <1> DEFINE o == consumer.at
  <1>1. /\ consumer.pc # "down" /\ consumer' = NoConsumer
        /\ IF o = name THEN Keep ELSE Free(o)
        /\ name' = name /\ producer' = producer /\ budget' = budget
    BY DEF ConsumerDies
  <1>2. o \in Objects
    BY <1>1, Facts
  <1> HIDE DEF o
  <1>3. NoConsumer \in ConsumerState /\ NoConsumer.pc = "down"
    BY RingAssumption DEF NoConsumer, ConsumerState, Index, Contents
  <1>4. Reader' /\ Places'
    BY <1>1, <1>3 DEF IndInv, Reader, Places
  <1>5. CASE o = name
    <2>1. seg' = seg /\ log' = log /\ spoiled' = spoiled
      BY <1>1, <1>5 DEF Keep
    <2>2. ShmTypes'
      BY <1>1, <1>3, <2>1 DEF IndInv, ShmTypes
    <2>3. Rings' /\ Writer'
      BY <1>1, <2>1 DEF IndInv, Rings, Writer
    <2>4. QED
      BY <1>4, <2>2, <2>3 DEF IndInv
  <1>6. CASE o # name
    <2>1. Free(o)
      BY <1>1, <1>6
    <2>2. /\ seg' \in [Objects -> Segment] /\ log' \in [Objects -> Seq(Msgs)]
          /\ spoiled' \subseteq Objects
          /\ \A p \in Objects \ {o} : /\ seg'[p] = seg[p] /\ log'[p] = log[p]
                                      /\ p \in spoiled' <=> p \in spoiled
          /\ Rings'
      BY <1>2, <2>1, FreeStep
    <2>3. ShmTypes'
      BY <1>1, <1>3, <2>2 DEF IndInv, ShmTypes
    <2>4. Writer'
      <3>1. CASE producer.pc = "down"
        BY <1>1, <3>1 DEF Writer
      <3>2. CASE producer.pc # "down"
        <4>1. producer.at \in Objects \ {o}
          BY <3>2, <1>6 DEF IndInv, Places
        <4>2. QED
          BY <1>1, <2>2, <4>1 DEF IndInv, Writer
      <3>3. QED
        BY <3>1, <3>2
    <2>5. QED
      BY <1>4, <2>2, <2>3, <2>4 DEF IndInv
  <1>7. QED
    BY <1>5, <1>6

(* A store into the header or the ring of one object. *)
LEMMA StoreStep ==
  ASSUME IndInv, NEW o \in Objects, NEW t \in Segment, seg' = [seg EXCEPT ![o] = t]
  PROVE  /\ seg' \in [Objects -> Segment] /\ seg'[o] = t
         /\ \A p \in Objects \ {o} : seg'[p] = seg[p]
  BY DEF IndInv, ShmTypes

LEMMA PublishBeginStep ==
  ASSUME IndInv, NEW m \in Msgs, PublishBegin(m)
  PROVE  IndInv'
  <1> DEFINE o == producer.at
             s == seg[o]
             t == [s EXCEPT !.ring[Slot(s.write_index)] = Torn]
  <1>1. /\ producer.pc = "idle" /\ ~Full(o)
        /\ producer' = [producer EXCEPT !.pc = "writing", !.w = s.write_index, !.msg = m]
        /\ seg' = [seg EXCEPT ![o] = t]
        /\ budget' = [budget EXCEPT !.msgs = @ + 1]
        /\ name' = name /\ consumer' = consumer /\ log' = log /\ spoiled' = spoiled
    BY DEF PublishBegin
  <1>2. o \in Objects /\ s \in Segment /\ s.capacity = Capacity
    BY <1>1, Facts DEF IndInv, Writer
  <1>3. s.write_index \in Index /\ s.write_index \in Nat
    BY <1>2, RingAssumption DEF Segment, Index
  <1>4. Slot(s.write_index) \in 0 .. Capacity - 1
    BY <1>3, SlotType
  <1>5. Unread(s) < Capacity
    <2>1. Unread(s) \in Index /\ ~(Unread(s) >= Capacity)
      BY <1>1, <1>2, UnreadValue DEF Full, Unread
    <2>2. QED
      BY <2>1, RingAssumption DEF Index
  <1>6. /\ t \in Segment /\ t.write_index = s.write_index
        /\ t.read_index = s.read_index /\ t.capacity = s.capacity
        /\ \A j \in 0 .. Capacity - 1 : j # Slot(s.write_index) => t.ring[j] = s.ring[j]
    BY <1>2, <1>4 DEF Segment, Contents
  <1>7. /\ producer'.pc = "writing" /\ producer'.at = o
        /\ producer'.w = s.write_index /\ producer'.msg = m
        /\ producer' \in ProducerState
    BY <1>1, <1>3 DEF IndInv, ShmTypes, ProducerState
  <1> HIDE DEF o, s, t
  <1>8. /\ seg' \in [Objects -> Segment] /\ seg'[o] = t
        /\ \A p \in Objects \ {o} : seg'[p] = seg[p]
    BY <1>1, <1>2, <1>6, StoreStep
  <1>9. seg[o] = s
    BY DEF s
  <1>10. Unread(t) = Unread(s)
    BY <1>6 DEF Unread
  <1>11. ShmTypes'
    <2>1. budget' \in [starts : Nat, attaches : Nat, msgs : Nat]
      BY <1>1 DEF IndInv, ShmTypes
    <2>2. QED
      BY <1>1, <1>7, <1>8, <2>1 DEF IndInv, ShmTypes
  <1>12. Rings'
    <2>1. ASSUME NEW p \in Objects \ spoiled
          PROVE  RingOf(seg'[p], log[p])
      <3>1. RingOf(seg[p], log[p]) /\ log[p] \in Seq(Msgs)
        BY Facts
      <3>2. CASE p = o
        BY <3>1, <3>2, <1>2, <1>5, <1>6, <1>8, <1>9, SlotWritten
      <3>3. CASE p # o
        BY <3>1, <3>3, <1>8
      <3>4. QED
        BY <3>2, <3>3
    <2>2. QED
      BY <2>1, <1>1 DEF Rings
  <1>13. Writer'
    BY <1>1, <1>2, <1>5, <1>6, <1>7, <1>8, <1>10 DEF Writer
  <1>14. Reader'
    <2>1. \A p \in Objects : /\ seg'[p].read_index = seg[p].read_index
                             /\ Unread(seg'[p]) = Unread(seg[p])
      BY <1>6, <1>8, <1>9, <1>10
    <2>2. CASE consumer.pc = "down"
      BY <1>1, <2>2 DEF Reader
    <2>3. CASE consumer.pc # "down"
      BY <1>1, <2>1, <2>3, Facts DEF IndInv, Reader, First
    <2>4. QED
      BY <2>2, <2>3
  <1>15. Places'
    BY <1>1, <1>2, <1>7 DEF IndInv, Places, o
  <1>16. QED
    BY <1>11, <1>12, <1>13, <1>14, <1>15 DEF IndInv

LEMMA PublishFillStep ==
  ASSUME IndInv, PublishFill
  PROVE  IndInv'
  <1> DEFINE o == producer.at
             s == seg[o]
             t == [s EXCEPT !.ring[Slot(producer.w)] = producer.msg]
  <1>1. /\ producer.pc = "writing"
        /\ producer' = [producer EXCEPT !.pc = "written"]
        /\ seg' = [seg EXCEPT ![o] = t]
        /\ name' = name /\ consumer' = consumer /\ log' = log /\ spoiled' = spoiled
        /\ budget' = budget
    BY DEF PublishFill
  <1>2. /\ o \in Objects /\ s \in Segment /\ s.capacity = Capacity
        /\ producer.w = s.write_index /\ producer.msg \in Msgs
        /\ o \notin spoiled => Unread(s) < Capacity
    BY <1>1, Facts DEF IndInv, Writer
  <1>3. s.write_index \in Nat
    BY <1>2, RingAssumption DEF Segment, Index
  <1>4. Slot(s.write_index) \in 0 .. Capacity - 1
    BY <1>3, SlotType
  <1>6. /\ t \in Segment /\ t.write_index = s.write_index
        /\ t.read_index = s.read_index /\ t.capacity = s.capacity
        /\ t.ring[Slot(s.write_index)] = producer.msg
        /\ \A j \in 0 .. Capacity - 1 : j # Slot(s.write_index) => t.ring[j] = s.ring[j]
    BY <1>2, <1>4 DEF Segment, Contents
  <1>7. /\ producer'.pc = "written" /\ producer'.at = o
        /\ producer'.w = producer.w /\ producer'.msg = producer.msg
        /\ producer' \in ProducerState
    BY <1>1, <1>3 DEF IndInv, ShmTypes, ProducerState
  <1> HIDE DEF o, s, t
  <1>8. /\ seg' \in [Objects -> Segment] /\ seg'[o] = t
        /\ \A p \in Objects \ {o} : seg'[p] = seg[p]
    BY <1>1, <1>2, <1>6, StoreStep
  <1>9. seg[o] = s
    BY DEF s
  <1>10. Unread(t) = Unread(s)
    BY <1>6 DEF Unread
  <1>11. ShmTypes'
    BY <1>1, <1>7, <1>8 DEF IndInv, ShmTypes
  <1>12. Rings'
    <2>1. ASSUME NEW p \in Objects \ spoiled
          PROVE  RingOf(seg'[p], log[p])
      <3>1. RingOf(seg[p], log[p]) /\ log[p] \in Seq(Msgs)
        BY Facts
      <3>2. CASE p = o
        BY <3>1, <3>2, <1>2, <1>6, <1>8, <1>9, SlotWritten
      <3>3. CASE p # o
        BY <3>1, <3>3, <1>8
      <3>4. QED
        BY <3>2, <3>3
    <2>2. QED
      BY <2>1, <1>1 DEF Rings
  <1>13. Writer'
    BY <1>1, <1>2, <1>6, <1>7, <1>8, <1>10 DEF Writer
  <1>14. Reader'
    <2>1. \A p \in Objects : /\ seg'[p].read_index = seg[p].read_index
                             /\ Unread(seg'[p]) = Unread(seg[p])
      BY <1>6, <1>8, <1>9, <1>10
    <2>2. CASE consumer.pc = "down"
      BY <1>1, <2>2 DEF Reader
    <2>3. CASE consumer.pc # "down"
      BY <1>1, <2>1, <2>3, Facts DEF IndInv, Reader, First
    <2>4. QED
      BY <2>2, <2>3
  <1>15. Places'
    BY <1>1, <1>2, <1>7 DEF IndInv, Places, o
  <1>16. QED
    BY <1>11, <1>12, <1>13, <1>14, <1>15 DEF IndInv

LEMMA PublishStoreStep ==
  ASSUME IndInv, PublishStore
  PROVE  IndInv'
  <1> DEFINE o == producer.at
             s == seg[o]
             m == producer.msg
             l == log[o]
             t == [s EXCEPT !.write_index = (producer.w + 1) % Word]
  <1>0. 0 \in Index
    BY RingAssumption DEF Index
  <1>1. /\ producer.pc = "written"
        /\ producer' = [producer EXCEPT !.pc = "idle", !.w = 0, !.msg = Zeroed]
        /\ seg' = [seg EXCEPT ![o] = t]
        /\ log' = [log EXCEPT ![o] = Append(l, m)]
        /\ name' = name /\ consumer' = consumer /\ spoiled' = spoiled
        /\ budget' = budget
    BY DEF PublishStore
  <1>2. /\ o \in Objects /\ s \in Segment /\ s.capacity = Capacity /\ l \in Seq(Msgs)
        /\ producer.w = s.write_index /\ m \in Msgs
        /\ o \notin spoiled => Unread(s) < Capacity
        /\ s.ring[Slot(s.write_index)] = m
    BY <1>1, Facts DEF IndInv, Writer
  <1>3. s.write_index \in Index /\ (s.write_index + 1) % Word \in Index
    BY <1>2, IncValue DEF Segment
  <1>4. /\ t \in Segment /\ t.write_index = (s.write_index + 1) % Word
        /\ t.read_index = s.read_index /\ t.capacity = s.capacity /\ t.ring = s.ring
    BY <1>2, <1>3 DEF Segment
  <1>5. /\ producer'.pc = "idle" /\ producer'.at = o
        /\ producer' \in ProducerState
    BY <1>0, <1>1 DEF IndInv, ShmTypes, ProducerState
  <1>6. Append(l, m) \in Seq(Msgs)
    BY <1>2
  <1>7. /\ log' \in [Objects -> Seq(Msgs)] /\ log'[o] = Append(l, m)
        /\ \A p \in Objects \ {o} : log'[p] = log[p]
    BY <1>1, <1>2, <1>6 DEF IndInv, ShmTypes
  <1>8. seg[o] = s /\ log[o] = l
    OBVIOUS
  <1> HIDE DEF o, s, m, l, t
  <1>9. /\ seg' \in [Objects -> Segment] /\ seg'[o] = t
        /\ \A p \in Objects \ {o} : seg'[p] = seg[p]
    BY <1>1, <1>2, <1>4, StoreStep
  <1>10. ASSUME o \notin spoiled
         PROVE  /\ RingOf(s, l)
                /\ RingOf(t, Append(l, m)) /\ Unread(t) = Unread(s) + 1
                /\ First(t, Append(l, m)) = First(s, l)
    <2>1. RingOf(s, l)
      BY <1>2, <1>8, <1>10, Facts
    <2>2. Unread(s) < Capacity
      BY <1>2, <1>10
    <2>3. QED
      BY <2>1, <2>2, <1>2, <1>4, Published
  <1>11. ShmTypes'
    BY <1>1, <1>5, <1>7, <1>9 DEF IndInv, ShmTypes
  <1>12. Rings'
    <2>1. ASSUME NEW p \in Objects \ spoiled
          PROVE  RingOf(seg'[p], log'[p])
      BY <1>7, <1>9, <1>10, Facts
    <2>2. QED
      BY <2>1, <1>1 DEF Rings
  <1>13. Writer'
    BY <1>2, <1>4, <1>5, <1>9 DEF Writer
  <1>14. Reader'
    <2>1. CASE consumer.pc = "down"
      BY <1>1, <2>1 DEF Reader
    <2>2. CASE consumer.pc # "down" /\ consumer.at # o
      BY <1>1, <1>7, <1>9, <2>2, Facts DEF IndInv, Reader
    <2>3. CASE consumer.at = o /\ o \notin spoiled
      <3>1. /\ consumer.pc \in {"loaded", "copying", "copied"} =>
                 consumer.r = s.read_index
            /\ consumer.pc \in {"copying", "copied"} => Unread(s) > 0
            /\ consumer.pc = "copied" => consumer.out = l[First(s, l) + 1]
        BY <2>3, <1>8 DEF IndInv, Reader
      <3>2. Unread(s) \in Nat
        BY <1>2, UnreadValue, RingAssumption DEF Index
      <3>3. consumer.pc \in {"copying", "copied"} => Unread(t) > 0
        BY <1>10, <2>3, <3>1, <3>2
      <3>4. consumer.pc = "copied" => consumer.out = Append(l, m)[First(s, l) + 1]
        <4> SUFFICES ASSUME consumer.pc = "copied"
                     PROVE  consumer.out = Append(l, m)[First(s, l) + 1]
          OBVIOUS
        <4>1. First(s, l) + 1 \in 1 .. Len(l)
          BY <1>2, <1>10, <2>3, <3>1, FirstMessage
        <4>2. QED
          BY <1>2, <3>1, <4>1
      <3>5. /\ seg'[consumer.at] = t /\ log'[consumer.at] = Append(l, m)
            /\ First(t, Append(l, m)) = First(s, l) /\ t.read_index = s.read_index
        BY <1>4, <1>7, <1>9, <1>10, <2>3
      <3>6. QED
        BY <1>1, <3>1, <3>3, <3>4, <3>5 DEF Reader
    <2>4. CASE consumer.at = o /\ o \in spoiled
      BY <1>1, <2>4 DEF Reader
    <2>5. QED
      BY <2>1, <2>2, <2>3, <2>4
  <1>15. Places'
    BY <1>1, <1>2, <1>5 DEF IndInv, Places, o
  <1>16. QED
    BY <1>11, <1>12, <1>13, <1>14, <1>15 DEF IndInv

LEMMA AttachStep ==
  ASSUME IndInv, Attach
  PROVE  IndInv'
  <1>1. /\ name # 0 /\ consumer' = [NoConsumer EXCEPT !.pc = "idle", !.at = name]
        /\ budget' = [budget EXCEPT !.attaches = @ + 1]
        /\ name' = name /\ seg' = seg /\ producer' = producer /\ log' = log
        /\ spoiled' = spoiled
    BY DEF Attach
  <1>2. /\ consumer'.pc = "idle" /\ consumer'.at \in Objects
        /\ consumer' \in ConsumerState
    <2>1. name \in Objects /\ name \in 0 .. MaxStarts
      BY <1>1, RingAssumption DEF IndInv, ShmTypes, Objects
    <2>2. 0 \in Index
      BY RingAssumption DEF Index
    <2>3. QED
      BY <1>1, <2>1, <2>2 DEF NoConsumer, ConsumerState, Contents
  <1>3. ShmTypes'
    <2>1. budget' \in [starts : Nat, attaches : Nat, msgs : Nat]
      BY <1>1, SMTT(30) DEF IndInv, ShmTypes
    <2>2. QED
      BY <1>1, <1>2, <2>1 DEF IndInv, ShmTypes
  <1>4. Rings' /\ Writer'
    BY <1>1 DEF IndInv, Rings, Writer
  <1>5. Reader' /\ Places'
    BY <1>1, <1>2 DEF IndInv, Reader, Places
  <1>6. QED
    BY <1>3, <1>4, <1>5 DEF IndInv

LEMMA ConsumeLoadRStep ==
  ASSUME IndInv, ConsumeLoadR
  PROVE  IndInv'
  <1>1. /\ consumer.pc = "idle"
        /\ consumer' = [consumer EXCEPT !.pc = "loaded",
                                        !.r = seg[consumer.at].read_index]
        /\ name' = name /\ seg' = seg /\ producer' = producer /\ log' = log
        /\ spoiled' = spoiled /\ budget' = budget
    BY DEF ConsumeLoadR
  <1>2. /\ consumer.at \in Objects /\ seg[consumer.at].read_index \in Index
    BY <1>1, Facts DEF Segment
  <1>3. /\ consumer'.pc = "loaded" /\ consumer'.at = consumer.at
        /\ consumer'.r = seg[consumer.at].read_index
        /\ consumer' \in ConsumerState
    BY <1>1, <1>2 DEF IndInv, ShmTypes, ConsumerState
  <1>4. ShmTypes'
    BY <1>1, <1>3 DEF IndInv, ShmTypes
  <1>5. Rings' /\ Writer'
    BY <1>1 DEF IndInv, Rings, Writer
  <1>6. Reader' /\ Places'
    BY <1>1, <1>2, <1>3 DEF IndInv, Reader, Places
  <1>7. QED
    BY <1>4, <1>5, <1>6 DEF IndInv

LEMMA ConsumeLoadWStep ==
  ASSUME IndInv, ConsumeLoadW
  PROVE  IndInv'
  <1> DEFINE s == seg[consumer.at]
  <1>1. /\ consumer.pc = "loaded"
        /\ consumer' = IF consumer.r = s.write_index
                       THEN [consumer EXCEPT !.pc = "idle", !.r = 0]
                       ELSE [consumer EXCEPT !.pc = "copying"]
        /\ name' = name /\ seg' = seg /\ producer' = producer /\ log' = log
        /\ spoiled' = spoiled /\ budget' = budget
    BY DEF ConsumeLoadW
  <1>2. consumer.at \in Objects /\ s \in Segment /\ 0 \in Index
    BY <1>1, Facts, RingAssumption DEF Index
  <1>3. /\ consumer'.pc \in {"idle", "copying"} /\ consumer'.at = consumer.at
        /\ consumer'.pc = "copying" => /\ consumer'.r = consumer.r
                                       /\ consumer.r # s.write_index
        /\ consumer' \in ConsumerState
    BY <1>1, <1>2 DEF IndInv, ShmTypes, ConsumerState
  <1>4. s.write_index # s.read_index => Unread(s) > 0
    <2>1. s.write_index \in Index /\ s.read_index \in Index
      BY <1>2 DEF Segment
    <2>2. Unread(s) = Ahead(s.write_index, s.read_index)
      BY <1>2, UnreadValue
    <2>3. QED
      BY <2>1, <2>2, RingAssumption DEF Ahead, Index
  <1>5. ShmTypes'
    BY <1>1, <1>3 DEF IndInv, ShmTypes
  <1>6. Rings' /\ Writer'
    BY <1>1 DEF IndInv, Rings, Writer
  <1>7. Reader'
    BY <1>1, <1>3, <1>4 DEF IndInv, Reader
  <1>8. Places'
    BY <1>1, <1>2, <1>3 DEF IndInv, Places
  <1>9. QED
    BY <1>5, <1>6, <1>7, <1>8 DEF IndInv

LEMMA ConsumeCopyStep ==
  ASSUME IndInv, ConsumeCopy
  PROVE  IndInv'
  <1> DEFINE s == seg[consumer.at]
             l == log[consumer.at]
  <1>1. /\ consumer.pc = "copying"
        /\ consumer' = [consumer EXCEPT !.pc = "copied",
                                        !.out = s.ring[Slot(consumer.r)]]
        /\ name' = name /\ seg' = seg /\ producer' = producer /\ log' = log
        /\ spoiled' = spoiled /\ budget' = budget
    BY DEF ConsumeCopy
  <1>2. consumer.at \in Objects /\ s \in Segment /\ l \in Seq(Msgs)
    BY <1>1, Facts
  <1>3. s.ring[Slot(consumer.r)] \in Contents
    <2>1. consumer.r \in Nat
      BY Facts, RingAssumption DEF Index
    <2>2. Slot(consumer.r) \in 0 .. Capacity - 1
      BY <2>1, SlotType
    <2>3. QED
      BY <1>2, <2>2 DEF Segment
  <1>4. /\ consumer'.pc = "copied" /\ consumer'.at = consumer.at
        /\ consumer'.r = consumer.r /\ consumer'.out = s.ring[Slot(consumer.r)]
        /\ consumer' \in ConsumerState
    BY <1>1, <1>3 DEF IndInv, ShmTypes, ConsumerState
  <1>5. ShmTypes'
    BY <1>1, <1>4 DEF IndInv, ShmTypes
  <1>6. Rings' /\ Writer'
    BY <1>1 DEF IndInv, Rings, Writer
  <1>7. Reader'
    <2>1. CASE consumer.at \in spoiled
      BY <1>1, <1>4, <2>1 DEF Reader
    <2>2. CASE consumer.at \notin spoiled
      <3>1. consumer.r = s.read_index /\ Unread(s) > 0
        BY <1>1, <2>2 DEF IndInv, Reader
      <3>2. RingOf(s, l)
        BY <1>2, <2>2, Facts
      <3>3. s.ring[Slot(s.read_index)] = l[First(s, l) + 1]
        BY <1>2, <3>1, <3>2, FirstMessage
      <3>4. QED
        BY <1>1, <1>4, <3>1, <3>3 DEF Reader
    <2>3. QED
      BY <2>1, <2>2
  <1>8. Places'
    BY <1>1, <1>2, <1>4 DEF IndInv, Places
  <1>9. QED
    BY <1>5, <1>6, <1>7, <1>8 DEF IndInv

LEMMA ConsumeStoreStep ==
  ASSUME IndInv, ConsumeStore
  PROVE  IndInv'
  <1> DEFINE o == consumer.at
             s == seg[o]
             l == log[o]
             t == [s EXCEPT !.read_index = (consumer.r + 1) % Word]
  <1>0. 0 \in Index
    BY RingAssumption DEF Index
  <1>1. /\ consumer.pc = "copied" /\ seg' = [seg EXCEPT ![o] = t]
        /\ consumer' = [consumer EXCEPT !.pc = "idle", !.r = 0, !.out = Zeroed]
        /\ name' = name /\ producer' = producer /\ log' = log
        /\ spoiled' = spoiled /\ budget' = budget
    BY DEF ConsumeStore
  <1>2. /\ o \in Objects /\ s \in Segment /\ l \in Seq(Msgs)
        /\ (consumer.r + 1) % Word \in Index
    BY <1>1, Facts, IncValue
  <1>3. /\ t \in Segment /\ t.read_index = (consumer.r + 1) % Word
        /\ t.write_index = s.write_index /\ t.capacity = s.capacity /\ t.ring = s.ring
    BY <1>2 DEF Segment
  <1>4. consumer'.pc = "idle" /\ consumer'.at = o /\ consumer' \in ConsumerState
    BY <1>0, <1>1 DEF IndInv, ShmTypes, ConsumerState, Contents
  <1>5. seg[o] = s /\ log[o] = l
    OBVIOUS
  <1>6. ASSUME o \notin spoiled
        PROVE  consumer.r = s.read_index /\ Unread(s) > 0
    BY <1>1, <1>6 DEF IndInv, Reader
  <1> HIDE DEF o, s, l, t
  <1>7. /\ seg' \in [Objects -> Segment] /\ seg'[o] = t
        /\ \A p \in Objects \ {o} : seg'[p] = seg[p]
    BY <1>1, <1>2, <1>3, StoreStep
  <1>8. ASSUME o \notin spoiled
        PROVE  RingOf(t, l) /\ Unread(t) < Unread(s)
    <2>1. RingOf(s, l)
      BY <1>2, <1>5, <1>8, Facts
    <2>2. RingOf(t, l) /\ Unread(t) = Unread(s) - 1
      BY <2>1, <1>2, <1>3, <1>6, <1>8, Consumption
    <2>3. Unread(s) \in Int
      BY <1>2, UnreadValue, RingAssumption DEF Index
    <2>4. QED
      BY <2>2, <2>3
  <1>9. ShmTypes'
    BY <1>1, <1>4, <1>7 DEF IndInv, ShmTypes
  <1>10. Rings'
    <2>1. \A p \in Objects \ spoiled : RingOf(seg'[p], log[p])
      BY <1>5, <1>7, <1>8, Facts
    <2>2. QED
      BY <1>1, <2>1 DEF Rings
  <1>11. Writer'
    <2>1. CASE producer.pc = "down"
      BY <1>1, <2>1 DEF Writer
    <2>2. CASE producer.pc # "down" /\ producer.at # o
      BY <1>1, <1>7, <2>2, Facts DEF IndInv, Writer
    <2>3. CASE producer.at = o
      <3>1. /\ t.write_index = s.write_index /\ t.capacity = s.capacity
            /\ t.ring = s.ring /\ seg'[producer.at] = t /\ seg[producer.at] = s
        BY <1>3, <1>5, <1>7, <2>3
      <3>2. ASSUME o \notin spoiled, Unread(s) < Capacity
            PROVE  Unread(t) < Capacity
        <4>1. Unread(s) \in Int /\ Unread(t) \in Int
          BY <1>2, <1>3, UnreadValue, RingAssumption DEF Index
        <4>2. QED
          BY <1>8, <3>2, <4>1, RingAssumption
      <3>3. QED
        BY <1>1, <2>3, <3>1, <3>2 DEF IndInv, Writer
    <2>4. QED
      BY <2>1, <2>2, <2>3
  <1>12. Reader' /\ Places'
    BY <1>1, <1>2, <1>4 DEF IndInv, Reader, Places
  <1>13. QED
    BY <1>9, <1>10, <1>11, <1>12 DEF IndInv

-----------------------------------------------------------------------------
LEMMA Step ==
  ASSUME IndInv, [Next]_vars
  PROVE  IndInv'
  <1>1. CASE FeedCreate
    BY <1>1, CreateOpenStep, CreateSizeStep, CreateInitStep DEF FeedCreate, Create
  <1>2. CASE FeedDestroy
    BY <1>2, DestroyStep, ProducerDiesStep DEF FeedDestroy
  <1>3. CASE FeedPublish
    BY <1>3, PublishBeginStep, PublishFillStep, PublishStoreStep
    DEF FeedPublish, Publish
  <1>4. CASE FeedAttach
    BY <1>4, AttachStep DEF FeedAttach
  <1>5. CASE EngineDies
    BY <1>5, ConsumerDiesStep DEF EngineDies
  <1>6. CASE FeedPoll
    BY <1>6, ConsumeLoadRStep, ConsumeLoadWStep, ConsumeCopyStep DEF FeedPoll
  <1>7. CASE FeedConsume
    BY <1>7, ConsumeStoreStep DEF FeedConsume
  <1>8. CASE UNCHANGED vars
    BY <1>8 DEF vars, shmVars, IndInv, ShmTypes, Places, Rings, Writer, Reader
  <1>9. QED
    BY <1>1, <1>2, <1>3, <1>4, <1>5, <1>6, <1>7, <1>8 DEF Next

LEMMA SafeRings ==
  ASSUME IndInv
  PROVE  RingSafe
  <1>1. ASSUME NEW o \in Objects \ spoiled
        PROVE  RingOf(seg[o], log[o])
    BY Facts
  <1>2. ASSUME NEW o \in Objects \ spoiled, consumer.pc = "copied", consumer.at = o
        PROVE  /\ consumer.r = seg[o].read_index
               /\ Unread(seg[o]) > 0
               /\ consumer.out = log[o][First(seg[o], log[o]) + 1]
    BY <1>2 DEF IndInv, Reader
  <1>3. QED
    BY <1>1, <1>2 DEF RingSafe, RingOf, First, Unread

(***************************************************************************)
(* The shared-memory ring is safe for every capacity and word size, however *)
(* often either process dies and is started again: publish() and consume()  *)
(* of shm_ipc_bus.hpp:145-180 neither tear, skip nor repeat a message, save  *)
(* in an object that a new creator truncated in the middle of a consume().  *)
(***************************************************************************)
THEOREM RingIsSafe == Spec => []RingSafe
  <1>1. TInit => IndInv
    BY InitStep DEF TInit
  <1>2. IndInv /\ [Next]_vars => IndInv'
    BY Step
  <1>3. IndInv => RingSafe
    BY SafeRings
  <1>4. QED
    BY <1>1, <1>2, <1>3, PTL DEF Spec

-----------------------------------------------------------------------------
(* The order book.                                                         *)

(* The least-number principle, for sets: the form of induction used here.  *)
LEMMA LeastNumber ==
  ASSUME NEW T \in SUBSET Nat, T # {}
  PROVE  \E x \in T : \A y \in T : x <= y
  <1> DEFINE R == {ss \in Nat \X Nat : ss[1] < ss[2]}
  <1>1. IsWellFoundedOn(OpToRel(<, Nat), Nat)
    BY NatLessThanWellFounded
  <1>2. R = OpToRel(<, Nat)
    BY Zenon DEF OpToRel
  <1> HIDE DEF R
  <1>3. IsWellFoundedOn(R, Nat)
    BY <1>1, <1>2, Zenon
  <1>4. PICK x \in T : \A y \in T : ~(<<y, x>> \in R)
    BY <1>3, WFMin
  <1>5. ASSUME NEW y \in T
        PROVE  x <= y
    <2>1. x \in Nat /\ y \in Nat
      OBVIOUS
    <2>2. <<y, x>> \in Nat \X Nat /\ <<y, x>>[1] = y /\ <<y, x>>[2] = x
      BY <2>1
    <2>3. ~(y < x)
      BY <1>4, <2>2, Zenon DEF R
    <2>4. QED
      BY <2>1, <2>3
  <1>6. QED
    BY <1>5

(* The first of some positions. *)
LEMMA FirstPosition ==
  ASSUME NEW T \in SUBSET Nat, T # {}
  PROVE  Min(T) \in T /\ \A y \in T : Min(T) <= y
  <1>1. \E x \in T : \A y \in T : x <= y
    BY LeastNumber
  <1>2. QED
    BY <1>1 DEF Min

(* The last of some positions. *)
LEMMA LastPosition ==
  ASSUME NEW n \in Nat, NEW T \in SUBSET (1 .. n), T # {}
  PROVE  LET k == CHOOSE i \in T : \A j \in T : j <= i IN k \in T /\ \A j \in T : j <= k
  <1> DEFINE U == {n - i : i \in T}
  <1>1. U \in SUBSET Nat /\ U # {}
    <2>1. \A i \in T : n - i \in Nat
      OBVIOUS
    <2>2. PICK i \in T : TRUE
      OBVIOUS
    <2>3. n - i \in U
      BY <2>2
    <2>4. QED
      BY <2>1, <2>3
  <1> HIDE DEF U
  <1>2. PICK x \in U : \A y \in U : x <= y
    BY <1>1, LeastNumber
  <1>3. PICK i \in T : x = n - i
    BY DEF U
  <1>4. ASSUME NEW j \in T
        PROVE  j <= i
    <2>1. n - j \in U
      BY DEF U
    <2>2. n - i <= n - j /\ i \in Int /\ j \in Int
      BY <1>2, <1>3, <2>1
    <2>3. QED
      BY <2>2
  <1>5. \E k \in T : \A j \in T : j <= k
    BY <1>4
  <1>6. QED
    BY <1>5

Event == [side : Sides, price : Int, qty : Nat]
Level == [price : Int, qty : Nat]

(* A side's order of prices. *)
LEMMA BetterOrder ==
  ASSUME NEW s \in Sides, NEW p \in Int, NEW q \in Int, NEW r \in Int
  PROVE  /\ ~Better(s, p, p)
         /\ Better(s, p, q) /\ Better(s, q, r) => Better(s, p, r)
         /\ p # q => Better(s, p, q) \/ Better(s, q, p)
         /\ ~(Better(s, p, q) /\ Better(s, q, p))
  BY DEF Better

(* An event changes the quantity of its own price only. *)
LEMMA QuantityAppend ==
  ASSUME NEW E \in Seq(Event), NEW e \in Event, NEW s, NEW p
  PROVE  Quantity(Append(E, e), s, p) =
           IF e.side = s /\ e.price = p THEN e.qty ELSE Quantity(E, s, p)
  <1> DEFINE n == Len(E)
             F == Append(E, e)
             old == {i \in DOMAIN E : E[i].side = s /\ E[i].price = p}
             new == {i \in DOMAIN F : F[i].side = s /\ F[i].price = p}
  <1>1. /\ n \in Nat /\ DOMAIN E = 1 .. n /\ DOMAIN F = 1 .. n + 1 /\ F[n + 1] = e
        /\ \A i \in 1 .. n : F[i] = E[i]
    OBVIOUS
  <1>2. Quantity(F, s, p) = IF new = {} THEN 0 ELSE F[CHOOSE i \in new : \A j \in new : j <= i].qty
    BY DEF Quantity
  <1>3. Quantity(E, s, p) = IF old = {} THEN 0 ELSE E[CHOOSE i \in old : \A j \in old : j <= i].qty
    BY DEF Quantity
  <1>4. old \in SUBSET (1 .. n) /\ new \in SUBSET (1 .. n + 1)
    BY <1>1
  <1>5. CASE e.side = s /\ e.price = p
    <2>1. n + 1 \in new
      BY <1>1, <1>5
    <2> HIDE DEF new, F
    <2>2. PICK k : k = CHOOSE i \in new : \A j \in new : j <= i
      OBVIOUS
    <2>3. k \in new /\ \A j \in new : j <= k
      <3>1. n + 1 \in Nat
        BY <1>1
      <3>2. QED
        BY <1>4, <2>1, <2>2, <3>1, LastPosition
    <2>4. k = n + 1
      BY <1>1, <1>4, <2>1, <2>3
    <2>5. QED
      BY <1>1, <1>2, <1>5, <2>1, <2>2, <2>4 DEF F
  <1>6. CASE ~(e.side = s /\ e.price = p)
    <2>1. new = old
      BY <1>1, <1>6
    <2>2. \A i \in old : F[i] = E[i]
      BY <1>1, <1>4
    <2>3. CASE old = {}
      BY <1>2, <1>3, <1>6, <2>1, <2>3
    <2>4. CASE old # {}
      <3> HIDE DEF old, new, F
      <3>1. PICK k : k = CHOOSE i \in old : \A j \in old : j <= i
        OBVIOUS
      <3>2. k \in old
        BY <1>1, <1>4, <2>4, <3>1, LastPosition
      <3>3. Quantity(F, s, p) = F[k].qty /\ Quantity(E, s, p) = E[k].qty
        BY <1>2, <1>3, <2>1, <2>4, <3>1
      <3>4. QED
        BY <1>6, <2>2, <3>2, <3>3 DEF F
    <2>5. QED
      BY <2>3, <2>4
  <1>7. QED
    BY <1>5, <1>6

(* The prices of a side are those with a quantity. *)
LEMMA PricesMember ==
  ASSUME NEW E \in Seq(Event), NEW s, NEW p
  PROVE  p \in Prices(E, s) <=> Quantity(E, s, p) # 0
  <1>1. ASSUME Quantity(E, s, p) # 0
        PROVE  p \in {E[i].price : i \in DOMAIN E}
    <2>1. {i \in DOMAIN E : E[i].side = s /\ E[i].price = p} # {}
      BY <1>1 DEF Quantity
    <2>2. QED
      BY <2>1
  <1>2. QED
    BY <1>1 DEF Prices

(* The prices of a side are finitely many. *)
LEMMA PricesFinite ==
  ASSUME NEW E \in Seq(Event), NEW s
  PROVE  IsFiniteSet(Prices(E, s))
  <1>1. IsFiniteSet(DOMAIN E)
    <2>1. DOMAIN E = 1 .. Len(E) /\ Len(E) \in Int /\ 1 \in Int
      OBVIOUS
    <2>2. QED
      BY <2>1, FS_Interval
  <1>2. IsFiniteSet({E[i].price : i \in DOMAIN E})
    <2> DEFINE f == [i \in DOMAIN E |-> E[i].price]
               S == {E[i].price : i \in DOMAIN E}
    <2>1. f \in Surjection(DOMAIN E, S)
      BY DEF Surjection
    <2> HIDE DEF f, S
    <2>2. QED
      BY <1>1, <2>1, FS_Surjection DEF S
  <1>3. Prices(E, s) \subseteq {E[i].price : i \in DOMAIN E}
    BY DEF Prices
  <1>4. QED
    BY <1>2, <1>3, FS_Subset

(* Shifting an array of levels: what RemoveAt and InsertAt make of it. *)
LEMMA Removed ==
  ASSUME NEW L \in Seq(Level), NEW t \in 1 .. Len(L), NEW R, R = RemoveAt(L, t)
  PROVE  /\ R \in Seq(Level) /\ Len(R) = Len(L) - 1
         /\ \A i \in 1 .. Len(L) - 1 : R[i] = IF i < t THEN L[i] ELSE L[i + 1]
  <1> DEFINE n == Len(L)
             a == SubSeq(L, 1, t - 1)
             b == SubSeq(L, t + 1, n)
  <1>1. n \in Nat /\ t \in Nat /\ 1 <= t /\ t <= n
    OBVIOUS
  <1>2. a \in Seq(Level) /\ Len(a) = t - 1 /\ \A i \in 1 .. t - 1 : a[i] = L[i]
    BY <1>1
  <1>3. b \in Seq(Level) /\ Len(b) = n - t /\ \A i \in 1 .. n - t : b[i] = L[i + t]
    BY <1>1
  <1>4. R = a \o b
    BY DEF RemoveAt
  <1> HIDE DEF a, b, n
  <1>5. R \in Seq(Level) /\ Len(R) = n - 1
    <2>1. R \in Seq(Level) /\ Len(R) = Len(a) + Len(b)
      BY <1>2, <1>3, <1>4, ConcatProperties
    <2>2. (t - 1) + (n - t) = n - 1
      BY <1>1
    <2>3. QED
      BY <1>2, <1>3, <2>1, <2>2
  <1>6. ASSUME NEW i \in 1 .. n - 1
        PROVE  R[i] = IF i < t THEN L[i] ELSE L[i + 1]
    <2>1. CASE i < t
      BY <1>1, <1>2, <1>3, <1>4, <2>1
    <2>2. CASE ~(i < t)
      <3>1. R[i] = b[i - (t - 1)]
        BY <1>1, <1>2, <1>3, <1>4, <2>2
      <3>2. i - (t - 1) \in 1 .. n - t /\ (i - (t - 1)) + t = i + 1
        BY <1>1, <2>2
      <3>3. QED
        BY <1>3, <2>2, <3>1, <3>2
    <2>3. QED
      BY <2>1, <2>2
  <1>7. QED
    BY <1>5, <1>6 DEF n

LEMMA Inserted ==
  ASSUME NEW L \in Seq(Level), NEW t \in 1 .. Len(L) + 1, NEW x \in Level, NEW m \in Nat,
         m <= Len(L) + 1
  PROVE  /\ Len(InsertAt(L, t, x)) = Len(L) + 1
         /\ SubSeq(InsertAt(L, t, x), 1, m) \in Seq(Level)
         /\ Len(SubSeq(InsertAt(L, t, x), 1, m)) = m
         /\ \A i \in 1 .. m : SubSeq(InsertAt(L, t, x), 1, m)[i] =
                               IF i < t THEN L[i] ELSE IF i = t THEN x ELSE L[i - 1]
  <1> DEFINE n == Len(L)
             a == SubSeq(L, 1, t - 1)
             b == SubSeq(L, t, n)
             c == a \o <<x>>
             G == c \o b
  <1>1. n \in Nat /\ t \in Nat /\ 1 <= t /\ t <= n + 1
    OBVIOUS
  <1>2. a \in Seq(Level) /\ Len(a) = t - 1 /\ \A i \in 1 .. t - 1 : a[i] = L[i]
    BY <1>1
  <1>3. b \in Seq(Level) /\ Len(b) = n - t + 1 /\ \A i \in 1 .. n - t + 1 : b[i] = L[i + t - 1]
    BY <1>1
  <1>4. InsertAt(L, t, x) = G
    BY DEF InsertAt
  <1>a. m \in Nat /\ m <= n + 1
    OBVIOUS
  <1> HIDE DEF a, b, n
  <1>5. c \in Seq(Level) /\ Len(c) = t /\ c[t] = x /\ \A i \in 1 .. t - 1 : c[i] = L[i]
    BY <1>1, <1>2
  <1> HIDE DEF c
  <1>6. G \in Seq(Level) /\ Len(G) = n + 1
    <2>1. G \in Seq(Level) /\ Len(G) = Len(c) + Len(b)
      BY <1>3, <1>5, ConcatProperties
    <2>2. t + (n - t + 1) = n + 1
      BY <1>1
    <2>3. QED
      BY <1>3, <1>5, <2>1, <2>2
  <1>7. ASSUME NEW i \in 1 .. n + 1
        PROVE  G[i] = IF i < t THEN L[i] ELSE IF i = t THEN x ELSE L[i - 1]
    <2>1. CASE i <= t
      <3>1. G[i] = c[i]
        BY <1>1, <1>3, <1>5, <2>1
      <3>2. QED
        BY <1>1, <1>5, <2>1, <3>1
    <2>2. CASE ~(i <= t)
      <3>a. i \in Len(c) + 1 .. Len(c) + Len(b) /\ i - Len(c) = i - t
        <4>1. i \in t + 1 .. t + (n - t + 1)
          BY <1>1, <2>2
        <4>2. QED
          BY <1>3, <1>5, <4>1
      <3>1. G[i] = b[i - t]
        BY <1>3, <1>5, <3>a, ConcatProperties
      <3>2. i - t \in 1 .. n - t + 1 /\ (i - t) + t - 1 = i - 1
        BY <1>1, <2>2
      <3>3. b[i - t] = L[(i - t) + t - 1]
        BY <1>3, <3>2
      <3>4. b[i - t] = L[i - 1]
        BY <3>2, <3>3
      <3>5. ~(i < t) /\ i # t
        BY <1>1, <2>2
      <3>6. QED
        BY <3>1, <3>4, <3>5
    <2>3. QED
      BY <2>1, <2>2
  <1> HIDE DEF G
  <1>8. PICK R : R = SubSeq(G, 1, m)
    OBVIOUS
  <1>9. R \in Seq(Level) /\ Len(R) = m /\ \A i \in 1 .. m : R[i] = G[i]
    BY <1>6, <1>8, <1>a
  <1>10. \A i \in 1 .. m : i \in 1 .. n + 1
    BY <1>1, <1>a
  <1>11. QED
    BY <1>4, <1>6, <1>7, <1>8, <1>9, <1>10 DEF n

(* A side of the book and the events it stands for. *)
Levels(s, L, E) ==
  /\ L \in Seq(Level) /\ Len(L) <= MaxDepth
  /\ \A i \in 1 .. Len(L) : L[i].qty = Quantity(E, s, L[i].price) /\ L[i].qty # 0
  /\ \A i, j \in 1 .. Len(L) : i < j => Better(s, L[i].price, L[j].price)

Complete(s, L, E) == \A p \in Prices(E, s) : \E i \in 1 .. Len(L) : L[i].price = p

Shallow(s, E) == \A n \in 0 .. Len(E) : Cardinality(Prices(SubSeq(E, 1, n), s)) <= MaxDepth

SideOf(s, L, E) == Levels(s, L, E) /\ (Shallow(s, E) => Complete(s, L, E))

(* A feed that is not too deep was never too deep before. *)
LEMMA ShallowAppend ==
  ASSUME NEW E \in Seq(Event), NEW e \in Event, NEW s, Shallow(s, Append(E, e))
  PROVE  Shallow(s, E) /\ Cardinality(Prices(Append(E, e), s)) <= MaxDepth
  <1> DEFINE F == Append(E, e)
  <1>1. F \in Seq(Event) /\ Len(F) = Len(E) + 1 /\ Len(E) \in Nat
    OBVIOUS
  <1>2. SubSeq(F, 1, Len(F)) = F
    BY <1>1
  <1>3. \A n \in 0 .. Len(E) : SubSeq(F, 1, n) = SubSeq(E, 1, n) /\ n \in 0 .. Len(F)
    OBVIOUS
  <1>4. Len(F) \in 0 .. Len(F)
    BY <1>1
  <1> HIDE DEF F
  <1>5. Shallow(s, F)
    BY DEF F
  <1>6. Cardinality(Prices(F, s)) <= MaxDepth
    BY <1>2, <1>4, <1>5 DEF Shallow
  <1>7. Shallow(s, E)
    BY <1>3, <1>5 DEF Shallow
  <1>8. QED
    BY <1>6, <1>7 DEF F

(* The prices in a sorted side are as many as its levels. *)
LEMMA LevelPrices ==
  ASSUME NEW s \in Sides, NEW E \in Seq(Event), NEW L, Levels(s, L, E)
  PROVE  LET P == {L[i].price : i \in 1 .. Len(L)} IN
         /\ IsFiniteSet(P) /\ Cardinality(P) = Len(L) /\ P \subseteq Prices(E, s)
         /\ P \subseteq Int
  <1> DEFINE n == Len(L)
             P == {L[i].price : i \in 1 .. n}
             f == [i \in 1 .. n |-> L[i].price]
  <1>1. n \in Nat /\ \A i \in 1 .. n : L[i].price \in Int
    <2>1. n \in Nat /\ \A i \in 1 .. n : L[i] \in Level
      BY DEF Levels
    <2>2. QED
      BY <2>1 DEF Level
  <1>2. \A i, j \in 1 .. n : i < j => L[i].price # L[j].price
    BY <1>1, BetterOrder DEF Levels
  <1>3. \A i, j \in 1 .. n : i # j => L[i].price # L[j].price
    <2>1. \A i, j \in 1 .. n : i # j => i < j \/ j < i
      BY <1>1
    <2>2. QED
      BY <1>2, <2>1, Zenon
  <1>4. f \in Surjection(1 .. n, P) /\ f \in Injection(1 .. n, P)
    <2>1. f \in [1 .. n -> P]
      OBVIOUS
    <2>2. \A i, j \in 1 .. n : f[i] = f[j] => i = j
      BY <1>3
    <2>3. \A y \in P : \E i \in 1 .. n : f[i] = y
      OBVIOUS
    <2>4. QED
      BY <2>1, <2>2, <2>3 DEF Surjection, Injection, IsInjective
  <1>5. IsFiniteSet(1 .. n) /\ Cardinality(1 .. n) = n
    <2>1. 1 \in Int /\ n \in Int
      BY <1>1
    <2>2. IsFiniteSet(1 .. n) /\ Cardinality(1 .. n) = IF 1 > n THEN 0 ELSE n - 1 + 1
      BY <2>1, FS_Interval
    <2>3. QED
      BY <1>1, <2>2
  <1>6. P \subseteq Prices(E, s)
    BY PricesMember DEF Levels
  <1>7. P \subseteq Int
    BY <1>1
  <1> HIDE DEF n, P, f
  <1>8. IsFiniteSet(P) /\ Cardinality(P) = Cardinality(1 .. n)
    BY <1>4, <1>5, FS_Surjection
  <1>9. QED
    BY <1>5, <1>6, <1>7, <1>8 DEF P, n

(* Facts about the levels of a side. *)
LEMMA LevelFacts ==
  ASSUME NEW s \in Sides, NEW E, NEW L, Levels(s, L, E)
  PROVE  /\ L \in Seq(Level) /\ Len(L) \in Nat /\ DOMAIN L = 1 .. Len(L)
         /\ \A i \in 1 .. Len(L) : /\ L[i] \in Level /\ L[i].price \in Int /\ L[i].qty \in Nat
                                   /\ L[i].qty = Quantity(E, s, L[i].price) /\ L[i].qty # 0
         /\ \A i, j \in 1 .. Len(L) : i < j => Better(s, L[i].price, L[j].price)
         /\ \A i, j \in 1 .. Len(L) : i # j => L[i].price # L[j].price
  <1>1. /\ L \in Seq(Level) /\ Len(L) \in Nat /\ DOMAIN L = 1 .. Len(L)
        /\ \A i \in 1 .. Len(L) : L[i] \in Level
    BY DEF Levels
  <1>2. \A i \in 1 .. Len(L) : L[i].price \in Int /\ L[i].qty \in Nat
    BY <1>1 DEF Level
  <1>3. \A i, j \in 1 .. Len(L) : i < j => Better(s, L[i].price, L[j].price)
    BY DEF Levels
  <1>4. \A i, j \in 1 .. Len(L) : i < j => L[i].price # L[j].price
    BY <1>2, <1>3, BetterOrder
  <1>5. \A i, j \in 1 .. Len(L) : i # j => i < j \/ j < i
    BY <1>1
  <1>6. \A i, j \in 1 .. Len(L) : i # j => L[i].price # L[j].price
    BY <1>4, <1>5, Zenon
  <1>7. QED
    BY <1>1, <1>2, <1>3, <1>6 DEF Levels

(* An event about another price than p. *)
LEMMA OtherPrice ==
  ASSUME NEW E \in Seq(Event), NEW e \in Event, NEW s, NEW p, ~(e.side = s /\ e.price = p)
  PROVE  /\ Quantity(Append(E, e), s, p) = Quantity(E, s, p)
         /\ p \in Prices(Append(E, e), s) <=> p \in Prices(E, s)
  <1>1. Quantity(Append(E, e), s, p) = Quantity(E, s, p)
    <2>1. Quantity(Append(E, e), s, p) =
            IF e.side = s /\ e.price = p THEN e.qty ELSE Quantity(E, s, p)
      BY QuantityAppend
    <2>2. QED
      BY <2>1, Zenon
  <1>2. Append(E, e) \in Seq(Event)
    OBVIOUS
  <1>3. QED
    BY <1>1, <1>2, PricesMember, Zenon

(* An event about price p. *)
LEMMA OwnPrice ==
  ASSUME NEW E \in Seq(Event), NEW e \in Event
  PROVE  /\ Quantity(Append(E, e), e.side, e.price) = e.qty
         /\ e.price \in Prices(Append(E, e), e.side) <=> e.qty # 0
  <1>1. Quantity(Append(E, e), e.side, e.price) = e.qty
    BY QuantityAppend, Zenon
  <1>2. Append(E, e) \in Seq(Event)
    OBVIOUS
  <1>3. QED
    BY <1>1, <1>2, PricesMember, Zenon

(* The other side stays as it is. *)
LEMMA OtherSide ==
  ASSUME NEW s \in Sides, NEW E \in Seq(Event), NEW e \in Event, NEW L, SideOf(s, L, E),
         e.side # s
  PROVE  SideOf(s, L, Append(E, e))
  <1>1. \A p : /\ Quantity(Append(E, e), s, p) = Quantity(E, s, p)
               /\ p \in Prices(Append(E, e), s) <=> p \in Prices(E, s)
    BY OtherPrice, Zenon
  <1>2. Levels(s, L, Append(E, e))
    BY <1>1 DEF SideOf, Levels
  <1>3. ASSUME Shallow(s, Append(E, e))
        PROVE  Complete(s, L, Append(E, e))
    <2>1. Shallow(s, E)
      BY <1>3, ShallowAppend
    <2>2. Complete(s, L, E)
      BY <2>1 DEF SideOf
    <2>3. QED
      BY <1>1, <2>2 DEF Complete
  <1>4. QED
    BY <1>2, <1>3 DEF SideOf

(* The level of the event's price is removed. *)
LEMMA RemoveLevel ==
  ASSUME NEW s \in Sides, NEW E \in Seq(Event), NEW e \in Event, e.side = s, e.qty = 0,
         NEW L, SideOf(s, L, E), NEW t \in 1 .. Len(L), L[t].price = e.price,
         NEW R, R = RemoveAt(L, t)
  PROVE  SideOf(s, R, Append(E, e))
  <1>0. Levels(s, L, E) /\ Len(L) \in Nat
    BY LevelFacts DEF SideOf
  <1>1. PICK n \in Nat, F \in Seq(Event) : n = Len(L) /\ F = Append(E, e)
    <2>1. Append(E, e) \in Seq(Event)
      OBVIOUS
    <2>2. QED
      BY <1>0, <2>1
  <1>2. /\ L \in Seq(Level) /\ t \in 1 .. n /\ MaxDepth \in Nat /\ n <= MaxDepth
        /\ \A i \in 1 .. n : /\ L[i].qty = Quantity(E, s, L[i].price) /\ L[i].qty # 0
                             /\ L[i].price \in Int
        /\ \A i, j \in 1 .. n : i < j => Better(s, L[i].price, L[j].price)
        /\ \A i, j \in 1 .. n : i # j => L[i].price # L[j].price
    <2>1. MaxDepth \in Nat /\ n <= MaxDepth
      BY <1>0, <1>1, DepthAssumption DEF Levels
    <2>2. /\ L \in Seq(Level)
          /\ \A i \in 1 .. Len(L) : /\ L[i] \in Level /\ L[i].price \in Int /\ L[i].qty \in Nat
                                    /\ L[i].qty = Quantity(E, s, L[i].price) /\ L[i].qty # 0
          /\ \A i, j \in 1 .. Len(L) : i < j => Better(s, L[i].price, L[j].price)
          /\ \A i, j \in 1 .. Len(L) : i # j => L[i].price # L[j].price
      BY <1>0, LevelFacts
    <2>3. t \in 1 .. Len(L)
      OBVIOUS
    <2>4. QED
      BY <1>1, <2>1, <2>2, <2>3, Zenon
  <1>3. R \in Seq(Level) /\ Len(R) = n - 1
        /\ \A i \in 1 .. n - 1 : R[i] = IF i < t THEN L[i] ELSE L[i + 1]
    <2>1. L \in Seq(Level)
      BY <1>2
    <2>2. R \in Seq(Level) /\ Len(R) = Len(L) - 1
          /\ \A i \in 1 .. Len(L) - 1 : R[i] = IF i < t THEN L[i] ELSE L[i + 1]
      BY <2>1, Removed
    <2>3. QED
      BY <1>1, <2>2, Zenon
  <1>4. PICK g : g = [i \in 1 .. n - 1 |-> IF i < t THEN i ELSE i + 1]
    OBVIOUS
  <1>5. \A i \in 1 .. n - 1 : g[i] \in 1 .. n /\ g[i] # t /\ R[i] = L[g[i]]
    BY <1>2, <1>3, <1>4
  <1>6. \A i, j \in 1 .. n - 1 : i < j => g[i] < g[j]
    BY <1>2, <1>4
  <1>7. ASSUME NEW i \in 1 .. n - 1
        PROVE  R[i].qty = Quantity(F, s, R[i].price) /\ R[i].qty # 0
    <2>1. g[i] \in 1 .. n /\ g[i] # t /\ R[i] = L[g[i]]
      BY <1>5
    <2>2. L[g[i]].price # e.price
      BY <1>2, <2>1
    <2>3. Quantity(F, s, L[g[i]].price) = Quantity(E, s, L[g[i]].price)
      BY <1>1, <2>2, OtherPrice
    <2>4. QED
      BY <1>2, <2>1, <2>3
  <1>8. \A i, j \in 1 .. n - 1 : i < j => Better(s, R[i].price, R[j].price)
    <2> SUFFICES ASSUME NEW i \in 1 .. n - 1, NEW j \in 1 .. n - 1, i < j
                 PROVE  Better(s, R[i].price, R[j].price)
      OBVIOUS
    <2>1. g[i] < g[j] /\ g[i] \in 1 .. n /\ g[j] \in 1 .. n /\ R[i] = L[g[i]] /\ R[j] = L[g[j]]
      BY <1>5, <1>6
    <2>2. Better(s, L[g[i]].price, L[g[j]].price)
      BY <1>2, <2>1
    <2>3. QED
      BY <2>1, <2>2
  <1>9. Levels(s, R, F)
    <2>1. n - 1 <= MaxDepth
      BY <1>2
    <2>2. QED
      BY <1>3, <1>7, <1>8, <2>1 DEF Levels
  <1>10. ASSUME Shallow(s, F)
         PROVE  Complete(s, R, F)
    <2>1. Complete(s, L, E)
      BY <1>1, <1>10, ShallowAppend DEF SideOf
    <2>2. ASSUME NEW p \in Prices(F, s)
          PROVE  \E i \in 1 .. n - 1 : R[i].price = p
      <3>1. p # e.price
        BY <1>1, OwnPrice
      <3>2. p \in Prices(E, s)
        BY <1>1, <3>1, OtherPrice
      <3>3. PICK j \in 1 .. n : L[j].price = p
        BY <1>1, <2>1, <3>2 DEF Complete
      <3>4. j # t
        BY <3>1, <3>3
      <3>5. CASE j < t
        <4>1. j \in 1 .. n - 1 /\ R[j] = L[j]
          BY <1>2, <1>3, <3>5
        <4>2. QED
          BY <3>3, <4>1
      <3>6. CASE ~(j < t)
        <4>1. j - 1 \in 1 .. n - 1 /\ ~(j - 1 < t) /\ (j - 1) + 1 = j
          BY <1>2, <3>4, <3>6
        <4>2. R[j - 1] = L[j]
          BY <1>3, <4>1
        <4>3. QED
          BY <3>3, <4>1, <4>2
      <3>7. QED
        BY <3>5, <3>6
    <2>3. QED
      BY <1>3, <2>2 DEF Complete
  <1>11. QED
    BY <1>1, <1>9, <1>10 DEF SideOf

(* Levels with one of them replaced. *)
LEMMA LevelSet ==
  ASSUME NEW L \in Seq(Level), NEW t \in 1 .. Len(L), NEW x \in Level
  PROVE  /\ [L EXCEPT ![t] = x] \in Seq(Level) /\ Len([L EXCEPT ![t] = x]) = Len(L)
         /\ [L EXCEPT ![t] = x][t] = x
         /\ \A i \in 1 .. Len(L) : i # t => [L EXCEPT ![t] = x][i] = L[i]
  OBVIOUS

(* The level of the event's price gets its quantity. *)
LEMMA ChangeLevel ==
  ASSUME NEW s \in Sides, NEW E \in Seq(Event), NEW e \in Event, e.side = s, e.qty # 0,
         NEW L, SideOf(s, L, E), NEW t \in 1 .. Len(L), L[t].price = e.price,
         NEW R, R = [L EXCEPT ![t].qty = e.qty]
  PROVE  SideOf(s, R, Append(E, e))
  <1>0. Levels(s, L, E) /\ Len(L) \in Nat
    BY LevelFacts DEF SideOf
  <1>1. PICK n \in Nat, F \in Seq(Event) : n = Len(L) /\ F = Append(E, e)
    <2>1. Append(E, e) \in Seq(Event)
      OBVIOUS
    <2>2. QED
      BY <1>0, <2>1
  <1>2. /\ L \in Seq(Level) /\ t \in 1 .. n /\ n <= MaxDepth
        /\ \A i \in 1 .. n : /\ L[i].qty = Quantity(E, s, L[i].price) /\ L[i].qty # 0
                             /\ L[i].price \in Int /\ L[i] \in Level
        /\ \A i, j \in 1 .. n : i < j => Better(s, L[i].price, L[j].price)
        /\ \A i, j \in 1 .. n : i # j => L[i].price # L[j].price
    <2>1. n <= MaxDepth
      BY <1>0, <1>1 DEF Levels
    <2>2. /\ L \in Seq(Level)
          /\ \A i \in 1 .. Len(L) : /\ L[i] \in Level /\ L[i].price \in Int /\ L[i].qty \in Nat
                                    /\ L[i].qty = Quantity(E, s, L[i].price) /\ L[i].qty # 0
          /\ \A i, j \in 1 .. Len(L) : i < j => Better(s, L[i].price, L[j].price)
          /\ \A i, j \in 1 .. Len(L) : i # j => L[i].price # L[j].price
      BY <1>0, LevelFacts
    <2>3. t \in 1 .. Len(L)
      OBVIOUS
    <2>4. QED
      BY <1>1, <2>1, <2>2, <2>3, Zenon
  <1>3. PICK x : x = [L[t] EXCEPT !.qty = e.qty]
    OBVIOUS
  <1>4. x \in Level /\ x.price = e.price /\ x.qty = e.qty
    BY <1>2, <1>3 DEF Level, Event
  <1>5. R = [L EXCEPT ![t] = x]
    BY <1>3
  <1>6. R \in Seq(Level) /\ Len(R) = n /\ R[t] = x /\ \A i \in 1 .. n : i # t => R[i] = L[i]
    <2>1. L \in Seq(Level) /\ t \in 1 .. Len(L) /\ x \in Level
      BY <1>2, <1>4
    <2>2. R \in Seq(Level) /\ Len(R) = Len(L) /\ R[t] = x
          /\ \A i \in 1 .. Len(L) : i # t => R[i] = L[i]
      <3>1. /\ [L EXCEPT ![t] = x] \in Seq(Level) /\ Len([L EXCEPT ![t] = x]) = Len(L)
            /\ [L EXCEPT ![t] = x][t] = x
            /\ \A i \in 1 .. Len(L) : i # t => [L EXCEPT ![t] = x][i] = L[i]
        BY <2>1, LevelSet
      <3>2. QED
        BY <1>5, <3>1, Zenon
    <2>3. QED
      BY <1>1, <2>2
  <1>7. \A i \in 1 .. n : R[i].price = L[i].price
    BY <1>4, <1>6
  <1>8. ASSUME NEW i \in 1 .. n
        PROVE  R[i].qty = Quantity(F, s, R[i].price) /\ R[i].qty # 0
    <2>1. CASE i = t
      BY <1>1, <1>4, <1>6, <2>1, OwnPrice
    <2>2. CASE i # t
      <3>1. R[i] = L[i] /\ L[i].price # e.price
        BY <1>2, <1>6, <2>2
      <3>2. Quantity(F, s, L[i].price) = Quantity(E, s, L[i].price)
        BY <1>1, <3>1, OtherPrice
      <3>3. QED
        BY <1>2, <3>1, <3>2
    <2>3. QED
      BY <2>1, <2>2
  <1>9. Levels(s, R, F)
    BY <1>2, <1>6, <1>7, <1>8 DEF Levels
  <1>10. ASSUME Shallow(s, F)
         PROVE  Complete(s, R, F)
    <2>1. Complete(s, L, E)
      BY <1>1, <1>10, ShallowAppend DEF SideOf
    <2>2. ASSUME NEW p \in Prices(F, s)
          PROVE  \E i \in 1 .. n : R[i].price = p
      <3>1. CASE p = e.price
        BY <1>2, <1>7, <3>1
      <3>2. CASE p # e.price
        <4>1. p \in Prices(E, s)
          BY <1>1, <3>2, OtherPrice
        <4>2. PICK j \in 1 .. n : L[j].price = p
          BY <1>1, <2>1, <4>1 DEF Complete
        <4>3. QED
          BY <1>7, <4>2
      <3>3. QED
        BY <3>1, <3>2
    <2>3. QED
      BY <1>6, <2>2 DEF Complete
  <1>11. QED
    BY <1>1, <1>9, <1>10 DEF SideOf

(* A price that has no level and gets none. *)
LEMMA NoLevel ==
  ASSUME NEW s \in Sides, NEW E \in Seq(Event), NEW e \in Event, e.side = s, e.qty = 0,
         NEW L, SideOf(s, L, E), \A i \in 1 .. Len(L) : L[i].price # e.price
  PROVE  SideOf(s, L, Append(E, e))
  <1>0. Append(E, e) \in Seq(Event)
    OBVIOUS
  <1>1. PICK F : F = Append(E, e) /\ F \in Seq(Event)
    BY <1>0
  <1>2. \A i \in 1 .. Len(L) : Quantity(F, s, L[i].price) = Quantity(E, s, L[i].price)
    BY <1>1, OtherPrice
  <1>3. Levels(s, L, F)
    BY <1>2 DEF SideOf, Levels
  <1>4. \A p : p \in Prices(F, s) => p \in Prices(E, s)
    BY <1>1, OwnPrice, OtherPrice
  <1>5. ASSUME Shallow(s, F)
        PROVE  Complete(s, L, F)
    <2>1. Complete(s, L, E)
      BY <1>1, <1>5, ShallowAppend DEF SideOf
    <2>2. QED
      BY <1>4, <2>1 DEF Complete
  <1>6. QED
    BY <1>1, <1>3, <1>5 DEF SideOf

(* A level is inserted at its place, and the last one falls off a full side. *)
LEMMA InsertLevel ==
  ASSUME NEW s \in Sides, NEW E \in Seq(Event), NEW e \in Event, e.side = s, e.qty # 0,
         NEW L, SideOf(s, L, E), \A i \in 1 .. Len(L) : L[i].price # e.price,
         NEW t \in 1 .. Len(L) + 1,
         \A i \in 1 .. Len(L) : i < t => ~Better(s, e.price, L[i].price),
         t <= Len(L) => Better(s, e.price, L[t].price),
         NEW m \in Nat, m = IF Len(L) + 1 > MaxDepth THEN MaxDepth ELSE Len(L) + 1,
         NEW R, R = SubSeq(InsertAt(L, t, [price |-> e.price, qty |-> e.qty]), 1, m)
  PROVE  SideOf(s, R, Append(E, e))
  <1>0. Levels(s, L, E) /\ Len(L) \in Nat
    BY LevelFacts DEF SideOf
  <1>1. PICK n \in Nat, F \in Seq(Event) : n = Len(L) /\ F = Append(E, e)
    <2>1. Append(E, e) \in Seq(Event)
      OBVIOUS
    <2>2. QED
      BY <1>0, <2>1
  <1>2. MaxDepth \in Nat /\ n <= MaxDepth
    BY <1>0, <1>1, DepthAssumption DEF Levels
  <1>3. /\ L \in Seq(Level)
        /\ \A i \in 1 .. n : /\ L[i].price \in Int /\ L[i].qty # 0
                             /\ L[i].qty = Quantity(E, s, L[i].price)
        /\ \A i, j \in 1 .. n : i < j => Better(s, L[i].price, L[j].price)
    <2>2. /\ L \in Seq(Level)
          /\ \A i \in 1 .. Len(L) : /\ L[i] \in Level /\ L[i].price \in Int /\ L[i].qty \in Nat
                                    /\ L[i].qty = Quantity(E, s, L[i].price) /\ L[i].qty # 0
          /\ \A i, j \in 1 .. Len(L) : i < j => Better(s, L[i].price, L[j].price)
      BY <1>0, LevelFacts
    <2>3. QED
      BY <1>1, <2>2, Zenon
  <1>4. /\ t \in 1 .. n + 1 /\ m \in Nat /\ m <= n + 1 /\ m <= MaxDepth
        /\ n < MaxDepth => m = n + 1
    BY <1>1, <1>2
  <1>5. PICK x : x = [price |-> e.price, qty |-> e.qty]
    OBVIOUS
  <1>6. x \in Level /\ x.price = e.price /\ x.qty = e.qty /\ e.price \in Int
    BY <1>5 DEF Level, Event
  <1>7. /\ R \in Seq(Level) /\ Len(R) = m
        /\ \A i \in 1 .. m : R[i] = IF i < t THEN L[i] ELSE IF i = t THEN x ELSE L[i - 1]
    <2>1. R = SubSeq(InsertAt(L, t, x), 1, m) /\ m <= Len(L) + 1 /\ L \in Seq(Level) /\ m \in Nat
      BY <1>1, <1>3, <1>4, <1>5
    <2>2. t \in 1 .. Len(L) + 1 /\ x \in Level
      BY <1>6
    <2>3. /\ R \in Seq(Level) /\ Len(R) = m
          /\ \A i \in 1 .. m : R[i] = IF i < t THEN L[i] ELSE IF i = t THEN x ELSE L[i - 1]
      <3>1. /\ SubSeq(InsertAt(L, t, x), 1, m) \in Seq(Level)
            /\ Len(SubSeq(InsertAt(L, t, x), 1, m)) = m
            /\ \A i \in 1 .. m : SubSeq(InsertAt(L, t, x), 1, m)[i] =
                                  IF i < t THEN L[i] ELSE IF i = t THEN x ELSE L[i - 1]
        BY <2>1, <2>2, Inserted, SMTT(30)
      <3>2. QED
        BY <2>1, <3>1, Zenon
    <2>4. QED
      BY <2>3
  (* The levels before the place are better, those behind it worse. *)
  <1>8. /\ \A i \in 1 .. n : i < t => Better(s, L[i].price, e.price)
        /\ \A i \in 1 .. n : t <= i => Better(s, e.price, L[i].price)
    <2>1. ASSUME NEW i \in 1 .. n, i < t
          PROVE  Better(s, L[i].price, e.price)
      <3>1. ~Better(s, e.price, L[i].price) /\ L[i].price # e.price /\ L[i].price \in Int
        BY <1>1, <1>3, <2>1
      <3>2. QED
        BY <1>6, <3>1, BetterOrder
    <2>2. ASSUME NEW i \in 1 .. n, t <= i
          PROVE  Better(s, e.price, L[i].price)
      <3>1. /\ t \in 1 .. n /\ Better(s, e.price, L[t].price)
            /\ L[t].price \in Int /\ L[i].price \in Int
        BY <1>1, <1>3, <1>4, <2>2
      <3>2. CASE i = t
        BY <3>1, <3>2
      <3>3. CASE i # t
        <4>1. t < i
          BY <1>4, <2>2, <3>3
        <4>2. Better(s, L[t].price, L[i].price)
          BY <1>3, <3>1, <4>1
        <4>3. QED
          BY <1>6, <3>1, <4>2, BetterOrder
      <3>4. QED
        BY <3>2, <3>3
    <2>3. QED
      BY <2>1, <2>2
  (* Where a level of R comes from. *)
  <1>9. ASSUME NEW i \in 1 .. m
        PROVE  /\ i < t => i \in 1 .. n /\ R[i] = L[i]
               /\ i = t => R[i] = x
               /\ i > t => i - 1 \in 1 .. n /\ t <= i - 1 /\ R[i] = L[i - 1]
    BY <1>1, <1>4, <1>7
  <1>10. ASSUME NEW i \in 1 .. m
         PROVE  R[i].qty = Quantity(F, s, R[i].price) /\ R[i].qty # 0
    <2>1. CASE i = t
      BY <1>1, <1>6, <1>9, <2>1, OwnPrice
    <2>2. CASE i # t
      <3>1. PICK j \in 1 .. n : R[i] = L[j]
        <4>1. i < t \/ i > t
          BY <1>4, <2>2
        <4>2. QED
          BY <1>9, <4>1
      <3>2. L[j].price # e.price
        BY <1>1
      <3>3. Quantity(F, s, L[j].price) = Quantity(E, s, L[j].price)
        BY <1>1, <3>2, OtherPrice
      <3>4. QED
        BY <1>3, <3>1, <3>3
    <2>3. QED
      BY <2>1, <2>2
  <1>11. ASSUME NEW i \in 1 .. m, NEW j \in 1 .. m, i < j
         PROVE  Better(s, R[i].price, R[j].price)
    <2>1. CASE j < t
      <3>1. i < t /\ i < j
        BY <1>4, <1>11, <2>1
      <3>2. i \in 1 .. n /\ j \in 1 .. n /\ R[i] = L[i] /\ R[j] = L[j]
        BY <1>9, <2>1, <3>1
      <3>3. QED
        BY <1>3, <3>1, <3>2
    <2>2. CASE j = t
      <3>1. i < t /\ i \in 1 .. n /\ R[i] = L[i] /\ R[j] = x
        BY <1>9, <1>11, <2>2
      <3>2. QED
        BY <1>6, <1>8, <3>1
    <2>3. CASE j > t
      <3>1. j - 1 \in 1 .. n /\ t <= j - 1 /\ R[j] = L[j - 1]
        BY <1>9, <2>3
      <3>2. CASE i < t
        <4>1. i \in 1 .. n /\ R[i] = L[i] /\ i < j - 1
          BY <1>4, <1>9, <2>3, <3>2
        <4>2. QED
          BY <1>3, <3>1, <4>1
      <3>3. CASE i = t
        <4>1. R[i] = x
          BY <1>9, <3>3
        <4>2. QED
          BY <1>6, <1>8, <3>1, <4>1
      <3>4. CASE i > t
        <4>1. i - 1 \in 1 .. n /\ R[i] = L[i - 1]
          BY <1>9, <2>3, <3>4
        <4>2. i - 1 < j - 1
          BY <1>11
        <4>3. QED
          BY <1>3, <3>1, <4>1, <4>2
      <3>5. QED
        BY <1>4, <3>2, <3>3, <3>4
    <2>4. QED
      BY <1>4, <2>1, <2>2, <2>3
  <1>12. Levels(s, R, F)
    BY <1>4, <1>7, <1>10, <1>11 DEF Levels
  <1>13. ASSUME Shallow(s, F)
         PROVE  Complete(s, R, F)
    <2>1. Complete(s, L, E) /\ Cardinality(Prices(F, s)) <= MaxDepth
      BY <1>1, <1>13, ShallowAppend DEF SideOf
    (* A full side would make the feed too deep. *)
    <2>2. n < MaxDepth
      <3> DEFINE P == {L[i].price : i \in 1 .. Len(L)}
                 Q == P \cup {e.price}
      <3>1. IsFiniteSet(P) /\ Cardinality(P) = Len(L) /\ P \subseteq Prices(E, s)
        BY <1>0, LevelPrices
      <3>2. e.price \notin P /\ e.price \in Prices(F, s)
        BY <1>1, OwnPrice
      <3>3. P \subseteq Prices(F, s)
        <4>1. \A i \in 1 .. Len(L) : L[i].price \in Prices(E, s) /\ L[i].price # e.price
          BY <3>1
        <4>2. \A i \in 1 .. Len(L) : L[i].price \in Prices(F, s)
          BY <1>1, <4>1, OtherPrice
        <4>3. QED
          BY <4>2
      <3> HIDE DEF P
      <3>4. Cardinality(Q) = n + 1
        BY <1>1, <3>1, <3>2, FS_AddElement
      <3>5. Q \subseteq Prices(F, s)
        BY <3>2, <3>3
      <3> HIDE DEF Q
      <3>6. IsFiniteSet(Prices(F, s))
        BY <1>1, PricesFinite
      <3>7. Cardinality(Q) <= Cardinality(Prices(F, s)) /\ Cardinality(Prices(F, s)) \in Nat
        BY <3>5, <3>6, FS_Subset, FS_CardinalityType
      <3>8. QED
        BY <1>2, <2>1, <3>4, <3>7
    <2>3. m = n + 1
      BY <1>4, <2>2
    <2>4. ASSUME NEW p \in Prices(F, s)
          PROVE  \E i \in 1 .. m : R[i].price = p
      <3>1. CASE p = e.price
        <4>1. t \in 1 .. m /\ R[t] = x
          BY <1>4, <1>7, <2>3
        <4>2. QED
          BY <1>6, <3>1, <4>1
      <3>2. CASE p # e.price
        <4>1. p \in Prices(E, s)
          BY <1>1, <3>2, OtherPrice
        <4>2. PICK j \in 1 .. n : L[j].price = p
          BY <1>1, <2>1, <4>1 DEF Complete
        <4>3. CASE j < t
          <5>1. j \in 1 .. m /\ R[j] = L[j]
            BY <1>7, <2>3, <4>3
          <5>2. QED
            BY <4>2, <5>1
        <4>4. CASE ~(j < t)
          <5>1. j + 1 \in 1 .. m /\ ~(j + 1 < t) /\ j + 1 # t /\ (j + 1) - 1 = j
            BY <1>4, <2>3, <4>4
          <5>2. R[j + 1] = L[j]
            BY <1>7, <5>1
          <5>3. QED
            BY <4>2, <5>1, <5>2
        <4>5. QED
          BY <4>3, <4>4
      <3>3. QED
        BY <3>1, <3>2
    <2>5. QED
      BY <1>7, <2>4 DEF Complete
  <1>14. QED
    BY <1>1, <1>12, <1>13 DEF SideOf

(* update_side() keeps the side true to the events. *)
LEMMA UpdateSide ==
  ASSUME NEW s \in Sides, NEW E \in Seq(Event), NEW e \in Event, e.side = s,
         NEW L, SideOf(s, L, E)
  PROVE  SideOf(s, update_side(s, L, e.price, e.qty), Append(E, e))
  <1>0. Levels(s, L, E)
    BY DEF SideOf
  <1>1. L \in Seq(Level) /\ Len(L) \in Nat /\ DOMAIN L = 1 .. Len(L)
    BY <1>0, LevelFacts
  <1> DEFINE at0 == {i \in DOMAIN L : L[i].price = e.price}
             worse0 == {i \in DOMAIN L : Better(s, e.price, L[i].price)}
             pos0 == IF worse0 = {} THEN Len(L) + 1 ELSE Min(worse0)
             grown0 == InsertAt(L, pos0, [price |-> e.price, qty |-> e.qty])
  <1>2. update_side(s, L, e.price, e.qty) =
          IF at0 # {} THEN IF e.qty = 0 THEN RemoveAt(L, Min(at0))
                                        ELSE [L EXCEPT ![Min(at0)].qty = e.qty]
          ELSE IF e.qty = 0 THEN L
          ELSE SubSeq(grown0, 1, IF Len(grown0) > MaxDepth THEN MaxDepth ELSE Len(grown0))
    BY DEF update_side
  <1>3. at0 = {i \in 1 .. Len(L) : L[i].price = e.price}
        /\ worse0 = {i \in 1 .. Len(L) : Better(s, e.price, L[i].price)}
    BY <1>1
  <1>4. pos0 = (IF worse0 = {} THEN Len(L) + 1 ELSE Min(worse0))
        /\ grown0 = InsertAt(L, pos0, [price |-> e.price, qty |-> e.qty])
    BY Zenon
  <1> HIDE DEF at0, worse0, pos0, grown0
  <1>5. at0 \in SUBSET Nat /\ worse0 \in SUBSET Nat
    BY <1>1, <1>3
  <1>6. PICK R : R = update_side(s, L, e.price, e.qty)
    OBVIOUS
  <1>7. CASE at0 # {}
    <2>1. PICK t : t = Min(at0)
      OBVIOUS
    <2>2. t \in 1 .. Len(L) /\ L[t].price = e.price
      BY <1>3, <1>5, <1>7, <2>1, FirstPosition
    <2>3. CASE e.qty = 0
      <3>1. R = RemoveAt(L, t)
        BY <1>2, <1>6, <1>7, <2>1, <2>3
      <3>2. SideOf(s, R, Append(E, e))
        BY <2>2, <2>3, <3>1, RemoveLevel
      <3>3. QED
        BY <1>6, <3>2
    <2>4. CASE e.qty # 0
      <3>1. R = [L EXCEPT ![t].qty = e.qty]
        BY <1>2, <1>6, <1>7, <2>1, <2>4
      <3>2. SideOf(s, R, Append(E, e))
        BY <2>2, <2>4, <3>1, ChangeLevel
      <3>3. QED
        BY <1>6, <3>2
    <2>5. QED
      BY <2>3, <2>4
  <1>8. CASE at0 = {}
    <2>1. \A i \in 1 .. Len(L) : L[i].price # e.price
      BY <1>3, <1>8
    <2>2. CASE e.qty = 0
      <3>1. R = L
        BY <1>2, <1>6, <1>8, <2>2
      <3>2. SideOf(s, L, Append(E, e))
        BY <2>1, <2>2, NoLevel
      <3>3. QED
        BY <1>6, <3>1, <3>2
    <2>3. CASE e.qty # 0
      <3>1. PICK t : t = pos0
        OBVIOUS
      <3>2. /\ t \in 1 .. Len(L) + 1
            /\ \A i \in 1 .. Len(L) : i < t => ~Better(s, e.price, L[i].price)
            /\ t <= Len(L) => Better(s, e.price, L[t].price)
        <4>1. CASE worse0 = {}
          <5>1. t = Len(L) + 1
            BY <1>4, <3>1, <4>1
          <5>2. QED
            BY <1>1, <1>3, <4>1, <5>1
        <4>2. CASE worse0 # {}
          <5>1. t = Min(worse0)
            BY <1>4, <3>1, <4>2
          <5>2. t \in worse0 /\ \A y \in worse0 : t <= y
            BY <1>5, <4>2, <5>1, FirstPosition
          <5>3. t \in 1 .. Len(L) /\ Better(s, e.price, L[t].price)
            BY <1>3, <5>2
          <5>4. ASSUME NEW i \in 1 .. Len(L), i < t
                PROVE  ~Better(s, e.price, L[i].price)
            <6>1. ~(t <= i)
              BY <1>1, <5>3, <5>4
            <6>2. i \notin worse0
              BY <5>2, <6>1
            <6>3. QED
              BY <1>3, <6>2
          <5>5. QED
            BY <1>1, <5>3, <5>4
        <4>3. QED
          BY <4>1, <4>2
      <3>3. PICK x : x = [price |-> e.price, qty |-> e.qty]
        OBVIOUS
      <3>4. x \in Level /\ MaxDepth \in Nat
        BY <3>3, DepthAssumption DEF Level, Event
      <3>5. grown0 = InsertAt(L, t, x)
        BY <1>4, <3>1, <3>3
      <3>6. Len(grown0) = Len(L) + 1
        <4>1. Len(L) + 1 \in Nat /\ Len(L) + 1 <= Len(L) + 1
          BY <1>1
        <4>2. QED
          BY <1>1, <3>2, <3>4, <3>5, <4>1, Inserted
      <3>7. PICK m \in Nat : m = IF Len(L) + 1 > MaxDepth THEN MaxDepth ELSE Len(L) + 1
        BY <1>1, <3>4
      <3>8. R = SubSeq(InsertAt(L, t, [price |-> e.price, qty |-> e.qty]), 1, m)
        BY <1>2, <1>6, <1>8, <2>3, <3>3, <3>5, <3>6, <3>7
      <3>9. SideOf(s, R, Append(E, e))
        BY <2>1, <2>3, <3>2, <3>7, <3>8, InsertLevel
      <3>10. QED
        BY <1>6, <3>9
    <2>4. QED
      BY <2>2, <2>3
  <1>9. QED
    BY <1>7, <1>8

(***************************************************************************)
(* The engine's book is what its events make of it.  BookIsFeed speaks of  *)
(* neighbouring levels and of numbers of prices; what is inductive is that *)
(* the levels are sorted throughout and that no price is missing.          *)
(***************************************************************************)
BookInv ==
  /\ seen \in Seq(Event)
  /\ signal = mid_price2(book)
  /\ DOMAIN book = Sides /\ book = [s \in Sides |-> book[s]]
  /\ \A s \in Sides : SideOf(s, book[s], seen)

(* An engine that has just started. *)
LEMMA StartedEmpty ==
  ASSUME NEW b, b = EmptyBook
  PROVE  /\ << >> \in Seq(Event) /\ mid_price2(b) = 0
         /\ DOMAIN b = Sides /\ b = [s \in Sides |-> b[s]]
         /\ \A s \in Sides : SideOf(s, b[s], << >>)
  <1>1. << >> \in Seq(Event) /\ Len(<< >>) = 0 /\ << >> \in Seq(Level)
    OBVIOUS
  <1>2. /\ DOMAIN b = Sides /\ b = [s \in Sides |-> b[s]]
        /\ \A s \in Sides : b[s] = << >>
    BY DEF EmptyBook
  <1>3. mid_price2(b) = 0
    <2>1. best(b, "buy") = << >> /\ best(b, "sell") = << >>
      BY <1>2 DEF best, Sides
    <2>2. QED
      BY <2>1 DEF mid_price2
  <1>4. ASSUME NEW s \in Sides
        PROVE  SideOf(s, << >>, << >>)
    <2>1. Levels(s, << >>, << >>)
      BY <1>1, DepthAssumption DEF Levels
    <2>2. \A p : Quantity(<< >>, s, p) = 0
      BY DEF Quantity
    <2>3. Prices(<< >>, s) = {}
      BY <1>1, <2>2, PricesMember
    <2>4. QED
      BY <2>1, <2>3 DEF SideOf, Complete
  <1>5. QED
    BY <1>1, <1>2, <1>3, <1>4

(* The same as the invariant, now and in the next state. *)
LEMMA EmptyBookInv ==
  ASSUME book = EmptyBook, signal = 0, seen = << >>
  PROVE  BookInv
  BY StartedEmpty DEF BookInv

LEMMA EmptyBookNext ==
  ASSUME book' = EmptyBook, signal' = 0, seen' = << >>
  PROVE  BookInv'
  <1>1. PICK b : b = book'
    OBVIOUS
  <1>2. /\ << >> \in Seq(Event) /\ mid_price2(b) = 0
        /\ DOMAIN b = Sides /\ b = [s \in Sides |-> b[s]]
        /\ \A s \in Sides : SideOf(s, b[s], << >>)
    BY <1>1, StartedEmpty
  <1>3. (signal = mid_price2(book))'
    BY <1>1, <1>2 DEF mid_price2, best
  <1>4. QED
    BY <1>1, <1>2, <1>3 DEF BookInv

(* What consume() returns is an event, whatever the slot held. *)
LEMMA ConsumedEvent ==
  ASSUME NEW out \in Msgs \cup {Zeroed, Torn}, NEW e \in EventsIn(out)
  PROVE  e \in Event
  <1>1. NoEvent \in Event /\ Msgs \subseteq Event
    BY EventAssumption DEF NoEvent, Event, Sides
  <1>2. CASE out = Zeroed
    BY <1>1, <1>2 DEF EventsIn
  <1>3. CASE out # Zeroed /\ out = Torn
    BY <1>1, <1>3 DEF EventsIn
  <1>4. CASE out # Zeroed /\ out # Torn
    BY <1>1, <1>4 DEF EventsIn
  <1>5. QED
    BY <1>2, <1>3, <1>4

(* The engine applies an event: update_level and mid_price. *)
LEMMA AppliedEvent ==
  ASSUME BookInv, NEW e \in Event,
         book' = update_level(book, e.side, e.price, e.qty),
         signal' = mid_price2(book'), seen' = Append(seen, e)
  PROVE  BookInv'
  <1>1. seen \in Seq(Event) /\ DOMAIN book = Sides /\ book = [s \in Sides |-> book[s]]
        /\ \A s \in Sides : SideOf(s, book[s], seen)
    BY DEF BookInv
  <1>2. e.side \in Sides
    BY DEF Event
  <1>3. /\ DOMAIN book' = Sides /\ book' = [s \in Sides |-> book'[s]]
        /\ book'[e.side] = update_side(e.side, book[e.side], e.price, e.qty)
        /\ \A s \in Sides : s # e.side => book'[s] = book[s]
    BY <1>1, <1>2 DEF update_level
  <1>4. seen' \in Seq(Event)
    BY <1>1
  <1>5. PICK E, F : E = seen /\ F = seen' /\ E \in Seq(Event) /\ F = Append(E, e)
    BY <1>1
  <1>6. ASSUME NEW s \in Sides
        PROVE  SideOf(s, book'[s], F)
    <2>1. SideOf(s, book[s], E)
      BY <1>1, <1>5
    <2>2. CASE e.side = s
      <3>1. SideOf(s, update_side(s, book[s], e.price, e.qty), Append(E, e))
        BY <1>5, <2>1, <2>2, UpdateSide
      <3>2. QED
        BY <1>3, <1>5, <2>2, <3>1
    <2>3. CASE e.side # s
      <3>1. SideOf(s, book[s], Append(E, e))
        BY <1>5, <2>1, <2>3, OtherSide
      <3>2. QED
        BY <1>3, <1>5, <2>3, <3>1
    <2>4. QED
      BY <2>2, <2>3
  <1>7. \A s \in Sides : SideOf(s, book'[s], seen')
    BY <1>5, <1>6
  <1>8. (\A s \in Sides : SideOf(s, book[s], seen))'
    BY <1>7
  <1>9. (signal = mid_price2(book))'
    BY DEF mid_price2, best
  <1>10. QED
    BY <1>3, <1>4, <1>8, <1>9 DEF BookInv

(* The first level of a side without gaps has the side's best price. *)
LEMMA BestIsFirst ==
  ASSUME NEW s \in Sides, NEW E \in Seq(Event), NEW L, SideOf(s, L, E), Shallow(s, E),
         Prices(E, s) # {}
  PROVE  /\ L # << >>
         /\ L[1].price = CHOOSE p \in Prices(E, s) :
                           \A q \in Prices(E, s) \ {p} : Better(s, p, q)
  <1> DEFINE P == Prices(E, s)
             best0 == CHOOSE p \in P : \A q \in P \ {p} : Better(s, p, q)
  <1>0. Levels(s, L, E) /\ Complete(s, L, E)
    BY DEF SideOf
  <1>1. /\ Len(L) \in Nat /\ L \in Seq(Level)
        /\ \A i \in 1 .. Len(L) : L[i].price \in Int
        /\ \A i, j \in 1 .. Len(L) : i < j => Better(s, L[i].price, L[j].price)
    BY <1>0, LevelFacts
  <1>2. \A q \in P : \E i \in 1 .. Len(L) : L[i].price = q
    BY <1>0 DEF Complete
  <1>3. \A i \in 1 .. Len(L) : L[i].price \in P
    BY <1>0, PricesMember DEF Levels
  <1> HIDE DEF P
  <1>4. PICK q0 \in P : TRUE
    BY DEF P
  <1>5. 1 \in 1 .. Len(L)
    BY <1>1, <1>2, <1>4
  <1>6. L # << >>
    BY <1>5
  <1>7. L[1].price \in P /\ \A q \in P \ {L[1].price} : Better(s, L[1].price, q)
    <2> SUFFICES ASSUME NEW q \in P, q # L[1].price
                 PROVE  Better(s, L[1].price, q)
      BY <1>3, <1>5
    <2>1. PICK i \in 1 .. Len(L) : L[i].price = q
      BY <1>2
    <2>2. 1 < i
      BY <1>1, <2>1
    <2>3. QED
      BY <1>1, <1>5, <2>1, <2>2
  <1>8. best0 \in P /\ \A q \in P \ {best0} : Better(s, best0, q)
    BY <1>7
  <1> HIDE DEF best0
  <1>9. best0 = L[1].price
    <2> SUFFICES ASSUME best0 # L[1].price PROVE FALSE
      OBVIOUS
    <2>1. Better(s, L[1].price, best0) /\ Better(s, best0, L[1].price)
      BY <1>7, <1>8
    <2>2. best0 \in Int /\ L[1].price \in Int
      BY <1>1, <1>2, <1>5, <1>8
    <2>3. QED
      BY <2>1, <2>2, BetterOrder
  <1>10. QED
    BY <1>6, <1>9 DEF best0, P

(* The invariant implies the property. *)
LEMMA BookInvFeed == BookInv => BookIsFeed
  <1> SUFFICES ASSUME BookInv PROVE BookIsFeed
    OBVIOUS
  <1>1. seen \in Seq(Event) /\ signal = mid_price2(book)
        /\ \A s \in Sides : SideOf(s, book[s], seen)
    BY DEF BookInv
  <1>2. PICK E : E = seen /\ E \in Seq(Event)
    BY <1>1
  <1>3. \A s : NeverTooDeep(s) <=> Shallow(s, E)
    BY <1>2 DEF NeverTooDeep, Shallow
  <1>4. ASSUME NEW s \in Sides
        PROVE  /\ Len(book[s]) <= MaxDepth
               /\ \A i \in DOMAIN book[s] :
                    /\ book[s][i].qty = Quantity(seen, s, book[s][i].price)
                    /\ book[s][i].qty # 0
                    /\ i > 1 => Better(s, book[s][i - 1].price, book[s][i].price)
               /\ NeverTooDeep(s) => Len(book[s]) = Cardinality(Prices(seen, s))
    <2>1. PICK L : L = book[s]
      OBVIOUS
    <2>2. SideOf(s, L, E) /\ Levels(s, L, E)
      BY <1>1, <1>2, <2>1 DEF SideOf
    <2>3. /\ Len(L) \in Nat /\ DOMAIN L = 1 .. Len(L)
          /\ \A i \in 1 .. Len(L) : L[i].qty = Quantity(E, s, L[i].price) /\ L[i].qty # 0
          /\ \A i, j \in 1 .. Len(L) : i < j => Better(s, L[i].price, L[j].price)
      BY <2>2, LevelFacts
    <2>4. Len(L) <= MaxDepth
      BY <2>2 DEF Levels
    <2>5. \A i \in 1 .. Len(L) : i > 1 => i - 1 \in 1 .. Len(L) /\ i - 1 < i
      BY <2>3
    <2>6. ASSUME Shallow(s, E)
          PROVE  Len(L) = Cardinality(Prices(E, s))
      <3> DEFINE P == {L[i].price : i \in 1 .. Len(L)}
      <3>1. Cardinality(P) = Len(L) /\ P \subseteq Prices(E, s)
        BY <1>2, <2>2, LevelPrices
      <3>2. Prices(E, s) \subseteq P
        BY <2>2, <2>6 DEF SideOf, Complete
      <3> HIDE DEF P
      <3>3. P = Prices(E, s)
        BY <3>1, <3>2
      <3>4. QED
        BY <3>1, <3>3
    <2>7. \A i \in 1 .. Len(L) : i > 1 => Better(s, L[i - 1].price, L[i].price)
      BY <2>3, <2>5
    <2>8. QED
      BY <1>2, <1>3, <2>1, <2>3, <2>4, <2>6, <2>7
  <1>5. ASSUME \A s \in Sides : Prices(seen, s) # {} /\ NeverTooDeep(s)
        PROVE  LET TrueBest(s) == CHOOSE p \in Prices(seen, s) :
                                    \A q \in Prices(seen, s) \ {p} : Better(s, p, q) IN
               /\ signal = TrueBest("buy") + TrueBest("sell")
               /\ spread(book) = TrueBest("sell") - TrueBest("buy")
    <2> DEFINE TrueBest(s) == CHOOSE p \in Prices(seen, s) :
                                \A q \in Prices(seen, s) \ {p} : Better(s, p, q)
    <2>1. ASSUME NEW s \in Sides
          PROVE  book[s] # << >> /\ book[s][1].price = TrueBest(s)
      <3>1. Prices(E, s) # {} /\ Shallow(s, E) /\ SideOf(s, book[s], E)
        BY <1>1, <1>2, <1>3, <1>5
      <3>2. /\ book[s] # << >>
            /\ book[s][1].price = CHOOSE p \in Prices(E, s) :
                                    \A q \in Prices(E, s) \ {p} : Better(s, p, q)
        BY <1>2, <3>1, BestIsFirst
      <3>3. QED
        BY <1>2, <3>2
    <2> HIDE DEF TrueBest
    <2>2. /\ best(book, "buy") = <<book["buy"][1]>> /\ best(book, "sell") = <<book["sell"][1]>>
          /\ best(book, "buy") # << >> /\ best(book, "sell") # << >>
      BY <2>1 DEF best, Sides
    <2>3. mid_price2(book) = book["buy"][1].price + book["sell"][1].price
      BY <2>2 DEF mid_price2
    <2>4. spread(book) = book["sell"][1].price - book["buy"][1].price
      BY <2>2 DEF spread
    <2>5. book["buy"][1].price = TrueBest("buy") /\ book["sell"][1].price = TrueBest("sell")
      BY <2>1 DEF Sides
    <2>6. signal = TrueBest("buy") + TrueBest("sell")
          /\ spread(book) = TrueBest("sell") - TrueBest("buy")
      BY <1>1, <2>3, <2>4, <2>5
    <2>7. QED
      BY <2>6 DEF TrueBest
  <1>6. QED
    BY <1>4, <1>5 DEF BookIsFeed

(* Every step of the pipeline keeps the book true to the events. *)
LEMMA BookStep ==
  ASSUME IndInv, BookInv, [Next]_vars
  PROVE  BookInv'
  <1>1. CASE UNCHANGED engine
    <2>1. book' = book /\ signal' = signal /\ seen' = seen
      BY <1>1 DEF engine
    <2>2. QED
      BY <2>1 DEF BookInv
  <1>2. CASE EngineDies
    <2>1. book' = EmptyBook /\ signal' = 0 /\ seen' = << >>
      BY <1>2 DEF EngineDies
    <2>2. QED
      BY <2>1, EmptyBookNext
  <1>3. CASE FeedConsume
    <2>1. consumer.out \in Msgs \cup {Zeroed, Torn}
      BY DEF IndInv, ShmTypes, ConsumerState, Contents
    <2>2. PICK e \in EventsIn(consumer.out) :
            /\ book' = update_level(book, e.side, e.price, e.qty)
            /\ signal' = mid_price2(book') /\ seen' = Append(seen, e)
      BY <1>3 DEF FeedConsume
    <2>3. e \in Event
      BY <2>1, ConsumedEvent
    <2>4. QED
      BY <2>2, <2>3, AppliedEvent
  <1>4. QED
    BY <1>1, <1>2, <1>3
    DEF Next, FeedCreate, FeedDestroy, FeedPublish, FeedAttach, FeedPoll, vars, engine

(***************************************************************************)
(* The trading engine's book and signal are those of the events it has     *)
(* consumed, for every depth and any number of events, whatever a slot     *)
(* held when it was copied (update_side of orderbook.hpp:77-121).          *)
(***************************************************************************)
THEOREM BookFollowsFeed == Spec => []BookIsFeed
  <1>1. TInit => IndInv /\ BookInv
    BY InitStep, EmptyBookInv DEF TInit
  <1>2. IndInv /\ BookInv /\ [Next]_vars => IndInv' /\ BookInv'
    BY Step, BookStep
  <1>3. BookInv => BookIsFeed
    BY BookInvFeed
  <1>4. QED
    BY <1>1, <1>2, <1>3, PTL DEF Spec
=============================================================================
