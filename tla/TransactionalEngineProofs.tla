---------------------- MODULE TransactionalEngineProofs ----------------------
(***************************************************************************)
(* Proofs about TransactionalEngine for any number of transactions, keys,  *)
(* values, puts, aborts and crashes: no id is reused while recovery may    *)
(* read records of it, an active transaction reads its snapshot, and what  *)
(* is committed survives, on the keys and in front of the torn PUTs that   *)
(* SnapshotStable and CommittedState name.                                 *)
(***************************************************************************)
EXTENDS TransactionalEngine, FiniteSetTheorems, FunctionTheorems, SequenceTheorems,
        WellFoundedInduction, TLAPS

-----------------------------------------------------------------------------
(* The inductive invariant.                                                *)

Aborting == IF latch[1] = "abort" THEN {latch[2]} ELSE {}
Committing == IF latch[1] = "commit" THEN {latch[2]} ELSE {}

(* Whose puts the undo chains hold. *)
Live == committed \cup (active_txns \ Aborting)

(* The records that recovery has read or has not come to yet: those behind *)
(* a torn PUT that a crash has found there are never read.                 *)
Known ==
  {i \in DOMAIN wal : i > found \/ \A j \in 1 .. i - 1 : wal[j].type # "TORN"}

(* Transaction ids grow, over a recovery too. *)
Ids ==
  /\ committed \cap active_txns = {}
  /\ latch = Free \/ (latch[1] \in {"commit", "abort"} /\ latch[2] \in active_txns)
  /\ ~up => active_txns = {}
  /\ up => \A t \in committed \cup active_txns : t < next_txn_id
  /\ up => \A i \in Known : wal[i].txn < next_txn_id

(* The view of a transaction admits those that had ended when it began.    *)
Views ==
  \A t \in active_txns :
    LET v == read_view[t]
    IN  /\ v.creator = t /\ v.low_limit = t /\ v.up_limit <= t
        /\ \A u \in v.active : u < t /\ v.up_limit <= u
        /\ \A u \in active_txns : u < t => u \in v.active

(* The committed transactions that t sees; they put before t does.         *)
Seen(t) == {u \in committed : u < t /\ u \notin read_view[t].active}

Snapshots ==
  \A t \in active_txns :
    /\ \A k \in Key : snapshot[t][k] = LastPut(k, Seen(t))
    /\ \A p, q \in puts : p.txn \in Seen(t) /\ q.txn = t => p.at < q.at

(* The WAL has the puts, and those of a committed transaction in front of  *)
(* its COMMIT, which has been forced to disk.                              *)
Logged ==
  /\ \A p \in puts : p.at \in Known /\ wal[p.at] = PutRecord(p.txn, p.key, p.val)
  /\ \A i \in Known : wal[i].type = "PUT" /\ wal[i].txn \in committed \cup active_txns =>
       [at |-> i, txn |-> wal[i].txn, key |-> wal[i].key, val |-> wal[i].val] \in puts

Ends ==
  /\ \A i \in Known : wal[i].type = "COMMIT" => wal[i].txn \in committed \cup Committing
  /\ \A t \in committed \cup Committing :
       \E i \in Known : i <= synced /\ wal[i].type = "COMMIT" /\ wal[i].txn = t
  /\ \A i, j \in Known :
       wal[i].type = "PUT" /\ wal[j].type = "COMMIT" /\ wal[i].txn = wal[j].txn => i < j

(* Only crashes tear PUTs, and what a crash finds is on disk; the puts it  *)
(* loses are behind a torn one.                                            *)
Tears ==
  /\ found <= synced /\ (~up => found = Len(wal))
  /\ \A i \in DOMAIN wal : wal[i].type = "TORN" => i <= found
  /\ \A p \in lost : \E i \in DOMAIN wal : i < p.at /\ wal[i].type = "TORN"

(* The records of an active transaction, PUTs until it ends, are younger   *)
(* than the last crash, and none before that crash has an id used since.   *)
Fresh ==
  /\ \A t \in active_txns : \A i \in Known :
       wal[i].txn = t => i > found /\ (t # latch[2] => wal[i].type = "PUT")
  /\ \A i, j \in Known : i <= found /\ found < j => wal[i].txn # wal[j].txn

(* undo_entries counts the puts of an active transaction. *)
Counts ==
  /\ IsFiniteSet(puts)
  /\ \A t \in active_txns, k \in Key :
       Undos(t, k) = Cardinality({p \in puts : p.txn = t /\ p.key = k})

(* The chain of a key, unless an abort has spoiled it, has the live puts,  *)
(* newest first: m gives the put of each version.  It ends with the empty version of transaction 0, or with *)
(* what recovery found, which is older than every active transaction.      *)
Placed(k) == {p \in puts : p.key = k /\ p.txn \in Live}
Bottom == [xmin |-> 0, val |-> Empty]

Chain(k, n, m) ==
  LET c == table[k]
  IN  /\ \A i, j \in 1 .. n : i < j => m[i].at > m[j].at
      /\ \A j \in 1 .. n : c[j] = [xmin |-> m[j].txn, val |-> m[j].val]
      /\ \/ /\ \A p \in Placed(k) : \E j \in 1 .. n : m[j] = p
            /\ (n = 0 /\ c = << >>) \/ (Len(c) = n + 1 /\ c[n + 1] = Bottom)
         \/ /\ n >= 1 /\ Len(c) = n /\ m[n].txn \in committed
            /\ \A p \in Placed(k) : p.at >= m[n].at => \E j \in 1 .. n : m[j] = p
            /\ \A p \in puts : p.at < m[n].at => p.txn \notin active_txns
            /\ \A t \in active_txns : m[n].txn \in Seen(t)

Chains ==
  up => \A k \in Key \ spoiled : \E n \in 0 .. Len(table[k]) : \E m \in [1 .. n -> Placed(k)] :
          Chain(k, n, m)

IndInv ==
  TypeOK /\ Ids /\ Views /\ Snapshots /\ Logged /\ Ends /\ Tears /\ Fresh /\ Counts /\ Chains

-----------------------------------------------------------------------------
(* Least and greatest numbers.                                             *)

(* The least-number principle, for sets: the form of induction used here.  *)
LEMMA LeastNumber ==
  ASSUME NEW T \in SUBSET Nat, T # {}
  PROVE  \E x \in T : \A y \in T : x <= y
  <1> DEFINE R == {ss \in Nat \X Nat : ss[1] < ss[2]}
  <1>1. IsWellFoundedOn(OpToRel(<, Nat), Nat)
    BY NatLessThanWellFounded
  <1>2. R = OpToRel(<, Nat)
    BY Zenon DEF OpToRel
  <1> HIDE DEF R
  <1>3. PICK x \in T : \A y \in T : ~(<<y, x>> \in R)
    BY <1>1, <1>2, WFMin
  <1>4. ASSUME NEW y \in T
        PROVE  x <= y
    <2>1. <<y, x>> \in Nat \X Nat /\ <<y, x>>[1] = y /\ <<y, x>>[2] = x
      OBVIOUS
    <2>2. ~(y < x)
      BY <1>3, <2>1, Zenon DEF R
    <2>3. QED
      BY <2>2
  <1>5. QED
    BY <1>4

LEMMA GreatestNumber ==
  ASSUME NEW n \in Nat, NEW T \in SUBSET (0 .. n), T # {}
  PROVE  \E x \in T : \A y \in T : y <= x
  <1> DEFINE B == {m \in 0 .. n : \A y \in T : y <= m}
  <1>1. B \in SUBSET Nat /\ n \in B
    OBVIOUS
  <1>2. PICK x \in B : \A m \in B : x <= m
    BY <1>1, LeastNumber
  <1>3. x \in T
    <2> SUFFICES ASSUME x \notin T PROVE FALSE
      OBVIOUS
    <2>1. PICK y \in T : TRUE
      OBVIOUS
    <2>2. x # 0 /\ x - 1 \in 0 .. n
      BY <1>2, <2>1
    <2>3. \A z \in T : z <= x - 1
      BY <1>2
    <2>4. x - 1 \in B
      BY <2>2, <2>3
    <2>5. QED
      BY <1>2, <2>2, <2>4
  <1>4. QED
    BY <1>2, <1>3

LEMMA MinIs ==
  ASSUME NEW T \in SUBSET Nat, T # {}
  PROVE  Min(T) \in T /\ \A y \in T : Min(T) <= y
  BY LeastNumber DEF Min

LEMMA MaxIs ==
  ASSUME NEW n \in Nat, NEW T \in SUBSET (0 .. n), T # {}
  PROVE  Max(T) \in T /\ \A y \in T : y <= Max(T)
  <1>1. PICK x \in T : \A y \in T : y <= x
    BY GreatestNumber
  <1>2. \A y \in T : x >= y
    BY <1>1
  <1>3. Max(T) \in T /\ \A y \in T : Max(T) >= y
    BY <1>2, Zenon DEF Max
  <1>4. QED
    BY <1>3

-----------------------------------------------------------------------------
(* What a transaction reads.                                               *)

(* The record of a put in the WAL tells which put it is. *)
LEMMA SamePut ==
  ASSUME TypeOK, Logged, NEW p \in puts, NEW q \in puts, p.at = q.at
  PROVE  p = q
  <1>1. p \in PutEntry /\ q \in PutEntry
    BY DEF TypeOK
  <1>2. PutRecord(p.txn, p.key, p.val) = PutRecord(q.txn, q.key, q.val)
    BY DEF Logged
  <1>3. p.txn = q.txn /\ p.key = q.key /\ p.val = q.val
    BY <1>2 DEF PutRecord
  <1>4. QED
    BY <1>1, <1>3 DEF PutEntry

LEMMA LastPutIs ==
  ASSUME TypeOK, Logged, NEW k, NEW V, NEW p \in puts, p.key = k, p.txn \in V,
         \A q \in puts : q.key = k /\ q.txn \in V => q.at <= p.at
  PROVE  LastPut(k, V) = p.val
  <1> DEFINE these == {q \in puts : q.key = k /\ q.txn \in V}
             r == CHOOSE q \in these : \A x \in these : x.at <= q.at
  <1>1. p \in these /\ \A x \in these : x.at <= p.at
    OBVIOUS
  <1>2. r \in these /\ \A x \in these : x.at <= r.at
    <2> HIDE DEF these
    <2>1. QED
      BY <1>1
  <1>3. p.at \in Nat /\ r.at \in Nat /\ r \in puts
    BY <1>1, <1>2 DEF TypeOK, PutEntry
  <1>4. r.at = p.at
    BY <1>1, <1>2, <1>3
  <1>5. r = p
    BY <1>3, <1>4, SamePut
  <1>6. LastPut(k, V) = r.val
    BY <1>1 DEF LastPut, LastOf, PutsOf
  <1>7. QED
    BY <1>5, <1>6

LEMMA LastPutNone ==
  ASSUME NEW k, NEW V, \A q \in puts : ~(q.key = k /\ q.txn \in V)
  PROVE  LastPut(k, V) = Absent
  BY DEF LastPut, LastOf, PutsOf

(* Puts that there are have a last one among them. *)
LEMMA LastExists ==
  ASSUME TypeOK, Logged, NEW k, NEW V, NEW q \in puts, q.key = k, q.txn \in V
  PROVE  \E p \in puts : /\ p.key = k /\ p.txn \in V
                         /\ \A x \in puts : x.key = k /\ x.txn \in V => x.at <= p.at
  <1> DEFINE T == {p.at : p \in {x \in puts : x.key = k /\ x.txn \in V}}
  <1>1. Len(wal) \in Nat /\ DOMAIN wal = 1 .. Len(wal)
    BY DEF TypeOK
  <1>2. T \in SUBSET (0 .. Len(wal)) /\ T # {}
    BY <1>1 DEF Logged, Known
  <1>3. PICK a \in T : \A b \in T : b <= a
    BY <1>1, <1>2, GreatestNumber
  <1>4. QED
    BY <1>3

LEMMA LastPutType ==
  ASSUME TypeOK, Logged, NEW k, NEW V
  PROVE  LastPut(k, V) \in Value \cup {Absent}
  <1>1. CASE \E q \in puts : q.key = k /\ q.txn \in V
    <2>1. PICK p \in puts : /\ p.key = k /\ p.txn \in V
                            /\ \A x \in puts : x.key = k /\ x.txn \in V => x.at <= p.at
      BY <1>1, LastExists
    <2>2. LastPut(k, V) = p.val
      BY <2>1, LastPutIs
    <2>3. QED
      BY <2>2 DEF TypeOK, PutEntry
  <1>2. CASE ~ \E q \in puts : q.key = k /\ q.txn \in V
    BY <1>2, LastPutNone
  <1>3. QED
    BY <1>1, <1>2

(* A reader that admits the live transactions of V, and the empty version, *)
(* reads the last put of V.                                                *)
LEMMA ReadIs ==
  ASSUME TypeOK, Logged, NEW k \in Key, NEW n \in 0 .. Len(table[k]),
         NEW m \in [1 .. n -> Placed(k)], Chain(k, n, m),
         NEW view, is_visible(view, 0), NEW V \in SUBSET Live,
         \A j \in 1 .. n : is_visible(view, m[j].txn) <=> m[j].txn \in V,
         n >= 1 /\ Len(table[k]) = n => m[n].txn \in V
  PROVE  get(view, k) = Answer(k, LastPut(k, V))
  <1> DEFINE c == table[k]
             vis == {i \in DOMAIN c : is_visible(view, c[i].xmin)}
  <1>1. /\ c \in Seq(Version) /\ Len(c) \in Nat /\ DOMAIN c = 1 .. Len(c) /\ n \in Nat
        /\ n <= Len(c)
    BY DEF TypeOK
  <1>2. /\ \A j \in 1 .. n : m[j] \in puts /\ m[j].key = k
        /\ \A j \in 1 .. n : m[j].at \in Nat /\ m[j].val \in Value
    <2>1. ASSUME NEW j \in 1 .. n
          PROVE  m[j] \in puts /\ m[j].key = k
      BY Zenon DEF Placed
    <2>2. puts \subseteq PutEntry
      BY Zenon DEF TypeOK
    <2>3. ASSUME NEW p \in puts
          PROVE  p.at \in Nat /\ p.val \in Value
      BY <2>2 DEF PutEntry
    <2>4. QED
      BY Zenon, <2>1, <2>3
  <1>3. ASSUME NEW j \in 1 .. n
        PROVE  j \in DOMAIN c /\ c[j].xmin = m[j].txn /\ c[j].val = m[j].val
    <2>1. c[j] = [xmin |-> m[j].txn, val |-> m[j].val]
      BY Zenon DEF Chain
    <2>2. j \in DOMAIN c
      BY <1>1
    <2>3. QED
      BY <2>1, <2>2
  <1>4. vis \in SUBSET Nat
    BY <1>1
  <1>5. get(view, k) = IF vis = {} THEN Absent ELSE c[Min(vis)].val
    BY DEF get, read_tuple_snapshot
  <1>6. \A j \in 1 .. n : j \in vis <=> m[j].txn \in V
    BY <1>3
  <1>7. CASE \E j \in 1 .. n : m[j].txn \in V
    <2>1. PICK j \in 1 .. n : m[j].txn \in V
      BY <1>7
    <2> DEFINE i == Min(vis)
    <2>2. j \in vis
      BY <1>6, <2>1
    <2>3. i \in vis /\ \A y \in vis : i <= y
      <3> HIDE DEF vis
      <3>1. QED
        BY <1>4, <2>2, MinIs
    <2>4. get(view, k) = c[i].val
      BY <1>5, <2>2
    <2> HIDE DEF i
    <2>5. i \in 1 .. n
      BY <1>1, <2>2, <2>3
    <2> HIDE DEF vis
    <2>6. m[i].txn \in V /\ m[i] \in puts /\ m[i].key = k /\ c[i].val = m[i].val
      BY <1>2, <1>3, <1>6, <2>3, <2>5
    <2>7. ASSUME NEW q \in puts, q.key = k, q.txn \in V
          PROVE  q.at <= m[i].at
      <3>1. q \in Placed(k) /\ q.at \in Nat /\ m[i].at \in Nat
        BY <1>2, <2>5, <2>7 DEF Placed, TypeOK, PutEntry
      <3>2. CASE \E x \in 1 .. n : m[x] = q
        <4>1. PICK x \in 1 .. n : m[x] = q
          BY <3>2
        <4>2. i <= x
          BY <1>6, <2>3, <2>7, <4>1
        <4>3. i = x \/ i < x
          BY <2>5, <4>2
        <4>4. QED
          BY <2>5, <3>1, <4>1, <4>3 DEF Chain
      <3>3. CASE ~ \E x \in 1 .. n : m[x] = q
        <4>1. n >= 1 /\ ~(q.at >= m[n].at)
          BY <3>1, <3>3 DEF Chain
        <4>2. n \in 1 .. n /\ m[n].at \in Nat
          BY <1>1, <1>2, <4>1
        <4>3. i = n \/ i < n
          BY <1>1, <2>5
        <4>4. m[n].at <= m[i].at
          BY <2>5, <3>1, <4>2, <4>3 DEF Chain
        <4>5. QED
          BY <3>1, <4>1, <4>2, <4>4
      <3>4. QED
        BY <3>2, <3>3
    <2>8. LastPut(k, V) = m[i].val
      BY <2>6, <2>7, LastPutIs
    <2>9. m[i].val # Absent
      BY <1>2, <2>5, ValueAssumption
    <2>10. QED
      BY <2>4, <2>6, <2>8, <2>9 DEF Answer
  <1>8. CASE ~ \E j \in 1 .. n : m[j].txn \in V
    <2>1. /\ \A p \in Placed(k) : \E j \in 1 .. n : m[j] = p
          /\ (n = 0 /\ c = << >>) \/ (Len(c) = n + 1 /\ c[n + 1] = Bottom)
      <3>1. n >= 1 => n \in 1 .. n
        BY <1>1
      <3>2. QED
        BY <1>8, <3>1 DEF Chain
    <2>2. \A q \in puts : ~(q.key = k /\ q.txn \in V)
      BY <1>8, <2>1 DEF Placed
    <2>3. LastPut(k, V) = Absent
      BY <2>2, LastPutNone
    <2>4. CASE Len(c) = n + 1 /\ c[n + 1] = Bottom
      <3>1. n + 1 \in DOMAIN c /\ c[n + 1].xmin = 0 /\ c[n + 1].val = Empty
        BY <1>1, <2>4 DEF Bottom
      <3>2. n + 1 \in vis
        BY <3>1
      <3>3. \A i \in vis : i = n + 1
        BY <1>1, <1>6, <1>8, <2>4
      <3>4. Min(vis) = n + 1
        <4> HIDE DEF vis
        <4>1. QED
          BY <1>4, <3>2, <3>3, MinIs
      <3>5. get(view, k) = Empty
        BY <1>5, <3>1, <3>2, <3>4
      <3>6. QED
        <4>1. c # << >>
          BY <1>1, <2>4
        <4>2. QED
          BY <2>3, <3>5, <4>1 DEF Answer
    <2>5. CASE n = 0 /\ c = << >>
      <3>1. vis = {}
        BY <2>5
      <3>2. get(view, k) = Absent
        BY <1>5, <3>1
      <3>3. QED
        BY <2>3, <2>5, <3>2 DEF Answer
    <2>6. QED
      BY <2>1, <2>4, <2>5
  <1>9. QED
    BY <1>7, <1>8

-----------------------------------------------------------------------------
(* The actions keep the invariant.                                         *)

(* The WAL and the history have nothing of an id not yet handed out. *)
LEMMA Unused ==
  ASSUME TypeOK, Ids, Logged, up, NEW t \in Nat, t >= next_txn_id
  PROVE  /\ t \notin committed /\ t \notin active_txns
         /\ \A i \in Known : wal[i].txn # t
         /\ \A p \in puts : p.txn # t
  <1>1. next_txn_id \in Nat
    BY BoundAssumption DEF TypeOK
  <1>2. t \notin committed /\ t \notin active_txns
    BY <1>1, BoundAssumption DEF Ids, TypeOK, Txn
  <1>3. \A i \in Known : wal[i] \in Record
    BY DEF TypeOK, Known
  <1>4. \A i \in Known : wal[i].txn # t
    BY <1>1, <1>3, BoundAssumption DEF Ids, Record, Txn
  <1>5. ASSUME NEW p \in puts
        PROVE  p.txn # t
    <2>1. p.at \in Known /\ wal[p.at] = PutRecord(p.txn, p.key, p.val)
      BY DEF Logged
    <2>2. QED
      BY <1>4, <2>1 DEF PutRecord
  <1>6. QED
    BY <1>2, <1>4, <1>5

LEMMA BeginKeeps ==
  ASSUME IndInv, begin_transaction
  PROVE  IndInv'
  <1>t. PICK t : t = next_txn_id
    OBVIOUS
  <1>0. /\ TypeOK /\ Ids /\ Views /\ Snapshots /\ Logged /\ Ends /\ Tears /\ Fresh
        /\ Counts /\ Chains
    BY DEF IndInv
  <1>1. /\ t \in Txn /\ t \in Nat /\ up
        /\ next_txn_id' = t + 1 /\ active_txns' = active_txns \cup {t}
        /\ read_view' = [read_view EXCEPT ![t] = ReadViewOf(t)]
        /\ undo_entries' = [undo_entries EXCEPT ![t] = << >>]
        /\ snapshot' = [snapshot EXCEPT ![t] = [k \in Key |-> LastPut(k, committed)]]
    BY <1>t, <1>0, BoundAssumption DEF begin_transaction, TypeOK, Txn
  <1>2. /\ UNCHANGED <<table, latch, wal, synced, up, crashes, committed, puts, found,
                       spoiled, lost>>
        /\ Known' = Known
    BY DEF begin_transaction, Known
  <1>3. /\ t \notin committed /\ t \notin active_txns
        /\ \A i \in Known : wal[i].txn # t
        /\ \A p \in puts : p.txn # t
    BY <1>t, <1>0, <1>1, Unused
  <1>4. \A u \in active_txns : u < t /\ u # t /\ u \in Txn /\ u \in Nat
    BY <1>t, <1>0, <1>1 DEF Ids, TypeOK, Txn
  <1>5. UpLimit(t) \in Txn /\ UpLimit(t) <= t /\ \A u \in active_txns : UpLimit(t) <= u
    <2> DEFINE S == active_txns \cup {t}
    <2>1. S \in SUBSET Nat /\ S # {} /\ S \subseteq Txn
      BY <1>0, <1>1 DEF TypeOK, Txn
    <2> HIDE DEF S
    <2>2. Min(S) \in S /\ \A y \in S : Min(S) <= y
      BY <2>1, MinIs
    <2>3. QED
      BY <2>1, <2>2 DEF UpLimit, S
  <1>6. read_view' \in [Txn -> [creator : Txn \cup {0}, up_limit : Txn,
                            low_limit : Txn \cup {0}, active : SUBSET Txn]]
    BY <1>0, <1>1, <1>5 DEF TypeOK, ReadViewOf
  <1>7. snapshot' \in [Txn -> [Key -> Value \cup {Absent}]]
    BY <1>0, <1>1, LastPutType DEF TypeOK
  <1>8. undo_entries' \in [Txn -> Seq(Key)]
    <2>1. << >> \in Seq(Key)
      OBVIOUS
    <2>2. QED
      BY <1>0, <1>1, <2>1 DEF TypeOK
  <1>9. /\ read_view'[t] = ReadViewOf(t) /\ snapshot'[t] = [k \in Key |-> LastPut(k, committed)]
        /\ undo_entries'[t] = << >>
        /\ \A u \in active_txns : /\ read_view'[u] = read_view[u] /\ snapshot'[u] = snapshot[u]
                                  /\ undo_entries'[u] = undo_entries[u]
    BY <1>0, <1>1, <1>4 DEF TypeOK
  <1>10. Seen(t)' = committed /\ \A u \in active_txns : Seen(u)' = Seen(u)
    <2>1. \A u \in committed : u < t /\ u \notin active_txns
      BY <1>t, <1>0, <1>1 DEF Ids
    <2>2. Seen(t)' = {u \in committed : u < t /\ u \notin active_txns}
      BY <1>2, <1>9 DEF Seen, ReadViewOf
    <2>3. QED
      BY <1>2, <1>9, <2>1, <2>2 DEF Seen
  <1>11. TypeOK'
    <2>1. t + 1 \in 1 .. MaxTxn + 1
      BY <1>1, BoundAssumption DEF Txn
    <2>2. active_txns' \in SUBSET Txn
      BY <1>0, <1>1 DEF TypeOK
    <2>3. QED
      BY <1>0, <1>1, <1>2, <1>6, <1>7, <1>8, <2>1, <2>2 DEF TypeOK
  <1>12. Ids'
    <2>1. \A i \in Known : wal[i].txn < t + 1
      <3>1. \A i \in Known : wal[i] \in Record
        BY <1>0 DEF TypeOK, Known
      <3>2. \A i \in Known : wal[i].txn \in Nat /\ wal[i].txn < t
        BY <1>t, <1>0, <1>1, <3>1 DEF Ids, Record, Txn
      <3>3. QED
        BY <1>1, <3>2
    <2>2. \A u \in committed \cup active_txns : u \in Nat /\ u < t
      BY <1>t, <1>0, <1>1 DEF Ids, TypeOK, Txn
    <2>3. \A u \in committed \cup active_txns \cup {t} : u < t + 1
      BY <1>1, <2>2
    <2>4. QED
      BY <1>0, <1>1, <1>2, <1>3, <2>1, <2>3 DEF Ids
  <1>13. Views'
    <2>1. ASSUME NEW u \in active_txns
          PROVE  LET v == read_view'[u]
                 IN  /\ v.creator = u /\ v.low_limit = u /\ v.up_limit <= u
                     /\ \A w \in v.active : w < u /\ v.up_limit <= w
                     /\ \A w \in active_txns' : w < u => w \in v.active
      <3>1. ~(t < u)
        BY <1>1, <1>4
      <3>2. QED
        BY <1>0, <1>1, <1>9, <3>1 DEF Views
    <2>2. LET v == read_view'[t]
          IN  /\ v.creator = t /\ v.low_limit = t /\ v.up_limit <= t
              /\ \A w \in v.active : w < t /\ v.up_limit <= w
              /\ \A w \in active_txns' : w < t => w \in v.active
      BY <1>1, <1>4, <1>5, <1>9 DEF ReadViewOf
    <2>3. QED
      BY <1>1, <2>1, <2>2 DEF Views
  <1>14. Snapshots'
    <2>2. ASSUME NEW u \in active_txns'
          PROVE  /\ \A k \in Key : snapshot'[u][k] = LastPut(k, Seen(u))'
                 /\ \A p, q \in puts' : p.txn \in Seen(u)' /\ q.txn = u => p.at < q.at
      <3>1. CASE u = t
        BY <1>2, <1>3, <1>9, <1>10, <3>1 DEF LastPut, PutsOf
      <3>2. CASE u \in active_txns
        <4>1. ASSUME NEW k \in Key
              PROVE  snapshot'[u][k] = LastPut(k, Seen(u))'
          <5>1. LastPut(k, Seen(u))' = LastPut(k, Seen(u))
            BY <1>2, <1>10, <3>2 DEF LastPut, PutsOf
          <5>2. QED
            BY <1>0, <1>9, <3>2, <5>1 DEF Snapshots
        <4>2. QED
          BY <1>0, <1>2, <1>10, <3>2, <4>1 DEF Snapshots
      <3>3. QED
        BY <1>1, <3>1, <3>2
    <2>3. QED
      BY <2>2 DEF Snapshots
  <1>15. Logged'
    BY <1>0, <1>1, <1>2, <1>3 DEF Logged
  <1>16. Ends' /\ Tears'
    BY <1>0, <1>2 DEF Ends, Tears, Committing
  <1>17. Fresh'
    BY <1>0, <1>1, <1>2, <1>3 DEF Fresh
  <1>18. Counts'
    <2>1. ASSUME NEW k \in Key
          PROVE  Undos(t, k)' = Cardinality({p \in puts : p.txn = t /\ p.key = k})
      <3>1. {p \in puts : p.txn = t /\ p.key = k} = {}
        BY <1>3
      <3>2. {i \in DOMAIN undo_entries'[t] : undo_entries'[t][i] = k} = {}
        BY <1>9
      <3>3. QED
        BY <3>1, <3>2 DEF Undos
    <2>2. ASSUME NEW u \in active_txns, NEW k \in Key
          PROVE  Undos(u, k)' = Undos(u, k)
      BY <1>9 DEF Undos
    <2>3. QED
      BY <1>0, <1>1, <1>2, <2>1, <2>2 DEF Counts
  <1>19. Chains'
    <2>1. ASSUME NEW k \in Key
          PROVE  Placed(k)' = Placed(k)
      <3>1. Live' = Live \cup {t}
        <4>1. Aborting' = Aborting /\ t \notin Aborting
          BY <1>0, <1>1, <1>2, <1>3 DEF Aborting, Ids, Free
        <4>2. QED
          BY <1>1, <1>2, <4>1 DEF Live
      <3>2. QED
        BY <1>2, <1>3, <3>1 DEF Placed
    <2>2. ASSUME NEW k \in Key, NEW n \in 0 .. Len(table[k]), NEW m \in [1 .. n -> Placed(k)],
                 Chain(k, n, m)
          PROVE  Chain(k, n, m)'
      <3>1. CASE /\ \A p \in Placed(k) : \E j \in 1 .. n : m[j] = p
                 /\ (n = 0 /\ table[k] = << >>) \/ (Len(table[k]) = n + 1 /\ table[k][n + 1] = Bottom)
        BY <1>2, <2>1, <2>2, <3>1 DEF Chain
      <3>2. CASE /\ n >= 1 /\ Len(table[k]) = n /\ m[n].txn \in committed
                 /\ \A p \in Placed(k) : p.at >= m[n].at => \E j \in 1 .. n : m[j] = p
                 /\ \A p \in puts : p.at < m[n].at => p.txn \notin active_txns
                 /\ \A u \in active_txns : m[n].txn \in Seen(u)
        <4>1. /\ \A p \in puts' : p.at < m[n].at => p.txn \notin active_txns'
              /\ \A u \in active_txns' : m[n].txn \in Seen(u)'
          BY <1>1, <1>2, <1>3, <1>10, <3>2
        <4>2. QED
          BY <1>2, <2>1, <2>2, <3>2, <4>1 DEF Chain
      <3>3. QED
        BY <2>2, <3>1, <3>2 DEF Chain
    <2>3. QED
      BY <1>0, <1>1, <1>2, <2>1, <2>2 DEF Chains
  <1>20. QED
    BY <1>11, <1>12, <1>13, <1>14, <1>15, <1>16, <1>17, <1>18, <1>19 DEF IndInv

(* The WAL with one more record. *)
LEMMA Grows ==
  ASSUME TypeOK, NEW r \in Record, wal' = Append(wal, r), found' = found
  PROVE  /\ wal' \in Seq(Record) /\ Len(wal) \in Nat /\ Len(wal') = Len(wal) + 1
         /\ DOMAIN wal = 1 .. Len(wal) /\ DOMAIN wal' = 1 .. Len(wal) + 1
         /\ \A i \in DOMAIN wal : i \in DOMAIN wal' /\ wal'[i] = wal[i]
         /\ \A i \in DOMAIN wal' : i \in DOMAIN wal \/ i = Len(wal) + 1
         /\ Len(wal) + 1 \in DOMAIN wal' /\ wal'[Len(wal) + 1] = r
         /\ Known \subseteq DOMAIN wal /\ Known' = Known \cup {Len(wal) + 1}
         /\ found \in Nat /\ Len(wal) + 1 > found
  <1>1. /\ wal' \in Seq(Record) /\ Len(wal) \in Nat /\ Len(wal') = Len(wal) + 1
        /\ DOMAIN wal = 1 .. Len(wal) /\ DOMAIN wal' = 1 .. Len(wal) + 1
        /\ \A i \in DOMAIN wal : i \in DOMAIN wal' /\ wal'[i] = wal[i]
        /\ \A i \in DOMAIN wal' : i \in DOMAIN wal \/ i = Len(wal) + 1
        /\ Len(wal) + 1 \in DOMAIN wal' /\ wal'[Len(wal) + 1] = r
    BY DEF TypeOK
  <1>2. found \in Nat /\ Len(wal) + 1 > found
    BY <1>1 DEF TypeOK
  <1>3. Len(wal) + 1 \in Known'
    BY <1>1, <1>2 DEF Known
  <1>4. ASSUME NEW i \in DOMAIN wal
        PROVE  i \in Known' <=> i \in Known
    <2>1. \A j \in 1 .. i - 1 : wal'[j] = wal[j]
      BY <1>1
    <2>2. QED
      BY <1>1, <2>1 DEF Known
  <1>5. Known \subseteq DOMAIN wal /\ Known' \subseteq DOMAIN wal'
    BY DEF Known
  <1>6. Known' = Known \cup {Len(wal) + 1}
    BY <1>1, <1>3, <1>4, <1>5
  <1>7. QED
    BY <1>1, <1>2, <1>5, <1>6

LEMMA EndRecordType ==
  ASSUME NEW t \in Txn, NEW type \in {"COMMIT", "ABORT", "TORN"}
  PROVE  EndRecord(type, t) \in Record /\ EndRecord(type, t).type = type
         /\ EndRecord(type, t).txn = t
  BY DEF EndRecord, Record

(* A record of an active transaction, a PUT unless it ends now. *)
LEMMA StaysFresh ==
  ASSUME TypeOK, Fresh, NEW r \in Record, wal' = Append(wal, r), found' = found,
         active_txns' = active_txns, r.txn \in active_txns, latch[2] \notin active_txns,
         r.type = "PUT" \/ latch'[2] = r.txn
  PROVE  Fresh'
  <1>1. /\ DOMAIN wal = 1 .. Len(wal) /\ Len(wal) \in Nat
        /\ \A i \in DOMAIN wal : wal'[i] = wal[i]
        /\ wal'[Len(wal) + 1] = r /\ found \in Nat /\ Len(wal) + 1 > found
        /\ Known \subseteq DOMAIN wal /\ Known' = Known \cup {Len(wal) + 1}
    BY Grows
  <1>2. ASSUME NEW t \in active_txns, NEW i \in Known', wal'[i].txn = t
        PROVE  i > found /\ (t # latch'[2] => wal'[i].type = "PUT")
    <2>1. CASE i = Len(wal) + 1
      BY <1>1, <1>2, <2>1
    <2>2. CASE i \in Known
      <3>1. wal'[i] = wal[i]
        BY <1>1, <2>2
      <3>2. QED
        BY <1>2, <2>2, <3>1 DEF Fresh
    <2>3. QED
      BY <1>1, <2>1, <2>2
  <1>3. ASSUME NEW i \in Known', NEW j \in Known', i <= found, found < j
        PROVE  wal'[i].txn # wal'[j].txn
    <2>1. i \in Known /\ wal'[i] = wal[i] /\ i \in Nat
      BY <1>1, <1>3
    <2>2. CASE j = Len(wal) + 1
      <3>1. wal[i].txn \notin active_txns
        BY <1>1, <1>3, <2>1 DEF Fresh
      <3>2. QED
        BY <1>1, <2>1, <2>2, <3>1
    <2>3. CASE j \in Known
      BY <1>1, <1>3, <2>1, <2>3 DEF Fresh
    <2>4. QED
      BY <1>1, <2>2, <2>3
  <1>4. /\ \A t \in active_txns : \A i \in Known' :
             wal'[i].txn = t => i > found /\ (t # latch'[2] => wal'[i].type = "PUT")
        /\ \A i, j \in Known' : i <= found /\ found < j => wal'[i].txn # wal'[j].txn
    BY Zenon, <1>2, <1>3
  <1>5. QED
    BY Zenon, <1>4 DEF Fresh

(* A record that is not torn leaves the torn ones where they were. *)
LEMMA StaysTorn ==
  ASSUME TypeOK, Tears, NEW r \in Record, wal' = Append(wal, r), r.type # "TORN", up, up',
         synced' \in {synced, Len(wal')}, UNCHANGED <<found, lost>>
  PROVE  Tears'
  <1>1. /\ DOMAIN wal = 1 .. Len(wal) /\ Len(wal) \in Nat /\ Len(wal') = Len(wal) + 1
        /\ DOMAIN wal' = 1 .. Len(wal) + 1
        /\ \A i \in DOMAIN wal : i \in DOMAIN wal' /\ wal'[i] = wal[i]
        /\ \A i \in DOMAIN wal' : i \in DOMAIN wal \/ i = Len(wal) + 1
        /\ wal'[Len(wal) + 1] = r /\ found \in Nat /\ Len(wal) + 1 > found
    BY Grows
  <1>2. found' <= synced'
    BY <1>1 DEF Tears
  <1>3. \A i \in DOMAIN wal' : wal'[i].type = "TORN" => i <= found'
    BY <1>1 DEF Tears
  <1>4. \A p \in lost' : \E i \in DOMAIN wal' : i < p.at /\ wal'[i].type = "TORN"
    BY <1>1 DEF Tears
  <1>5. QED
    BY <1>2, <1>3, <1>4 DEF Tears

(* A step that moves a transaction from active to ended, and no version.   *)
LEMMA EndKeeps ==
  ASSUME Snapshots, Counts, Chains, up,
         UNCHANGED <<table, puts, snapshot, undo_entries, spoiled>>,
         active_txns' \subseteq active_txns, committed \subseteq committed', Live' = Live,
         \A u \in active_txns' : Seen(u)' = Seen(u)
  PROVE  Snapshots' /\ Counts' /\ Chains'
  <1>1. Snapshots'
    <2>1. ASSUME NEW u \in active_txns', NEW k \in Key
          PROVE  snapshot'[u][k] = LastPut(k, Seen(u))'
      <3>1. LastPut(k, Seen(u))' = LastPut(k, Seen(u))
        BY DEF LastPut, PutsOf
      <3>2. QED
        BY <3>1 DEF Snapshots
    <2>2. ASSUME NEW u \in active_txns'
          PROVE  \A p, q \in puts' : p.txn \in Seen(u)' /\ q.txn = u => p.at < q.at
      BY DEF Snapshots
    <2>3. QED
      BY <2>1, <2>2 DEF Snapshots
  <1>2. Counts'
    BY DEF Counts, Undos
  <1>3. Chains'
    <2>1. \A k : Placed(k)' = Placed(k)
      BY DEF Placed
    <2>2. ASSUME NEW k \in Key, NEW n \in 0 .. Len(table[k]), NEW m \in [1 .. n -> Placed(k)],
                 Chain(k, n, m)
          PROVE  Chain(k, n, m)'
      <3>1. CASE /\ \A p \in Placed(k) : \E j \in 1 .. n : m[j] = p
                 /\ (n = 0 /\ table[k] = << >>) \/ (Len(table[k]) = n + 1 /\ table[k][n + 1] = Bottom)
        BY <2>1, <2>2, <3>1 DEF Chain
      <3>2. CASE /\ n >= 1 /\ Len(table[k]) = n /\ m[n].txn \in committed
                 /\ \A p \in Placed(k) : p.at >= m[n].at => \E j \in 1 .. n : m[j] = p
                 /\ \A p \in puts : p.at < m[n].at => p.txn \notin active_txns
                 /\ \A u \in active_txns : m[n].txn \in Seen(u)
        <4>1. /\ \A p \in puts' : p.at < m[n].at => p.txn \notin active_txns'
              /\ \A u \in active_txns' : m[n].txn \in Seen(u)'
          BY <3>2
        <4>2. QED
          BY <2>1, <2>2, <3>2, <4>1 DEF Chain
      <3>3. QED
        BY <2>2, <3>1, <3>2 DEF Chain
    <2>3. QED
      BY <2>1, <2>2 DEF Chains
  <1>4. QED
    BY <1>1, <1>2, <1>3

LEMMA CommitLogKeeps ==
  ASSUME IndInv, NEW t \in Txn, CommitLog(t)
  PROVE  IndInv'
  <1> DEFINE r == EndRecord("COMMIT", t)
  <1>0. /\ TypeOK /\ Ids /\ Views /\ Snapshots /\ Logged /\ Ends /\ Tears /\ Fresh
        /\ Counts /\ Chains
    BY DEF IndInv
  <1>1. /\ up /\ latch = Free /\ t \in active_txns
        /\ wal' = Append(wal, r) /\ synced' = Len(wal') /\ latch' = <<"commit", t>>
        /\ UNCHANGED <<next_txn_id, active_txns, read_view, undo_entries, table, up, crashes,
                       committed, puts, snapshot, found, spoiled, lost>>
    BY DEF CommitLog, manager, history
  <1>2. r \in Record /\ r.type = "COMMIT" /\ r.txn = t
    BY EndRecordType
  <1> HIDE DEF r
  <1>3. /\ wal' \in Seq(Record) /\ Len(wal) \in Nat /\ Len(wal') = Len(wal) + 1
        /\ DOMAIN wal = 1 .. Len(wal) /\ DOMAIN wal' = 1 .. Len(wal) + 1
        /\ \A i \in DOMAIN wal : i \in DOMAIN wal' /\ wal'[i] = wal[i]
        /\ \A i \in DOMAIN wal' : i \in DOMAIN wal \/ i = Len(wal) + 1
        /\ Len(wal) + 1 \in DOMAIN wal' /\ wal'[Len(wal) + 1] = r
        /\ Known \subseteq DOMAIN wal /\ Known' = Known \cup {Len(wal) + 1}
        /\ found \in Nat /\ Len(wal) + 1 > found
    BY <1>0, <1>1, <1>2, Grows
  <1>4. Committing = {} /\ Committing' = {t} /\ Aborting = {} /\ Aborting' = {}
        /\ latch[2] = 0 /\ latch'[2] = t
    BY <1>1 DEF Committing, Aborting, Free
  <1>5. TypeOK'
    <2>1. synced' \in 0 .. Len(wal')
      BY <1>1, <1>3
    <2>2. QED
      BY <1>0, <1>1, <1>3, <2>1 DEF TypeOK
  <1>6. Ids' /\ Views'
    <2>1. \A i \in Known' : wal'[i].txn < next_txn_id
      BY <1>0, <1>1, <1>2, <1>3 DEF Ids
    <2>2. Ids'
      BY <1>0, <1>1, <2>1 DEF Ids, Free
    <2>3. QED
      BY <1>0, <1>1, <2>2 DEF Views
  <1>7. Snapshots' /\ Counts' /\ Chains'
    <2>1. Live' = Live /\ \A u \in active_txns' : Seen(u)' = Seen(u)
      BY <1>1, <1>4 DEF Live, Seen
    <2>2. QED
      BY <1>0, <1>1, <2>1, EndKeeps
  <1>8. Logged'
    <2>1. \A p \in puts : p.at \in Known' /\ wal'[p.at] = PutRecord(p.txn, p.key, p.val)
      BY <1>0, <1>3 DEF Logged
    <2>2. ASSUME NEW i \in Known', wal'[i].type = "PUT",
                 wal'[i].txn \in committed \cup active_txns
          PROVE  [at |-> i, txn |-> wal'[i].txn, key |-> wal'[i].key, val |-> wal'[i].val] \in puts
      <3>1. i \in Known /\ wal'[i] = wal[i]
        BY <1>2, <1>3, <2>2
      <3>2. QED
        BY <1>0, <2>2, <3>1 DEF Logged
    <2>3. QED
      BY <1>1, <2>1, <2>2 DEF Logged
  <1>9. Ends'
    <2>1. \A i \in Known' : wal'[i].type = "COMMIT" => wal'[i].txn \in committed \cup {t}
      BY <1>0, <1>2, <1>3, <1>4 DEF Ends
    <2>2. ASSUME NEW u \in committed \cup {t}
          PROVE  \E i \in Known' : i <= synced' /\ wal'[i].type = "COMMIT" /\ wal'[i].txn = u
      <3>1. CASE u = t
        BY <1>1, <1>2, <1>3, <3>1
      <3>2. CASE u \in committed
        <4>1. PICK i \in Known : i <= synced /\ wal[i].type = "COMMIT" /\ wal[i].txn = u
          BY <1>0, <3>2 DEF Ends
        <4>2. i \in Known' /\ i <= synced' /\ wal'[i] = wal[i]
          BY <1>1, <1>3
        <4>3. QED
          BY <4>1, <4>2
      <3>3. QED
        BY <3>1, <3>2
    <2>3. ASSUME NEW i \in Known', NEW j \in Known', wal'[i].type = "PUT",
                 wal'[j].type = "COMMIT", wal'[i].txn = wal'[j].txn
          PROVE  i < j
      <3>1. i \in Known /\ wal'[i] = wal[i]
        BY <1>2, <1>3, <2>3
      <3>2. CASE j = Len(wal) + 1
        BY <1>3, <3>1, <3>2
      <3>3. CASE j \in Known
        BY <1>0, <1>3, <2>3, <3>1, <3>3 DEF Ends
      <3>4. QED
        BY <1>3, <3>2, <3>3
    <2>4. QED
      BY <1>1, <1>4, <2>1, <2>2, <2>3 DEF Ends
  <1>10. Tears'
    BY <1>0, <1>1, <1>2, StaysTorn
  <1>11. Fresh'
    <2>1. latch[2] \notin active_txns
      BY <1>0, <1>4 DEF TypeOK, Txn
    <2>2. QED
      BY <1>0, <1>1, <1>2, <1>4, <2>1, StaysFresh
  <1>12. QED
    BY <1>5, <1>6, <1>7, <1>8, <1>9, <1>10, <1>11 DEF IndInv

LEMMA CommitDoneKeeps ==
  ASSUME IndInv, NEW t \in Txn, CommitDone(t)
  PROVE  IndInv'
  <1>0. /\ TypeOK /\ Ids /\ Views /\ Snapshots /\ Logged /\ Ends /\ Tears /\ Fresh
        /\ Counts /\ Chains
    BY DEF IndInv
  <1>1. /\ up /\ latch = <<"commit", t>> /\ latch' = Free
        /\ active_txns' = active_txns \ {t} /\ committed' = committed \cup {t}
        /\ UNCHANGED <<next_txn_id, read_view, undo_entries, table, wal, synced, up,
                       crashes, puts, snapshot, found, spoiled, lost>>
        /\ Known' = Known
    BY DEF CommitDone, Known
  <1>2. /\ Committing = {t} /\ Committing' = {} /\ Aborting = {} /\ Aborting' = {}
        /\ latch[2] = t /\ latch'[2] = 0 /\ t \in active_txns
    BY <1>0, <1>1 DEF Committing, Aborting, Free, Ids
  <1>3. TypeOK'
    BY <1>0, <1>1 DEF TypeOK, Free
  <1>4. Ids' /\ Views'
    BY <1>0, <1>1, <1>2 DEF Ids, Views
  <1>5. Snapshots' /\ Counts' /\ Chains'
    <2>1. Live' = Live
      BY <1>1, <1>2 DEF Live
    <2>2. ASSUME NEW u \in active_txns'
          PROVE  Seen(u)' = Seen(u)
      <3>1. t < u => t \in read_view[u].active
        BY <1>0, <1>1, <1>2 DEF Views
      <3>2. QED
        BY <1>1, <3>1 DEF Seen
    <2>3. QED
      BY <1>0, <1>1, <2>1, <2>2, EndKeeps
  <1>6. Logged' /\ Ends' /\ Tears'
    BY <1>0, <1>1, <1>2 DEF Logged, Ends, Tears
  <1>7. Fresh'
    BY <1>0, <1>1, <1>2 DEF Fresh
  <1>8. QED
    BY <1>3, <1>4, <1>5, <1>6, <1>7 DEF IndInv

LEMMA AbortDoneKeeps ==
  ASSUME IndInv, NEW t \in Txn, AbortDone(t)
  PROVE  IndInv'
  <1>0. /\ TypeOK /\ Ids /\ Views /\ Snapshots /\ Logged /\ Ends /\ Tears /\ Fresh
        /\ Counts /\ Chains
    BY DEF IndInv
  <1>1. /\ up /\ latch = <<"abort", t>> /\ latch' = Free
        /\ active_txns' = active_txns \ {t}
        /\ UNCHANGED <<next_txn_id, read_view, undo_entries, table, wal, synced, up,
                       crashes, committed, puts, snapshot, found, spoiled, lost>>
        /\ Known' = Known
    BY DEF AbortDone, history, Known
  <1>2. /\ Committing = {} /\ Committing' = {} /\ Aborting = {t} /\ Aborting' = {}
        /\ latch[2] = t /\ latch'[2] = 0
    BY <1>0, <1>1 DEF Committing, Aborting, Free, Ids
  <1>3. TypeOK'
    BY <1>0, <1>1 DEF TypeOK, Free
  <1>4. Ids' /\ Views'
    BY <1>0, <1>1, <1>2 DEF Ids, Views
  <1>5. Snapshots' /\ Counts' /\ Chains'
    <2>1. Live' = Live /\ \A u \in active_txns' : Seen(u)' = Seen(u)
      BY <1>1, <1>2 DEF Live, Seen
    <2>2. QED
      BY <1>0, <1>1, <2>1, EndKeeps
  <1>6. Logged' /\ Ends' /\ Tears'
    BY <1>0, <1>1, <1>2 DEF Logged, Ends, Tears
  <1>7. Fresh'
    BY <1>0, <1>1, <1>2 DEF Fresh
  <1>8. QED
    BY <1>3, <1>4, <1>5, <1>6, <1>7 DEF IndInv

LEMMA PutKeeps ==
  ASSUME IndInv, NEW t \in Txn, NEW k \in Key, NEW v \in Value, put(t, k, v)
  PROVE  IndInv'
  <1> DEFINE r == PutRecord(t, k, v)
             new == [at |-> Len(wal'), txn |-> t, key |-> k, val |-> v]
  <1>0. /\ TypeOK /\ Ids /\ Views /\ Snapshots /\ Logged /\ Ends /\ Tears /\ Fresh
        /\ Counts /\ Chains
    BY DEF IndInv
  <1>1. /\ up /\ latch = Free /\ t \in active_txns
        /\ wal' = Append(wal, r) /\ puts' = puts \cup {new}
        /\ table' = [table EXCEPT ![k] = <<[xmin |-> t, val |-> v]>> \o ChainOf(k)]
        /\ undo_entries' = [undo_entries EXCEPT ![t] = Append(@, k)]
        /\ UNCHANGED <<next_txn_id, active_txns, read_view, latch, synced, up, crashes,
                       committed, snapshot, found, spoiled, lost>>
    BY DEF put, manager
  <1>2. r \in Record /\ r.type = "PUT" /\ r.txn = t /\ r.key = k /\ r.val = v
    BY DEF PutRecord, Record
  <1>3. /\ wal' \in Seq(Record) /\ Len(wal) \in Nat /\ Len(wal') = Len(wal) + 1
        /\ DOMAIN wal = 1 .. Len(wal) /\ DOMAIN wal' = 1 .. Len(wal) + 1
        /\ \A i \in DOMAIN wal : i \in DOMAIN wal' /\ wal'[i] = wal[i]
        /\ \A i \in DOMAIN wal' : i \in DOMAIN wal \/ i = Len(wal) + 1
        /\ Len(wal) + 1 \in DOMAIN wal' /\ wal'[Len(wal) + 1] = r
        /\ Known \subseteq DOMAIN wal /\ Known' = Known \cup {Len(wal) + 1}
        /\ found \in Nat /\ Len(wal) + 1 > found
    <2> HIDE DEF r
    <2>1. QED
      BY <1>0, <1>1, <1>2, Grows
  <1>4. PICK p \in PutEntry :
          /\ p.at = Len(wal) + 1 /\ p.txn = t /\ p.key = k /\ p.val = v
          /\ p = [at |-> Len(wal) + 1, txn |-> t, key |-> k, val |-> v]
          /\ puts' = puts \cup {p}
    <2> DEFINE p == [at |-> Len(wal) + 1, txn |-> t, key |-> k, val |-> v]
    <2>1. new = p
      BY <1>3
    <2>2. p \in PutEntry
      BY <1>3 DEF PutEntry
    <2>3. p.at = Len(wal) + 1 /\ p.txn = t /\ p.key = k /\ p.val = v
      OBVIOUS
    <2> HIDE DEF new
    <2>4. puts' = puts \cup {p}
      BY <1>1, <2>1
    <2>5. QED
      BY <2>2, <2>3, <2>4
  <1> HIDE DEF new
  <1>5. /\ Committing = {} /\ Committing' = {} /\ Aborting = {} /\ Aborting' = {}
        /\ Live = committed \cup active_txns /\ Live' = Live /\ t \notin committed
        /\ \A u : Seen(u)' = Seen(u) /\ Seen(u) \subseteq committed
    BY <1>0, <1>1 DEF Committing, Aborting, Free, Live, Ids, Seen
  <1>6. \A q \in puts : q.at \in Nat /\ q.at \in DOMAIN wal /\ q.at < p.at /\ q # p
    BY <1>0, <1>3, <1>4 DEF Logged
  <1>7. Ids' /\ Views'
    <2>1. \A i \in Known' : wal'[i].txn < next_txn_id
      BY <1>0, <1>1, <1>2, <1>3 DEF Ids
    <2>2. Ids'
      BY <1>0, <1>1, <2>1 DEF Ids
    <2>3. QED
      BY <1>0, <1>1, <2>2 DEF Views
  <1>8. Snapshots'
    <2>1. ASSUME NEW u \in active_txns', NEW x \in Key
          PROVE  snapshot'[u][x] = LastPut(x, Seen(u))'
      <3>1. p.txn \notin Seen(u)
        BY <1>4, <1>5
      <3>2. PutsOf(x, Seen(u))' = PutsOf(x, Seen(u))
        BY <1>4, <1>5, <3>1 DEF PutsOf
      <3>3. QED
        BY <1>0, <1>1, <3>2 DEF Snapshots, LastPut
    <2>2. ASSUME NEW u \in active_txns', NEW x \in puts', NEW y \in puts',
                 x.txn \in Seen(u)', y.txn = u
          PROVE  x.at < y.at
      <3>1. x \in puts
        BY <1>4, <1>5, <2>2
      <3>2. CASE y = p
        BY <1>6, <3>1, <3>2
      <3>3. CASE y \in puts
        BY <1>0, <1>1, <1>5, <2>2, <3>1, <3>3 DEF Snapshots
      <3>4. QED
        BY <1>4, <3>2, <3>3
    <2>3. QED
      BY <2>1, <2>2 DEF Snapshots
  <1>9. Logged'
    <2>1. ASSUME NEW q \in puts'
          PROVE  q.at \in Known' /\ wal'[q.at] = PutRecord(q.txn, q.key, q.val)
      <3>1. CASE q = p
        BY <1>3, <1>4, <3>1
      <3>2. CASE q \in puts
        BY <1>0, <1>3, <3>2 DEF Logged
      <3>3. QED
        BY <1>4, <3>1, <3>2
    <2>2. ASSUME NEW i \in Known', wal'[i].type = "PUT",
                 wal'[i].txn \in committed \cup active_txns
          PROVE  [at |-> i, txn |-> wal'[i].txn, key |-> wal'[i].key, val |-> wal'[i].val]
                   \in puts'
      <3>1. CASE i = Len(wal) + 1
        BY <1>2, <1>3, <1>4, <3>1
      <3>2. CASE i \in Known
        BY <1>0, <1>3, <1>4, <2>2, <3>2 DEF Logged
      <3>3. QED
        BY <1>3, <3>1, <3>2
    <2>3. QED
      BY <1>1, <2>1, <2>2 DEF Logged
  <1>10. Ends'
    <2>1. ASSUME NEW i \in Known', wal'[i].type = "COMMIT"
          PROVE  i \in Known /\ wal'[i] = wal[i] /\ wal'[i].txn \in committed
      BY <1>0, <1>2, <1>3, <1>5, <2>1 DEF Ends
    <2>2. ASSUME NEW u \in committed
          PROVE  \E i \in Known' : i <= synced' /\ wal'[i].type = "COMMIT" /\ wal'[i].txn = u
      <3>1. PICK i \in Known : i <= synced /\ wal[i].type = "COMMIT" /\ wal[i].txn = u
        BY <1>0 DEF Ends
      <3>2. QED
        BY <1>1, <1>3, <3>1
    <2>3. ASSUME NEW i \in Known', NEW j \in Known', wal'[i].type = "PUT",
                 wal'[j].type = "COMMIT", wal'[i].txn = wal'[j].txn
          PROVE  i < j
      <3>1. j \in Known /\ wal'[j] = wal[j] /\ wal'[j].txn # t
        BY <1>5, <2>1, <2>3
      <3>2. i \in Known /\ wal'[i] = wal[i]
        BY <1>2, <1>3, <2>3, <3>1
      <3>3. QED
        BY <1>0, <2>3, <3>1, <3>2 DEF Ends
    <2>4. QED
      BY <1>1, <1>5, <2>1, <2>2, <2>3 DEF Ends
  <1>11. Tears'
    <2> HIDE DEF r
    <2>1. QED
      BY <1>0, <1>1, <1>2, StaysTorn
  <1>12. undo_entries[t] \in Seq(Key) /\ undo_entries'[t] = Append(undo_entries[t], k)
         /\ \A u \in active_txns : u # t => undo_entries'[u] = undo_entries[u]
    BY <1>0, <1>1 DEF TypeOK
  <1>13. Fresh'
    <2>1. latch[2] \notin active_txns
      BY <1>0, <1>1 DEF Free, TypeOK, Txn
    <2> HIDE DEF r
    <2>2. QED
      BY <1>0, <1>1, <1>2, <2>1, StaysFresh
  <1>14. Counts'
    <2>1. IsFiniteSet(puts) /\ IsFiniteSet(puts')
      BY <1>0, <1>4, FS_AddElement DEF Counts
    <2>0. ASSUME NEW x \in Key
          PROVE  Undos(t, x)' = IF k = x THEN Undos(t, x) + 1 ELSE Undos(t, x)
      <3>1. PICK s \in Seq(Key) : s = undo_entries[t]
        BY <1>12
      <3>a. PICK z : z = Append(s, k)
        OBVIOUS
      <3>2. z = undo_entries'[t]
        BY <1>12, <3>1, <3>a
      <3> DEFINE D == {i \in DOMAIN s : s[i] = x}
                 D2 == {i \in DOMAIN z : z[i] = x}
      <3>3. /\ Len(s) \in Nat /\ DOMAIN s = 1 .. Len(s) /\ DOMAIN z = 1 .. Len(s) + 1
            /\ \A i \in 1 .. Len(s) : z[i] = s[i]
            /\ z[Len(s) + 1] = k
        BY <3>a
      <3>4. IsFiniteSet(1 .. Len(s))
        <4>1. 1 \in Int /\ Len(s) \in Int
          BY <3>3
        <4>2. QED
          BY <4>1, FS_Interval, Zenon
      <3>5. IsFiniteSet(D)
        BY <3>3, <3>4, FS_Subset
      <3>6. Len(s) + 1 \notin D
        BY <3>3
      <3>7. D2 = IF k = x THEN D \cup {Len(s) + 1} ELSE D
        <4>1. \A i : i \in 1 .. Len(s) + 1 <=> i \in 1 .. Len(s) \/ i = Len(s) + 1
          BY <3>3
        <4>2. QED
          BY <3>3, <4>1
      <3>8. Undos(t, x) = Cardinality(D) /\ Undos(t, x)' = Cardinality(D2)
        BY <3>1, <3>2 DEF Undos
      <3> HIDE DEF D, D2
      <3>9. QED
        BY <3>5, <3>6, <3>7, <3>8, FS_AddElement
    <2>2. ASSUME NEW u \in active_txns, NEW x \in Key
          PROVE  Undos(u, x)' = Cardinality({q \in puts' : q.txn = u /\ q.key = x})
      <3> DEFINE P == {q \in puts : q.txn = u /\ q.key = x}
                 P2 == {q \in puts' : q.txn = u /\ q.key = x}
      <3>1. Undos(u, x) = Cardinality(P)
        BY <1>0, Zenon DEF Counts
      <3>2. IsFiniteSet(P)
        BY <2>1, FS_Subset
      <3>3. CASE u = t /\ x = k
        <4>1. P2 = P \cup {p} /\ p \notin P
          BY <1>4, <1>6, <3>3
        <4> HIDE DEF P, P2
        <4>2. Cardinality(P2) = Cardinality(P) + 1
          BY <3>2, <4>1, FS_AddElement
        <4>3. Undos(u, x)' = Undos(u, x) + 1
          BY <2>0, <3>3
        <4>4. QED
          BY <3>1, <4>2, <4>3 DEF P2
      <3>4. CASE ~(u = t /\ x = k)
        <4>1. P2 = P
          BY <1>4, <3>4
        <4>2. Undos(u, x)' = Undos(u, x)
          <5>1. CASE u = t
            BY <2>0, <3>4, <5>1
          <5>2. CASE u # t
            BY <1>12, <5>2 DEF Undos
          <5>3. QED
            BY <5>1, <5>2
        <4>3. QED
          BY <3>1, <4>1, <4>2
      <3>5. QED
        BY <3>3, <3>4
    <2>3. QED
      BY <1>1, <2>1, <2>2 DEF Counts
  <1>15. /\ ChainOf(k) \in Seq(Version) /\ [xmin |-> t, val |-> v] \in Version
         /\ <<[xmin |-> t, val |-> v]>> \in Seq(Version)
    <2>1. [xmin |-> 0, val |-> Empty] \in Version /\ [xmin |-> t, val |-> v] \in Version
      BY DEF Version, SlotValue
    <2>2. <<[xmin |-> 0, val |-> Empty]>> \in Seq(Version)
          /\ <<[xmin |-> t, val |-> v]>> \in Seq(Version)
      BY <2>1
    <2>3. QED
      BY <1>0, <2>1, <2>2 DEF ChainOf, TypeOK
  <1>16. PICK c \in Seq(Version) :
           /\ c = <<[xmin |-> t, val |-> v]>> \o ChainOf(k)
           /\ Len(c) = Len(ChainOf(k)) + 1 /\ c[1] = [xmin |-> t, val |-> v]
           /\ \A i \in 1 .. Len(ChainOf(k)) : c[i + 1] = ChainOf(k)[i]
    <2> DEFINE o == ChainOf(k)
               f == <<[xmin |-> t, val |-> v]>>
    <2>1. o \in Seq(Version) /\ f \in Seq(Version) /\ Len(f) = 1 /\ f[1] = [xmin |-> t, val |-> v]
      BY <1>15
    <2> HIDE DEF o, f
    <2>2. PICK c : c = f \o o
      OBVIOUS
    <2>3. /\ c \in Seq(Version) /\ Len(c) = Len(f) + Len(o)
          /\ \A i \in 1 .. Len(f) + Len(o) :
               c[i] = IF i <= Len(f) THEN f[i] ELSE o[i - Len(f)]
      BY <2>1, <2>2, ConcatProperties, Zenon
    <2>4. Len(o) \in Nat /\ Len(c) = Len(o) + 1 /\ c[1] = f[1]
      BY <2>1, <2>3
    <2>5. ASSUME NEW i \in 1 .. Len(o)
          PROVE  c[i + 1] = o[i]
      <3>1. i + 1 \in 1 .. Len(f) + Len(o) /\ ~(i + 1 <= Len(f)) /\ (i + 1) - Len(f) = i
        BY <2>1, <2>4
      <3>2. QED
        BY <2>3, <3>1
    <2>6. QED
      BY <2>1, <2>2, <2>3, <2>4, <2>5 DEF o, f
  <1>17. table'[k] = c /\ (\A x \in Key : x # k => table'[x] = table[x])
         /\ table' \in [Key -> Seq(Version)]
    BY <1>0, <1>1, <1>16 DEF TypeOK
  <1>18. TypeOK'
    <2>1. undo_entries' \in [Txn -> Seq(Key)]
      BY <1>0, <1>1 DEF TypeOK
    <2>2. synced' \in 0 .. Len(wal')
      BY <1>0, <1>1, <1>3 DEF TypeOK
    <2>3. puts' \subseteq PutEntry
      BY <1>0, <1>4 DEF TypeOK
    <2>4. found' \in 0 .. Len(wal')
      BY <1>0, <1>1, <1>3 DEF TypeOK
    <2>5. QED
      BY <1>0, <1>1, <1>3, <1>17, <2>1, <2>2, <2>3, <2>4 DEF TypeOK
  <1>19. ASSUME NEW x \in Key \ spoiled, x # k
         PROVE  \E n \in 0 .. Len(table'[x]) : \E m \in [1 .. n -> Placed(x)'] : Chain(x, n, m)'
    <2>1. PICK n \in 0 .. Len(table[x]) : \E m \in [1 .. n -> Placed(x)] : Chain(x, n, m)
      BY <1>0, <1>1 DEF Chains
    <2>2. PICK m \in [1 .. n -> Placed(x)] : Chain(x, n, m)
      BY <2>1
    <2>3. Placed(x)' = Placed(x) /\ table'[x] = table[x]
      BY <1>4, <1>5, <1>17, <1>19 DEF Placed
    <2>4. ASSUME n >= 1
          PROVE  n \in 1 .. n /\ m[n] \in puts
      BY <2>4 DEF Placed
    <2>5. CASE /\ \A q \in Placed(x) : \E j \in 1 .. n : m[j] = q
               /\ (n = 0 /\ table[x] = << >>) \/ (Len(table[x]) = n + 1 /\ table[x][n + 1] = Bottom)
      <3>1. Chain(x, n, m)'
        BY <2>2, <2>3, <2>5 DEF Chain
      <3>2. QED
        BY <2>3, <3>1
    <2>6. CASE /\ n >= 1 /\ Len(table[x]) = n /\ m[n].txn \in committed
               /\ \A q \in Placed(x) : q.at >= m[n].at => \E j \in 1 .. n : m[j] = q
               /\ \A q \in puts : q.at < m[n].at => q.txn \notin active_txns
               /\ \A u \in active_txns : m[n].txn \in Seen(u)
      <3>1. m[n].at < p.at /\ m[n].at \in Nat /\ p.at \in Nat
        BY <1>3, <1>4, <1>6, <2>4, <2>6
      <3>2. \A q \in puts' : q.at < m[n].at => q.txn \notin active_txns'
        BY <1>1, <1>4, <2>6, <3>1
      <3>3. Chain(x, n, m)'
        BY <1>1, <1>5, <2>2, <2>3, <2>6, <3>2 DEF Chain
      <3>4. QED
        BY <2>3, <3>3
    <2>7. QED
      BY <2>2, <2>5, <2>6 DEF Chain
  <1>20. ASSUME k \notin spoiled
         PROVE  \E n \in 0 .. Len(table'[k]) : \E m \in [1 .. n -> Placed(k)'] : Chain(k, n, m)'
    <2>1. PICK n \in 0 .. Len(table[k]) : \E m \in [1 .. n -> Placed(k)] : Chain(k, n, m)
      BY <1>0, <1>1, <1>20 DEF Chains
    <2>2. PICK m \in [1 .. n -> Placed(k)] : Chain(k, n, m)
      BY <2>1
    <2> DEFINE m2 == [i \in 1 .. n + 1 |-> IF i = 1 THEN p ELSE m[i - 1]]
    <2>3. Placed(k)' = Placed(k) \cup {p}
      BY <1>1, <1>4, <1>5 DEF Placed
    <2>4. n \in Nat /\ n <= Len(table[k]) /\ Len(table[k]) \in Nat
      BY <1>0 DEF TypeOK
    <2>5. /\ m2[1] = p
          /\ \A j \in 1 .. n : j + 1 \in 1 .. n + 1 /\ m2[j + 1] = m[j]
          /\ \A i \in 1 .. n + 1 : i = 1 \/ (i - 1 \in 1 .. n /\ m2[i] = m[i - 1])
      BY <2>4
    <2>6. m2 \in [1 .. n + 1 -> Placed(k)']
      BY <2>3, <2>4
    <2> HIDE DEF m2
    <2>7. \A j \in 1 .. n : m[j] \in puts /\ m[j].at \in Nat /\ m[j].at < p.at
      BY <1>6 DEF Placed
    <2>8. ASSUME NEW i \in 1 .. n + 1, NEW j \in 1 .. n + 1, i < j
          PROVE  m2[i].at > m2[j].at
      <3>1. j - 1 \in 1 .. n /\ m2[j] = m[j - 1]
        BY <2>4, <2>5, <2>8
      <3>2. CASE i = 1
        BY <1>4, <2>5, <2>7, <3>1, <3>2
      <3>3. CASE i # 1
        <4>1. i - 1 \in 1 .. n /\ m2[i] = m[i - 1]
          BY <2>5, <3>3
        <4>2. i - 1 < j - 1
          BY <2>4, <2>8
        <4>3. QED
          BY <2>2, <3>1, <4>1, <4>2 DEF Chain
      <3>4. QED
        BY <3>2, <3>3
    <2>9. ASSUME NEW i \in 1 .. n + 1
          PROVE  table'[k][i] = [xmin |-> m2[i].txn, val |-> m2[i].val]
      <3>1. CASE i = 1
        BY <1>4, <1>16, <1>17, <2>5, <3>1
      <3>2. CASE i # 1
        <4>1. i - 1 \in 1 .. n /\ m2[i] = m[i - 1] /\ n # 0
          BY <2>4, <2>5, <3>2
        <4>2. ChainOf(k) = table[k] /\ i - 1 \in 1 .. Len(table[k])
          BY <2>4, <4>1 DEF ChainOf
        <4>3. c[i] = table[k][i - 1]
          BY <1>16, <4>2
        <4>4. table[k][i - 1] = [xmin |-> m[i - 1].txn, val |-> m[i - 1].val]
          BY <2>2, <4>1, Zenon DEF Chain
        <4>5. QED
          BY <1>17, <4>1, <4>3, <4>4
      <3>3. QED
        BY <3>1, <3>2
    <2>10. Len(table'[k]) = Len(ChainOf(k)) + 1
      BY <1>16, <1>17
    <2>11. CASE /\ \A q \in Placed(k) : \E j \in 1 .. n : m[j] = q
                /\ (n = 0 /\ table[k] = << >>) \/ (Len(table[k]) = n + 1 /\ table[k][n + 1] = Bottom)
      <3>1. \A q \in Placed(k)' : \E j \in 1 .. n + 1 : m2[j] = q
        <4>1. 1 \in 1 .. n + 1 /\ m2[1] = p
          BY <2>4, <2>5
        <4>2. ASSUME NEW q \in Placed(k)
              PROVE  \E j \in 1 .. n + 1 : m2[j] = q
          <5>1. PICK j \in 1 .. n : m[j] = q
            BY <2>11
          <5>2. QED
            BY <2>5, <5>1
        <4>3. QED
          BY <2>3, <4>1, <4>2
      <3>2. Len(ChainOf(k)) = n + 1 /\ ChainOf(k)[n + 1] = Bottom
        BY <2>11 DEF ChainOf, Bottom
      <3>3. Len(table'[k]) = (n + 1) + 1 /\ table'[k][(n + 1) + 1] = Bottom
        BY <1>16, <1>17, <2>4, <2>10, <3>2
      <3>4. Chain(k, n + 1, m2)'
        BY <2>8, <2>9, <3>1, <3>3 DEF Chain, Bottom
      <3>5. n + 1 \in 0 .. Len(table'[k])
        BY <2>4, <3>3
      <3>6. QED
        BY <2>6, <3>4, <3>5
    <2>12. CASE /\ n >= 1 /\ Len(table[k]) = n /\ m[n].txn \in committed
                /\ \A q \in Placed(k) : q.at >= m[n].at => \E j \in 1 .. n : m[j] = q
                /\ \A q \in puts : q.at < m[n].at => q.txn \notin active_txns
                /\ \A u \in active_txns : m[n].txn \in Seen(u)
      <3>1. m2[n + 1] = m[n] /\ n \in 1 .. n /\ m[n].at < p.at /\ m[n].at \in Nat
        BY <2>4, <2>5, <2>7, <2>12
      <3>2. \A q \in Placed(k)' : q.at >= m2[n + 1].at => \E j \in 1 .. n + 1 : m2[j] = q
        <4>1. 1 \in 1 .. n + 1 /\ m2[1] = p
          BY <2>4, <2>5
        <4>2. \A q \in Placed(k) : q.at >= m2[n + 1].at => \E j \in 1 .. n + 1 : m2[j] = q
          <5>1. ASSUME NEW q \in Placed(k), q.at >= m2[n + 1].at
                PROVE  \E j \in 1 .. n + 1 : m2[j] = q
            <6>1. PICK j \in 1 .. n : m[j] = q
              BY <2>12, <3>1, <5>1
            <6>2. QED
              BY <2>5, <6>1
          <5>2. QED
            BY <5>1
        <4>3. QED
          BY <2>3, <4>1, <4>2
      <3>3. \A q \in puts' : q.at < m2[n + 1].at => q.txn \notin active_txns'
        BY <1>1, <1>4, <2>12, <3>1
      <3>4. \A u \in active_txns' : m2[n + 1].txn \in Seen(u)'
        BY <1>1, <1>5, <2>12, <3>1
      <3>5. ChainOf(k) = table[k]
        BY <2>12 DEF ChainOf
      <3>6. n + 1 >= 1 /\ Len(table'[k]) = n + 1 /\ m2[n + 1].txn \in committed'
        BY <1>1, <2>4, <2>10, <2>12, <3>1, <3>5
      <3>7. Chain(k, n + 1, m2)'
        BY <2>8, <2>9, <3>2, <3>3, <3>4, <3>6 DEF Chain
      <3>8. n + 1 \in 0 .. Len(table'[k])
        BY <2>4, <3>6
      <3>9. QED
        BY <2>6, <3>7, <3>8
    <2>13. QED
      BY <2>2, <2>11, <2>12 DEF Chain
  <1>21. Chains'
    BY <1>1, <1>19, <1>20 DEF Chains
  <1>22. QED
    BY <1>7, <1>8, <1>9, <1>10, <1>11, <1>13, <1>14, <1>18, <1>21 DEF IndInv

(* What recovery reads of a log: all of it, or up to the first torn PUT. *)
LEMMA ReadableIs ==
  ASSUME NEW log \in Seq(Record)
  PROVE  \E f \in 0 .. Len(log) :
           /\ Readable(log) \in Seq(Record) /\ DOMAIN Readable(log) = 1 .. f
           /\ \A i \in 1 .. f : Readable(log)[i] = log[i]
           /\ \A i \in 1 .. f : log[i].type = "TORN" => i = f
           /\ f = Len(log) \/ (f >= 1 /\ log[f].type = "TORN")
  <1> DEFINE torn == {i \in DOMAIN log : log[i].type = "TORN"}
  <1>1. torn \in SUBSET Nat /\ Len(log) \in Nat /\ DOMAIN log = 1 .. Len(log)
        /\ \A i \in DOMAIN log : log[i] \in Record
    OBVIOUS
  <1>2. Readable(log) = IF torn = {} THEN log ELSE SubSeq(log, 1, Min(torn))
    BY DEF Readable
  <1>3. CASE torn = {}
    <2>1. Readable(log) = log
      BY <1>2, <1>3
    <2>2. \A i \in 1 .. Len(log) : log[i].type # "TORN"
      BY <1>1, <1>3
    <2>3. Len(log) \in 0 .. Len(log)
      BY <1>1
    <2>4. QED
      BY <1>1, <2>1, <2>2, <2>3
  <1>4. CASE torn # {}
    <2>1. PICK f : f = Min(torn)
      OBVIOUS
    <2>2. f \in torn /\ \A y \in torn : f <= y
      <3> HIDE DEF torn
      <3>1. QED
        BY <1>1, <1>4, <2>1, MinIs
    <2>3. f \in 0 .. Len(log) /\ f \in Nat /\ f >= 1 /\ log[f].type = "TORN"
          /\ f <= Len(log)
      BY <1>1, <2>2
    <2>4. PICK sub : sub = SubSeq(log, 1, f)
      OBVIOUS
    <2>5. Readable(log) = sub
      BY <1>2, <1>4, <2>1, <2>4
    <2>6. \A i \in 1 .. f : log[i] \in Record
      BY <1>1, <2>3
    <2>7. sub \in Seq(Record)
      BY <2>3, <2>4, <2>6, SubSeqProperties
    <2>8. Len(sub) = f
      BY <1>1, <2>3, <2>4
    <2>9. ASSUME NEW i \in 1 .. f
          PROVE  sub[i] = log[i]
      BY <1>1, <2>3, <2>4
    <2>10. DOMAIN sub = 1 .. f
      BY <2>7, <2>8
    <2>11. ASSUME NEW i \in 1 .. f, log[i].type = "TORN"
           PROVE  i = f
      <3>1. i \in torn
        BY <1>1, <2>3, <2>11
      <3>2. QED
        BY <2>2, <2>3, <3>1
    <2>12. QED
      BY <2>3, <2>5, <2>7, <2>9, <2>10, <2>11
  <1>5. QED
    BY <1>3, <1>4

(* What recovery would read is known, and after a crash it is all of it.   *)
LEMMA ReadableKnown ==
  ASSUME TypeOK
  PROVE  /\ Readable(wal) \in Seq(Record)
         /\ DOMAIN Readable(wal) \subseteq Known
         /\ \A i \in DOMAIN Readable(wal) : Readable(wal)[i] = wal[i]
         /\ found = Len(wal) => DOMAIN Readable(wal) = Known
  <1>1. wal \in Seq(Record) /\ Len(wal) \in Nat /\ DOMAIN wal = 1 .. Len(wal)
    BY DEF TypeOK
  <1>2. PICK f \in 0 .. Len(wal) :
           /\ Readable(wal) \in Seq(Record) /\ DOMAIN Readable(wal) = 1 .. f
           /\ \A i \in 1 .. f : Readable(wal)[i] = wal[i]
           /\ \A i \in 1 .. f : wal[i].type = "TORN" => i = f
           /\ f = Len(wal) \/ (f >= 1 /\ wal[f].type = "TORN")
    BY <1>1, ReadableIs
  <1>3. f \in Nat /\ f <= Len(wal)
    BY <1>1
  <1>4. ASSUME NEW i \in 1 .. f
        PROVE  i \in Known
    <2>1. \A j \in 1 .. i - 1 : j \in 1 .. f /\ j # f
      BY <1>3
    <2>2. i \in DOMAIN wal
      BY <1>1, <1>3
    <2>3. QED
      BY <1>2, <2>1, <2>2 DEF Known
  <1>5. ASSUME found = Len(wal), NEW i \in Known
        PROVE  i \in 1 .. f
    <2>1. i \in 1 .. Len(wal) /\ \A j \in 1 .. i - 1 : wal[j].type # "TORN"
      BY <1>1, <1>5 DEF Known
    <2>2. CASE f = Len(wal)
      BY <2>1, <2>2
    <2>3. CASE f >= 1 /\ wal[f].type = "TORN"
      <3>1. f \notin 1 .. i - 1
        BY <2>1, <2>3
      <3>2. QED
        BY <1>3, <2>1, <2>3, <3>1
    <2>4. QED
      BY <1>2, <2>2, <2>3
  <1>6. QED
    BY <1>2, <1>4, <1>5

LEMMA RecoverKeeps ==
  ASSUME IndInv, recover_from_wal
  PROVE  IndInv'
  <1>0. /\ TypeOK /\ Ids /\ Views /\ Snapshots /\ Logged /\ Ends /\ Tears /\ Fresh
        /\ Counts /\ Chains
    BY DEF IndInv
  <1>1. PICK log : log = Readable(wal)
    OBVIOUS
  <1>2. /\ log \in Seq(Record) /\ Len(log) \in Nat /\ DOMAIN log = 1 .. Len(log)
        /\ DOMAIN log = Known /\ \A i \in DOMAIN log : log[i] = wal[i] /\ log[i] \in Record
    <2>1. found = Len(wal)
      BY <1>0 DEF Tears, recover_from_wal
    <2>2. QED
      BY <1>0, <1>1, <2>1, ReadableKnown
  <1>3. /\ ~up /\ up' /\ active_txns = {} /\ latch = Free
        /\ table' = [k \in Key |-> Replay(log, k)] /\ next_txn_id' = MaxTxnId(log) + 1
        /\ UNCHANGED <<active_txns, read_view, undo_entries, latch, wal, synced,
                       crashes, committed, puts, snapshot, found, spoiled, lost>>
        /\ Known' = Known
    BY <1>0, <1>1 DEF recover_from_wal, history, Ids, Known
  <1>4. /\ Committing = {} /\ Committing' = {} /\ Aborting = {} /\ Aborting' = {}
        /\ Live = committed /\ Live' = committed
    BY <1>3 DEF Committing, Aborting, Free, Live
  <1>5. Committed(log) = committed
    <2>1. \A t \in Committed(log) : t \in committed
      BY <1>0, <1>2, <1>4 DEF Committed, Ends
    <2>2. ASSUME NEW t \in committed
          PROVE  t \in Committed(log)
      <3>1. PICK i \in DOMAIN log : log[i].type = "COMMIT" /\ log[i].txn = t
        BY <1>0, <1>2 DEF Ends
      <3>2. QED
        BY <3>1 DEF Committed
    <2>3. QED
      BY <2>1, <2>2
  <1>6. /\ MaxTxnId(log) \in 0 .. MaxTxn
        /\ \A i \in DOMAIN log : log[i].txn \in Nat /\ log[i].txn <= MaxTxnId(log)
    <2> DEFINE T == {0} \cup {log[i].txn : i \in DOMAIN log}
    <2>1. \A i \in DOMAIN log : log[i].txn \in 0 .. MaxTxn /\ log[i].txn \in T
      BY <1>2, BoundAssumption DEF Record, Txn
    <2>2. T \in SUBSET (0 .. MaxTxn) /\ T # {}
      BY <2>1, BoundAssumption
    <2>3. MaxTxnId(log) = Max(T)
      BY DEF MaxTxnId
    <2> HIDE DEF T
    <2>4. Max(T) \in T /\ \A y \in T : y <= Max(T)
      BY <2>2, MaxIs, BoundAssumption
    <2>5. MaxTxnId(log) \in 0 .. MaxTxn
      BY <2>2, <2>3, <2>4
    <2>6. \A i \in DOMAIN log : log[i].txn <= MaxTxnId(log)
      BY <2>1, <2>3, <2>4, Zenon
    <2>7. QED
      BY <2>1, <2>5, <2>6
  <1>7. ASSUME NEW k \in Key
        PROVE  /\ Replay(log, k) \in Seq(Version)
               /\ \E n \in 0 .. Len(table'[k]) : \E m \in [1 .. n -> Placed(k)'] : Chain(k, n, m)'
    <2> DEFINE redo == {i \in DOMAIN log : /\ log[i].type = "PUT" /\ log[i].key = k
                                           /\ log[i].txn \in Committed(log)}
    <2>1. table'[k] = Replay(log, k)
      BY <1>3
    <2>2. Replay(log, k) = IF redo = {} THEN << >>
                           ELSE <<[xmin |-> log[Max(redo)].txn, val |-> log[Max(redo)].val]>>
      BY DEF Replay
    <2>3. ASSUME NEW p \in Placed(k)
          PROVE  p.at \in redo
      <3>1. p.at \in DOMAIN log /\ log[p.at] = PutRecord(p.txn, p.key, p.val)
            /\ p.key = k /\ p.txn \in committed
        BY <1>0, <1>2, <1>4 DEF Placed, Logged
      <3>2. QED
        BY <1>5, <3>1 DEF PutRecord
    <2>4. Placed(k)' = Placed(k)
      BY <1>3, <1>4 DEF Placed
    <2>5. CASE redo = {}
      <3> DEFINE m == [i \in 1 .. 0 |-> 0]
      <3>1. table'[k] = << >> /\ Len(table'[k]) = 0 /\ Placed(k)' = {}
        BY <2>1, <2>2, <2>3, <2>4, <2>5
      <3>2. m \in [1 .. 0 -> Placed(k)']
        OBVIOUS
      <3> HIDE DEF m
      <3>3. Chain(k, 0, m)'
        BY <3>1 DEF Chain
      <3>4. << >> \in Seq(Version)
        OBVIOUS
      <3>5. 0 \in 0 .. Len(table'[k])
        BY <3>1
      <3>6. Replay(log, k) \in Seq(Version)
        BY <2>1, <3>1, <3>4
      <3>7. QED
        BY <3>2, <3>3, <3>5, <3>6, Zenon
    <2>6. CASE redo # {}
      <3>1. redo \in SUBSET (0 .. Len(log))
        BY <1>2
      <3>2. PICK i : i = Max(redo)
        OBVIOUS
      <3>3. i \in redo /\ \A j \in redo : j <= i
        <4> HIDE DEF redo
        <4>1. QED
          BY <1>2, <2>6, <3>1, <3>2, MaxIs
      <3>4. i \in DOMAIN log /\ i \in Nat /\ log[i].type = "PUT" /\ log[i].key = k
            /\ log[i].txn \in committed /\ log[i] \in Record
        BY <1>2, <1>5, <3>3
      <3>5. PICK p \in puts : p.at = i /\ p.key = k /\ p.txn \in committed
                              /\ p.txn = log[i].txn /\ p.val = log[i].val
        <4> DEFINE q == [at |-> i, txn |-> log[i].txn, key |-> log[i].key, val |-> log[i].val]
        <4>1. q \in puts
          BY <1>0, <1>2, <3>4 DEF Logged
        <4>2. QED
          BY <3>4, <4>1
      <3>6. p \in Placed(k) /\ p \in PutEntry
        BY <1>0, <1>4, <3>5 DEF Placed, TypeOK
      <3>7. table'[k] = <<[xmin |-> p.txn, val |-> p.val]>>
        <4> HIDE DEF redo
        <4>1. QED
          BY <2>1, <2>2, <2>6, <3>2, <3>5
      <3>8. [xmin |-> p.txn, val |-> p.val] \in Version
        BY <3>6 DEF PutEntry, Version, SlotValue
      <3>9. /\ table'[k] \in Seq(Version) /\ Len(table'[k]) = 1
            /\ table'[k][1] = [xmin |-> p.txn, val |-> p.val]
        BY <3>7, <3>8
      <3> DEFINE m == [j \in 1 .. 1 |-> p]
      <3>10. m \in [1 .. 1 -> Placed(k)'] /\ m[1] = p
        BY <2>4, <3>6
      <3> HIDE DEF m
      <3>11. ASSUME NEW q \in Placed(k)', q.at >= p.at
             PROVE  q = p
        <4>1. q.at <= i /\ q \in puts /\ q.at \in Nat
          BY <1>0, <2>3, <2>4, <3>3 DEF Placed, TypeOK, PutEntry
        <4>2. q.at = p.at
          BY <3>4, <3>5, <3>11, <4>1
        <4>3. QED
          BY <1>0, <4>1, <4>2, SamePut
      <3>12. Chain(k, 1, m)'
        <4>1. \A a, b \in 1 .. 1 : a < b => m[a].at > m[b].at
          OBVIOUS
        <4>2. \A j \in 1 .. 1 : table'[k][j] = [xmin |-> m[j].txn, val |-> m[j].val]
          BY <3>9, <3>10
        <4>3. \A q \in Placed(k)' : q.at >= m[1].at => \E j \in 1 .. 1 : m[j] = q
          BY <3>10, <3>11
        <4>4. 1 >= 1 /\ Len(table'[k]) = 1 /\ m[1].txn \in committed'
          BY <1>3, <3>5, <3>9, <3>10
        <4>5. QED
          BY <1>3, <4>1, <4>2, <4>3, <4>4 DEF Chain
      <3>13. QED
        BY <2>1, <3>9, <3>10, <3>12
    <2>7. QED
      BY <2>5, <2>6
  <1>8. TypeOK'
    <2>1. next_txn_id' \in 1 .. MaxTxn + 1
      BY <1>3, <1>6, BoundAssumption
    <2>2. table' \in [Key -> Seq(Version)]
      BY <1>3, <1>7
    <2>3. up' \in BOOLEAN
      BY <1>3
    <2>4. QED
      BY <1>0, <1>3, <2>1, <2>2, <2>3 DEF TypeOK
  <1>9. Ids'
    <2>1. \A i \in DOMAIN log : log[i].txn < next_txn_id'
      BY <1>3, <1>6
    <2>2. \A t \in committed : t < next_txn_id'
      BY <1>5, <2>1 DEF Committed
    <2>3. QED
      BY <1>2, <1>3, <2>1, <2>2 DEF Ids
  <1>10. Views' /\ Snapshots' /\ Fresh' /\ Counts'
    BY <1>0, <1>3 DEF Views, Snapshots, Fresh, Counts
  <1>11. Logged' /\ Ends' /\ Tears'
    <2>1. Logged'
      BY <1>0, <1>3 DEF Logged
    <2>2. Ends'
      BY <1>0, <1>3, <1>4 DEF Ends
    <2>3. Tears'
      BY <1>0, <1>3 DEF Tears
    <2>4. QED
      BY <2>1, <2>2, <2>3
  <1>12. Chains'
    BY <1>3, <1>7 DEF Chains
  <1>13. QED
    BY <1>8, <1>9, <1>10, <1>11, <1>12 DEF IndInv

(* What a crash leaves of the WAL: the records of before, those forced to  *)
(* disk at the least, and perhaps the torn one of a put.                   *)
LEMMA CrashLog ==
  ASSUME TypeOK, Crash
  PROVE  /\ wal' \in Seq(Record) /\ Len(wal') \in Nat /\ DOMAIN wal' = 1 .. Len(wal')
         /\ synced <= Len(wal')
         /\ \A i \in DOMAIN wal' :
              \/ i \in DOMAIN wal /\ wal'[i] = wal[i]
              \/ i = Len(wal) + 1 /\ i = Len(wal') /\ wal'[i].type = "TORN"
         /\ \A i \in DOMAIN wal : i <= Len(wal') => i \in DOMAIN wal' /\ wal'[i] = wal[i]
  <1>2. wal \in Seq(Record) /\ Len(wal) \in Nat /\ DOMAIN wal = 1 .. Len(wal)
        /\ (\A i \in DOMAIN wal : wal[i] \in Record) /\ synced \in 0 .. Len(wal)
        /\ active_txns \in SUBSET Txn
    BY DEF TypeOK
  <1>3. ASSUME NEW r \in TornRecords
        PROVE  r \in Record /\ r.type = "TORN"
    <2>1. PICK t \in active_txns : r = EndRecord("TORN", t)
      BY <1>3 DEF TornRecords
    <2>2. QED
      BY <1>2, <2>1, EndRecordType
  <1>4. PICK log : /\ log = wal \/ \E r \in TornRecords : log = Append(wal, r)
                   /\ \E n \in synced .. Len(log) : wal' = SubSeq(log, 1, n)
    BY DEF Crash
  <1>5. PICK n : n \in synced .. Len(log) /\ wal' = SubSeq(log, 1, n)
    BY <1>4
  <1>6. /\ log \in Seq(Record) /\ Len(log) \in Nat /\ DOMAIN log = 1 .. Len(log)
        /\ Len(log) >= Len(wal) /\ \A i \in DOMAIN log : log[i] \in Record
        /\ \A i \in 1 .. Len(wal) : log[i] = wal[i]
        /\ \A i \in DOMAIN log :
             i \in DOMAIN wal \/ (i = Len(wal) + 1 /\ i = Len(log) /\ log[i].type = "TORN")
    <2>1. CASE log = wal
      BY <1>2, <2>1
    <2>2. ASSUME NEW r \in TornRecords, log = Append(wal, r)
          PROVE  /\ log \in Seq(Record) /\ Len(log) = Len(wal) + 1
                 /\ log[Len(wal) + 1] = r /\ r.type = "TORN"
                 /\ \A i \in 1 .. Len(wal) : log[i] = wal[i]
      <3>1. r \in Record /\ r.type = "TORN"
        BY <1>3
      <3>2. log \in Seq(Record) /\ Len(log) = Len(wal) + 1 /\ log[Len(wal) + 1] = r
        BY <1>2, <2>2, <3>1
      <3>3. \A i \in 1 .. Len(wal) : log[i] = wal[i]
        BY <1>2, <2>2, <3>1
      <3>4. QED
        BY <3>1, <3>2, <3>3
    <2>3. QED
      BY <1>2, <1>4, <2>1, <2>2
  <1>7. /\ n \in Nat /\ synced <= n /\ n <= Len(log)
        /\ wal' \in Seq(Record) /\ Len(wal') = n /\ DOMAIN wal' = 1 .. n
        /\ \A i \in 1 .. n : wal'[i] = log[i]
    <2>1. n \in Nat /\ n \in Int /\ synced <= n /\ n <= Len(log) /\ 1 \in Int
      BY <1>2, <1>5, <1>6
    <2>2. \A i \in 1 .. n : log[i] \in Record
      BY <1>6, <2>1
    <2>3. wal' \in Seq(Record)
      BY <1>5, <2>1, <2>2, SubSeqProperties
    <2>4. Len(wal') = n
      BY <1>5, <1>6, <2>1
    <2>5. ASSUME NEW i \in 1 .. n
          PROVE  wal'[i] = log[i]
      BY <1>5, <1>6, <2>1
    <2>6. DOMAIN wal' = 1 .. n
      BY <2>3, <2>4
    <2>7. QED
      BY <2>1, <2>3, <2>4, <2>5, <2>6
  <1>8. ASSUME NEW i \in DOMAIN wal'
        PROVE  \/ i \in DOMAIN wal /\ wal'[i] = wal[i]
               \/ i = Len(wal) + 1 /\ i = Len(wal') /\ wal'[i].type = "TORN"
    <2>1. i \in DOMAIN log /\ wal'[i] = log[i]
      BY <1>6, <1>7
    <2>2. CASE i \in DOMAIN wal
      BY <1>2, <1>6, <2>1, <2>2
    <2>3. CASE i = Len(wal) + 1 /\ i = Len(log) /\ log[i].type = "TORN"
      BY <1>6, <1>7, <2>1, <2>3
    <2>4. QED
      BY <1>6, <2>1, <2>2, <2>3
  <1>9. \A i \in DOMAIN wal : i <= n => i \in DOMAIN wal' /\ wal'[i] = wal[i]
    BY <1>2, <1>6, <1>7
  <1>10. QED
    BY <1>7, <1>8, <1>9

LEMMA CrashKeeps ==
  ASSUME IndInv, Crash
  PROVE  IndInv'
  <1>0. /\ TypeOK /\ Ids /\ Views /\ Snapshots /\ Logged /\ Ends /\ Tears /\ Fresh
        /\ Counts /\ Chains
    BY DEF IndInv
  <1>1. /\ crashes < MaxCrashes /\ crashes' = crashes + 1
        /\ synced' = Len(wal') /\ found' = Len(wal') /\ up' = FALSE /\ latch' = Free
        /\ next_txn_id' = 1 /\ active_txns' = {} /\ table' = [k \in Key |-> << >>]
        /\ committed' = Committed(Readable(wal'))
        /\ puts' = {p \in puts : p.txn \in committed'}
        /\ lost' = lost \cup {p \in puts : p.txn \in committed \ committed'}
        /\ spoiled' = {}
        /\ UNCHANGED <<read_view, undo_entries, snapshot>>
    BY DEF Crash
  <1>2. wal \in Seq(Record) /\ Len(wal) \in Nat /\ DOMAIN wal = 1 .. Len(wal)
        /\ synced \in 0 .. Len(wal) /\ found \in 0 .. Len(wal) /\ found <= synced
        /\ active_txns \in SUBSET Txn /\ committed \in SUBSET Txn
    BY <1>0 DEF TypeOK, Tears
  <1>3. /\ wal' \in Seq(Record) /\ Len(wal') \in Nat /\ DOMAIN wal' = 1 .. Len(wal')
        /\ synced <= Len(wal')
        /\ \A i \in DOMAIN wal' :
             \/ i \in DOMAIN wal /\ wal'[i] = wal[i]
             \/ i = Len(wal) + 1 /\ i = Len(wal') /\ wal'[i].type = "TORN"
        /\ \A i \in DOMAIN wal : i <= Len(wal') => i \in DOMAIN wal' /\ wal'[i] = wal[i]
    BY <1>0, CrashLog
  <1>4. PICK log : log = Readable(wal')
    OBVIOUS
  <1>5. PICK e \in 0 .. Len(wal') :
           /\ log \in Seq(Record) /\ DOMAIN log = 1 .. e
           /\ \A i \in 1 .. e : log[i] = wal'[i]
           /\ \A i \in 1 .. e : wal'[i].type = "TORN" => i = e
           /\ e = Len(wal') \/ (e >= 1 /\ wal'[e].type = "TORN")
    BY <1>3, <1>4, ReadableIs
  <1>6. e \in Nat /\ e <= Len(wal')
    BY <1>3
  (* Everything that recovery reads now was known before.                  *)
  <1>7. ASSUME NEW i \in 1 .. e, wal'[i].type # "TORN"
        PROVE  i \in Known /\ wal'[i] = wal[i] /\ log[i] = wal[i]
    <2>1. i \in DOMAIN wal' /\ i \in DOMAIN wal /\ wal'[i] = wal[i]
      BY <1>3, <1>6, <1>7
    <2>2. ASSUME NEW j \in 1 .. i - 1
          PROVE  wal[j].type # "TORN"
      <3>0. j \in 1 .. e /\ j < e /\ j \in Nat
        BY <1>6
      <3>1. j \in 1 .. e /\ j # e /\ j \in DOMAIN wal' /\ j # Len(wal')
        <4>1. j \in 1 .. Len(wal') /\ j # Len(wal')
          BY <1>6, <3>0
        <4>2. DOMAIN wal' = 1 .. Len(wal')
          BY <1>3, Zenon
        <4>3. j \in DOMAIN wal' /\ j # Len(wal')
          BY <4>1, <4>2, Zenon
        <4>4. j # e
          BY <1>6, <3>0
        <4>5. QED
          BY <3>0, <4>3, <4>4, Zenon
      <3>2. wal'[j] = wal[j] /\ wal'[j].type # "TORN"
        BY <1>3, <1>5, <3>1
      <3>3. QED
        BY <3>2
    <2>3. QED
      BY <1>5, <2>1, <2>2 DEF Known
  (* A known record that the crash has kept, and recovery does not read,   *)
  (* is younger than the crash before.                                     *)
  <1>8. ASSUME NEW i \in Known, i <= Len(wal'), i > e
        PROVE  i > found /\ e <= found /\ e >= 1 /\ e \in DOMAIN wal /\ wal[e].type = "TORN"
    <2>1. i \in DOMAIN wal /\ i \in Nat /\ i \in DOMAIN wal' /\ wal'[i] = wal[i]
      BY <1>2, <1>3, <1>8 DEF Known
    <2>2. e >= 1 /\ wal'[e].type = "TORN" /\ e # Len(wal')
      BY <1>5, <1>6, <1>8, <2>1
    <2>3. e \in DOMAIN wal' /\ e \in 1 .. i - 1
      <3>1. e \in 1 .. Len(wal') /\ e \in 1 .. i - 1
        BY <1>6, <1>8, <2>1, <2>2
      <3>2. QED
        BY <1>3, <3>1
    <2>4. e \in DOMAIN wal /\ wal'[e] = wal[e]
      BY <1>3, <2>2, <2>3
    <2>5. i > found
      BY <1>8, <2>2, <2>3, <2>4 DEF Known
    <2>6. e <= found
      BY <1>0, <2>2, <2>4 DEF Tears
    <2>7. QED
      BY <2>2, <2>4, <2>5, <2>6
  <1>9. /\ \A t \in committed' : \E i \in 1 .. e : wal'[i].type = "COMMIT" /\ wal'[i].txn = t
        /\ \A i \in 1 .. e : wal'[i].type = "COMMIT" => wal'[i].txn \in committed'
    <2>1. committed' = {log[i].txn : i \in {j \in DOMAIN log : log[j].type = "COMMIT"}}
      BY <1>1, <1>4 DEF Committed
    <2>2. QED
      BY <1>5, <2>1
  <1>10. committed' \subseteq committed \cup active_txns
    <2>1. ASSUME NEW t \in committed'
          PROVE  t \in committed \cup active_txns
      <3>1. PICK i \in 1 .. e : wal'[i].type = "COMMIT" /\ wal'[i].txn = t
        BY <1>9
      <3>2. i \in Known /\ wal'[i] = wal[i]
        BY <1>7, <3>1
      <3>3. Committing \subseteq active_txns
        BY <1>0 DEF Committing, Ids, Free
      <3>4. QED
        BY <1>0, <3>1, <3>2, <3>3 DEF Ends
    <2>2. QED
      BY <2>1
  (* The COMMIT of a committed transaction is read, unless it is younger   *)
  (* than a torn PUT.                                                      *)
  <1>11. ASSUME NEW t \in committed, t \notin committed'
         PROVE  \E i \in Known : i > found /\ wal[i].txn = t /\ e <= found /\ e >= 1
                                 /\ e \in DOMAIN wal /\ wal[e].type = "TORN"
    <2>1. PICK i \in Known : i <= synced /\ wal[i].type = "COMMIT" /\ wal[i].txn = t
      BY <1>0 DEF Ends
    <2>2. i \in DOMAIN wal /\ i \in Nat /\ i <= Len(wal')
      BY <1>2, <1>3, <2>1 DEF Known
    <2>3. i \in DOMAIN wal' /\ wal'[i] = wal[i]
      BY <1>3, <2>2
    <2>4. i \notin 1 .. e
      BY <1>9, <1>11, <2>1, <2>3
    <2>5. i > e
      BY <1>2, <1>6, <2>2, <2>4
    <2>6. QED
      BY <1>8, <2>1, <2>2, <2>5
  <1>12. Known' = 1 .. e
    <2>1. ASSUME NEW i \in 1 .. e
          PROVE  i \in Known'
      <3>1. \A j \in 1 .. i - 1 : j \in 1 .. e /\ j # e
        BY <1>6
      <3>2. i \in DOMAIN wal'
        BY <1>3, <1>6
      <3>3. QED
        BY <1>5, <3>1, <3>2 DEF Known
    <2>2. ASSUME NEW i \in Known'
          PROVE  i \in 1 .. e
      <3>1. i \in 1 .. Len(wal') /\ \A j \in 1 .. i - 1 : wal'[j].type # "TORN"
        BY <1>1, <1>3 DEF Known
      <3>2. CASE e = Len(wal')
        BY <3>1, <3>2
      <3>3. CASE e >= 1 /\ wal'[e].type = "TORN"
        <4>1. e \notin 1 .. i - 1
          BY <3>1, <3>3
        <4>2. QED
          BY <1>6, <3>1, <3>3, <4>1
      <3>4. QED
        BY <1>5, <3>2, <3>3
    <2>3. QED
      BY <2>1, <2>2
  (* The PUT of a transaction that recovery finds committed is read.       *)
  <1>13. ASSUME NEW p \in puts, p.txn \in committed'
         PROVE  p.at \in 1 .. e /\ wal'[p.at] = PutRecord(p.txn, p.key, p.val)
    <2>1. p.at \in Known /\ wal[p.at] = PutRecord(p.txn, p.key, p.val)
      BY <1>0 DEF Logged
    <2>2. wal[p.at].type = "PUT" /\ wal[p.at].txn = p.txn
      BY <2>1 DEF PutRecord
    <2>3. PICK j \in 1 .. e : wal'[j].type = "COMMIT" /\ wal'[j].txn = p.txn
      BY <1>9, <1>13
    <2>4. j \in Known /\ wal'[j] = wal[j]
      BY <1>7, <2>3
    <2>5. p.at < j
      <3>1. \A i, k \in Known : wal[i].type = "PUT" /\ wal[k].type = "COMMIT"
                                /\ wal[i].txn = wal[k].txn => i < k
        BY Zenon, <1>0 DEF Ends
      <3>2. wal[j].type = "COMMIT" /\ wal[j].txn = p.txn
        BY Zenon, <2>3, <2>4
      <3>3. QED
        BY Zenon, <2>1, <2>2, <2>4, <3>1, <3>2
    <2>6. p.at \in DOMAIN wal
      BY <2>1 DEF Known
    <2>7. p.at \in 1 .. e /\ p.at <= Len(wal')
      BY <1>2, <1>6, <2>5, <2>6
    <2>8. QED
      BY <1>3, <2>1, <2>6, <2>7
  <1>14. TypeOK'
    <2>1. committed' \in SUBSET Txn
      BY <1>2, <1>10
    <2>2. crashes' \in 0 .. MaxCrashes
      BY <1>0, <1>1, BoundAssumption DEF TypeOK
    <2>3. next_txn_id' \in 1 .. MaxTxn + 1 /\ active_txns' \in SUBSET Txn
      BY <1>1, BoundAssumption
    <2>4. table' \in [Key -> Seq(Version)]
      <3>1. << >> \in Seq(Version)
        OBVIOUS
      <3>2. QED
        BY <1>1, <3>1
    <2>5. synced' \in 0 .. Len(wal') /\ found' \in 0 .. Len(wal') /\ up' \in BOOLEAN
      <3>1. Len(wal') \in 0 .. Len(wal')
        BY <1>3
      <3>2. QED
        BY <1>1, <3>1
    <2>6. latch' \in {"free", "commit", "abort"} \X (Txn \cup {0})
      BY <1>1 DEF Free
    <2>7. puts' \subseteq PutEntry /\ lost' \subseteq PutEntry /\ spoiled' \subseteq Key
      BY <1>0, <1>1 DEF TypeOK
    <2>8. QED
      BY <1>0, <1>1, <1>3, <2>1, <2>2, <2>3, <2>4, <2>5, <2>6, <2>7 DEF TypeOK
  <1>15. Ids' /\ Views' /\ Snapshots' /\ Chains'
    BY <1>1 DEF Ids, Views, Snapshots, Chains
  <1>16. Fresh'
    <2>1. \A i \in Known' : ~(found' < i)
      BY <1>1, <1>3, <1>6, <1>12
    <2>2. QED
      BY <1>1, <2>1 DEF Fresh
  <1>17. Counts'
    <2>1. IsFiniteSet(puts')
      BY <1>0, <1>1, FS_Subset DEF Counts
    <2>2. QED
      BY <1>1, <2>1 DEF Counts
  <1>18. Logged'
    <2>1. ASSUME NEW p \in puts'
          PROVE  p.at \in Known' /\ wal'[p.at] = PutRecord(p.txn, p.key, p.val)
      BY <1>1, <1>12, <1>13
    <2>2. ASSUME NEW i \in Known', wal'[i].type = "PUT", wal'[i].txn \in committed'
          PROVE  [at |-> i, txn |-> wal'[i].txn, key |-> wal'[i].key, val |-> wal'[i].val]
                   \in puts'
      <3>1. i \in Known /\ wal'[i] = wal[i]
        BY <1>7, <1>12, <2>2
      <3>2. wal[i].txn \in committed \cup active_txns
        BY <1>10, <2>2, <3>1
      <3> DEFINE p == [at |-> i, txn |-> wal[i].txn, key |-> wal[i].key, val |-> wal[i].val]
      <3>3. p \in puts /\ p.txn = wal[i].txn
        BY <1>0, <2>2, <3>1, <3>2 DEF Logged
      <3> HIDE DEF p
      <3>4. p \in puts'
        BY <1>1, <2>2, <3>1, <3>3
      <3>5. QED
        BY <3>1, <3>4 DEF p
    <2>3. QED
      BY <1>1, <2>1, <2>2 DEF Logged
  <1>19. Ends'
    <2>1. Committing' = {}
      BY <1>1 DEF Committing, Free
    <2>2. ASSUME NEW i \in Known', NEW j \in Known', wal'[i].type = "PUT",
                 wal'[j].type = "COMMIT", wal'[i].txn = wal'[j].txn
          PROVE  i < j
      <3>1. i \in Known /\ wal'[i] = wal[i] /\ j \in Known /\ wal'[j] = wal[j]
        BY <1>7, <1>12, <2>2
      <3>2. QED
        BY <1>0, <2>2, <3>1 DEF Ends
    <2>3. \A i \in 1 .. e : i <= synced'
      BY <1>1, <1>3, <1>6
    <2>4. \A t \in committed' :
            \E i \in Known' : i <= synced' /\ wal'[i].type = "COMMIT" /\ wal'[i].txn = t
      BY <1>9, <1>12, <2>3
    <2>5. QED
      BY <1>9, <1>12, <2>1, <2>2, <2>4 DEF Ends
  <1>20. Tears'
    <2>1. \A i \in DOMAIN wal' : i <= found'
      BY <1>1, <1>3
    <2>2. ASSUME NEW p \in lost
          PROVE  \E i \in DOMAIN wal' : i < p.at /\ wal'[i].type = "TORN"
      <3>1. PICK i \in DOMAIN wal : i < p.at /\ wal[i].type = "TORN"
        BY <1>0 DEF Tears
      <3>2. i <= found
        BY <1>0, <3>1 DEF Tears
      <3>3. i <= Len(wal')
        BY <1>2, <1>3, <3>1, <3>2
      <3>4. QED
        BY <1>3, <3>1, <3>3
    <2>3. ASSUME NEW p \in puts, p.txn \in committed, p.txn \notin committed'
          PROVE  \E i \in DOMAIN wal' : i < p.at /\ wal'[i].type = "TORN"
      <3>1. p.at \in Known /\ wal[p.at] = PutRecord(p.txn, p.key, p.val)
        BY <1>0 DEF Logged
      <3>2. wal[p.at].type = "PUT" /\ wal[p.at].txn = p.txn
        BY <3>1 DEF PutRecord
      <3>3. PICK j \in Known : j > found /\ wal[j].txn = p.txn /\ e <= found /\ e >= 1
                               /\ e \in DOMAIN wal /\ wal[e].type = "TORN"
        BY <1>11, <2>3
      <3>4. ~(p.at <= found)
        BY <1>0, <3>1, <3>2, <3>3 DEF Fresh
      <3>5. p.at \in Nat
        BY <1>2, <3>1 DEF Known
      <3>6. e < p.at
        BY <1>2, <1>6, <3>3, <3>4, <3>5
      <3>7. e \in DOMAIN wal' /\ wal'[e] = wal[e]
        BY <1>3, <1>6, <3>3
      <3>8. QED
        BY <3>3, <3>6, <3>7
    <2>4. QED
      BY <1>1, <2>1, <2>2, <2>3 DEF Tears
  <1>21. QED
    BY <1>14, <1>15, <1>16, <1>17, <1>18, <1>19, <1>20 DEF IndInv

(* Where the versions to undo are on top, they are the first in the chain, *)
(* as many as there are undo entries.                                      *)
LEMMA OnTopFirst ==
  ASSUME TypeOK, Ids, Logged, Counts, NEW t \in active_txns, Aborting = {},
         NEW x \in Key, OnTop(t, x), NEW n \in 0 .. Len(table[x]), NEW m \in [1 .. n -> Placed(x)],
         Chain(x, n, m)
  PROVE  /\ Undos(t, x) \in 0 .. n
         /\ \A j \in 1 .. n : m[j].txn = t <=> j <= Undos(t, x)
  <1> DEFINE P == {p \in puts : p.txn = t /\ p.key = x}
             J == {j \in 1 .. n : m[j] \in P}
             f == [j \in J |-> m[j]]
             u == Undos(t, x)
  <1>1. n \in Nat /\ (\A j \in 1 .. n : m[j] \in Placed(x) /\ m[j] \in puts /\ m[j].key = x)
    BY DEF TypeOK, Placed
  <1>2. \A j \in 1 .. n : j \in J <=> m[j].txn = t
    BY <1>1
  <1>3. IsFiniteSet(P) /\ u = Cardinality(P) /\ u \in Nat
    <2>1. IsFiniteSet(P)
      BY FS_Subset DEF Counts
    <2>2. u = Cardinality(P)
      BY Zenon DEF Counts, TypeOK
    <2> HIDE DEF P
    <2>3. QED
      BY <2>1, <2>2, FS_CardinalityType
  <1>4. ASSUME NEW p \in P
        PROVE  \E j \in J : m[j] = p
    <2>1. p \in Placed(x) /\ p \in puts /\ p.txn \in active_txns
      BY DEF Placed, Live
    <2>2. ASSUME n >= 1
          PROVE  m[n].at \in Nat /\ p.at \in Nat
      <3>1. n \in 1 .. n
        BY <1>1, <2>2
      <3>2. m[n] \in puts
        BY Zenon, <1>1, <3>1
      <3>3. puts \subseteq PutEntry
        BY Zenon DEF TypeOK
      <3>4. \A q \in puts : q.at \in Nat
        BY <3>3 DEF PutEntry
      <3>5. QED
        BY Zenon, <2>1, <3>2, <3>4
    <2>3. \E j \in 1 .. n : m[j] = p
      <3>1. CASE \A q \in Placed(x) : \E j \in 1 .. n : m[j] = q
        BY <2>1, <3>1
      <3>2. CASE /\ n >= 1
                 /\ \A q \in Placed(x) : q.at >= m[n].at => \E j \in 1 .. n : m[j] = q
                 /\ \A q \in puts : q.at < m[n].at => q.txn \notin active_txns
        BY <2>1, <2>2, <3>2
      <3>3. QED
        BY <3>1, <3>2 DEF Chain
    <2>4. QED
      BY <2>3
  <1>5. ASSUME NEW i \in 1 .. n, NEW j \in 1 .. n, m[i] = m[j]
        PROVE  i = j
    <2>1. m[i].at \in Nat /\ ~(m[i].at > m[j].at) /\ ~(m[j].at > m[i].at)
      BY <1>1, <1>5 DEF TypeOK, PutEntry
    <2>2. ~(i < j) /\ ~(j < i)
      BY <2>1 DEF Chain
    <2>3. QED
      BY <2>2
  <1>6. Cardinality(J) = u /\ IsFiniteSet(J)
    <2>1. IsFiniteSet(1 .. n)
      BY <1>1, FS_Interval
    <2>2. IsFiniteSet(J)
      BY <2>1, FS_Subset
    <2>3. J \subseteq 1 .. n /\ \A j \in J : m[j] \in P
      OBVIOUS
    <2> HIDE DEF J, P
    <2>4. f \in [J -> P] /\ DOMAIN f = J /\ \A j \in J : f[j] = m[j]
      BY <2>3
    <2> HIDE DEF f
    <2>5. IsInjective(f)
      BY <1>5, <2>3, <2>4 DEF IsInjective
    <2>6. \A p \in P : \E j \in J : f[j] = p
      BY <1>4, <2>4
    <2>7. f \in Bijection(J, P)
      BY <2>4, <2>5, <2>6, Zenon DEF Bijection, Injection, Surjection
    <2>8. ExistsBijection(J, P)
      BY <2>7 DEF ExistsBijection
    <2>9. QED
      BY <1>3, <2>2, <2>8, FS_Bijection
  <1>7. Cardinality(1 .. n) = n /\ IsFiniteSet(1 .. n)
    BY <1>1, FS_Interval
  <1>8. J \in SUBSET (1 .. n)
    OBVIOUS
  <1> HIDE DEF J, u
  <1>9. u <= n
    <2>1. Cardinality(J) <= Cardinality(1 .. n)
      BY <1>7, <1>8, FS_Subset, Zenon
    <2>2. QED
      BY <1>6, <1>7, <2>1
  <1>10. \A i \in 1 .. u : i \in J
    <2>1. ASSUME NEW i \in 1 .. u
          PROVE  i \in J
      <3>1. i \in 1 .. n
        BY <1>1, <1>3, <1>9
      <3>2. table[x][i].xmin = t
        BY DEF OnTop, u
      <3>3. table[x][i] = [xmin |-> m[i].txn, val |-> m[i].val]
        BY <3>1, Zenon DEF Chain
      <3>4. m[i].txn = t
        BY <3>2, <3>3
      <3>5. QED
        BY <1>2, <3>1, <3>4
    <2>2. QED
      BY <2>1
  <1>11. J = 1 .. u
    <2>1. Cardinality(1 .. u) = u
      BY <1>3, FS_Interval
    <2>2. 1 .. u \in SUBSET J
      BY <1>10
    <2>3. QED
      BY <1>6, <2>1, <2>2, FS_Subset
  <1>12. \A j \in 1 .. n : m[j].txn = t <=> j <= u
    BY <1>1, <1>2, <1>3, <1>11
  <1>13. QED
    BY <1>1, <1>3, <1>9, <1>12 DEF u

LEMMA PopType ==
  ASSUME NEW c \in Seq(Version), NEW t \in Txn, undo_entries \in [Txn -> Seq(Key)],
         NEW x \in Key
  PROVE  Pop(c, Undos(t, x)) \in Seq(Version)
  <1>1. PICK u : u = Undos(t, x)
    OBVIOUS
  <1>2. u \in Nat
    <2>1. PICK e \in Seq(Key) : e = undo_entries[t]
      OBVIOUS
    <2> DEFINE D == {i \in DOMAIN e : e[i] = x}
    <2>2. 1 \in Int /\ Len(e) \in Int /\ DOMAIN e = 1 .. Len(e)
      OBVIOUS
    <2>3. IsFiniteSet(1 .. Len(e))
      BY <2>2, FS_Interval, Zenon
    <2>4. IsFiniteSet(D)
      BY <2>2, <2>3, FS_Subset
    <2>5. u = Cardinality(D)
      BY <1>1, <2>1 DEF Undos
    <2> HIDE DEF D
    <2>6. QED
      BY <2>4, <2>5, FS_CardinalityType
  <1>3. Len(c) \in Nat /\ \A i \in 1 .. Len(c) : c[i] \in Version
    OBVIOUS
  <1>4. PICK a : a = Min({u + 1, Len(c)})
    OBVIOUS
  <1>5. a \in {u + 1, Len(c)} /\ a <= u + 1
    <2>1. {u + 1, Len(c)} \in SUBSET Nat /\ {u + 1, Len(c)} # {}
      BY <1>2, <1>3
    <2>2. PICK T : T = {u + 1, Len(c)}
      OBVIOUS
    <2>3. Min(T) \in T /\ \A y \in T : Min(T) <= y
      BY <2>1, <2>2, MinIs
    <2>4. QED
      BY <1>4, <2>2, <2>3
  <1>6. CASE u = 0
    BY <1>1, <1>6 DEF Pop
  <1>7. CASE u # 0
    <2>2. CASE c = << >>
      BY <1>1, <2>2 DEF Pop
    <2>3. CASE c # << >>
      <3>0. Pop(c, u) = SubSeq(c, a, Len(c))
        BY <1>4, <1>7, <2>3 DEF Pop
      <3>1. a \in Int /\ a >= 1 /\ Len(c) \in Int
        BY <1>2, <1>3, <1>5, <2>3
      <3>2. \A i \in a .. Len(c) : c[i] \in Version
        BY <1>3, <3>1
      <3>3. SubSeq(c, a, Len(c)) \in Seq(Version)
        BY <3>1, <3>2, SubSeqProperties
      <3>4. QED
        BY <1>1, <3>0, <3>3
    <2>4. QED
      BY <2>2, <2>3
  <1>8. QED
    BY <1>6, <1>7

LEMMA AbortUndoKeeps ==
  ASSUME IndInv, NEW t \in Txn, AbortUndo(t)
  PROVE  IndInv'
  <1> DEFINE r == EndRecord("ABORT", t)
  <1>0. /\ TypeOK /\ Ids /\ Views /\ Snapshots /\ Logged /\ Ends /\ Tears /\ Fresh
        /\ Counts /\ Chains
    BY DEF IndInv
  <1>1. /\ up /\ latch = Free /\ t \in active_txns
        /\ table' = Rollback(t)
        /\ wal' = Append(wal, r) /\ synced' = Len(wal') /\ latch' = <<"abort", t>>
        /\ UNCHANGED <<next_txn_id, active_txns, read_view, undo_entries, up, crashes,
                       committed, puts, snapshot, found, lost>>
    BY DEF AbortUndo, manager
  <1>2. \A x \in Key \ spoiled' : OnTop(t, x) /\ x \notin spoiled
    BY DEF AbortUndo
  <1>3. r \in Record /\ r.type = "ABORT" /\ r.txn = t
    BY EndRecordType
  <1> HIDE DEF r
  <1>4. /\ wal' \in Seq(Record) /\ Len(wal) \in Nat /\ Len(wal') = Len(wal) + 1
        /\ DOMAIN wal = 1 .. Len(wal) /\ DOMAIN wal' = 1 .. Len(wal) + 1
        /\ \A i \in DOMAIN wal : i \in DOMAIN wal' /\ wal'[i] = wal[i]
        /\ \A i \in DOMAIN wal' : i \in DOMAIN wal \/ i = Len(wal) + 1
        /\ Len(wal) + 1 \in DOMAIN wal' /\ wal'[Len(wal) + 1] = r
        /\ Known \subseteq DOMAIN wal /\ Known' = Known \cup {Len(wal) + 1}
        /\ found \in Nat /\ Len(wal) + 1 > found
    BY <1>0, <1>1, <1>3, Grows
  <1>5. /\ Committing = {} /\ Committing' = {} /\ Aborting = {} /\ Aborting' = {t}
        /\ latch[2] = 0 /\ latch'[2] = t /\ t \notin committed
        /\ Live = committed \cup active_txns /\ Live' = committed \cup (active_txns \ {t})
        /\ \A u : Seen(u)' = Seen(u)
    BY <1>0, <1>1 DEF Committing, Aborting, Free, Live, Ids, Seen
  <1>6. ASSUME NEW x \in Key \ spoiled'
        PROVE  \E n \in 0 .. Len(table'[x]) : \E m \in [1 .. n -> Placed(x)'] : Chain(x, n, m)'
    <2>1. PICK n \in 0 .. Len(table[x]) : \E m \in [1 .. n -> Placed(x)] : Chain(x, n, m)
      BY <1>0, <1>1, <1>2 DEF Chains
    <2>2. PICK m \in [1 .. n -> Placed(x)] : Chain(x, n, m)
      BY <2>1
    <2>3. PICK u : u = Undos(t, x)
      OBVIOUS
    <2>4. u \in 0 .. n /\ \A j \in 1 .. n : m[j].txn = t <=> j <= u
      BY <1>0, <1>1, <1>2, <1>5, <2>2, <2>3, OnTopFirst
    <2>5. PICK c : c = table[x]
      OBVIOUS
    <2>6. c \in Seq(Version) /\ Len(c) \in Nat /\ n \in Nat /\ u \in Nat /\ u <= n /\ n <= Len(c)
      BY <1>0, <2>4, <2>5 DEF TypeOK
    <2>7. ASSUME u > 0
          PROVE  u + 1 <= Len(c)
      <3>1. CASE (n = 0 /\ c = << >>) \/ (Len(c) = n + 1 /\ c[n + 1] = Bottom)
        BY <2>6, <2>7, <3>1
      <3>2. CASE n >= 1 /\ Len(c) = n /\ m[n].txn \in committed
        <4>1. n \in 1 .. n /\ m[n].txn # t
          BY <1>5, <2>6, <3>2
        <4>2. ~(n <= u)
          BY <2>4, <4>1
        <4>3. QED
          BY <2>6, <3>2, <4>2
      <3>3. QED
        BY <2>2, <2>5, <3>1, <3>2 DEF Chain
    <2>8. PICK c2 : c2 = table'[x]
      OBVIOUS
    <2>9. c2 = IF u = 0 THEN c ELSE SubSeq(c, u + 1, Len(c))
      <3>1. c2 = Pop(c, u)
        BY <1>1, <2>3, <2>5, <2>8 DEF Rollback
      <3>2. ASSUME u # 0
            PROVE  Min({u + 1, Len(c)}) = u + 1
        <4>1. {u + 1, Len(c)} \in SUBSET Nat /\ {u + 1, Len(c)} # {} /\ u + 1 <= Len(c)
          BY <2>6, <2>7, <3>2
        <4>2. PICK T : T = {u + 1, Len(c)}
          OBVIOUS
        <4>3. Min(T) \in T /\ \A y \in T : Min(T) <= y
          BY <4>1, <4>2, MinIs
        <4>4. QED
          BY <2>6, <4>1, <4>2, <4>3
      <3>3. QED
        <4>1. u # 0 => c # << >>
          BY <2>6, <2>7
        <4>2. u = 0 => c2 = c
          BY <3>1 DEF Pop
        <4>3. QED
          BY <3>1, <3>2, <4>1, <4>2 DEF Pop
    <2>10. /\ c2 \in Seq(Version) /\ Len(c2) = Len(c) - u
           /\ \A i \in 1 .. Len(c) - u : c2[i] = c[i + u]
      <3>1. CASE u = 0
        BY <2>6, <2>9, <3>1
      <3>2. CASE u # 0
        <4>1. c2 = SubSeq(c, u + 1, Len(c)) /\ u + 1 <= Len(c)
          BY <2>6, <2>7, <2>9, <3>2
        <4>2. \A i \in u + 1 .. Len(c) : c[i] \in Version
          BY <2>6
        <4>3. c2 \in Seq(Version)
          BY <2>6, <4>1, <4>2, SubSeqProperties
        <4>4. Len(c2) = Len(c) - u
          BY <2>6, <4>1
        <4>5. ASSUME NEW i \in 1 .. Len(c) - u
              PROVE  c2[i] = c[i + u]
          BY <2>6, <4>1
        <4>6. QED
          BY <4>3, <4>4, <4>5
      <3>3. QED
        BY <3>1, <3>2
    <2>11. PICK n2 : n2 = n - u
      OBVIOUS
    <2>12. n2 \in Nat /\ n2 + u = n /\ n2 \in 0 .. Len(c2)
      BY <2>6, <2>10, <2>11
    <2>13. Placed(x)' = {p \in Placed(x) : p.txn # t}
      BY <1>1, <1>5 DEF Placed
    <2>14. PICK m2 : m2 = [i \in 1 .. n2 |-> m[i + u]]
      OBVIOUS
    <2>15. \A i \in 1 .. n2 : i + u \in 1 .. n /\ m2[i] = m[i + u] /\ m[i + u] \in Placed(x)'
      <3>1. ASSUME NEW i \in 1 .. n2
            PROVE  i + u \in 1 .. n /\ ~(i + u <= u)
        BY <2>6, <2>12
      <3>2. QED
        BY <2>4, <2>13, <2>14, <3>1
    <2>16. m2 \in [1 .. n2 -> Placed(x)']
      BY <2>14, <2>15
    <2>17. ASSUME NEW i \in 1 .. n2, NEW j \in 1 .. n2, i < j
           PROVE  m2[i].at > m2[j].at
      <3>1. i + u < j + u
        BY <2>6, <2>12, <2>17
      <3>2. QED
        BY <2>2, <2>15, <3>1 DEF Chain
    <2>18. ASSUME NEW i \in 1 .. n2
           PROVE  c2[i] = [xmin |-> m2[i].txn, val |-> m2[i].val]
      <3>1. c[i + u] = [xmin |-> m[i + u].txn, val |-> m[i + u].val]
        BY <2>2, <2>5, <2>15, Zenon DEF Chain
      <3>2. i \in 1 .. Len(c) - u
        BY <2>6, <2>12
      <3>3. QED
        BY <2>10, <2>15, <3>1, <3>2
    <2>19. ASSUME NEW p \in Placed(x)', NEW j \in 1 .. n, m[j] = p
           PROVE  \E i \in 1 .. n2 : m2[i] = p
      <3>1. ~(j <= u)
        BY <2>4, <2>13, <2>19
      <3>2. j - u \in 1 .. n2 /\ (j - u) + u = j
        BY <2>6, <2>12, <3>1
      <3>3. QED
        BY <2>15, <2>19, <3>2
    <2>20. CASE /\ \A q \in Placed(x) : \E j \in 1 .. n : m[j] = q
                /\ (n = 0 /\ c = << >>) \/ (Len(c) = n + 1 /\ c[n + 1] = Bottom)
      <3>1. \A q \in Placed(x)' : \E j \in 1 .. n2 : m2[j] = q
        BY <2>13, <2>19, <2>20
      <3>2. (n2 = 0 /\ c2 = << >>) \/ (Len(c2) = n2 + 1 /\ c2[n2 + 1] = Bottom)
        <4>1. CASE n = 0 /\ c = << >>
          BY <2>6, <2>9, <2>11, <4>1
        <4>2. CASE Len(c) = n + 1 /\ c[n + 1] = Bottom
          <5>1. Len(c2) = n2 + 1 /\ n2 + 1 \in 1 .. Len(c) - u /\ (n2 + 1) + u = n + 1
            BY <2>6, <2>10, <2>12, <4>2
          <5>2. QED
            BY <2>10, <4>2, <5>1
        <4>3. QED
          BY <2>20, <4>1, <4>2
      <3>3. Chain(x, n2, m2)'
        BY <2>8, <2>17, <2>18, <3>1, <3>2 DEF Chain, Bottom
      <3>4. QED
        BY <2>8, <2>10, <2>12, <2>16, <3>3
    <2>21. CASE /\ n >= 1 /\ Len(c) = n /\ m[n].txn \in committed
                /\ \A q \in Placed(x) : q.at >= m[n].at => \E j \in 1 .. n : m[j] = q
                /\ \A q \in puts : q.at < m[n].at => q.txn \notin active_txns
                /\ \A y \in active_txns : m[n].txn \in Seen(y)
      <3>1. n \in 1 .. n /\ m[n].txn # t
        BY <1>5, <2>6, <2>21
      <3>2. ~(n <= u)
        BY <2>4, <3>1
      <3>3. n2 >= 1 /\ n2 \in 1 .. n2 /\ Len(c2) = n2
        BY <2>6, <2>10, <2>12, <2>21, <3>2
      <3>4. m2[n2] = m[n]
        BY <2>12, <2>15, <3>3
      <3>5. \A q \in Placed(x)' : q.at >= m2[n2].at => \E j \in 1 .. n2 : m2[j] = q
        BY <2>13, <2>19, <2>21, <3>4
      <3>6. /\ \A q \in puts' : q.at < m2[n2].at => q.txn \notin active_txns'
            /\ \A y \in active_txns' : m2[n2].txn \in Seen(y)'
            /\ m2[n2].txn \in committed'
        BY <1>1, <1>5, <2>21, <3>4
      <3>7. Chain(x, n2, m2)'
        BY <2>8, <2>17, <2>18, <3>3, <3>5, <3>6 DEF Chain
      <3>8. QED
        BY <2>8, <2>10, <2>12, <2>16, <3>7
    <2>22. QED
      BY <2>2, <2>5, <2>20, <2>21 DEF Chain
  <1>7. Chains'
    BY <1>6 DEF Chains
  <1>8. TypeOK'
    <2>1. synced' \in 0 .. Len(wal')
      BY <1>1, <1>4
    <2>2. table' \in [Key -> Seq(Version)]
      <3>1. ASSUME NEW x \in Key
            PROVE  Pop(table[x], Undos(t, x)) \in Seq(Version)
        BY <1>0, <3>1, PopType DEF TypeOK
      <3>2. QED
        BY <1>1, <3>1 DEF Rollback
    <2>3. spoiled' \subseteq Key
      BY <1>0 DEF TypeOK, AbortUndo
    <2>4. found' \in 0 .. Len(wal')
      BY <1>0, <1>1, <1>4 DEF TypeOK
    <2>5. QED
      BY <1>0, <1>1, <1>4, <2>1, <2>2, <2>3, <2>4 DEF TypeOK
  <1>9. Ids' /\ Views'
    <2>1. \A i \in Known' : wal'[i].txn < next_txn_id
      BY <1>0, <1>1, <1>3, <1>4 DEF Ids
    <2>2. Ids'
      BY <1>0, <1>1, <2>1 DEF Ids, Free
    <2>3. QED
      BY <1>0, <1>1, <2>2 DEF Views
  <1>10. Snapshots' /\ Counts'
    <2>1. ASSUME NEW u \in active_txns', NEW k \in Key
          PROVE  snapshot'[u][k] = LastPut(k, Seen(u))'
      <3>1. LastPut(k, Seen(u))' = LastPut(k, Seen(u))
        BY <1>1, <1>5 DEF LastPut, PutsOf
      <3>2. QED
        BY <1>0, <1>1, <3>1 DEF Snapshots
    <2>2. Snapshots'
      BY <1>0, <1>1, <1>5, <2>1 DEF Snapshots
    <2>3. QED
      BY <1>0, <1>1, <2>2 DEF Counts, Undos
  <1>11. Logged'
    <2>1. \A p \in puts : p.at \in Known' /\ wal'[p.at] = PutRecord(p.txn, p.key, p.val)
      BY <1>0, <1>4 DEF Logged
    <2>2. ASSUME NEW i \in Known', wal'[i].type = "PUT",
                 wal'[i].txn \in committed \cup active_txns
          PROVE  [at |-> i, txn |-> wal'[i].txn, key |-> wal'[i].key, val |-> wal'[i].val] \in puts
      <3>1. i \in Known /\ wal'[i] = wal[i]
        BY <1>3, <1>4, <2>2
      <3>2. QED
        BY <1>0, <2>2, <3>1 DEF Logged
    <2>3. QED
      BY <1>1, <2>1, <2>2 DEF Logged
  <1>12. Ends'
    <2>1. ASSUME NEW i \in Known', wal'[i].type \in {"PUT", "COMMIT"}
          PROVE  i \in Known /\ wal'[i] = wal[i]
      BY <1>3, <1>4, <2>1
    <2>2. ASSUME NEW u \in committed
          PROVE  \E i \in Known' : i <= synced' /\ wal'[i].type = "COMMIT" /\ wal'[i].txn = u
      <3>1. PICK i \in Known : i <= synced /\ wal[i].type = "COMMIT" /\ wal[i].txn = u
        BY <1>0 DEF Ends
      <3>2. i \in Known' /\ i <= synced' /\ wal'[i] = wal[i]
        BY <1>1, <1>4
      <3>3. QED
        BY <3>1, <3>2
    <2>3. \A i \in Known' : wal'[i].type = "COMMIT" => wal'[i].txn \in committed
      BY <1>0, <1>5, <2>1 DEF Ends
    <2>4. ASSUME NEW i \in Known', NEW j \in Known', wal'[i].type = "PUT",
                 wal'[j].type = "COMMIT", wal'[i].txn = wal'[j].txn
          PROVE  i < j
      BY <1>0, <2>1, <2>4 DEF Ends
    <2>5. QED
      BY <1>1, <1>5, <2>2, <2>3, <2>4 DEF Ends
  <1>13. Tears'
    BY <1>0, <1>1, <1>3, StaysTorn
  <1>14. Fresh'
    <2>1. latch[2] \notin active_txns
      BY <1>0, <1>5 DEF TypeOK, Txn
    <2>2. QED
      BY <1>0, <1>1, <1>3, <1>5, <2>1, StaysFresh
  <1>15. QED
    BY <1>7, <1>8, <1>9, <1>10, <1>11, <1>12, <1>13, <1>14 DEF IndInv

-----------------------------------------------------------------------------
(* The invariant holds.                                                    *)

LEMMA InitIndInv ==
  ASSUME Init
  PROVE  IndInv
  <1>1. << >> \in Seq(Key) /\ << >> \in Seq(Version) /\ << >> \in Seq(Record)
    OBVIOUS
  <1>2. DOMAIN wal = {} /\ Len(wal) = 0 /\ Len(<< >>) = 0 /\ Known = {}
    BY DEF Init, Known
  <1>3. TypeOK
    <2>1. next_txn_id \in 1 .. MaxTxn + 1 /\ crashes \in 0 .. MaxCrashes
      BY BoundAssumption DEF Init
    <2>2. read_view \in [Txn -> [creator : Txn \cup {0}, up_limit : Txn,
                                 low_limit : Txn \cup {0}, active : SUBSET Txn]]
      <3>1. ASSUME NEW t \in Txn
            PROVE  1 \in Txn
        BY BoundAssumption DEF Txn
      <3>2. QED
        BY <3>1 DEF Init, NoView
    <2>3. synced \in 0 .. Len(wal) /\ up \in BOOLEAN
      BY <1>2 DEF Init
    <2>4. latch \in {"free", "commit", "abort"} \X (Txn \cup {0})
      BY DEF Init, Free
    <2>5. /\ undo_entries \in [Txn -> Seq(Key)] /\ table \in [Key -> Seq(Version)]
          /\ wal \in Seq(Record) /\ active_txns \in SUBSET Txn
      BY <1>1 DEF Init
    <2>6. /\ committed \in SUBSET Txn
          /\ puts \subseteq PutEntry
          /\ snapshot \in [Txn -> [Key -> Value \cup {Absent}]]
          /\ found \in 0 .. Len(wal) /\ spoiled \subseteq Key /\ lost \subseteq PutEntry
      BY <1>2 DEF Init
    <2>7. QED
      BY <2>1, <2>2, <2>3, <2>4, <2>5, <2>6 DEF TypeOK
  <1>4. Ids /\ Views /\ Snapshots /\ Logged /\ Tears /\ Fresh
    BY <1>2 DEF Init, Ids, Views, Snapshots, Logged, Tears, Fresh
  <1>5. Ends
    <2>1. Committing = {}
      BY DEF Init, Committing, Free
    <2>2. QED
      BY <1>2, <2>1 DEF Init, Ends
  <1>6. Counts
    BY FS_EmptySet DEF Init, Counts
  <1>7. Chains
    <2>1. ASSUME NEW k \in Key \ spoiled
          PROVE  \E n \in 0 .. Len(table[k]) : \E m \in [1 .. n -> Placed(k)] : Chain(k, n, m)
      <3> DEFINE m == [i \in 1 .. 0 |-> 0]
      <3>1. table[k] = << >> /\ Placed(k) = {}
        BY DEF Init, Placed
      <3>2. m \in [1 .. 0 -> Placed(k)]
        OBVIOUS
      <3> HIDE DEF m
      <3>3. Chain(k, 0, m)
        BY <3>1 DEF Chain
      <3>4. 0 \in 0 .. Len(table[k])
        BY <3>1
      <3>5. QED
        BY <3>2, <3>3, <3>4, Zenon
    <2>2. QED
      BY <2>1 DEF Chains
  <1>8. QED
    BY <1>3, <1>4, <1>5, <1>6, <1>7 DEF IndInv

LEMMA StutterKeeps ==
  ASSUME IndInv, UNCHANGED vars
  PROVE  IndInv'
  <1>1. UNCHANGED <<next_txn_id, active_txns, read_view, undo_entries, table, latch, wal,
                    synced, up, crashes, committed, puts, snapshot, found, spoiled, lost>>
    BY DEF vars, manager, history
  <1>2. Known' = Known /\ Live' = Live /\ Committing' = Committing /\ \A u : Seen(u)' = Seen(u)
    BY <1>1 DEF Known, Live, Aborting, Committing, Seen
  <1>3. TypeOK' /\ Ids' /\ Views' /\ Fresh' /\ Logged' /\ Tears'
    <2>1. TypeOK'
      BY <1>1 DEF IndInv, TypeOK
    <2>2. Ids' /\ Views'
      BY <1>1, <1>2 DEF IndInv, Ids, Views
    <2>3. Fresh'
      BY <1>1, <1>2 DEF IndInv, Fresh
    <2>4. Logged' /\ Tears'
      BY <1>1, <1>2 DEF IndInv, Logged, Tears
    <2>5. QED
      BY <2>1, <2>2, <2>3, <2>4
  <1>4. Ends'
    BY <1>1, <1>2 DEF IndInv, Ends
  <1>5. Snapshots'
    BY <1>1, <1>2 DEF IndInv, Snapshots, LastPut, PutsOf
  <1>6. Counts'
    BY <1>1 DEF IndInv, Counts, Undos
  <1>7. Chains'
    <2>1. CASE up
      <3>1. Snapshots /\ Counts /\ Chains
        BY DEF IndInv
      <3>2. QED
        BY <1>1, <1>2, <2>1, <3>1, EndKeeps
    <2>2. CASE ~up
      BY <1>1, <2>2 DEF Chains
    <2>3. QED
      BY <2>1, <2>2
  <1>8. QED
    BY <1>3, <1>4, <1>5, <1>6, <1>7 DEF IndInv

LEMMA EngineInvariant == Spec => []IndInv
  <1>1. Init => IndInv
    BY InitIndInv
  <1>2. IndInv /\ [Next]_vars => IndInv'
    <2> SUFFICES ASSUME IndInv, [Next]_vars PROVE IndInv'
      OBVIOUS
    <2>1. CASE begin_transaction
      BY <2>1, BeginKeeps
    <2>2. ASSUME NEW t \in Txn, NEW k \in Key, NEW v \in Value, put(t, k, v)
          PROVE  IndInv'
      BY <2>2, PutKeeps
    <2>3. ASSUME NEW t \in Txn, CommitLog(t)
          PROVE  IndInv'
      BY <2>3, CommitLogKeeps
    <2>4. ASSUME NEW t \in Txn, CommitDone(t)
          PROVE  IndInv'
      BY <2>4, CommitDoneKeeps
    <2>5. ASSUME NEW t \in Txn, AbortUndo(t)
          PROVE  IndInv'
      BY <2>5, AbortUndoKeeps
    <2>6. ASSUME NEW t \in Txn, AbortDone(t)
          PROVE  IndInv'
      BY <2>6, AbortDoneKeeps
    <2>7. CASE Crash
      BY <2>7, CrashKeeps
    <2>8. CASE recover_from_wal
      BY <2>8, RecoverKeeps
    <2>9. CASE UNCHANGED vars
      BY <2>9, StutterKeeps
    <2>10. QED
      BY <2>1, <2>2, <2>3, <2>4, <2>5, <2>6, <2>7, <2>8, <2>9 DEF Next
  <1>3. QED
    BY <1>1, <1>2, PTL DEF Spec

-----------------------------------------------------------------------------
(* What it is for.                                                         *)

LEMMA VisibleIs ==
  ASSUME TypeOK, Views, NEW t \in active_txns, NEW u \in Nat
  PROVE  is_visible(read_view[t], u) <=> u = t \/ (u < t /\ u \notin read_view[t].active)
  <1>1. PICK v : v = read_view[t]
    OBVIOUS
  <1>2. /\ v.creator = t /\ v.low_limit = t /\ v.up_limit <= t
        /\ \A x \in v.active : x < t /\ v.up_limit <= x
    BY <1>1 DEF Views
  <1>3. t \in Nat /\ v.up_limit \in Nat /\ v.active \subseteq Nat
    BY <1>1 DEF TypeOK, Txn
  <1>4. u < v.up_limit => u < t /\ u \notin v.active
    BY <1>2, <1>3
  <1>5. is_visible(v, u) <=> u = t \/ u < v.up_limit \/ (u < t /\ u \notin v.active)
    BY <1>2 DEF is_visible
  <1>6. QED
    BY <1>1, <1>4, <1>5

(* What an active transaction reads: its puts and those it sees. *)
LEMMA ActiveReads ==
  ASSUME IndInv, NEW t \in active_txns, t \notin Aborting, NEW k \in Key \ spoiled
  PROVE  get(read_view[t], k) = Answer(k, LastPut(k, Seen(t) \cup {t}))
  <1>0. TypeOK /\ Ids /\ Views /\ Logged /\ Chains
    BY DEF IndInv
  <1>1. up /\ t \in Txn /\ committed \in SUBSET Txn /\ active_txns \in SUBSET Txn
        /\ committed \cap active_txns = {} /\ read_view[t].active \in SUBSET Txn
    BY <1>0 DEF Ids, TypeOK
  <1>2. PICK n \in 0 .. Len(table[k]) : \E m \in [1 .. n -> Placed(k)] : Chain(k, n, m)
    BY <1>0, <1>1 DEF Chains
  <1>3. PICK m \in [1 .. n -> Placed(k)] : Chain(k, n, m)
    BY <1>2
  <1>4. PICK V : V = Seen(t) \cup {t}
    OBVIOUS
  <1>5. V \in SUBSET Live
    BY <1>4 DEF Live, Seen
  <1>6. is_visible(read_view[t], 0)
    <2>1. 0 \in Nat /\ 0 < t /\ 0 \notin read_view[t].active
      BY <1>1 DEF Txn
    <2>2. QED
      BY <1>0, <2>1, VisibleIs
  <1>7. ASSUME NEW j \in 1 .. n
        PROVE  is_visible(read_view[t], m[j].txn) <=> m[j].txn \in V
    <2>1. m[j].txn \in Live
      BY DEF Placed
    <2>2. m[j].txn \in Nat
      <3>1. m[j].txn \in committed \/ m[j].txn \in active_txns
        BY <2>1 DEF Live
      <3>2. m[j].txn \in Txn
        BY <1>1, <3>1
      <3>3. QED
        BY <3>2 DEF Txn
    <2>3. is_visible(read_view[t], m[j].txn)
            <=> m[j].txn = t \/ (m[j].txn < t /\ m[j].txn \notin read_view[t].active)
      BY <1>0, <2>2, VisibleIs
    <2>4. CASE m[j].txn \in committed
      BY <1>4, <2>3, <2>4 DEF Seen
    <2>5. CASE m[j].txn \in active_txns
      <3>1. m[j].txn < t => m[j].txn \in read_view[t].active
        BY <1>0, <2>5 DEF Views
      <3>2. m[j].txn \notin Seen(t)
        BY <1>1, <2>5 DEF Seen
      <3>3. QED
        BY <1>4, <2>3, <3>1, <3>2
    <2>6. QED
      BY <2>1, <2>4, <2>5 DEF Live
  <1>8. ASSUME n >= 1, Len(table[k]) = n
        PROVE  m[n].txn \in V
    <2>1. n # 0 /\ ~(n = n + 1)
      BY <1>8
    <2>2. QED
      BY <1>3, <1>4, <1>8, <2>1 DEF Chain
  <1>9. PICK view : view = read_view[t]
    OBVIOUS
  <1>10. get(view, k) = Answer(k, LastPut(k, V))
    BY <1>0, <1>3, <1>5, <1>6, <1>7, <1>8, <1>9, ReadIs
  <1>11. QED
    BY <1>4, <1>9, <1>10

(* What a transaction that begins now reads: the committed puts. *)
LEMMA NewcomerReads ==
  ASSUME IndInv, up, next_txn_id <= MaxTxn, NEW k \in Key \ spoiled
  PROVE  get(ReadViewOf(next_txn_id), k) = Answer(k, LastPut(k, committed))
  <1>0. TypeOK /\ Ids /\ Logged /\ Chains
    BY DEF IndInv
  <1>1. PICK x : x = next_txn_id
    OBVIOUS
  <1>2. /\ x \in Nat /\ x >= 1 /\ committed \in SUBSET Nat /\ active_txns \in SUBSET Nat
        /\ 0 \notin active_txns /\ committed \cap active_txns = {}
        /\ \A u \in committed \cup active_txns : u < x
    BY <1>0, <1>1, BoundAssumption DEF Ids, TypeOK, Txn
  <1>3. PICK w : w = UpLimit(x)
    OBVIOUS
  <1>4. w \in Nat /\ w <= x /\ w >= 1 /\ \A u \in active_txns : w <= u
    <2> DEFINE S == active_txns \cup {x}
    <2>1. S \in SUBSET Nat /\ S # {} /\ (\A y \in S : y >= 1) /\ x \in S
      BY <1>2
    <2>2. w = Min(S)
      BY <1>3 DEF UpLimit
    <2>3. active_txns \subseteq S
      OBVIOUS
    <2> HIDE DEF S
    <2>4. Min(S) \in S /\ \A y \in S : Min(S) <= y
      BY <2>1, MinIs
    <2>5. QED
      BY <2>1, <2>2, <2>3, <2>4
  <1>5. PICK view : view = ReadViewOf(x)
    OBVIOUS
  <1>6. ASSUME NEW u \in Nat
        PROVE  is_visible(view, u) <=> u = x \/ u < w \/ (u < x /\ u \notin active_txns)
    BY <1>3, <1>5 DEF is_visible, ReadViewOf
  <1>7. is_visible(view, 0)
    BY <1>4, <1>6
  <1>8. PICK n \in 0 .. Len(table[k]) : \E m \in [1 .. n -> Placed(k)] : Chain(k, n, m)
    BY <1>0 DEF Chains
  <1>9. PICK m \in [1 .. n -> Placed(k)] : Chain(k, n, m)
    BY <1>8
  <1>10. ASSUME NEW j \in 1 .. n
         PROVE  is_visible(view, m[j].txn) <=> m[j].txn \in committed
    <2>1. m[j].txn \in committed \cup active_txns
      BY DEF Placed, Live
    <2>2. PICK u : u = m[j].txn
      OBVIOUS
    <2>3. u \in Nat /\ u < x /\ u # x
      <3>1. u \in committed \cup active_txns
        BY <2>1, <2>2
      <3>2. u \in Nat /\ u < x
        BY <1>2, <3>1
      <3>3. QED
        BY <1>2, <3>2
    <2>4. u \in active_txns => ~(u < w)
      BY <1>2, <1>4, <2>3
    <2>5. QED
      BY <1>2, <1>6, <2>1, <2>2, <2>3, <2>4
  <1>11. ASSUME n >= 1, Len(table[k]) = n
         PROVE  m[n].txn \in committed
    <2>1. n # 0 /\ ~(n = n + 1)
      BY <1>11
    <2>2. QED
      BY <1>9, <1>11, <2>1 DEF Chain
  <1>12. committed \in SUBSET Live
    BY DEF Live
  <1>13. get(view, k) = Answer(k, LastPut(k, committed))
    BY <1>0, <1>7, <1>9, <1>10, <1>11, <1>12, ReadIs
  <1>14. QED
    BY <1>1, <1>5, <1>13

LEMMA IndInvStable ==
  ASSUME IndInv
  PROVE  SnapshotStable
  <1> SUFFICES ASSUME NEW t \in active_txns \ {latch[2]}, NEW k \in Key \ spoiled
               PROVE  get(read_view[t], k) =
                        IF Undos(t, k) > 0 THEN LastPut(k, {t}) ELSE Answer(k, snapshot[t][k])
    BY DEF SnapshotStable
  <1>0. TypeOK /\ Logged /\ Snapshots /\ Counts
    BY DEF IndInv
  <1>1. PICK V : V = Seen(t) \cup {t}
    OBVIOUS
  <1>2. get(read_view[t], k) = Answer(k, LastPut(k, V))
    <2>1. t \notin Aborting
      BY DEF Aborting
    <2>2. QED
      BY <1>1, <2>1, ActiveReads
  <1> DEFINE P == {p \in puts : p.txn = t /\ p.key = k}
  <1>3. IsFiniteSet(P) /\ Undos(t, k) = Cardinality(P)
    <2>1. IsFiniteSet(P)
      BY <1>0, FS_Subset DEF Counts
    <2>2. Undos(t, k) = Cardinality(P)
      BY <1>0, Zenon DEF Counts
    <2>3. QED
      BY <2>1, <2>2
  <1>4. CASE P = {}
    <2>1. ~(Undos(t, k) > 0)
      <3> HIDE DEF P
      <3>1. Undos(t, k) = 0
        BY <1>3, <1>4, FS_EmptySet
      <3>2. QED
        BY <3>1
    <2>2. PutsOf(k, V) = PutsOf(k, Seen(t))
      BY <1>1, <1>4 DEF PutsOf
    <2>3. snapshot[t][k] = LastPut(k, Seen(t))
      BY <1>0 DEF Snapshots
    <2>4. QED
      BY <1>2, <2>1, <2>2, <2>3 DEF LastPut
  <1>5. CASE P # {}
    <2>1. Undos(t, k) > 0
      <3> HIDE DEF P
      <3>1. Cardinality(P) \in Nat /\ Cardinality(P) # 0
        BY <1>3, <1>5, FS_CardinalityType, FS_EmptySet
      <3>2. QED
        BY <1>3, <3>1
    <2>2. PICK q \in puts : q.key = k /\ q.txn = t
      BY <1>5
    <2>3. PICK W : W = {t}
      OBVIOUS
    <2>a. TypeOK /\ Logged /\ q \in puts /\ q.key = k /\ q.txn \in W
      BY <1>0, <2>2, <2>3
    <2>b. \E p \in puts : /\ p.key = k /\ p.txn \in W
                          /\ \A x \in puts : x.key = k /\ x.txn \in W => x.at <= p.at
      BY <2>a, LastExists
    <2>4. PICK p \in puts : /\ p.key = k /\ p.txn \in W
                            /\ \A x \in puts : x.key = k /\ x.txn \in W => x.at <= p.at
      BY <2>b
    <2>5. LastPut(k, W) = p.val
      BY <1>0, <2>4, LastPutIs
    <2>6. ASSUME NEW x \in puts, x.key = k, x.txn \in V
          PROVE  x.at <= p.at
      <3>1. p.at \in Nat /\ x.at \in Nat /\ p.txn = t
        BY <1>0, <2>3, <2>4 DEF TypeOK, PutEntry
      <3>2. CASE x.txn = t
        BY <2>3, <2>4, <2>6, <3>2
      <3>3. CASE x.txn \in Seen(t)
        <4>1. x.at < p.at
          BY <1>0, <3>1, <3>3 DEF Snapshots
        <4>2. QED
          BY <3>1, <4>1
      <3>4. QED
        BY <1>1, <2>6, <3>2, <3>3
    <2>7. LastPut(k, V) = p.val
      BY <1>0, <1>1, <2>3, <2>4, <2>6, LastPutIs
    <2>8. p.val # Absent
      BY <1>0, ValueAssumption DEF TypeOK, PutEntry
    <2>9. QED
      BY <1>2, <2>1, <2>3, <2>5, <2>7, <2>8 DEF Answer
  <1>6. QED
    BY <1>4, <1>5

(* TransactionManager never hands out an id of which recovery may still    *)
(* read records: recover_from_wal starts above every id it has read, so    *)
(* that a COMMIT never brings back the puts of a transaction that died in  *)
(* a crash, however many crashes and torn PUTs there are.                  *)
THEOREM IdsNeverReused == Spec => []IdsFresh
  <1>1. IndInv => IdsFresh
    <2> SUFFICES ASSUME IndInv PROVE IdsFresh
      OBVIOUS
    <2>1. TypeOK /\ Fresh
      BY DEF IndInv
    <2>2. DOMAIN Readable(wal) \subseteq Known
      BY <2>1, ReadableKnown
    <2>3. QED
      BY <2>1, <2>2 DEF IdsFresh, Fresh
  <1>2. QED
    BY <1>1, EngineInvariant, PTL

(* Snapshot isolation: get() returns a transaction's own last put of the   *)
(* key or, without one, the value committed when it began (none of them    *)
(* the empty string once the key has a slot), through every put, commit    *)
(* and abort of the others, on every key of which no abort has removed a   *)
(* version of another transaction since the last crash.                    *)
THEOREM ReadsFromSnapshot == Spec => []SnapshotStable
  <1>1. IndInv => SnapshotStable
    BY IndInvStable
  <1>2. QED
    BY <1>1, EngineInvariant, PTL

(* Atomicity and durability: whoever begins now, after any commits, aborts,*)
(* crashes and recoveries, reads for each such key the last put of a       *)
(* committed transaction, and a crash loses no committed put but one that  *)
(* lies behind a torn PUT in the WAL.                                      *)
THEOREM CommitsSurvive == Spec => []CommittedState
  <1>1. IndInv => CommittedState
    <2> SUFFICES ASSUME IndInv PROVE CommittedState
      OBVIOUS
    <2>1. TypeOK /\ Tears
      BY DEF IndInv
    <2>2. ASSUME NEW p \in lost
          PROVE  \E i \in 1 .. p.at - 1 : wal[i].type = "TORN"
      <3>1. PICK i \in DOMAIN wal : i < p.at /\ wal[i].type = "TORN"
        BY <2>1 DEF Tears
      <3>2. i \in 1 .. Len(wal) /\ p.at \in Nat /\ Len(wal) \in Nat
        BY <2>1 DEF TypeOK, PutEntry
      <3>3. i \in 1 .. p.at - 1
        BY <3>1, <3>2
      <3>4. QED
        BY <3>1, <3>3
    <2>3. QED
      BY <2>2, NewcomerReads DEF CommittedState
  <1>2. QED
    BY <1>1, EngineInvariant, PTL

=============================================================================
