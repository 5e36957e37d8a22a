------------------------- MODULE TransactionalEngine -------------------------
(***************************************************************************)
(* TransactionalEngine, TransactionManager and the MVCC undo log           *)
(* (09-database-transactions-and-recovery): transactions that read from a  *)
(* snapshot, write in place over an undo chain, and log to a WAL from      *)
(* which the table is rebuilt after a crash.                               *)
(*                                                                         *)
(* put and get hold engine_latch_ throughout.  commit and abort hold it    *)
(* too, but take tx_latch_ only at their end, and begin_transaction takes  *)
(* tx_latch_ alone: it may run between the two halves of a commit or an    *)
(* abort.  A crash may come at any point, between the two writes of a PUT  *)
(* too; it keeps what fdatasync has forced to disk and any further prefix  *)
(* of the WAL.                                                             *)
(***************************************************************************)
EXTENDS Integers, Sequences, FiniteSets, FiniteSetsExt

CONSTANTS Key, Value,
          Empty,       \* the empty string, the value of a slot never put
          Absent,      \* std::nullopt
          MaxTxn,      \* bound on transaction ids
          MaxPuts,     \* bound on the PUT records of the WAL
          MaxCrashes   \* bound on the crashes

ASSUME BoundAssumption ==
  MaxTxn \in Nat /\ MaxPuts \in Nat /\ MaxCrashes \in Nat
ASSUME ValueAssumption == Absent \notin Value \cup {Empty}

VARIABLES
  next_txn_id, active_txns,  \* TransactionManager
  read_view, undo_entries,   \* the Transaction objects
  table,                     \* table_: the versions of a key, newest first
  latch,                     \* a commit or an abort half done
  wal, synced,               \* the WAL, and how much of it fdatasync has forced
  up, crashes,               \* the engine has recovered; crashes so far
  committed, puts, snapshot, \* history: committed transactions, puts (in the
                             \* order of their WAL records) that no crash has
                             \* undone, the committed values at each begin
  found,    \* history: the length of the WAL at the last crash
  spoiled,  \* history: keys of which an abort has since removed a version
            \* of another transaction
  lost      \* history: puts of transactions whose commit had returned and
            \* whose COMMIT record recovery does not reach

manager == <<next_txn_id, active_txns, read_view>>
history == <<committed, puts, snapshot, found, spoiled, lost>>
vars == <<manager, undo_entries, table, latch, wal, synced, up, crashes, history>>

Txn == 1 .. MaxTxn
SlotValue == Value \cup {Empty}
Version == [xmin : Txn \cup {0}, val : SlotValue]
Record == [type : {"PUT", "COMMIT", "ABORT", "TORN"}, txn : Txn,
           key : Key \cup {Absent}, val : Value \cup {Absent}]
PutEntry == [at : Nat, txn : Txn, key : Key, val : Value]
NoView == [creator |-> 0, up_limit |-> 1, low_limit |-> 0, active |-> {}]

TypeOK ==
  /\ next_txn_id \in 1 .. MaxTxn + 1 /\ active_txns \in SUBSET Txn
  /\ read_view \in [Txn -> [creator : Txn \cup {0}, up_limit : Txn,
                            low_limit : Txn \cup {0}, active : SUBSET Txn]]
  /\ undo_entries \in [Txn -> Seq(Key)]
  /\ table \in [Key -> Seq(Version)]
  /\ latch \in {"free", "commit", "abort"} \X (Txn \cup {0})
  /\ wal \in Seq(Record) /\ synced \in 0 .. Len(wal)
  /\ up \in BOOLEAN /\ crashes \in 0 .. MaxCrashes
  /\ committed \in SUBSET Txn /\ puts \subseteq PutEntry
  /\ snapshot \in [Txn -> [Key -> Value \cup {Absent}]]
  /\ found \in 0 .. Len(wal) /\ spoiled \subseteq Key /\ lost \subseteq PutEntry

Free == <<"free", 0>>

Init ==
  /\ next_txn_id = 1 /\ active_txns = {}
  /\ read_view = [t \in Txn |-> NoView]
  /\ undo_entries = [t \in Txn |-> << >>]
  /\ table = [k \in Key |-> << >>]
  /\ latch = Free /\ wal = << >> /\ synced = 0
  /\ up = TRUE /\ crashes = 0
  /\ committed = {} /\ puts = {}
  /\ snapshot = [t \in Txn |-> [k \in Key |-> Absent]]
  /\ found = 0 /\ spoiled = {} /\ lost = {}

-----------------------------------------------------------------------------
(* ReadView::is_visible and read_tuple_snapshot: the newest version in the *)
(* chain that the view admits.                                             *)
is_visible_later(view, xmin) ==
  xmin = view.creator \/ xmin < view.up_limit \/ xmin \notin view.active
is_visible(view, xmin) ==
  \/ xmin = view.creator
  \/ xmin < view.up_limit
  \/ xmin < view.low_limit /\ xmin \notin view.active

read_tuple_snapshot(chain, view) ==
  LET visible == {i \in DOMAIN chain : is_visible(view, chain[i].xmin)}
  IN  IF visible = {} THEN Absent ELSE chain[Min(visible)].val

(* TransactionalEngine::get, on a key of the table or not.                 *)
get(view, k) == read_tuple_snapshot(table[k], view)

(* The view that begin_transaction gives to transaction t.                 *)
UpLimit(t) == Min(active_txns \cup {t})
ReadViewOf(t) ==
  [creator |-> t, up_limit |-> UpLimit(t), low_limit |-> t,
   active |-> active_txns]

(* The value of the last put of key k among the puts of these transactions.*)
PutsOf(k, txns) == {p \in puts : p.key = k /\ p.txn \in txns}
LastOf(these) ==
  IF these = {} THEN Absent
  ELSE (CHOOSE p \in these : \A q \in these : q.at <= p.at).val
LastPut(k, txns) == LastOf(PutsOf(k, txns))

begin_transaction ==
  /\ up /\ next_txn_id <= MaxTxn
  /\ next_txn_id' = next_txn_id + 1
  /\ active_txns' = active_txns \cup {next_txn_id}
  /\ read_view' = [read_view EXCEPT ![next_txn_id] = ReadViewOf(next_txn_id)]
  /\ undo_entries' = [undo_entries EXCEPT ![next_txn_id] = << >>]
  /\ snapshot' = [snapshot EXCEPT ![next_txn_id] =
                    [k \in Key |-> LastPut(k, committed)]]
  /\ UNCHANGED <<table, latch, wal, synced, up, crashes, committed, puts, found,
                 spoiled, lost>>

PutRecord(t, k, v) == [type |-> "PUT", txn |-> t, key |-> k, val |-> v]
EndRecord(type, t) == [type |-> type, txn |-> t, key |-> Absent, val |-> Absent]
PutCount == Cardinality({i \in DOMAIN wal : wal[i].type \in {"PUT", "TORN"}})

(* A new slot starts as the version of transaction 0 with an empty value.  *)
ChainOf(k) == IF table[k] = << >> THEN <<[xmin |-> 0, val |-> Empty]>> ELSE table[k]

put(t, k, v) ==
  /\ up /\ latch = Free /\ t \in active_txns /\ PutCount < MaxPuts
  /\ wal' = Append(wal, PutRecord(t, k, v))
  /\ table' = [table EXCEPT ![k] = <<[xmin |-> t, val |-> v]>> \o ChainOf(k)]
  /\ undo_entries' = [undo_entries EXCEPT ![t] = Append(@, k)]
  /\ puts' = puts \cup {[at |-> Len(wal'), txn |-> t, key |-> k, val |-> v]}
  /\ UNCHANGED <<manager, latch, synced, up, crashes, committed, snapshot, found,
                 spoiled, lost>>

(* commit: the COMMIT record is forced to disk, then the manager is told.  *)
CommitLog(t) ==
  /\ up /\ latch = Free /\ t \in active_txns
  /\ wal' = Append(wal, EndRecord("COMMIT", t)) /\ synced' = Len(wal')
  /\ latch' = <<"commit", t>>
  /\ UNCHANGED <<manager, undo_entries, table, up, crashes, history>>

CommitDone(t) ==
  /\ up /\ latch = <<"commit", t>> /\ latch' = Free
  /\ active_txns' = active_txns \ {t}
  /\ committed' = committed \cup {t}
  /\ UNCHANGED <<next_txn_id, read_view, undo_entries, table, wal, synced, up,
                 crashes, puts, snapshot, found, spoiled, lost>>

(* The number of t's undo entries for key k, and whether the versions at   *)
(* the head of the chain are the ones they undo: abort does not look.      *)
Undos(t, k) == Cardinality({i \in DOMAIN undo_entries[t] : undo_entries[t][i] = k})
OnTop(t, k) ==
  \A i \in 1 .. Undos(t, k) : i \in DOMAIN table[k] /\ table[k][i].xmin = t

(* abort: each undo entry replaces the slot by the first undo record, if   *)
(* there is one; a slot without undo records is left alone.                *)
Pop(chain, n) ==
  IF n = 0 \/ chain = << >> THEN chain
  ELSE SubSeq(chain, Min({n + 1, Len(chain)}), Len(chain))
RollbackOnce(t) == [k \in Key |-> Pop(table[k], IF Undos(t, k) = 0 THEN 0 ELSE 1)]
Rollback(t) == [k \in Key |-> Pop(table[k], Undos(t, k))]

AbortUndo(t) ==
  /\ up /\ latch = Free /\ t \in active_txns
  /\ table' = Rollback(t)
  /\ spoiled' = spoiled \cup {k \in Key : ~OnTop(t, k)}
  /\ wal' = Append(wal, EndRecord("ABORT", t)) /\ synced' = Len(wal')
  /\ latch' = <<"abort", t>>
  /\ UNCHANGED <<manager, undo_entries, up, crashes, committed, puts, snapshot, found,
                 lost>>

AbortDone(t) ==
  /\ up /\ latch = <<"abort", t>> /\ latch' = Free
  /\ active_txns' = active_txns \ {t}
  /\ UNCHANGED <<next_txn_id, read_view, undo_entries, table, wal, synced, up,
                 crashes, history>>

-----------------------------------------------------------------------------
(* The header that a crash between the two writes of a put may have left.  *)
(* (A COMMIT or ABORT that a crash interrupts is in the WAL or it is not.) *)
TornRecords ==
  IF up /\ latch = Free /\ PutCount < MaxPuts
  THEN {EndRecord("TORN", t) : t \in active_txns} ELSE {}

Committed(log) == {log[i].txn : i \in {j \in DOMAIN log : log[j].type = "COMMIT"}}

(* The header of a torn PUT makes recovery skip the bytes of a value that  *)
(* is not there, so it loses its place in the records that follow.         *)
Readable(log) ==
  LET torn == {i \in DOMAIN log : log[i].type = "TORN"}
  IN  IF torn = {} THEN log ELSE SubSeq(log, 1, Min(torn))

Crash ==
  /\ crashes < MaxCrashes /\ crashes' = crashes + 1
  /\ \E log \in {wal} \cup {Append(wal, r) : r \in TornRecords} :
     \E n \in synced .. Len(log) : wal' = SubSeq(log, 1, n)
  /\ synced' = Len(wal') /\ found' = Len(wal')
  /\ up' = FALSE /\ latch' = Free
  /\ next_txn_id' = 1 /\ active_txns' = {} /\ table' = [k \in Key |-> << >>]
  /\ committed' = Committed(Readable(wal'))
  /\ puts' = {p \in puts : p.txn \in committed'}
  /\ lost' = lost \cup {p \in puts : p.txn \in committed \ committed'}
  /\ spoiled' = {}
  /\ UNCHANGED <<read_view, undo_entries, snapshot>>

MaxTxnIdEnded(log) == Max({0} \cup Committed(log))
MaxTxnId(log) == Max({0} \cup {log[i].txn : i \in DOMAIN log})

(* The redo pass: the last PUT of a committed transaction stays.           *)
Replay(log, k) ==
  LET redo == {i \in DOMAIN log : /\ log[i].type = "PUT" /\ log[i].key = k
                                  /\ log[i].txn \in Committed(log)}
  IN  IF redo = {} THEN << >>
      ELSE <<[xmin |-> log[Max(redo)].txn, val |-> log[Max(redo)].val]>>

recover_from_wal ==
  /\ ~up /\ up' = TRUE
  /\ table' = [k \in Key |-> Replay(Readable(wal), k)]
  /\ next_txn_id' = MaxTxnId(Readable(wal)) + 1
  /\ UNCHANGED <<active_txns, read_view, undo_entries, latch, wal, synced,
                 crashes, history>>

Next ==
  \/ begin_transaction
  \/ \E t \in Txn, k \in Key, v \in Value : put(t, k, v)
  \/ \E t \in Txn : \/ CommitLog(t) \/ CommitDone(t)
                    \/ AbortUndo(t) \/ AbortDone(t)
  \/ Crash
  \/ recover_from_wal

Spec == Init /\ [][Next]_vars

-----------------------------------------------------------------------------
(* What get answers for a key whose visible value is v: a key without one  *)
(* is std::nullopt until somebody puts it, and the empty string from then  *)
(* on, committed or not.                                                   *)
Answer(k, v) == IF v = Absent /\ table[k] # << >> THEN Empty ELSE v

(* Atomicity and durability: at every moment, and after every recovery, a  *)
(* transaction that begins reads for each key the last value put by a      *)
(* committed transaction; nothing of an aborted or interrupted transaction *)
(* stays.  Two exceptions, by which commit, abort and recover_from_wal     *)
(* fall short of it: a key of which an abort has removed a version of      *)
(* another transaction since the last crash, and transactions that put     *)
(* behind a torn PUT in the WAL, which alone a crash may lose.             *)
CommittedState ==
  /\ up /\ next_txn_id <= MaxTxn =>
       \A k \in Key \ spoiled :
         get(ReadViewOf(next_txn_id), k) = Answer(k, LastPut(k, committed))
  /\ \A p \in lost : \E i \in 1 .. p.at - 1 : wal[i].type = "TORN"

(* Snapshot isolation: whatever the others put, commit or abort, an active *)
(* transaction reads its own last put of a key or, without one, the value  *)
(* that was committed when it began, up to the moment it commits or aborts,*)
(* unless an abort has removed a version of another transaction from it.   *)
SnapshotStable ==
  \A t \in active_txns \ {latch[2]}, k \in Key \ spoiled :
    get(read_view[t], k) =
      IF Undos(t, k) > 0 THEN LastPut(k, {t}) ELSE Answer(k, snapshot[t][k])

(* A transaction id is never used again while recovery may read records of *)
(* it: those of an active transaction are PUTs that it has written itself, *)
(* after the last crash.  Otherwise its COMMIT would bring back the writes *)
(* of one that died in a crash.                                            *)
IdsFresh ==
  \A t \in active_txns \ {latch[2]} : \A i \in DOMAIN Readable(wal) :
    wal[i].txn = t => wal[i].type = "PUT" /\ i > found

(* README of module 09: committed state survives crashes.  Not so once a   *)
(* crash has torn a PUT: recovery never reads past it, and the next crash  *)
(* takes what was committed in between.                                    *)
Durability ==
  up /\ next_txn_id <= MaxTxn =>
    \A k \in Key \ spoiled :
      get(ReadViewOf(next_txn_id), k) =
        Answer(k, LastOf(PutsOf(k, committed) \cup {p \in lost : p.key = k}))

(* read_tuple_snapshot: no value for a tuple created after the snapshot    *)
(* started, and README of module 09: no non-repeatable reads.  Not so for  *)
(* std::nullopt, which another transaction's put turns into the empty      *)
(* string: a new slot starts as a version that everybody sees.             *)
SnapshotExact ==
  \A t \in active_txns \ {latch[2]}, k \in Key \ spoiled :
    Undos(t, k) = 0 => get(read_view[t], k) = snapshot[t][k]

(* README of module 09: snapshot isolation allows no dirty reads; what a   *)
(* transaction reads was put by itself or by a committed transaction.  Not *)
(* so when a transaction aborts after another one has put the same key:    *)
(* abort() removes the other one's version and leaves its own.             *)
NoDirtyRead ==
  \A t \in active_txns, k \in Key :
    LET visible == {i \in DOMAIN table[k] : is_visible(read_view[t], table[k][i].xmin)}
    IN  visible # {} => table[k][Min(visible)].xmin \in committed \cup {0, t}

=============================================================================
