---------------------------- MODULE EmbeddedLsm ----------------------------
(***************************************************************************)
(* EmbeddedLsmDatabase (02-embedded-lsm-kv-database/                       *)
(* embedded_lsm_database.hpp): a write-ahead log, a memtable and table     *)
(* files, used by several threads over several lives of the process.       *)
(*                                                                         *)
(* A put appends to the log before it takes db_latch_, so it is two steps; *)
(* everything else that touches the tables holds db_latch_ from end to     *)
(* end.  Memtable and table are functions from keys to the number of the   *)
(* put they hold (the lookups themselves are the business of LsmEngine),   *)
(* and the bytes of a memtable are counted as its keys.  The process may   *)
(* be killed at any point; what write() accepted then stays in the files.  *)
(***************************************************************************)
EXTENDS Integers, Sequences, FiniteSets, SequencesExt

CONSTANTS Key,
          FlushKeys,  \* memtable_threshold_, in keys
          MaxPuts,    \* bound on the puts, over all lives
          MaxLives,   \* bound on the lives of the process
          MaxTables,  \* bound on the tables of one life, before close()
          MaxRecovers \* bound on the calls of recover()

ASSUME EmbeddedAssumption ==
  /\ FlushKeys \in Nat \ {0}
  /\ {MaxPuts, MaxLives, MaxTables, MaxRecovers} \subseteq Nat

VARIABLES
  proc,           \* "down", "up", or where close() is: "joining", "joined"
  wal,            \* the records of engine.wal: <<key, put>>
  files,          \* the table files by number
  memtable,       \* memtable_
  sstables,       \* sstables_: the file of each table and the data it had when opened
  next_sst_id,    \* next_sst_id_
  running,        \* compaction_running_
  compactor,      \* where compactor_loop is
  call,           \* what has become of each put
  key_of,         \* the key of each put
  pre,            \* history: the puts that were over when this one was called
  ready,          \* history: this life has the state of the earlier ones
  lost,           \* history: the keys a failed flush dropped, and nothing restored
  lives, recovers \* counters for the bounds

mem == <<memtable, sstables, next_sst_id>>
hist == <<call, key_of, pre>>
bounds == <<lives, recovers>>
dbVars == <<proc, wal, files, memtable, sstables, next_sst_id, running, compactor,
          call, key_of, pre, ready, lost, lives, recovers>>

Put == 1 .. MaxPuts
None == 0
Garbage == -1
Table == [Key -> Put \cup {None}]
EmptyTable == [k \in Key |-> None]
Absent == [status |-> "absent", data |-> EmptyTable]
Partial == [status |-> "partial", data |-> EmptyTable]  \* no footer
Written(m) == [status |-> "complete", data |-> m]
TableFile == {Absent, Partial} \cup {Written(m) : m \in Table}
FileId == 0 .. MaxTables
Done == {p \in Put : call[p] = "returned"}

DbTypeOK ==
  /\ proc \in {"down", "up", "joining", "joined"}
  /\ wal \in Seq(Key \X Put) /\ Len(wal) <= MaxPuts
  /\ files \in [FileId -> TableFile]
  /\ memtable \in Table
  /\ sstables \in Seq([file : FileId, data : Table])
  /\ next_sst_id \in 0 .. MaxTables + 1
  /\ running \in BOOLEAN
  /\ compactor \in {"none", "top", "testing", "falling asleep", "blocked", "woken", "exited"}
  /\ call \in [Put -> {"not called", "logged", "returned", "killed"}]
  /\ key_of \in [Put -> Key] /\ pre \in [Put -> SUBSET Put]
  /\ ready \in BOOLEAN /\ lost \subseteq Key /\ lives \in 0 .. MaxLives /\ recovers \in 0 .. MaxRecovers

DbInit ==
  /\ proc = "down" /\ wal = << >>
  /\ files = [f \in FileId |-> Absent]
  /\ memtable = EmptyTable /\ sstables = << >> /\ next_sst_id = 0
  /\ running = FALSE /\ compactor = "none"
  /\ call = [p \in Put |-> "not called"]
  /\ key_of \in [Put -> Key] /\ pre = [p \in Put |-> {}]
  /\ ready = FALSE /\ lost = {} /\ lives = 0 /\ recovers = 0

-----------------------------------------------------------------------------
(* The constructor: an empty memtable, no tables, the log opened for       *)
(* appending, and the compactor.  It does not recover.                     *)
Construct ==
  /\ proc = "down" /\ lives < MaxLives
  /\ proc' = "up" /\ lives' = lives + 1
  /\ memtable' = EmptyTable /\ sstables' = << >> /\ next_sst_id' = 0
  /\ running' = TRUE /\ compactor' = "top"
  /\ ready' = (lives = 0) /\ lost' = {}
  /\ UNCHANGED <<wal, files, hist, recovers>>

Notified == IF compactor = "blocked" THEN "woken" ELSE compactor
Keys(m) == {k \in Key : m[k] # None}

(* flush_memtable_locked of memtable m, the keys of gone being lost        *)
(* before it.  The table is written, truncating an older file of this      *)
(* number, opened, and announced to the compactor.  When the file cannot   *)
(* be made, is cut short, or is written but not opened again, there is no  *)
(* new table; the number is used and the memtable emptied all the same.    *)
flush_memtable_locked(m, gone) ==
  /\ memtable' = EmptyTable
  /\ IF m = EmptyTable
     THEN lost' = gone /\ UNCHANGED <<files, sstables, next_sst_id, compactor>>
     ELSE /\ next_sst_id' = next_sst_id + 1
          /\ \/ /\ files' = [files EXCEPT ![next_sst_id] = Written(m)]
                /\ sstables' = Append(sstables, [file |-> next_sst_id, data |-> m])
                /\ compactor' = Notified
                /\ lost' = gone
             \/ /\ \E left \in {files[next_sst_id], Partial, Written(m)} :
                     files' = [files EXCEPT ![next_sst_id] = left]
                /\ lost' = gone \cup Keys(m)
                /\ UNCHANGED <<sstables, compactor>>

(* put: the write to the log, without any latch.                           *)
PutLog(p) ==
  /\ proc = "up"
  /\ call[p] = "not called" /\ \A q \in 1 .. p - 1 : call[q] # "not called"
  /\ wal' = Append(wal, <<key_of[p], p>>)
  /\ call' = [call EXCEPT ![p] = "logged"]
  /\ pre' = [pre EXCEPT ![p] = {q \in Put : call[q] \in {"returned", "killed"}}]
  /\ UNCHANGED <<proc, files, mem, running, compactor, key_of, ready, lost, bounds>>

(* put: the rest, under db_latch_.                                         *)
Applied(p) == [memtable EXCEPT ![key_of[p]] = p]
ByteSize(m) == Cardinality(Keys(m))
Found(p) == lost \ {key_of[p]}  \* what stays lost once the key of p is put again

(* The log is emptied once its puts are in a table.                        *)
PutApplyTruncates(p) ==
  /\ proc = "up" /\ call[p] = "logged"
  /\ call' = [call EXCEPT ![p] = "returned"]
  /\ IF ByteSize(Applied(p)) >= FlushKeys
     THEN next_sst_id < MaxTables /\ flush_memtable_locked(Applied(p), Found(p)) /\ wal' = << >>
     ELSE /\ memtable' = Applied(p) /\ lost' = Found(p)
          /\ UNCHANGED <<wal, files, sstables, next_sst_id, compactor>>
  /\ UNCHANGED <<proc, running, key_of, pre, ready, bounds>>
PutApply(p) ==
  /\ proc = "up" /\ call[p] = "logged"
  /\ call' = [call EXCEPT ![p] = "returned"]
  /\ IF ByteSize(Applied(p)) >= FlushKeys
     THEN next_sst_id < MaxTables /\ flush_memtable_locked(Applied(p), Found(p))
     ELSE /\ memtable' = Applied(p) /\ lost' = Found(p)
          /\ UNCHANGED <<files, sstables, next_sst_id, compactor>>
  /\ UNCHANGED <<proc, wal, running, key_of, pre, ready, bounds>>

(* flush_memtable called by a client.                                      *)
Flush ==
  /\ proc = "up" /\ next_sst_id < MaxTables /\ flush_memtable_locked(memtable, lost)
  /\ UNCHANGED <<proc, wal, running, hist, ready, bounds>>

(* recover: the tables in whatever order the directory lists them, then    *)
(* every record of the log into a new memtable; first, a version that      *)
(* trusts the tables for what they hold.                                   *)
OpenTables(order) == [i \in DOMAIN order |-> [file |-> order[i], data |-> files[order[i]].data]]
Complete == {f \in FileId : files[f].status = "complete"}

LastIn(log, k) ==
  LET at == {i \in DOMAIN log : log[i][1] = k}
  IN  IF at = {} THEN None
      ELSE log[CHOOSE i \in at : \A j \in at : j <= i][2]

ReplayedMissing(log) ==
  [k \in Key |-> IF \E f \in Complete : files[f].data[k] # None THEN None ELSE LastIn(log, k)]
Replayed(log) == [k \in Key |-> LastIn(log, k)]

recover ==
  /\ proc = "up" /\ recovers < MaxRecovers
  /\ \E order \in SetToSeqs(Complete) : sstables' = OpenTables(order)
  /\ memtable' = Replayed(wal)
  /\ ready' = TRUE /\ lost' = {} /\ recovers' = recovers + 1
  /\ UNCHANGED <<proc, wal, files, next_sst_id, running, compactor, hist, lives>>

(* The process is killed, perhaps while it writes a table file.            *)
Killed ==
  /\ proc # "down" /\ proc' = "down" /\ running' = FALSE /\ compactor' = "none"
  /\ call' = [p \in Put |-> IF call[p] = "logged" THEN "killed" ELSE call[p]]
  /\ ready' = FALSE /\ lost' = {}
  /\ memtable' = EmptyTable /\ sstables' = << >> /\ next_sst_id' = 0
  /\ UNCHANGED <<wal, key_of, pre, bounds>>

Kill == Killed /\ UNCHANGED files
KillInFlush ==
  /\ Killed
  /\ \/ memtable # EmptyTable
     \/ \E p \in Put : call[p] = "logged" /\ ByteSize(Applied(p)) >= FlushKeys
  /\ files' = [files EXCEPT ![next_sst_id] = Partial]

-----------------------------------------------------------------------------
(* close(), called when no put is under way: it stops the compactor        *)
(* without holding compaction_mutex_, and notifies it.                     *)
CloseStop ==
  /\ proc = "up" /\ \A p \in Put : call[p] # "logged"
  /\ proc' = "joining" /\ running' = FALSE
  /\ compactor' = Notified
  /\ UNCHANGED <<wal, files, mem, hist, ready, lost, bounds>>

CloseJoin ==
  /\ proc = "joining" /\ compactor = "exited"
  /\ proc' = "joined"
  /\ UNCHANGED <<wal, files, mem, running, compactor, hist, ready, lost, bounds>>

CloseFlush ==
  /\ proc = "joined" /\ flush_memtable_locked(memtable, lost)
  /\ proc' = "down" /\ ready' = FALSE
  /\ UNCHANGED <<wal, running, hist, bounds>>

(* compactor_loop.  The predicate of wait_for reads sstables_.size()       *)
(* without db_latch_, while a flush may be changing it: either outcome.    *)
(* A thread that has found it false holds compaction_mutex_ until it       *)
(* blocks, which keeps nobody from notifying in between.                   *)
Compacting(next) ==
  /\ compactor' = next
  /\ UNCHANGED <<proc, wal, files, mem, running, hist, ready, lost, bounds>>

CompactorTop == compactor = "top" /\ Compacting(IF running THEN "testing" ELSE "exited")

(* wait_for goes to sleep, or returns as the predicate holds.              *)
CompactorTest ==
  /\ compactor \in {"testing", "woken"}
  /\ \/ running /\ Compacting("falling asleep")
     \/ Compacting(IF running THEN "top" ELSE "exited")

CompactorBlock == compactor = "falling asleep" /\ Compacting("blocked")

(* The 50 ms are over: wait_for returns, whatever the predicate; first, a  *)
(* wait that has no timeout.                                               *)
NoTimeout == FALSE /\ Compacting("blocked")
CompactorTimeout ==
  compactor = "blocked" /\ Compacting(IF running THEN "top" ELSE "exited")

Compactor == CompactorTop \/ CompactorTest \/ CompactorBlock \/ CompactorTimeout

DbNext ==
  \/ Construct \/ Flush \/ recover \/ Kill \/ KillInFlush
  \/ CloseStop \/ CloseJoin \/ CloseFlush \/ Compactor
  \/ \E p \in Put : PutLog(p) \/ PutApply(p)

DbFairness == WF_dbVars(Compactor) /\ WF_dbVars(CloseJoin) /\ WF_dbVars(CloseFlush)

DbSpec == DbInit /\ [][DbNext]_dbVars /\ DbFairness

-----------------------------------------------------------------------------
(* get: the memtable, then the tables, the newest first.  A table whose    *)
(* file was truncated and written again since it was opened is read with   *)
(* the filter and index of the old file: its answer may be anything.       *)
Stale(t) == files[sstables[t].file] # Written(sstables[t].data)

SearchTables(k) ==
  LET search[t \in 0 .. Len(sstables)] ==
        IF t = 0 THEN None
        ELSE IF Stale(t) THEN Garbage
        ELSE IF sstables[t].data[k] # None THEN sstables[t].data[k]
        ELSE search[t - 1]
  IN  search[Len(sstables)]

get(k) == IF memtable[k] # None THEN memtable[k] ELSE SearchTables(k)

(* An acknowledged put is lost only by a failed flush: get finds a value   *)
(* for every key that a returned put has written, in the same life or      *)
(* after a recovery, never reaches a table whose file was overwritten for  *)
(* such a key, and never returns a value that a put called later, and      *)
(* returned, replaced.  The keys of a memtable that a failed flush dropped *)
(* are the exception, until the next put of the key or the next recover(), *)
(* which brings them all back from the log.  Table numbers start again at  *)
(* 0 in every life, so this rests on the log being replayed whole.         *)
NoStaleRead ==
  ready => \A k \in Key \ lost :
    LET written == {q \in Done : key_of[q] = k}
    IN  /\ written # {} => get(k) \in Put
        /\ get(k) \in Put => /\ key_of[get(k)] = k
                             /\ \A q \in written : get(k) \notin pre[q]

(* If the process were killed now, recovery would not go back: it has an   *)
(* answer for every key that get answers, and none that was over before    *)
(* the put that get returns was called.  (Puts that overlap may be in the  *)
(* log and in the memtable in different orders, so that recovery may turn  *)
(* one into the other.)                                                    *)
Recovered(k) ==
  IF Replayed(wal)[k] # None THEN {Replayed(wal)[k]}
  ELSE {files[f].data[k] : f \in Complete} \ {None}

RecoveryNotOlder ==
  ready => \A k \in Key : get(k) \in Put =>
    Recovered(k) # {} /\ Recovered(k) \cap pre[get(k)] = {}

(* close() returns: no process stays in it for ever.  The compactor hears  *)
(* of it, although the notification may fall between its test and its      *)
(* sleep.                                                                  *)
CloseReturns == []<>(proc \notin {"joining", "joined"})

=============================================================================
