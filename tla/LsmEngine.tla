----------------------------- MODULE LsmEngine -----------------------------
(***************************************************************************)
(* LsmEngine (concurrent_lsm_tree_engine/lsm_engine.hpp): a memtable in    *)
(* front of tables.  Every method holds engine_latch_ from end to end, so  *)
(* a call is one action; get changes nothing and is an operator.           *)
(***************************************************************************)
EXTENDS SkipListMemTable

CONSTANTS Threshold,   \* memtable_threshold_bytes_
          MaxFlushes,  \* bound on the tables begun
          Hashes       \* the hash pairs a key may have

ASSUME EngineAssumption ==
  /\ Threshold \in Nat \ {0} /\ MaxFlushes \in Nat
  /\ Hashes \subseteq Nat \X Nat /\ Hashes # {}

VARIABLES
  memtable,     \* memtable_
  sstables,     \* sstables_, the newest last
  next_sst_id,  \* next_sst_id_
  alive,        \* the destructor has not run
  hash,         \* hash1 and hash2 of every key: any function
  content,      \* history: the value last put under each key
  lost          \* history: keys whose last put went with a memtable that no table took over

vars == <<memtable, sstables, next_sst_id, alive, hash, content, lost>>

TypeOK ==
  /\ memtable \in MemTable
  /\ Len(sstables) <= next_sst_id /\ next_sst_id \in 0 .. MaxFlushes
  /\ \A t \in DOMAIN sstables :
       /\ sstables[t].records \in Seq(Key \X Value)
       /\ sstables[t].bloom \subseteq 0 .. NumBits - 1
  /\ alive \in BOOLEAN /\ lost \subseteq Key
  /\ hash \in [Key -> Hashes]
  /\ content \in [Key -> Value \cup {NotFound}]

Init ==
  /\ memtable = EmptyMemTable /\ sstables = << >> /\ next_sst_id = 0 /\ alive = TRUE
  /\ hash \in [Key -> Hashes]
  /\ content = [k \in Key |-> NotFound] /\ lost = {}

(* get: the memtable, then the tables from the newest to the oldest; first *)
(* with a forward iterator.                                                *)
SearchOldest(key) ==
  LET search[t \in 1 .. Len(sstables) + 1] ==
        IF t > Len(sstables) THEN NotFound
        ELSE LET val == table_get(sstables[t], key, hash)
             IN  IF val # NotFound THEN val ELSE search[t + 1]
  IN  search[1]
SearchTables(key) ==
  LET search[t \in 0 .. Len(sstables)] ==
        IF t = 0 THEN NotFound
        ELSE LET val == table_get(sstables[t], key, hash)
             IN  IF val # NotFound THEN val ELSE search[t - 1]
  IN  search[Len(sstables)]

get(key) ==
  IF mem_get(memtable, key) # NotFound THEN mem_get(memtable, key) ELSE SearchTables(key)

(* flush_memtable_internal of a memtable m: the file is built and opened,  *)
(* or one of the two fails; the memtable is replaced either way.           *)
KeysOf(m) == {to_vector(m)[j][1] : j \in DOMAIN to_vector(m)}

flush_internal(m) ==
  IF m.size = 0
  THEN UNCHANGED <<memtable, sstables, next_sst_id, lost>>
  ELSE /\ next_sst_id < MaxFlushes
       /\ next_sst_id' = next_sst_id + 1
       /\ memtable' = EmptyMemTable
       /\ \/ /\ sstables' = Append(sstables, build(to_vector(m), hash))
             /\ lost' = lost \ KeysOf(m)
          \/ /\ sstables' = sstables
             /\ lost' = lost \cup KeysOf(m)

put(key, v, new_level) ==
  LET m == mem_put(memtable, key, v, new_level)
  IN  /\ alive
      /\ content' = [content EXCEPT ![key] = v]
      /\ IF m.byte_size >= Threshold
         THEN flush_internal(m)
         ELSE /\ memtable' = m /\ lost' = lost \ {key}
              /\ UNCHANGED <<sstables, next_sst_id>>
      /\ UNCHANGED <<alive, hash>>

flush_memtable ==
  /\ alive /\ flush_internal(memtable)
  /\ UNCHANGED <<alive, hash, content>>

(* ~LsmEngine *)
Destroy ==
  /\ alive /\ alive' = FALSE /\ flush_internal(memtable)
  /\ UNCHANGED <<hash, content>>

Next ==
  \/ \E key \in Key, v \in Value, new_level \in RandomLevels : put(key, v, new_level)
  \/ flush_memtable
  \/ Destroy

Spec == Init /\ [][Next]_vars

-----------------------------------------------------------------------------
Ascending(s) == \A a, b \in DOMAIN s : a < b => s[a] < s[b]
NodesOf(s) == {s[j] : j \in DOMAIN s}

(* The levels of the skip list stay ordered and each one runs through      *)
(* nodes of the level below, whatever the random levels of the nodes are:  *)
(* otherwise a search that descends early misses keys.  Only nodes on a    *)
(* level have a link there (forward is as long as the node is high), size_ *)
(* counts the lowest level, nothing is linked above current_level_.        *)
LevelsNested ==
  /\ \A i \in Levels : Ascending(Chain(memtable, i))
  /\ \A i \in Levels \ {0} :
       NodesOf(Chain(memtable, i)) \subseteq NodesOf(Chain(memtable, i - 1))
  /\ \A i \in Levels, n \in Key :
       memtable.forward[n][i] # Nil => n \in NodesOf(Chain(memtable, i))
  /\ Len(Chain(memtable, 0)) = memtable.size
  /\ \A i \in memtable.current_level .. MaxLevel - 1 : Chain(memtable, i) = << >>

(* get answers with the value put last, across flushes and whatever lies   *)
(* in older tables, unless that put went with a memtable whose table could *)
(* not be built (flush_memtable_internal drops it all the same).           *)
ReadsLatest == \A k \in Key \ lost : get(k) = content[k]

(* A table finds exactly its records: a lookup through the filter, the     *)
(* index and one block agrees with a scan of all records, whatever the     *)
(* hash functions and however short the last block is.                     *)
ScanOf(records, key) ==
  IF \E j \in DOMAIN records : records[j][1] = key
  THEN records[CHOOSE j \in DOMAIN records : records[j][1] = key][2] ELSE NotFound

TableLookup ==
  \A t \in DOMAIN sstables, k \in Key :
    table_get(sstables[t], k, hash) = ScanOf(sstables[t].records, k)

=============================================================================
