-------------------------- MODULE SkipListMemTable --------------------------
(***************************************************************************)
(* SkipListMemTable (concurrent_lsm_tree_engine/skiplist_memtable.hpp) as  *)
(* operators on a record m.  Every method holds the latch of the memtable  *)
(* from end to end, so a method is one operator.  A node is named by its   *)
(* key; the level of a new node is random.                                 *)
(***************************************************************************)
EXTENDS SsTable

CONSTANTS MaxKey,     \* keys are 0 .. MaxKey
          Value,      \* the values put
          MaxLevel,   \* MAX_LEVEL
          NodeBytes   \* sizeof(Node) in units of sizeof(Node*)

ASSUME SkipListAssumption ==
  /\ MaxKey \in Nat /\ MaxLevel \in Nat \ {0} /\ NodeBytes \in Nat
  /\ NotFound \notin Value

Key == 0 .. MaxKey
HeadNode == -1   \* head_
Nil == -2        \* nullptr
Levels == 0 .. MaxLevel - 1

MemTable ==
  [forward : [Key \cup {HeadNode} -> [Levels -> Key \cup {Nil}]],
   value : [Key -> Value \cup {NotFound}],
   current_level : 1 .. MaxLevel,
   size : 0 .. MaxKey + 1,
   byte_size : 0 .. (MaxKey + 1) * (NodeBytes + MaxLevel)]

EmptyMemTable ==
  [forward |-> [n \in Key \cup {HeadNode} |-> [i \in Levels |-> Nil]],
   value |-> [k \in Key |-> NotFound], current_level |-> 1, size |-> 0, byte_size |-> 0]

(* The inner loop of put and get: along level i from node n to the last    *)
(* node whose key is below key.                                            *)
Advance(m, n, i, key) ==
  LET walk[c \in Key \cup {HeadNode}] ==
        IF m.forward[c][i] # Nil /\ m.forward[c][i] < key THEN walk[m.forward[c][i]] ELSE c
  IN  walk[n]

(* update[i]: where the search leaves level i on its way down.             *)
Update(m, key) ==
  LET path[i \in 0 .. m.current_level - 1] ==
        Advance(m, IF i = m.current_level - 1 THEN HeadNode ELSE path[i + 1], i, key)
  IN  path

Found(m, key) == m.forward[Update(m, key)[0]][0]

mem_get(m, key) == IF Found(m, key) = key THEN m.value[key] ELSE NotFound

(* random_level(): heads in a row, and never above MAX_LEVEL.              *)
RandomLevels == 1 .. MaxLevel

(* The node behind which a new one is linked at level i: above the old     *)
(* current_level_ that is head_, not the node the search ended in.         *)
PredecessorStale(m, key, i) ==
  Update(m, key)[IF i < m.current_level THEN i ELSE m.current_level - 1]
Predecessor(m, key, i) == IF i < m.current_level THEN Update(m, key)[i] ELSE HeadNode

Linked(m, key, new_level) ==
  [n \in Key \cup {HeadNode} |-> [i \in Levels |->
     CASE i < new_level /\ n = key -> m.forward[Predecessor(m, key, i)][i]
       [] i < new_level /\ n = Predecessor(m, key, i) -> key
       [] OTHER -> m.forward[n][i]]]

mem_put(m, key, v, new_level) ==
  IF Found(m, key) = key THEN [m EXCEPT !.value[key] = v]
  ELSE [forward |-> Linked(m, key, new_level),
        value |-> [m.value EXCEPT ![key] = v],
        current_level |-> IF new_level > m.current_level THEN new_level ELSE m.current_level,
        size |-> m.size + 1,
        byte_size |-> m.byte_size + NodeBytes + new_level]

(* The nodes of level i in the order of their links.                       *)
Chain(m, i) ==
  LET from[n \in Key \cup {Nil}] ==
        IF n = Nil THEN << >> ELSE <<n>> \o from[m.forward[n][i]]
  IN  from[m.forward[HeadNode][i]]

to_vector(m) == [j \in DOMAIN Chain(m, 0) |-> <<Chain(m, 0)[j], m.value[Chain(m, 0)[j]]>>]

=============================================================================
