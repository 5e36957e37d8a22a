---------------------------- MODULE ConcurrentBTree ----------------------------
(***************************************************************************)
(* latch_crabbing_btree.hpp: threads search and insert, a latch on every   *)
(* node and one on the pointer to the root.  What a thread does under an   *)
(* exclusive latch is one step with its acquisition of the last latch it   *)
(* needs: nobody else can look.  A leaf is a function from keys to values, *)
(* its order being the keys'.  Only a leaf that is the root is ever split: *)
(* the tree has one leaf, then for good an inner root and two leaves,      *)
(* which grow beyond MaxKeys.                                              *)
(***************************************************************************)
EXTENDS Integers, Sequences, FiniteSets, SequencesExt

CONSTANTS Threads, BKeys, BVals, MaxKeys,
          MaxInserts   \* bound: calls of insert()

NoOne == "none"
ASSUME BTreeAssumption ==
  /\ Threads # {} /\ NoOne \notin Threads
  /\ BKeys \subseteq Int /\ 0 \notin BVals
  /\ MaxKeys \in Nat \ {0}

VARIABLES root, node,  \* root_, and the nodes: [leaf, data] or [leaf, keys, children]
          writer, readers, \* of each latch: a thread or NoOne; a set of threads
          th,          \* the threads' locals
          map,         \* what has been inserted: key -> value, 0 for none
          inserts
btreeVars == <<root, node, writer, readers, th, map, inserts>>

FirstLeaf == 1
NewLeaf == 2
NewRoot == 3
RootLatch == 0
Latches == 0..3

Leaf(data) == [leaf |-> TRUE, data |-> data]
Inner(key, left, right) == [leaf |-> FALSE, keys |-> <<key>>, children |-> <<left, right>>]
\* may: what the running search of a thread may return.
Idle == [pc |-> "idle", key |-> 0, val |-> 0, curr |-> 0, may |-> {}]

BTreeInit ==
  /\ root = FirstLeaf
  /\ node = [n \in {FirstLeaf} |-> Leaf(<<>>)]
  /\ writer = [l \in Latches |-> NoOne] /\ readers = [l \in Latches |-> {}]
  /\ th = [t \in Threads |-> Idle]
  /\ map = [k \in BKeys |-> 0]
  /\ inserts = 0

\* The child whose range holds the key: as many separators are not above it.
ChildOf(n, key) ==
  node[n].children[1 + Cardinality({i \in DOMAIN node[n].keys : key >= node[n].keys[i]})]

Size(n) == IF node[n].leaf THEN Cardinality(DOMAIN node[n].data) ELSE Len(node[n].keys)
is_safe_for_insert(n) == Size(n) < MaxKeys

Next1(t, pc, curr) == th' = [th EXCEPT ![t].pc = pc, ![t].curr = curr]
CanShare(l) == writer[l] = NoOne
CanLock(l) == writer[l] = NoOne /\ readers[l] = {}

-----------------------------------------------------------------------------
(* search() *)

SearchUnguarded(t, key) ==   \* mutant: root_ is read without its latch
  /\ th[t].pc = "idle" /\ CanShare(RootLatch)
  /\ th' = [th EXCEPT ![t] = [Idle EXCEPT !.pc = "search", !.key = key, !.curr = root,
                                          !.may = {map[key]}]]
  /\ UNCHANGED <<root, node, writer, readers, map, inserts>>

SearchRoot(t, key) ==
  /\ th[t].pc = "idle" /\ CanShare(RootLatch)
  /\ readers' = [readers EXCEPT ![RootLatch] = @ \cup {t}]
  /\ th' = [th EXCEPT ![t] = [Idle EXCEPT !.pc = "search", !.key = key, !.curr = root,
                                          !.may = {map[key]}]]
  /\ UNCHANGED <<root, node, writer, map, inserts>>

\* The root's latch, then root_latch_ is given up.
SearchLatch(t) ==
  LET n == th[t].curr IN
  /\ th[t].pc = "search" /\ CanShare(n)
  /\ readers' = [readers EXCEPT ![n] = @ \cup {t}, ![RootLatch] = @ \ {t}]
  /\ Next1(t, "down", n)
  /\ UNCHANGED <<root, node, writer, map, inserts>>

\* The child's latch, then the node's is given up.
SearchDown(t) ==
  LET n == th[t].curr  c == ChildOf(n, th[t].key) IN
  /\ th[t].pc = "down" /\ ~node[n].leaf /\ CanShare(c)
  /\ readers' = [readers EXCEPT ![c] = @ \cup {t}, ![n] = @ \ {t}]
  /\ Next1(t, "down", c)
  /\ UNCHANGED <<root, node, writer, map, inserts>>

Lookup(n, key) == IF key \in DOMAIN node[n].data THEN node[n].data[key] ELSE 0

SearchLeaf(t) ==
  LET n == th[t].curr IN
  /\ th[t].pc = "down" /\ node[n].leaf
  /\ th' = [th EXCEPT ![t].pc = "found", ![t].val = Lookup(n, th[t].key)]
  /\ readers' = [readers EXCEPT ![n] = @ \ {t}]
  /\ UNCHANGED <<root, node, writer, map, inserts>>

SearchReturn(t) ==
  /\ th[t].pc = "found"
  /\ th' = [th EXCEPT ![t] = Idle]
  /\ UNCHANGED <<root, node, writer, readers, map, inserts>>

-----------------------------------------------------------------------------
(* insert() *)

Released(t) == writer' = [l \in Latches |-> IF writer[l] = t THEN NoOne ELSE writer[l]]

\* The key is in its leaf: running searches of it may return it.
Inserted(t) ==
  LET key == th[t].key  val == th[t].val IN
  /\ map' = [map EXCEPT ![key] = val]
  /\ th' = [u \in Threads |->
              IF u = t THEN Idle
              ELSE IF th[u].key = key /\ th[u].pc \in {"search", "down"}
                   THEN [th[u] EXCEPT !.may = @ \cup {val}] ELSE th[u]]

\* insert_into_leaf(): a new key, or a new value for the key.
insert_into_leaf(n, key, val) ==
  [k \in DOMAIN node[n].data \cup {key} |-> IF k = key THEN val ELSE node[n].data[k]]

\* The keys from the middle on: keys.size() / 2 keys or more are before them.
Upper(data) ==
  LET keys == DOMAIN data IN
  {k \in keys : Cardinality({j \in keys : j < k}) >= Cardinality(keys) \div 2}
Part(data, keys) == Leaf([k \in keys |-> data[k]])

InsertRoot(t, key, val) ==
  /\ th[t].pc = "idle" /\ inserts < MaxInserts /\ CanLock(RootLatch)
  /\ writer' = [writer EXCEPT ![RootLatch] = t]
  /\ th' = [th EXCEPT ![t] = [Idle EXCEPT !.pc = IF node[root].leaf THEN "only" ELSE "insert",
                                          !.key = key, !.val = val, !.curr = root]]
  /\ inserts' = inserts + 1
  /\ UNCHANGED <<root, node, readers, map>>

\* The root is a leaf: insert, and split it if it is too large.
InsertOnly(t) ==
  LET data == insert_into_leaf(root, th[t].key, th[t].val)  upper == Upper(data)
      split == CHOOSE k \in upper : \A j \in upper : k <= j IN
  /\ th[t].pc = "only" /\ CanLock(root)
  /\ IF Cardinality(DOMAIN data) <= MaxKeys
     THEN node' = [node EXCEPT ![root] = Leaf(data)] /\ UNCHANGED root
     ELSE /\ node' = [n \in {root, NewLeaf, NewRoot} |->
                        CASE n = root -> Part(data, DOMAIN data \ upper)
                          [] n = NewLeaf -> Part(data, upper)
                          [] n = NewRoot -> Inner(split, root, NewLeaf)]
          /\ root' = NewRoot
  /\ Released(t) /\ Inserted(t)
  /\ UNCHANGED <<readers, inserts>>

\* The inner root's latch; root_latch_ is given up if the root cannot split.
InsertLatch(t) ==
  LET n == th[t].curr IN
  /\ th[t].pc = "insert" /\ CanLock(n)
  /\ writer' = [writer EXCEPT ![n] = t,
                              ![RootLatch] = IF is_safe_for_insert(n) THEN NoOne ELSE @]
  /\ Next1(t, "descend", n)
  /\ UNCHANGED <<root, node, readers, map, inserts>>

\* The child's latch; all those above are given up if the child cannot split.
InsertDown(t) ==
  LET n == th[t].curr  c == ChildOf(n, th[t].key) IN
  /\ th[t].pc = "descend" /\ ~node[n].leaf /\ CanLock(c)
  /\ writer' = [l \in Latches |->
                  IF l = c THEN t
                  ELSE IF writer[l] = t /\ is_safe_for_insert(c) THEN NoOne ELSE writer[l]]
  /\ Next1(t, "descend", c)
  /\ UNCHANGED <<root, node, readers, map, inserts>>

InsertLeaf(t) ==
  LET n == th[t].curr IN
  /\ th[t].pc = "descend" /\ node[n].leaf
  /\ node' = [node EXCEPT ![n] = Leaf(insert_into_leaf(n, th[t].key, th[t].val))]
  /\ Released(t) /\ Inserted(t)
  /\ UNCHANGED <<root, readers, inserts>>

BTreeNext ==
  \E t \in Threads :
    \/ \E key \in BKeys : SearchRoot(t, key) \/ \E val \in BVals : InsertRoot(t, key, val)
    \/ SearchLatch(t) \/ SearchDown(t) \/ SearchLeaf(t) \/ SearchReturn(t)
    \/ InsertOnly(t) \/ InsertLatch(t) \/ InsertDown(t) \/ InsertLeaf(t)
BTreeSpec == BTreeInit /\ [][BTreeNext]_btreeVars

-----------------------------------------------------------------------------
\* The latch a thread waits for can be had.
Moves(t) ==
  LET n == th[t].curr IN
  CASE th[t].pc = "search" -> CanShare(n)
    [] th[t].pc \in {"only", "insert"} -> CanLock(n)
    [] th[t].pc = "down" -> node[n].leaf \/ CanShare(ChildOf(n, th[t].key))
    [] th[t].pc = "descend" -> node[n].leaf \/ CanLock(ChildOf(n, th[t].key))
    [] OTHER -> TRUE

(***************************************************************************)
(* IndexSound: a search returns a value that the key had at some moment of  *)
(* the search, also while the root leaf is split under it; a walk from      *)
(* root_ finds every key's last value, so the split loses and misplaces     *)
(* none; and threads never all wait for each other's latches (search and    *)
(* insert, latch_crabbing_btree.hpp:60-171).                                *)
(***************************************************************************)
IndexSound ==
  /\ \A t \in Threads : th[t].pc = "found" => th[t].val \in th[t].may
  /\ \A k \in BKeys :
       Lookup(IF node[root].leaf THEN root ELSE ChildOf(root, k), k) = map[k]
  /\ \E t \in Threads : Moves(t)
=============================================================================
