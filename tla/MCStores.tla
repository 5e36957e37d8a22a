------------------------------- MODULE MCStores -------------------------------
(***************************************************************************)
(* The stores that keep data or memory for one process, one at a time:     *)
(* unit says which one is in use.                                          *)
(*                                                                         *)
(* The LSM engine has three keys in blocks of two: a table has a short     *)
(* block, a full one, or one of each.  Two tables, so that an old value    *)
(* can hide behind a new one.  Each key sets bits 0 and 1 or bits 1 and 2  *)
(* of three, so that filters give true and false positives as well as      *)
(* negatives.  Three nodes of the upper level reach the threshold.         *)
(***************************************************************************)
EXTENDS BuddyAllocator, SlabAllocator, WalStorageEngine, ConcurrentBTree,
        LsmEngine, TLC

VARIABLE unit
lsmVars == vars
storesVars == <<unit, buddyVars, slabVars, walVars, btreeVars, lsmVars>>

HashesVal == {<<0, 1>>, <<1, 1>>}
ValueSymmetry == Permutations(Value)

\* The hashes of the keys are of no interest to the other units.
StoresInit ==
  /\ unit \in {"buddy", "slab", "wal", "btree", "lsm"}
  /\ BuddyInit /\ SlabInit /\ WalInit /\ BTreeInit /\ Init
  /\ unit # "lsm" => hash = [k \in Key |-> CHOOSE h \in Hashes : TRUE]

StoresNext ==
  /\ UNCHANGED unit
  /\ \/ unit = "buddy" /\ BuddyNext /\ UNCHANGED <<slabVars, walVars, btreeVars, lsmVars>>
     \/ unit = "slab" /\ SlabNext /\ UNCHANGED <<buddyVars, walVars, btreeVars, lsmVars>>
     \/ unit = "wal" /\ WalNext /\ UNCHANGED <<buddyVars, slabVars, btreeVars, lsmVars>>
     \/ unit = "btree" /\ BTreeNext /\ UNCHANGED <<buddyVars, slabVars, walVars, lsmVars>>
     \/ unit = "lsm" /\ Next /\ UNCHANGED <<buddyVars, slabVars, walVars, btreeVars>>

StoresSpec == StoresInit /\ [][StoresNext]_storesVars
=============================================================================
