------------------------------ MODULE MCDatabase ------------------------------
(***************************************************************************)
(* The parts of a database of chapters 07 and 09, one at a time; part says *)
(* which one runs.                                                         *)
(*                                                                         *)
(* The buffer pool: two frames for three pages, so that every page but two *)
(* is on disk only.  Five accesses let a page be evicted, come back and be *)
(* evicted again, and let a frame reach K accesses while the other has     *)
(* fewer.                                                                  *)
(*                                                                         *)
(* The slotted page: a page of eight bytes is full with a tuple of one     *)
(* byte and one of two, or with three tuples that are empty but for one    *)
(* byte.                                                                   *)
(*                                                                         *)
(* The transactions: three of them with three puts: a reader that spans    *)
(* the writes and the ends of two others, or a key put by two of them and  *)
(* put again.  Of two crashes the first may tear a PUT and the second lose *)
(* what was committed behind it.                                           *)
(***************************************************************************)
EXTENDS BufferPool, SlottedPage, TransactionalEngine

VARIABLE part
databaseVars == <<part, poolVars, pageVars, vars>>

MCPayloads == {<<>>, <<1>>, <<2, 3>>}
Symmetry == Permutations(Key) \cup Permutations(Value)

DatabaseInit ==
  part \in {"pool", "page", "transactions"} /\ PoolInit /\ PageInit /\ Init

DatabaseNext ==
  /\ UNCHANGED part
  /\ \/ part = "pool" /\ PoolNext /\ UNCHANGED <<pageVars, vars>>
     \/ part = "page" /\ PageNext /\ UNCHANGED <<poolVars, vars>>
     \/ part = "transactions" /\ Next /\ UNCHANGED <<poolVars, pageVars>>

DatabaseSpec == DatabaseInit /\ [][DatabaseNext]_databaseVars
=============================================================================
