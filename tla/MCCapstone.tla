------------------------------ MODULE MCCapstone ------------------------------
(***************************************************************************)
(* Two capstone systems, one at a time; system says which one runs.        *)
(*                                                                         *)
(* The pipeline has two kinds of session: in "crashes" both processes may  *)
(* be started again and the exchange has few events; in "book" neither     *)
(* comes back and the events set and remove more bids than the book is     *)
(* deep.                                                                   *)
(*                                                                         *)
(* The database, "lsm": three puts of two keys in two lives of the         *)
(* process, with two calls of recover(): puts may overlap, and a table of  *)
(* the first life may be overwritten in the second while it is open.       *)
(***************************************************************************)
EXTENDS TickToTrade, EmbeddedLsm

VARIABLE system
capstoneVars == <<system, vars, dbVars>>

FeedEvents ==
  [side : {"buy"}, price : 1..2, qty : {1}] \cup
  [side : {"sell"}, price : {4}, qty : {1}]

BookEvents ==
  [side : {"buy"}, price : 1..3, qty : {0, 1}] \cup
  [side : {"sell"}, price : {4}, qty : {1}]

\* The keys of the puts are of no interest to the pipeline.
CapstoneInit ==
  /\ system \in {"crashes", "book", "lsm"} /\ TInit /\ DbInit
  /\ system # "lsm" => key_of = [p \in Put |-> CHOOSE k \in Key : TRUE]

\* The bounds of the session; a torn event, too, is one of its events.
WithinBounds ==
  IF system = "crashes"
  THEN /\ budget.msgs <= 3
       /\ producer.msg \in FeedEvents \cup {Zeroed}
       /\ Range(seen) \subseteq FeedEvents \cup {NoEvent}
  ELSE budget.starts <= 1 /\ budget.attaches <= 1

Pipeline(A) == system # "lsm" /\ A /\ UNCHANGED <<system, dbVars>> /\ WithinBounds'
Database(A) == system = "lsm" /\ A /\ UNCHANGED <<system, vars>>
CapstoneNext == Pipeline(Next) \/ Database(DbNext)

\* Fairness of TickToTrade and DbFairness of EmbeddedLsm.
CapstoneFairness ==
  /\ WF_capstoneVars(Pipeline(FeedPoll \/ FeedConsume))
  /\ WF_capstoneVars(Database(Compactor))
  /\ WF_capstoneVars(Database(CloseJoin))
  /\ WF_capstoneVars(Database(CloseFlush))
CapstoneSpec == CapstoneInit /\ [][CapstoneNext]_capstoneVars /\ CapstoneFairness
=============================================================================
