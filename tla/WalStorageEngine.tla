---------------------------- MODULE WalStorageEngine ----------------------------
(***************************************************************************)
(* wal_storage_engine.hpp: an in-memory index in front of a file of fixed  *)
(* size blocks with a checksum.  The file is a sequence of half blocks: a  *)
(* short write leaves the first half of a block, and a read takes two      *)
(* halves, whatever block they belong to.                                  *)
(***************************************************************************)
EXTENDS Integers, Sequences

CONSTANTS Keys, Vals,
          MaxWrites,  \* bound: calls of put() and del()
          MaxLosses   \* bound: power failures

ASSUME WalAssumption == MaxWrites \in Nat /\ MaxLosses \in Nat /\ 0 \notin Vals

VARIABLES file, synced,        \* halves in the file, and how many survive a power failure
          fd, index, current_seq,
          shown,               \* operations recovered, and acknowledged since
          kept, torn, durable, \* how many of them are in the file before a torn block,
                               \* whether there is one, and kept at the last close()
          acked, ragged,       \* operations put() and del() returned true for, and
                               \* whether a write of this life was short
          walBudget
walVars == <<file, synced, fd, index, current_seq, shown, kept, torn, durable,
             acked, ragged, walBudget>>

Absent == 0
Ops == [key : Keys, val : Vals \cup {Absent}]   \* PUT, or DEL for Absent
NoIndex == [k \in Keys |-> Absent]

WalInit ==
  /\ file = <<>> /\ synced = 0
  /\ fd = "closed" /\ index = NoIndex /\ current_seq = 0
  /\ shown = <<>> /\ kept = 0 /\ torn = FALSE /\ durable = 0
  /\ acked = <<>> /\ ragged = FALSE
  /\ walBudget = [writes |-> 0, losses |-> 0]

WalBlock(seq, op) == <<[seq |-> seq, op |-> op, part |-> 1], [seq |-> seq, op |-> op, part |-> 2]>>

MagicOnly(halves) == halves[1].part = 1   \* mutant: the checksum is not looked at
\* What recover() takes for a block: magic and checksum are right.
Valid(halves) == halves = WalBlock(halves[1].seq, halves[1].op)

\* recover(): blocks are read from the start and applied up to the end, a partial or
\* a bad block; the next append goes to the end of the file, torn bytes or not.
recover ==
  LET n == Len(file) \div 2
      at[i \in 0..n] ==
        IF i = 0 THEN [index |-> NoIndex, seq |-> 0, good |-> TRUE]
        ELSE LET s == at[i - 1]  b == SubSeq(file, 2 * i - 1, 2 * i) IN
             IF ~s.good \/ ~Valid(b) THEN [s EXCEPT !.good = FALSE]
             ELSE [index |-> [s.index EXCEPT ![b[1].op.key] = b[1].op.val],
                   seq |-> IF b[1].seq > s.seq THEN b[1].seq ELSE s.seq, good |-> TRUE]
  IN at[n]

WalOpen ==
  /\ fd = "closed"
  /\ fd' = "open"
  /\ index' = recover.index /\ current_seq' = recover.seq
  /\ shown' = SubSeq(shown, 1, kept)
  /\ acked' = SelectSeq(acked, LAMBDA a : a.clean) /\ ragged' = FALSE
  /\ UNCHANGED <<file, synced, kept, torn, durable, walBudget>>

\* close(): fdatasync, the index is cleared.
WalClose ==
  /\ fd = "open"
  /\ fd' = "closed" /\ index' = NoIndex
  /\ synced' = Len(file) /\ durable' = kept
  /\ UNCHANGED <<file, current_seq, shown, kept, torn, acked, ragged, walBudget>>

\* put() and del(): the write is complete, short, or an error; only the first is
\* applied to the index.
WalWrite(op) ==
  LET b == WalBlock(current_seq + 1, op) IN
  /\ fd = "open" /\ walBudget.writes < MaxWrites
  /\ walBudget' = [walBudget EXCEPT !.writes = @ + 1]
  /\ current_seq' = current_seq + 1
  /\ \/ /\ file' = file \o b
        /\ index' = [index EXCEPT ![op.key] = op.val]
        /\ shown' = Append(shown, op)
        /\ kept' = IF torn THEN kept ELSE kept + 1
        /\ acked' = Append(acked, [op |-> op, end |-> Len(file) + 2, clean |-> ~ragged])
        /\ UNCHANGED <<torn, ragged>>
     \/ /\ file' = Append(file, b[1])
        /\ torn' = TRUE /\ ragged' = TRUE
        /\ UNCHANGED <<index, shown, kept, acked>>
     \/ UNCHANGED <<file, index, shown, kept, torn, acked, ragged>>
  /\ UNCHANGED <<synced, fd, durable>>

\* The process is killed: the index goes, the file stays.
WalKilled ==
  /\ fd = "open"
  /\ fd' = "closed" /\ index' = NoIndex
  /\ UNCHANGED <<file, synced, current_seq, shown, kept, torn, durable, acked, ragged, walBudget>>

\* A power failure cuts the file anywhere behind what fdatasync has written.
WalPowerLoss ==
  /\ walBudget.losses < MaxLosses
  /\ walBudget' = [walBudget EXCEPT !.losses = @ + 1]
  /\ \E n \in synced..Len(file) :
       /\ file' = SubSeq(file, 1, n)
       /\ kept' = IF n \div 2 < kept THEN n \div 2 ELSE kept
       /\ torn' = IF n > 2 * kept THEN torn \/ n % 2 = 1 ELSE n % 2 = 1
       /\ acked' = SelectSeq(acked, LAMBDA a : a.end <= n)
  /\ fd' = "closed" /\ index' = NoIndex
  /\ UNCHANGED <<synced, current_seq, shown, durable, ragged>>

WalNext ==
  \/ WalOpen \/ WalClose \/ WalKilled \/ WalPowerLoss
  \/ \E op \in Ops : WalWrite(op)
WalSpec == WalInit /\ [][WalNext]_walVars

ReplayOf(ops) ==
  LET about(k) == {i \in DOMAIN ops : ops[i].key = k} IN
  [k \in Keys |-> IF about(k) = {} THEN Absent
                  ELSE ops[CHOOSE i \in about(k) : \A j \in about(k) : j <= i].val]

(***************************************************************************)
(* WalRecovers: an open engine shows the effect of the operations it has    *)
(* recovered and of those it has acknowledged since, in their order.  What  *)
(* it recovers is all that the file holds in front of the first torn block, *)
(* among them all that were there at the last close() (put, del, close and  *)
(* recover, wal_storage_engine.hpp:67-163).  It says nothing of operations  *)
(* behind a torn block: AcknowledgedSurvive does.                           *)
(***************************************************************************)
WalRecovers ==
  /\ fd = "open" => index = ReplayOf(shown)
  /\ kept >= durable

(***************************************************************************)
(* AcknowledgedSurvive: an open engine shows every operation it ever        *)
(* acknowledged, but those a power failure took from the file and those     *)
(* that followed a short write in the same life: "Partial block write;      *)
(* truncate and recover" (wal_storage_engine.hpp:139), so that what is      *)
(* written after a recovery is found by the next one.  The code leaves the  *)
(* torn block where it is and appends behind it (161).                      *)
(***************************************************************************)
AcknowledgedSurvive ==
  fd = "open" => index = ReplayOf([i \in DOMAIN acked |-> acked[i].op])
=============================================================================
