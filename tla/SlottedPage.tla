------------------------------ MODULE SlottedPage ------------------------------
(***************************************************************************)
(* slotted_page.hpp: tuples grow down from the end of the page, the slot   *)
(* directory grows up behind the header.  page.data holds the tuples'      *)
(* bytes; header and directory are kept apart but take their room.         *)
(***************************************************************************)
EXTENDS Integers, Sequences

CONSTANTS PageSize, HeaderSize, SlotSize, Payloads

ASSUME PageAssumption ==
  /\ {PageSize, HeaderSize, SlotSize} \subseteq Nat \ {0}
  /\ HeaderSize < PageSize
  /\ Payloads \subseteq Seq(Nat)

VARIABLES page,   \* the bytes, the directory and free_space_ptr
          tuples, \* what the callers stored: slot -> payload, or Gone
          refused \* size of the last insert that was refused, 0 for none
pageVars == <<page, tuples, refused>>

Gone == <<-1>>

\* init()
PageInit ==
  /\ page = [data |-> [i \in 0..PageSize - 1 |-> 0], slots |-> <<>>, free_space_ptr |-> PageSize]
  /\ tuples = <<>>
  /\ refused = 0

DirectoryEnd(p) == HeaderSize + Len(p.slots) * SlotSize
free_space(p) == IF p.free_space_ptr < DirectoryEnd(p) THEN 0
                 ELSE p.free_space_ptr - DirectoryEnd(p)

\* memcpy of bytes to offset at.
Copy(data, at, bytes) ==
  [i \in DOMAIN data |-> IF i \in at..at + Len(bytes) - 1 THEN bytes[i - at + 1] ELSE data[i]]
Tuple(p, i) == [k \in 1..p.slots[i].size |-> p.data[p.slots[i].offset + k - 1]]

MovedForgetsOffset(p, q, i) ==   \* mutant: the first tuple keeps its old offset
  LET s == p.slots[i]  to == q.free_space_ptr - s.size IN
  IF s.is_deleted \/ s.size = 0 THEN q
  ELSE [data |-> Copy(q.data, to, Tuple(p, i)), free_space_ptr |-> to,
        slots |-> IF i = 1 THEN q.slots ELSE [q.slots EXCEPT ![i].offset = to]]

\* compact()'s loop, from page p through a buffer, so that every read is of the old
\* bytes: slot i's tuple, if it is live and not empty, goes below those in q.
Moved(p, q, i) ==
  LET s == p.slots[i]  to == q.free_space_ptr - s.size IN
  IF s.is_deleted \/ s.size = 0 THEN q
  ELSE [data |-> Copy(q.data, to, Tuple(p, i)), free_space_ptr |-> to,
        slots |-> [q.slots EXCEPT ![i].offset = to]]
compact(p) ==
  LET done[i \in 0..Len(p.slots)] ==
        IF i = 0 THEN [p EXCEPT !.free_space_ptr = PageSize] ELSE Moved(p, done[i - 1], i)
  IN done[Len(p.slots)]

\* Compacted if the room does not do; the caller looks again.
MakeRoom(p, need) == IF free_space(p) < need THEN compact(p) ELSE p

\* A tuple's bytes are put below free_space_ptr.
Stored(p, bytes) ==
  LET to == p.free_space_ptr - Len(bytes) IN
  [p EXCEPT !.free_space_ptr = to, !.data = Copy(@, to, bytes)]

\* insert_tuple(): the first deleted slot is used again, else a slot is added.
insert_tuple(bytes) ==
  LET need == Len(bytes) + SlotSize
      p == MakeRoom(page, need)
      q == Stored(p, bytes)
      deleted == {i \in DOMAIN p.slots : p.slots[i].is_deleted}
      target == IF deleted = {} THEN Len(p.slots) + 1
                ELSE CHOOSE i \in deleted : \A j \in deleted : i <= j
      slot == [offset |-> q.free_space_ptr, size |-> Len(bytes), is_deleted |-> FALSE] IN
  IF free_space(p) < need
  THEN page' = p /\ refused' = Len(bytes) + 1 /\ UNCHANGED tuples
  ELSE /\ page' = [q EXCEPT !.slots = [i \in 1..IF deleted = {} THEN target ELSE Len(@) |->
                                         IF i = target THEN slot ELSE @[i]]]
       /\ tuples' = [i \in DOMAIN page'.slots |-> IF i = target THEN bytes ELSE tuples[i]]
       /\ refused' = 0

\* update_tuple(): in place if it is not longer; else stored anew, the old bytes
\* staying until the next compaction.
update_tuple(i, bytes) ==
  LET s == page.slots[i]
      p == MakeRoom(page, Len(bytes))
      q == Stored(p, bytes) IN
  /\ i \in DOMAIN page.slots /\ ~s.is_deleted
  /\ refused' = 0
  /\ IF Len(bytes) <= s.size
     THEN /\ page' = [page EXCEPT !.data = Copy(@, s.offset, bytes),
                                  !.slots[i].size = Len(bytes)]
          /\ tuples' = [tuples EXCEPT ![i] = bytes]
     ELSE IF free_space(p) < Len(bytes)
     THEN page' = p /\ UNCHANGED tuples
     ELSE /\ page' = [q EXCEPT !.slots[i].offset = q.free_space_ptr,
                               !.slots[i].size = Len(bytes)]
          /\ tuples' = [tuples EXCEPT ![i] = bytes]

delete_tuple(i) ==
  /\ i \in DOMAIN page.slots /\ ~page.slots[i].is_deleted
  /\ page' = [page EXCEPT !.slots[i].is_deleted = TRUE, !.slots[i].size = 0]
  /\ tuples' = [tuples EXCEPT ![i] = Gone]
  /\ refused' = 0

\* compact() called from outside.
Compact == page' = compact(page) /\ refused' = 0 /\ UNCHANGED tuples

\* get_tuple(): Gone for a deleted slot.
get_tuple(i) == IF page.slots[i].is_deleted THEN Gone ELSE Tuple(page, i)

PageNext ==
  \/ Compact
  \/ \E bytes \in Payloads : insert_tuple(bytes)
  \/ \E i \in DOMAIN page.slots : delete_tuple(i) \/ \E bytes \in Payloads : update_tuple(i, bytes)
PageSpec == PageInit /\ [][PageNext]_pageVars

-----------------------------------------------------------------------------
\* The bytes of the first i tuples, for every i.
SizeSums(slots) ==
  LET sum[i \in 0..Len(slots)] == IF i = 0 THEN 0 ELSE sum[i - 1] + slots[i].size
  IN sum
Sizes == SizeSums(page.slots)[Len(page.slots)]

(***************************************************************************)
(* TuplesIntact: every slot gives back what was stored last in it, through  *)
(* any sequence of inserts, growing and shrinking updates, deletes and      *)
(* compactions, no tuple reaches into the directory, and an insert is       *)
(* refused only if the live bytes and the directory leave no room for it,   *)
(* fragmentation or not (slotted_page.hpp:75-193).                          *)
(***************************************************************************)
TuplesIntact ==
  /\ \A i \in DOMAIN page.slots :
       /\ get_tuple(i) = tuples[i]
       /\ page.slots[i].size > 0 => page.slots[i].offset >= DirectoryEnd(page)
  /\ page.free_space_ptr >= DirectoryEnd(page)
  /\ refused > 0 => DirectoryEnd(page) + Sizes + (refused - 1) + SlotSize > PageSize
=============================================================================
