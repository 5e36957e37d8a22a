----------------------------- MODULE BufferPool -----------------------------
(***************************************************************************)
(* BufferPoolManager with its DiskManager and LRUKReplacer                 *)
(* (concurrent_buffer_pool_manager/), used by several client threads.      *)
(*                                                                         *)
(* Every method holds bpm_latch_ from its first line to its last, so it is *)
(* one action.  Between the methods, a client works on a page through the  *)
(* pointer it was given, without any latch.  A client passes               *)
(* is_dirty = true to unpin_page if it has changed the page since it       *)
(* pinned it, and may pass it if it has not.                               *)
(*                                                                         *)
(* The image of a page is the page_id in its header and the number of      *)
(* changes made to its tuples.  pwrite may fail or fall short, and         *)
(* write_page then throws; whatever the method has done so far stays done. *)
(***************************************************************************)
EXTENDS Integers, Sequences, FiniteSets, LruKReplacer

CONSTANTS Client,     \* threads
          NoFrame,    \* no entry in page_table_, no pointer
          MaxPages,   \* bound on the page ids that new_page hands out
          MaxAccess,  \* bound on the successful calls of new_page, fetch_page
          MaxWrites,  \* bound on the changes to a page
          MaxFails    \* bound on the failing calls of pwrite

ASSUME PoolAssumption ==
  /\ MaxPages \in Nat \ {0} /\ MaxAccess \in Nat /\ MaxWrites \in Nat
  /\ MaxFails \in Nat

ASSUME FrameAssumption ==
  IsFiniteSet(Frame) /\ IsFiniteSet(Client) /\ NoFrame \notin Frame

VARIABLES
  free_list, page_table, frames, pages, replacer,  \* BufferPoolManager
  disk, next_page_id,                              \* DiskManager
  ptr,      \* ptr[c][p]: the pointer to page p that client c holds
  wrote,    \* wrote[c]: the pages that c has changed since it pinned them
  changes,  \* history: the changes made to each page
  fails,    \* calls of pwrite that failed
  status    \* the pool is open, closed, or the process has terminated

pool == <<free_list, page_table, frames, pages, replacer>>
clients == <<ptr, wrote, changes>>
poolVars == <<pool, disk, next_page_id, clients, fails, status>>

Page == 0 .. MaxPages - 1
NoPage == -1    \* INVALID_PAGE_ID
Torn == -1      \* the tuples of a page that was partly written to disk

Image == [id : Page, tuples : Nat \cup {Torn}]
FrameMeta == [page_id : Page \cup {NoPage}, pin_count : Nat, is_dirty : BOOLEAN]

PoolTypeOK ==
  /\ free_list \in Seq(Frame)
  /\ page_table \in [Page -> Frame \cup {NoFrame}]
  /\ frames \in [Frame -> FrameMeta]
  /\ pages \in [Frame -> Image]
  /\ replacer \in Replacer /\ \A f \in Frame : Len(replacer.history[f]) <= K
  /\ disk \in [Page -> Image] /\ next_page_id \in 0 .. MaxPages
  /\ ptr \in [Client -> [Page -> Frame \cup {NoFrame}]]
  /\ wrote \in [Client -> SUBSET Page]
  /\ changes \in [Page -> Nat] /\ fails \in Nat
  /\ status \in {"open", "closed", "terminated"}

(* SlottedPage::init, and what read_page makes of a page never written.    *)
Fresh(p) == [id |-> p, tuples |-> 0]
ZeroPage == [id |-> 0, tuples |-> 0]

PoolInit ==
  /\ free_list = SetToSeq(Frame)
  /\ page_table = [p \in Page |-> NoFrame]
  /\ frames = [f \in Frame |->
                 [page_id |-> NoPage, pin_count |-> 0, is_dirty |-> FALSE]]
  /\ pages = [f \in Frame |-> ZeroPage]
  /\ replacer = EmptyReplacer
  /\ disk = [p \in Page |-> ZeroPage] /\ next_page_id = 0
  /\ ptr = [c \in Client |-> [p \in Page |-> NoFrame]]
  /\ wrote = [c \in Client |-> {}]
  /\ changes = [p \in Page |-> 0] /\ fails = 0 /\ status = "open"

Held(c, p) == ptr[c][p] # NoFrame
Resident(p) == page_table[p] # NoFrame
Dirty(f) == frames[f].page_id # NoPage /\ frames[f].is_dirty

(* find_available_frame: the frames it may return, each with what it       *)
(* leaves of the free list and of the replacer.                            *)
find_available_frame ==
  IF free_list # << >>
  THEN {[fid |-> Head(free_list), free_list |-> Tail(free_list),
         replacer |-> replacer]}
  ELSE {[fid |-> f, free_list |-> free_list,
         replacer |-> erase_victim(replacer, f)] : f \in Victims(replacer)}

(* record_access and set_evictable(false), after a page has been pinned.   *)
Pinned(r, f) == set_evictable(record_access(r, f), f, FALSE)

(* A failing pwrite leaves the old page on disk, or the first part of the  *)
(* new one over it; where the two agree, nothing is torn.                  *)
Partial(old, new) ==
  [id |-> new.id, tuples |-> IF old.tuples = new.tuples THEN old.tuples ELSE Torn]

FailedWrite(d, p) ==
  /\ fails < MaxFails /\ fails' = fails + 1
  /\ disk' \in {d, [d EXCEPT ![p] = Partial(@, pages[page_table[p]])]}

(* The dirty page of frame f is written back before f is used again.       *)
WriteBackNever(f) == UNCHANGED disk
WriteBack(f) ==
  disk' = IF Dirty(f) THEN [disk EXCEPT ![frames[f].page_id] = pages[f]]
                      ELSE disk

(* Frame a.fid gets page p with this image, pinned by client c.            *)
Install(c, p, a, image) ==
  /\ WriteBack(a.fid)
  /\ page_table' = [q \in Page |-> IF q = p THEN a.fid
                                   ELSE IF q = frames[a.fid].page_id THEN NoFrame
                                   ELSE page_table[q]]
  /\ pages' = [pages EXCEPT ![a.fid] = image]
  /\ frames' = [frames EXCEPT ![a.fid] =
                  [page_id |-> p, pin_count |-> 1, is_dirty |-> FALSE]]
  /\ free_list' = a.free_list
  /\ replacer' = Pinned(a.replacer, a.fid)
  /\ ptr' = [ptr EXCEPT ![c][p] = a.fid]
  /\ UNCHANGED <<wrote, changes, fails, status>>

(* The write-back of the page in frame a.fid throws: the frame has left    *)
(* the free list or the replacer, the rest of the pool is as it was.       *)
InstallFails(a) ==
  /\ Dirty(a.fid)
  /\ FailedWrite(disk, frames[a.fid].page_id)
  /\ free_list' = a.free_list /\ replacer' = a.replacer
  /\ UNCHANGED <<page_table, frames, pages, clients, status>>

Open == status = "open"
CanAccess == Open /\ replacer.now < MaxAccess

new_page(c) ==
  /\ CanAccess /\ next_page_id < MaxPages
  /\ next_page_id' = next_page_id + 1
  /\ \E a \in find_available_frame :
        Install(c, next_page_id, a, Fresh(next_page_id))

new_page_throws ==
  /\ CanAccess /\ next_page_id < MaxPages
  /\ next_page_id' = next_page_id + 1
  /\ \E a \in find_available_frame : InstallFails(a)

FetchHit(c, p) ==
  /\ CanAccess /\ ~Held(c, p) /\ Resident(p)
  /\ LET f == page_table[p]
     IN  /\ frames' = [frames EXCEPT ![f].pin_count = @ + 1]
         /\ replacer' = Pinned(replacer, f)
         /\ ptr' = [ptr EXCEPT ![c][p] = f]
  /\ UNCHANGED <<free_list, page_table, pages, disk, next_page_id, wrote,
                 changes, fails, status>>

(* A client asks for the pages that new_page has made.                     *)
FetchMiss(c, p) ==
  /\ CanAccess /\ p < next_page_id /\ ~Resident(p)
  /\ \E a \in find_available_frame : Install(c, p, a, disk[p])
  /\ UNCHANGED next_page_id

FetchThrows(p) ==
  /\ CanAccess /\ p < next_page_id /\ ~Resident(p)
  /\ \E a \in find_available_frame : InstallFails(a)
  /\ UNCHANGED next_page_id

(* The replacer after unpin_page has left this many pins on frame f.       *)
UnpinnedEarly(f, pins) == set_evictable(replacer, f, TRUE)
Unpinned(f, pins) ==
  IF pins = 0 THEN set_evictable(replacer, f, TRUE) ELSE replacer

unpin_page(c, p, is_dirty) ==
  /\ Open /\ Held(c, p) /\ (p \in wrote[c] => is_dirty)
  /\ Resident(p) /\ frames[page_table[p]].pin_count > 0
  /\ LET f == page_table[p]
         pins == frames[f].pin_count - 1
     IN  /\ frames' = [frames EXCEPT ![f].pin_count = pins,
                                     ![f].is_dirty = @ \/ is_dirty]
         /\ replacer' = Unpinned(f, pins)
  /\ ptr' = [ptr EXCEPT ![c][p] = NoFrame]
  /\ wrote' = [wrote EXCEPT ![c] = @ \ {p}]
  /\ UNCHANGED <<free_list, page_table, pages, disk, next_page_id, changes,
                 fails, status>>

(* A client changes the tuples of a page, for instance with insert_tuple.  *)
Change(c, p) ==
  /\ Open /\ Held(c, p) /\ changes[p] < MaxWrites
  /\ pages' = [pages EXCEPT ![ptr[c][p]].tuples = @ + 1]
  /\ wrote' = [wrote EXCEPT ![c] = @ \cup {p}]
  /\ changes' = [changes EXCEPT ![p] = @ + 1]
  /\ UNCHANGED <<free_list, page_table, frames, replacer, disk, next_page_id,
                 ptr, fails, status>>

flush_page(p) ==
  /\ Open /\ Resident(p)
  /\ disk' = [disk EXCEPT ![p] = pages[page_table[p]]]
  /\ frames' = [frames EXCEPT ![page_table[p]].is_dirty = FALSE]
  /\ UNCHANGED <<free_list, page_table, pages, replacer, next_page_id, clients,
                 fails, status>>

flush_page_throws(p) ==
  /\ Open /\ Resident(p)
  /\ FailedWrite(disk, p)
  /\ UNCHANGED <<pool, next_page_id, clients, status>>

(* The loop of flush_all_pages has written the pages of this set.          *)
Flushed(S) ==
  frames' = [f \in Frame |-> [frames[f] EXCEPT
               !.is_dirty = @ /\ frames[f].page_id \notin S]]

DirtyPages == {p \in Page : Resident(p) /\ frames[page_table[p]].is_dirty}
WrittenTo(S) ==
  [p \in Page |-> IF p \in S THEN pages[page_table[p]] ELSE disk[p]]

flush_all_pages ==
  /\ disk' = WrittenTo(DirtyPages) /\ Flushed(DirtyPages)
  /\ UNCHANGED <<free_list, page_table, pages, replacer, next_page_id, clients,
                 fails>>

(* The loop stops at the first page whose write throws.                    *)
flush_all_throws ==
  \E S \in SUBSET DirtyPages, p \in DirtyPages :
    /\ p \notin S /\ FailedWrite(WrittenTo(S), p) /\ Flushed(S)
    /\ UNCHANGED <<free_list, page_table, pages, replacer, next_page_id, clients>>

FlushAll == Open /\ flush_all_pages /\ UNCHANGED status
FlushAllThrows == Open /\ flush_all_throws /\ UNCHANGED status

(* The destructor runs when no client uses the pool.  An exception that    *)
(* leaves it terminates the process.                                       *)
Idle == \A c \in Client, p \in Page : ~Held(c, p)
Destroy == Open /\ Idle /\ flush_all_pages /\ status' = "closed"
DestroyThrows == Open /\ Idle /\ flush_all_throws /\ status' = "terminated"

PoolNext ==
  \/ \E c \in Client : new_page(c)
  \/ new_page_throws
  \/ \E c \in Client, p \in Page : FetchHit(c, p) \/ FetchMiss(c, p)
  \/ \E p \in Page : FetchThrows(p)
  \/ \E c \in Client, p \in Page, d \in BOOLEAN : unpin_page(c, p, d)
  \/ \E c \in Client, p \in Page : Change(c, p)
  \/ \E p \in Page : flush_page(p) \/ flush_page_throws(p)
  \/ FlushAll \/ FlushAllThrows \/ Destroy \/ DestroyThrows

PoolSpec == PoolInit /\ [][PoolNext]_poolVars

-----------------------------------------------------------------------------
(* A page stays in its frame as long as a client holds a pointer to it:    *)
(* the pointer that new_page or fetch_page returned leads to that page,    *)
(* and the frame's pin count is the number of the pointers to it.          *)
PointersValid ==
  /\ \A c \in Client, p \in Page : Held(c, p) =>
        page_table[p] = ptr[c][p] /\ frames[ptr[c][p]].page_id = p
  /\ \A f \in Frame : frames[f].pin_count =
        Cardinality({cp \in Client \X Page : ptr[cp[1]][cp[2]] = f})

(* Whatever is evicted, flushed or fails, no change to a page is lost: it  *)
(* is in the page's frame, or on disk when the page is in no frame.  A     *)
(* destructor that returns has left every change on disk.                  *)
NoLostChange ==
  \A p \in Page :
    /\ Resident(p) => pages[page_table[p]].tuples = changes[p]
    /\ ~Resident(p) \/ status = "closed" => disk[p].tuples = changes[p]

(* No frame leaks: an unpinned frame is free or evictable, and curr_size_  *)
(* counts the evictable ones.  The exceptions are frames that lost their   *)
(* place when a write-back threw, at most one for each failed write; such  *)
(* a frame keeps its page, and is back in use when that page is fetched.   *)
Stranded ==
  {f \in Frame : /\ frames[f].pin_count = 0 /\ f \notin replacer.evictable
                 /\ f \notin Range(free_list)}

FramesAccounted ==
  /\ replacer.curr_size = Cardinality(replacer.evictable)
  /\ \A f \in replacer.evictable :
        frames[f].pin_count = 0 /\ page_table[frames[f].page_id] = f
  /\ Cardinality(Stranded) <= fails
  /\ \A f \in Stranded : page_table[frames[f].page_id] = f

(* In whatever order the hash table lists the frames, victim() finds the   *)
(* frame that the LRU-K policy names.                                      *)
VictimIsLruK ==
  replacer.curr_size > 0 =>
    \A order \in Orders(replacer) : \E f \in LruK(replacer) : Scan(replacer, order) = {f}

=============================================================================
