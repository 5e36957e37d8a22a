----------------------------- MODULE SlabAllocator -----------------------------
(***************************************************************************)
(* slab_allocator.hpp: chunks of mapped slabs on an intrusive free list,   *)
(* whose links are stored in the free chunks themselves, where the objects *)
(* of their users will be.                                                 *)
(***************************************************************************)
EXTENDS Integers, Sequences, FiniteSets

CONSTANTS ObjectsPerSlab,
          MaxSlabs   \* bound: slabs that can be mapped, then mmap fails

ASSUME SlabAssumption == {ObjectsPerSlab, MaxSlabs} \subseteq Nat \ {0}

VARIABLES free_head, mem, slabs, active_objects,
          live   \* chunks whose object a caller holds
slabVars == <<free_head, mem, slabs, active_objects, live>>

Chunks == 1..ObjectsPerSlab * MaxSlabs
Null == 0
Object == -1   \* the bytes of an object, where a link may have been

\* grow_slab(): the chunks of a new slab are pushed one by one; nothing if mmap fails.
grow_slab(s) ==
  IF s.slabs = MaxSlabs THEN s
  ELSE LET base == s.slabs * ObjectsPerSlab IN
       [slabs |-> s.slabs + 1,
        head  |-> base + ObjectsPerSlab,
        mem   |-> [c \in Chunks |->
                     CASE c = base + 1 -> s.head
                       [] c \in base + 2..base + ObjectsPerSlab -> c - 1
                       [] OTHER -> s.mem[c]]]

State == [slabs |-> slabs, head |-> free_head, mem |-> mem]

SlabInit ==
  LET s == grow_slab([slabs |-> 0, head |-> Null, mem |-> [c \in Chunks |-> Null]]) IN
  /\ free_head = s.head /\ mem = s.mem /\ slabs = s.slabs
  /\ active_objects = 0 /\ live = {}

\* allocate() of a non-empty list: its first chunk, the caller's from now on.
allocate(s) ==
  /\ s.head # Null
  /\ free_head' = s.mem[s.head]
  /\ mem' = [s.mem EXCEPT ![s.head] = Object]
  /\ slabs' = s.slabs
  /\ active_objects' = active_objects + 1

\* construct(): allocate(), which grows an empty list first, then the object's
\* constructor in the chunk.  If that throws the chunk is neither free nor
\* anyone's.  nullptr, for want of memory, changes nothing.
construct(throws) ==
  LET s == IF free_head = Null THEN grow_slab(State) ELSE State IN
  /\ allocate(s)
  /\ live' = IF throws THEN live ELSE live \cup {s.head}

DeallocateLosesTail(c) ==   \* mutant: the chunk is made the whole list
  /\ mem' = [mem EXCEPT ![c] = Null]
  /\ free_head' = c
  /\ active_objects' = active_objects - 1

\* deallocate(): the chunk is pushed on the list.
deallocate(c) ==
  /\ mem' = [mem EXCEPT ![c] = free_head]
  /\ free_head' = c
  /\ active_objects' = active_objects - 1

\* destroy(): the destructor, then deallocate().
destroy(c) == c \in live /\ deallocate(c) /\ live' = live \ {c} /\ UNCHANGED slabs

SlabNext == (\E throws \in BOOLEAN : construct(throws)) \/ \E c \in Chunks : destroy(c)
SlabSpec == SlabInit /\ [][SlabNext]_slabVars

(***************************************************************************)
(* SlabChain: the list from free_head_ ends and meets no chunk twice, no    *)
(* object is on it, and active_objects_ and the list account for every      *)
(* chunk mapped, so all free chunks can still be handed out (allocate,      *)
(* deallocate and grow_slab, slab_allocator.hpp:48-76 and 114-137).         *)
(***************************************************************************)
SlabChain ==
  LET at[n \in 0..Cardinality(Chunks)] ==
        IF n = 0 THEN free_head
        ELSE IF at[n - 1] \in Chunks THEN mem[at[n - 1]] ELSE Null
      listed == {at[n] : n \in 0..Cardinality(Chunks)} \ {Null} IN
  /\ at[Cardinality(Chunks)] = Null
  /\ listed \subseteq 1..slabs * ObjectsPerSlab
  /\ listed \cap live = {}
  /\ Cardinality(listed) + active_objects = slabs * ObjectsPerSlab
=============================================================================
