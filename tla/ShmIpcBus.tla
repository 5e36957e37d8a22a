------------------------------- MODULE ShmIpcBus -------------------------------
(***************************************************************************)
(* shm_ipc_bus.hpp: a single-producer single-consumer ring in a POSIX      *)
(* shared-memory object.  The creator is the producer, a process that      *)
(* attaches is the consumer; either may die at any step and be started     *)
(* again.  A message is an element of Msgs; timestamps and the payload's   *)
(* bytes are left out (callers pass payloads of at most MAX_PAYLOAD).      *)
(***************************************************************************)
EXTENDS Integers, Sequences, FiniteSets

CONSTANTS Msgs,        \* what may be published
          Capacity,    \* of the ring, a power of two
          Word,        \* indices are unsigned words: arithmetic modulo Word
          MaxStarts,   \* bound: calls of create()
          MaxAttaches, \* bound: calls of attach()
          MaxMsgs      \* bound: publications

ASSUME RingAssumption ==
  /\ {Capacity, Word, MaxStarts, MaxAttaches, MaxMsgs} \subseteq Nat \ {0}
  /\ Capacity < Word
  /\ Word % Capacity = 0

VARIABLES
  name,     \* the object the name refers to, 0 if there is none
  seg,      \* the objects: size, header and ring
  producer, \* the creator's process and its locals in publish()
  consumer, \* the attached process and its locals in consume()
  log,      \* per object, what has been published since its last truncation
  spoiled,  \* objects truncated while a consume() was under way in them
  budget    \* bounds

shmVars == <<name, seg, producer, consumer, log, spoiled, budget>>

Objects == 1..MaxStarts
Zeroed == [none |-> "zeroed"]  \* a slot of zeros, or no message
Torn == [none |-> "torn"]      \* a slot that is being written

Blank == [sized |-> FALSE, write_index |-> 0, read_index |-> 0, capacity |-> 0,
          ring |-> [i \in 0..Capacity - 1 |-> Zeroed]]

NoProducer == [pc |-> "down", at |-> 0, w |-> 0, msg |-> Zeroed]
NoConsumer == [pc |-> "down", at |-> 0, r |-> 0, out |-> Zeroed]

Init ==
  /\ name = 0
  /\ seg = [o \in Objects |-> Blank]
  /\ producer = NoProducer
  /\ consumer = NoConsumer
  /\ log = [o \in Objects |-> <<>>]
  /\ spoiled = {}
  /\ budget = [starts |-> 0, attaches |-> 0, msgs |-> 0]

-----------------------------------------------------------------------------
(* The producer's process. *)

\* create(): shm_open with O_CREAT | O_TRUNC.  An object left behind by a dead
\* creator is emptied under the consumer that may still have it mapped.
CreateOpen ==
  /\ producer.pc = "down"
  /\ budget.starts < MaxStarts
  /\ LET o == IF name = 0 THEN budget.starts + 1 ELSE name IN
       /\ name' = o
       /\ seg' = [seg EXCEPT ![o] = Blank]
       /\ log' = [log EXCEPT ![o] = <<>>]
       /\ producer' = [producer EXCEPT !.pc = "opened", !.at = o]
       /\ spoiled' = IF consumer.at = o /\ consumer.pc \notin {"down", "idle"}
                     THEN spoiled \cup {o} ELSE spoiled
  /\ budget' = [budget EXCEPT !.starts = @ + 1]
  /\ UNCHANGED consumer

\* create(): ftruncate and mmap; the pages read as zeros.
CreateSize ==
  /\ producer.pc = "opened"
  /\ seg' = [seg EXCEPT ![producer.at].sized = TRUE]
  /\ producer' = [producer EXCEPT !.pc = "sized"]
  /\ UNCHANGED <<name, consumer, log, spoiled, budget>>

\* create(): the header's stores.
CreateInit ==
  /\ producer.pc = "sized"
  /\ seg' = [seg EXCEPT ![producer.at].write_index = 0,
                        ![producer.at].read_index = 0,
                        ![producer.at].capacity = Capacity]
  /\ producer' = [producer EXCEPT !.pc = "idle"]
  /\ UNCHANGED <<name, consumer, log, spoiled, budget>>

\* The kernel frees an object that has neither a name nor a mapping.
Free(o) ==
  /\ seg' = [seg EXCEPT ![o] = Blank]
  /\ log' = [log EXCEPT ![o] = <<>>]
  /\ spoiled' = spoiled \ {o}
Keep == UNCHANGED <<seg, log, spoiled>>

\* ~ShmIpcBus() of the creator: munmap and shm_unlink.
Destroy ==
  /\ producer.pc = "idle"
  /\ producer' = NoProducer
  /\ name' = 0
  /\ IF consumer.at = producer.at THEN Keep ELSE Free(producer.at)
  /\ UNCHANGED <<consumer, budget>>

\* The creator is killed: its mapping goes, the name and the object stay.
ProducerDies ==
  /\ producer.pc # "down"
  /\ producer' = NoProducer
  /\ UNCHANGED <<name, seg, consumer, log, spoiled, budget>>

FullTooLate(o) ==   \* mutant
  (seg[o].write_index - seg[o].read_index) % Word > seg[o].capacity
Full(o) ==
  (seg[o].write_index - seg[o].read_index) % Word >= seg[o].capacity

Slot(i) == i % Capacity   \* i & mask

\* publish(): loads both indices; false if full, else starts to write the slot.
PublishBegin(m) ==
  LET o == producer.at  w == seg[o].write_index IN
  /\ producer.pc = "idle"
  /\ budget.msgs < MaxMsgs
  /\ ~Full(o)
  /\ producer' = [producer EXCEPT !.pc = "writing", !.w = w, !.msg = m]
  /\ seg' = [seg EXCEPT ![o].ring[Slot(w)] = Torn]
  /\ budget' = [budget EXCEPT !.msgs = @ + 1]
  /\ UNCHANGED <<name, consumer, log, spoiled>>

\* publish(): the slot is complete.
PublishFill ==
  /\ producer.pc = "writing"
  /\ seg' = [seg EXCEPT ![producer.at].ring[Slot(producer.w)] = producer.msg]
  /\ producer' = [producer EXCEPT !.pc = "written"]
  /\ UNCHANGED <<name, consumer, log, spoiled, budget>>

\* publish(): the release store of write_index.
PublishStore ==
  /\ producer.pc = "written"
  /\ seg' = [seg EXCEPT ![producer.at].write_index = (producer.w + 1) % Word]
  /\ log' = [log EXCEPT ![producer.at] = Append(@, producer.msg)]
  /\ producer' = [producer EXCEPT !.pc = "idle", !.w = 0, !.msg = Zeroed]
  /\ UNCHANGED <<name, consumer, spoiled, budget>>

-----------------------------------------------------------------------------
(* The consumer's process.  A touch of an object of size 0 is a SIGBUS. *)

\* attach(): the object is mapped whatever its size; the header is not looked at.
Attach ==
  /\ consumer.pc = "down"
  /\ name # 0
  /\ budget.attaches < MaxAttaches
  /\ consumer' = [NoConsumer EXCEPT !.pc = "idle", !.at = name]
  /\ budget' = [budget EXCEPT !.attaches = @ + 1]
  /\ UNCHANGED <<name, seg, producer, log, spoiled>>

\* The consumer ends or is killed, by a SIGBUS among others.
ConsumerDies ==
  /\ consumer.pc # "down"
  /\ consumer' = NoConsumer
  /\ IF consumer.at = name THEN Keep ELSE Free(consumer.at)
  /\ UNCHANGED <<name, producer, budget>>

Mapped == consumer.pc # "down" /\ seg[consumer.at].sized

\* consume(): the relaxed load of read_index.
ConsumeLoadR ==
  /\ consumer.pc = "idle" /\ Mapped
  /\ consumer' = [consumer EXCEPT !.pc = "loaded", !.r = seg[consumer.at].read_index]
  /\ UNCHANGED <<name, seg, producer, log, spoiled, budget>>

LoadWKeepsOne ==   \* mutant: the last message counts as none
  /\ consumer.pc = "loaded" /\ Mapped
  /\ consumer' = IF consumer.r + 1 >= seg[consumer.at].write_index
                 THEN [consumer EXCEPT !.pc = "idle", !.r = 0]
                 ELSE [consumer EXCEPT !.pc = "copying"]
  /\ UNCHANGED <<name, seg, producer, log, spoiled, budget>>

\* consume(): the acquire load of write_index; false if the ring is empty.
ConsumeLoadW ==
  /\ consumer.pc = "loaded" /\ Mapped
  /\ consumer' = IF consumer.r = seg[consumer.at].write_index
                 THEN [consumer EXCEPT !.pc = "idle", !.r = 0]
                 ELSE [consumer EXCEPT !.pc = "copying"]
  /\ UNCHANGED <<name, seg, producer, log, spoiled, budget>>

\* consume(): out = slot.
ConsumeCopy ==
  /\ consumer.pc = "copying" /\ Mapped
  /\ consumer' = [consumer EXCEPT !.pc = "copied",
                                  !.out = seg[consumer.at].ring[Slot(consumer.r)]]
  /\ UNCHANGED <<name, seg, producer, log, spoiled, budget>>

\* consume(): the release store of read_index; the caller has the message.  In
\* an object truncated meanwhile it puts the index of the old ring into the new.
ConsumeStore ==
  /\ consumer.pc = "copied" /\ Mapped
  /\ seg' = [seg EXCEPT ![consumer.at].read_index = (consumer.r + 1) % Word]
  /\ consumer' = [consumer EXCEPT !.pc = "idle", !.r = 0, !.out = Zeroed]
  /\ UNCHANGED <<name, producer, log, spoiled, budget>>

Consume == ConsumeLoadR \/ ConsumeLoadW \/ ConsumeCopy \/ ConsumeStore
Publish == (\E m \in Msgs : PublishBegin(m)) \/ PublishFill \/ PublishStore
Create == CreateOpen \/ CreateSize \/ CreateInit

-----------------------------------------------------------------------------
(***************************************************************************)
(* RingSafe: whatever processes died and came back, in an object that was   *)
(* not truncated under a running consume() the indices are those of a ring  *)
(* of Capacity messages, every unread slot holds the message published at   *)
(* its index, and what consume() is about to return is the message at the   *)
(* reader's index: none is torn, skipped, or taken from an earlier life of  *)
(* the object (publish and consume, shm_ipc_bus.hpp:145-180).               *)
(***************************************************************************)
RingSafe ==
  \A o \in Objects \ spoiled :
    LET s == seg[o]
        n == Len(log[o])
        unread == (s.write_index - s.read_index) % Word
        first == n - unread IN  \* how many messages have been read
    /\ s.write_index = n % Word
    /\ unread <= Capacity /\ first >= 0
    /\ \A i \in first..n - 1 : s.ring[Slot(i)] = log[o][i + 1]
    /\ consumer.pc = "copied" /\ consumer.at = o =>
         /\ consumer.r = s.read_index
         /\ unread > 0 /\ consumer.out = log[o][first + 1]

(***************************************************************************)
(* Consumed: again and again a consumer has caught up with everything       *)
(* published in the object it has mapped, unless it dies or the object is   *)
(* truncated under a consume() (the polling loop around consume,            *)
(* shm_ipc_bus.hpp:167).                                                    *)
(***************************************************************************)
CaughtUp == seg[consumer.at].read_index = Len(log[consumer.at]) % Word
Consumed ==
  []<>(consumer.pc = "down" \/ consumer.at \in spoiled \/ CaughtUp)
=============================================================================
