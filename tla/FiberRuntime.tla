---------------------------- MODULE FiberRuntime ----------------------------
(***************************************************************************)
(* The cooperative fiber runtime (03-cooperative-fiber-scheduler/          *)
(* fiber_scheduler.hpp): a Scheduler, a FiberMutex and a FiberChannel on   *)
(* one thread.  A fiber runs until it switches back to the scheduler, so   *)
(* a call that returns without switching is one action, and a call that    *)
(* suspends is one action per turn of its while loop.  Fibers are arbitrary *)
(* clients: each one yields, locks, unlocks, sends, receives and spawns in *)
(* any order; it unlocks only what it has locked, and does so before it    *)
(* ends.                                                                   *)
(***************************************************************************)
EXTENDS Integers, Sequences, FiniteSets

CONSTANTS Fiber,
          NoFiber,    \* nullptr: the thread is in run() or outside
          Capacity,   \* capacity_ of the channel
          MaxOps      \* bound on the calls of one fiber

ASSUME FiberAssumption ==
  /\ NoFiber \notin Fiber /\ IsFiniteSet(Fiber)
  /\ Capacity \in Nat \ {0} /\ MaxOps \in Nat

VARIABLES
  state,         \* state_ of each fiber; UNBORN before spawn
  pc,            \* the call a fiber is in: "client" (none), "lock", "send", "receive"
  current,       \* current_fiber_
  ready_queue,   \* ready_queue_
  locked,        \* locked_ of the mutex
  waiters,       \* waiters_ of the mutex
  queue,         \* how many values queue_ of the channel holds
  send_waiters,  \* send_waiters_
  recv_waiters,  \* recv_waiters_
  holders,       \* history: the fibers between a lock and its unlock
  ops            \* calls made by each fiber, for the bound

sched == <<state, current, ready_queue>>
mutex == <<locked, waiters, holders>>
channel == <<queue, send_waiters, recv_waiters>>
vars == <<state, pc, current, ready_queue, locked, waiters, queue, send_waiters,
          recv_waiters, holders, ops>>

TypeOK ==
  /\ state \in [Fiber -> {"UNBORN", "READY", "RUNNING", "SUSPENDED", "DEAD"}]
  /\ pc \in [Fiber -> {"client", "lock", "send", "receive"}]
  /\ current \in Fiber \cup {NoFiber}
  /\ ready_queue \in Seq(Fiber) /\ waiters \in Seq(Fiber)
  /\ send_waiters \in Seq(Fiber) /\ recv_waiters \in Seq(Fiber)
  /\ locked \in BOOLEAN /\ holders \subseteq Fiber
  /\ queue \in 0 .. Capacity
  /\ ops \in [Fiber -> 0 .. MaxOps]

Init ==
  /\ state = [f \in Fiber |-> "UNBORN"] /\ pc = [f \in Fiber |-> "client"]
  /\ current = NoFiber /\ ready_queue = << >>
  /\ locked = FALSE /\ waiters = << >> /\ holders = {}
  /\ queue = 0 /\ send_waiters = << >> /\ recv_waiters = << >>
  /\ ops = [f \in Fiber |-> 0]

-----------------------------------------------------------------------------
(* One turn of the loop of run().                                          *)
Run ==
  /\ current = NoFiber /\ ready_queue # << >>
  /\ ready_queue' = Tail(ready_queue)
  /\ LET f == Head(ready_queue)
     IN  IF state[f] = "DEAD" THEN UNCHANGED <<state, current>>
         ELSE state' = [state EXCEPT ![f] = "RUNNING"] /\ current' = f
  /\ UNCHANGED <<pc, mutex, channel, ops>>

(* spawn, from outside of run() or by the running fiber.                   *)
spawn(f) ==
  /\ state[f] = "UNBORN"
  /\ state' = [state EXCEPT ![f] = "READY"]
  /\ ready_queue' = Append(ready_queue, f)
  /\ UNCHANGED <<pc, current, mutex, channel, ops>>

(* A call by client code of the running fiber f, or the next turn of the   *)
(* loop of a call it is in.                                                *)
Calls(f, call) ==
  /\ current = f
  /\ \/ pc[f] = "client" /\ ops[f] < MaxOps /\ ops' = [ops EXCEPT ![f] = @ + 1]
     \/ pc[f] = call /\ UNCHANGED ops

(* yield() of a running fiber, and of one that has just suspended itself.  *)
YieldReady(f) ==
  /\ state' = [state EXCEPT ![f] = "READY"]
  /\ ready_queue' = Append(ready_queue, f)
  /\ current' = NoFiber
(* The state is set after yield() has looked at it. *)
YieldSuspendedLate(f) ==
  /\ state' = [state EXCEPT ![f] = "SUSPENDED"]
  /\ ready_queue' = Append(ready_queue, f)
  /\ current' = NoFiber
YieldSuspended(f) ==
  /\ state' = [state EXCEPT ![f] = "SUSPENDED"]
  /\ current' = NoFiber /\ UNCHANGED ready_queue

(* resume() of the first of some waiters, if there is one; they are        *)
(* SUSPENDED, never DEAD.                                                  *)
ResumeFirst(ws) ==
  IF ws = << >> THEN UNCHANGED sched
  ELSE /\ state' = IF state[Head(ws)] = "DEAD" THEN state
                   ELSE [state EXCEPT ![Head(ws)] = "READY"]
       /\ ready_queue' = IF state[Head(ws)] = "DEAD" THEN ready_queue
                         ELSE Append(ready_queue, Head(ws))
       /\ UNCHANGED current
Rest(ws) == IF ws = << >> THEN ws ELSE Tail(ws)

Yield(f) ==
  /\ current = f /\ pc[f] = "client" /\ ops[f] < MaxOps
  /\ ops' = [ops EXCEPT ![f] = @ + 1]
  /\ YieldReady(f)
  /\ UNCHANGED <<pc, mutex, channel>>

(* fiber_entry after fn_() has returned.                                   *)
Exit(f) ==
  /\ current = f /\ pc[f] = "client" /\ f \notin holders
  /\ state' = [state EXCEPT ![f] = "DEAD"] /\ current' = NoFiber
  /\ UNCHANGED <<pc, ready_queue, mutex, channel, ops>>

-----------------------------------------------------------------------------
(* FiberMutex::lock finds the mutex free, or waits for its next turn; the  *)
(* first version takes it on being resumed, without a second look.         *)
LockOnce(f) ==
  /\ Calls(f, "lock") /\ f \notin holders /\ (~locked \/ pc[f] = "lock")
  /\ locked' = TRUE /\ holders' = holders \cup {f}
  /\ pc' = [pc EXCEPT ![f] = "client"]
  /\ UNCHANGED <<sched, waiters, channel>>
Lock(f) ==
  /\ Calls(f, "lock") /\ f \notin holders /\ ~locked
  /\ locked' = TRUE /\ holders' = holders \cup {f}
  /\ pc' = [pc EXCEPT ![f] = "client"]
  /\ UNCHANGED <<sched, waiters, channel>>

LockWait(f) ==
  /\ Calls(f, "lock") /\ f \notin holders /\ locked
  /\ waiters' = Append(waiters, f)
  /\ pc' = [pc EXCEPT ![f] = "lock"]
  /\ YieldSuspended(f)
  /\ UNCHANGED <<locked, holders, channel>>

Unlock(f) ==
  /\ current = f /\ pc[f] = "client" /\ f \in holders
  /\ locked' = FALSE /\ holders' = holders \ {f}
  /\ ResumeFirst(waiters) /\ waiters' = Rest(waiters)
  /\ UNCHANGED <<pc, channel, ops>>

(* FiberChannel::send and receive.                                         *)
Send(f) ==
  /\ Calls(f, "send") /\ queue < Capacity
  /\ queue' = queue + 1
  /\ ResumeFirst(recv_waiters) /\ recv_waiters' = Rest(recv_waiters)
  /\ pc' = [pc EXCEPT ![f] = "client"]
  /\ UNCHANGED <<mutex, send_waiters>>

SendWait(f) ==
  /\ Calls(f, "send") /\ queue >= Capacity
  /\ send_waiters' = Append(send_waiters, f)
  /\ pc' = [pc EXCEPT ![f] = "send"]
  /\ YieldSuspended(f)
  /\ UNCHANGED <<mutex, queue, recv_waiters>>

(* Resumes a sender only if the channel was full. *)
ReceiveFromFull(f) ==
  /\ Calls(f, "receive") /\ queue > 0
  /\ queue' = queue - 1
  /\ IF queue = Capacity
     THEN ResumeFirst(send_waiters) /\ send_waiters' = Rest(send_waiters)
     ELSE UNCHANGED <<sched, send_waiters>>
  /\ pc' = [pc EXCEPT ![f] = "client"]
  /\ UNCHANGED <<mutex, recv_waiters>>
Receive(f) ==
  /\ Calls(f, "receive") /\ queue > 0
  /\ queue' = queue - 1
  /\ ResumeFirst(send_waiters) /\ send_waiters' = Rest(send_waiters)
  /\ pc' = [pc EXCEPT ![f] = "client"]
  /\ UNCHANGED <<mutex, recv_waiters>>

ReceiveWait(f) ==
  /\ Calls(f, "receive") /\ queue = 0
  /\ recv_waiters' = Append(recv_waiters, f)
  /\ pc' = [pc EXCEPT ![f] = "receive"]
  /\ YieldSuspended(f)
  /\ UNCHANGED <<mutex, queue, send_waiters>>

Step(f) ==
  \/ Yield(f) \/ Exit(f) \/ Lock(f) \/ LockWait(f) \/ Unlock(f)
  \/ Send(f) \/ SendWait(f) \/ Receive(f) \/ ReceiveWait(f)

Next == Run \/ \E f \in Fiber : spawn(f) \/ Step(f)

Spec == Init /\ [][Next]_vars

-----------------------------------------------------------------------------
(* At most one fiber is between a lock and its unlock, although a lock may *)
(* be taken between a waiter's resumption and its turn; and locked_ says   *)
(* whether there is one.                                                   *)
MutualExclusion ==
  /\ \A f, g \in holders : f = g
  /\ locked <=> holders # {}

(* A fiber is in one place: running, or once in the ready queue, or once   *)
(* with the waiters of the call it is suspended in, or finished.  Twice in *)
(* the ready queue, it would be resumed in the middle of another call;     *)
(* nowhere, it would never run again.                                      *)
Count(f, s) == Cardinality({i \in DOMAIN s : s[i] = f})

OnePlace ==
  \A f \in Fiber :
    /\ (current = f) <=> (state[f] = "RUNNING")
    /\ Count(f, ready_queue) = IF state[f] = "READY" THEN 1 ELSE 0
    /\ Count(f, waiters) = IF state[f] = "SUSPENDED" /\ pc[f] = "lock" THEN 1 ELSE 0
    /\ Count(f, send_waiters) = IF state[f] = "SUSPENDED" /\ pc[f] = "send" THEN 1 ELSE 0
    /\ Count(f, recv_waiters) = IF state[f] = "SUSPENDED" /\ pc[f] = "receive" THEN 1 ELSE 0

(* No wake-up is lost: when run() returns, no fiber is left waiting for a  *)
(* free mutex, for room in a channel that has room, or for a value in a    *)
(* channel that has one.                                                   *)
NothingForgotten ==
  current = NoFiber /\ ready_queue = << >> =>
    /\ waiters # << >> => locked
    /\ send_waiters # << >> => queue = Capacity
    /\ recv_waiters # << >> => queue = 0

=============================================================================
