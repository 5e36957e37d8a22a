------------------------------ MODULE FutexMutex ------------------------------
(***************************************************************************)
(* FutexMutex and ScopedFutexLock (exercises/futex_mutex.hpp) as used by   *)
(* exercises/shm_futex_sync.cpp: each forked process takes the lock Rounds *)
(* times and increments a counter in shared memory under it.               *)
(*                                                                         *)
(* One action is one atomic operation on state_, one system call, or one   *)
(* plain access to the counter.  The local variable expected of lock() is  *)
(* kept in pc: "xchg" is the exchange of line 34 or 40, "wait" the system  *)
(* call of line 39.  The kernel's wait queue is the set of processes at    *)
(* "asleep".                                                               *)
(***************************************************************************)
EXTENDS Naturals, FiniteSets

CONSTANTS Proc,    \* the forked processes
          Rounds   \* INCREMENTS_PER_PROCESS

ASSUME ProcAssumption == IsFiniteSet(Proc)
ASSUME RoundsAssumption == Rounds \in Nat \ {0}

VARIABLES
  state,    \* state_: 0 unlocked, 1 locked, 2 locked with waiters
  counter,  \* data->counter, plain shared memory
  pc,       \* where each process is
  tmp,      \* the value of counter a process has loaded
  round     \* how many times a process has released the lock

vars == <<state, counter, pc, tmp, round>>

TypeOK ==
  /\ state \in 0 .. 2
  /\ counter \in Nat
  /\ pc \in [Proc -> {"start", "xchg", "wait", "asleep", "load", "store",
                      "sub", "reset", "wake", "exit"}]
  /\ tmp \in [Proc -> Nat]
  /\ round \in [Proc -> 0 .. Rounds]

Init ==
  /\ state = 0 /\ counter = 0
  /\ pc = [p \in Proc |-> "start"]
  /\ tmp = [p \in Proc |-> 0]
  /\ round = [p \in Proc |-> 0]

Goto(p, label) == pc' = [pc EXCEPT ![p] = label]

(* The kernel's wait queue of state_. *)
Asleep == {p \in Proc : pc[p] = "asleep"}

-----------------------------------------------------------------------------
(* lock(): the compare-exchange of line 28 takes a free mutex. *)
LockFast(p) ==
  /\ pc[p] = "start" /\ state = 0
  /\ state' = 1
  /\ Goto(p, "load")
  /\ UNCHANGED <<counter, tmp, round>>

(* lock(): it fails and leaves the observed value in expected. *)
LockContended(p) ==
  /\ pc[p] = "start" /\ state # 0
  /\ Goto(p, IF state # 2 THEN "xchg" ELSE "wait")
  /\ UNCHANGED <<state, counter, tmp, round>>

(* try_lock() succeeds; a failing one changes nothing. *)
TryLock(p) ==
  /\ pc[p] = "start" /\ state = 0
  /\ state' = 1
  /\ Goto(p, "load")
  /\ UNCHANGED <<counter, tmp, round>>

(* A form in which a woken process takes the mutex as uncontended. *)
ExchangeOne(p) ==
  /\ pc[p] = "xchg"
  /\ state' = IF state = 0 THEN 1 ELSE 2
  /\ Goto(p, IF state = 0 THEN "load" ELSE "wait")
  /\ UNCHANGED <<counter, tmp, round>>

(* A form in which any value but 2 counts as an unlocked mutex. *)
ExchangeSloppy(p) ==
  /\ pc[p] = "xchg"
  /\ state' = 2
  /\ Goto(p, IF state # 2 THEN "load" ELSE "wait")
  /\ UNCHANGED <<counter, tmp, round>>

(* expected = state_.exchange(2), and the loop test on expected. *)
Exchange(p) ==
  /\ pc[p] = "xchg"
  /\ state' = 2
  /\ Goto(p, IF state = 0 THEN "load" ELSE "wait")
  /\ UNCHANGED <<counter, tmp, round>>

(* FUTEX_WAIT: the kernel compares and queues in one step, or returns      *)
(* EAGAIN at once.                                                         *)
FutexWait(p) ==
  /\ pc[p] = "wait"
  /\ Goto(p, IF state = 2 THEN "asleep" ELSE "xchg")
  /\ UNCHANGED <<state, counter, tmp, round>>

(* FUTEX_WAIT returns without a wake-up (a signal: EINTR). *)
Interrupt(p) ==
  /\ pc[p] = "asleep"
  /\ Goto(p, "xchg")
  /\ UNCHANGED <<state, counter, tmp, round>>

-----------------------------------------------------------------------------
(* data->counter += 1, a load and a store. *)
Load(p) ==
  /\ pc[p] = "load"
  /\ tmp' = [tmp EXCEPT ![p] = counter]
  /\ Goto(p, "store")
  /\ UNCHANGED <<state, counter, round>>

Store(p) ==
  /\ pc[p] = "store"
  /\ counter' = tmp[p] + 1
  /\ Goto(p, "sub")
  /\ UNCHANGED <<state, tmp, round>>

(* The loop of the child: where it goes after a release.                   *)
AfterRound(p) == IF round[p] + 1 < Rounds THEN "start" ELSE "exit"

(* unlock(): fetch_sub, which releases an uncontended mutex. *)
UnlockFast(p) ==
  /\ pc[p] = "sub" /\ state = 1
  /\ state' = 0
  /\ Goto(p, AfterRound(p))
  /\ round' = [round EXCEPT ![p] = @ + 1]
  /\ UNCHANGED <<counter, tmp>>

(* unlock(): fetch_sub found waiters; the mutex is not released yet. *)
UnlockContended(p) ==
  /\ pc[p] = "sub" /\ state # 1
  /\ state' = state - 1
  /\ Goto(p, "reset")
  /\ UNCHANGED <<counter, tmp, round>>

(* A form that forgets the system call after the store. *)
UnlockResetNoWake(p) ==
  /\ pc[p] = "reset"
  /\ state' = 0
  /\ Goto(p, AfterRound(p))
  /\ round' = [round EXCEPT ![p] = @ + 1]
  /\ UNCHANGED <<counter, tmp>>

(* unlock(): state_.store(0). *)
UnlockReset(p) ==
  /\ pc[p] = "reset"
  /\ state' = 0
  /\ Goto(p, "wake")
  /\ UNCHANGED <<counter, tmp, round>>

(* FUTEX_WAKE 1: the kernel makes one sleeper runnable, if there is one. *)
FutexWake(p) ==
  /\ pc[p] = "wake"
  /\ \/ Asleep = {} /\ Goto(p, AfterRound(p))
     \/ \E w \in Asleep : pc' = [pc EXCEPT ![p] = AfterRound(p), ![w] = "xchg"]
  /\ round' = [round EXCEPT ![p] = @ + 1]
  /\ UNCHANGED <<state, counter, tmp>>

Lock(p) == LockFast(p) \/ LockContended(p) \/ Exchange(p) \/ FutexWait(p)
Critical(p) == Load(p) \/ Store(p)
Unlock(p) ==
  UnlockFast(p) \/ UnlockContended(p) \/ UnlockReset(p) \/ FutexWake(p)
Step(p) == Lock(p) \/ Critical(p) \/ Unlock(p)

AllExited == \A p \in Proc : pc[p] = "exit"
(* The parent's wait() for every child returns. *)
Done == AllExited /\ UNCHANGED vars

Next == Done \/ \E p \in Proc : Step(p) \/ TryLock(p) \/ Interrupt(p)

Spec == Init /\ [][Next]_vars

(* The kernel schedules every runnable process; signals owe nothing. *)
FairSpec == Spec /\ \A p \in Proc : WF_vars(Step(p))

-----------------------------------------------------------------------------
(* From the acquisition until state_ is set back to 0. *)
Holding(p) == pc[p] \in {"load", "store", "sub", "reset"}

(* At most one process is between its acquisition and its release, also    *)
(* while a contended unlock() has decremented state_ to 1 (lines 51-53).   *)
MutualExclusion == \A p, q \in Proc : Holding(p) /\ Holding(q) => p = q

(* Whenever a process sleeps in the kernel, somebody will look after it:   *)
(* state_ is 2, so the holder will make the FUTEX_WAKE call, or such a     *)
(* call is about to happen, or a process is on its way to set state_ to 2. *)
NoLostWakeup ==
  Asleep # {} =>
    state = 2 \/ \E p \in Proc : pc[p] \in {"reset", "wake", "xchg"}

(* Every increment counts: when the last child has exited the counter is   *)
(* what the assertions of shm_futex_sync.cpp:76 and test_shm_futex.cpp:60  *)
(* expect.                                                                 *)
CounterExact == AllExited => counter = Cardinality(Proc) * Rounds

(* The counter never loses or repeats an increment. *)
NoLostUpdate == [][counter' \in {counter, counter + 1}]_vars
=============================================================================
