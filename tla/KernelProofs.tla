---------------------------- MODULE KernelProofs ----------------------------
(***************************************************************************)
(* Proofs about the two programs that live with the kernel's wait queues.  *)
(*                                                                         *)
(* FutexMutex, for any set of processes and any number of rounds: type     *)
(* correctness, mutual exclusion, no lost wake-up and no lost update of    *)
(* the shared counter.                                                     *)
(*                                                                         *)
(* EchoServers, for any finite set of clients, buffer and ring sizes and   *)
(* number of failing calls: what is echoed is what was sent, and the       *)
(* reactor has exactly one operation for every open connection and for the *)
(* listener that it has not dropped, which it does only with a full ring.  *)
(***************************************************************************)
EXTENDS FutexMutex, EchoServers, FiniteSetTheorems, SequenceTheorems, TLAPS

(* A free mutex has no holder, which makes mutual exclusion inductive. *)
FreeMeansUnheld == state = 0 => \A p \in Proc : ~Holding(p)

(* Between its load and its store a process has the current counter. *)
LoadedIsCurrent == \A p \in Proc : pc[p] = "store" => tmp[p] = counter

(* A process that has not exited has a round left. *)
RoundsLeft == \A p \in Proc : pc[p] # "exit" => round[p] < Rounds

IndInv ==
  /\ TypeOK
  /\ RoundsLeft
  /\ FreeMeansUnheld
  /\ MutualExclusion
  /\ NoLostWakeup
  /\ LoadedIsCurrent

(* The shared structure as placement new leaves it. *)
LEMMA InitInv == Init => IndInv
  BY RoundsAssumption
     DEF Init, IndInv, TypeOK, RoundsLeft, FreeMeansUnheld, MutualExclusion, NoLostWakeup,
         LoadedIsCurrent, Holding, Asleep

(* Every step preserves the types and the bound on the rounds. *)
LEMMA NextType ==
  TypeOK /\ RoundsLeft /\ FreeMeansUnheld /\ [Next]_vars => TypeOK' /\ RoundsLeft'
  <1> SUFFICES ASSUME TypeOK, RoundsLeft, FreeMeansUnheld, [Next]_vars
               PROVE  TypeOK' /\ RoundsLeft'
    OBVIOUS
  <1> USE DEF TypeOK, RoundsLeft, Goto
  <1>1. ASSUME NEW p \in Proc, Lock(p) PROVE TypeOK' /\ RoundsLeft'
    BY <1>1 DEF Lock, LockFast, LockContended, Exchange, FutexWait
  <1>2. ASSUME NEW p \in Proc, Critical(p) PROVE TypeOK' /\ RoundsLeft'
    BY <1>2 DEF Critical, Load, Store
  <1>3. ASSUME NEW p \in Proc, UnlockFast(p) PROVE TypeOK' /\ RoundsLeft'
    BY <1>3, RoundsAssumption DEF UnlockFast, AfterRound
  <1>4. ASSUME NEW p \in Proc, UnlockContended(p) \/ UnlockReset(p)
        PROVE  TypeOK' /\ RoundsLeft'
    BY <1>4 DEF UnlockContended, UnlockReset, FreeMeansUnheld, Holding
  <1>5. ASSUME NEW p \in Proc, FutexWake(p) PROVE TypeOK' /\ RoundsLeft'
    BY <1>5, RoundsAssumption DEF FutexWake, AfterRound, Asleep
  <1>6. ASSUME NEW p \in Proc, TryLock(p) \/ Interrupt(p) PROVE TypeOK' /\ RoundsLeft'
    BY <1>6 DEF TryLock, Interrupt
  <1>7. CASE UNCHANGED vars
    BY <1>7 DEF vars
  <1>8. QED
    BY <1>1, <1>2, <1>3, <1>4, <1>5, <1>6, <1>7 DEF Next, Done, Step, Unlock

(* Every step preserves the rest. *)
LEMMA NextInv == IndInv /\ [Next]_vars => IndInv'
  <1> SUFFICES ASSUME IndInv, [Next]_vars PROVE IndInv'
    OBVIOUS
  <1> USE DEF FreeMeansUnheld, MutualExclusion, Holding, LoadedIsCurrent, Goto
  <1>0. TypeOK /\ FreeMeansUnheld /\ MutualExclusion /\ NoLostWakeup /\ LoadedIsCurrent
        /\ TypeOK' /\ RoundsLeft'
    BY NextType DEF IndInv
  <1>1. (FreeMeansUnheld /\ MutualExclusion /\ LoadedIsCurrent)'
    <2>1. ASSUME NEW p \in Proc, Lock(p) \/ TryLock(p)
          PROVE  (FreeMeansUnheld /\ MutualExclusion /\ LoadedIsCurrent)'
      BY <1>0, <2>1 DEF Lock, TryLock, LockFast, LockContended, Exchange, FutexWait, TypeOK
    <2>2. ASSUME NEW p \in Proc, Critical(p)
          PROVE  (FreeMeansUnheld /\ MutualExclusion /\ LoadedIsCurrent)'
      BY <1>0, <2>2 DEF Critical, Load, Store, TypeOK
    <2>3. ASSUME NEW p \in Proc, UnlockFast(p) \/ UnlockContended(p) \/ UnlockReset(p)
          PROVE  (FreeMeansUnheld /\ MutualExclusion /\ LoadedIsCurrent)'
      BY <1>0, <2>3 DEF UnlockFast, UnlockContended, UnlockReset, AfterRound, TypeOK
    <2>4. ASSUME NEW p \in Proc, FutexWake(p) \/ Interrupt(p)
          PROVE  (FreeMeansUnheld /\ MutualExclusion /\ LoadedIsCurrent)'
      BY <1>0, <2>4 DEF FutexWake, Interrupt, AfterRound, Asleep, TypeOK
    <2>5. CASE UNCHANGED vars
      BY <1>0, <2>5 DEF vars
    <2>6. QED
      BY <2>1, <2>2, <2>3, <2>4, <2>5 DEF Next, Done, Step, Unlock
  <1>2. NoLostWakeup'
    <2>1. ASSUME NEW p \in Proc, LockFast(p) \/ TryLock(p) \/ LockContended(p) \/ Critical(p)
          PROVE  NoLostWakeup'
      BY <1>0, <2>1
         DEF NoLostWakeup, Asleep, LockFast, TryLock, LockContended, Critical, Load, Store, TypeOK
    <2>2. ASSUME NEW p \in Proc, Exchange(p)
          PROVE  NoLostWakeup'
      BY <2>2 DEF NoLostWakeup, Exchange
    <2>3. ASSUME NEW p \in Proc, FutexWait(p)
          PROVE  NoLostWakeup'
      BY <1>0, <2>3 DEF NoLostWakeup, FutexWait, TypeOK
    <2>4. ASSUME NEW p \in Proc, UnlockFast(p)
          PROVE  NoLostWakeup'
      BY <1>0, <2>4 DEF NoLostWakeup, Asleep, UnlockFast, AfterRound, TypeOK
    <2>5. ASSUME NEW p \in Proc, UnlockContended(p) \/ UnlockReset(p) \/ Interrupt(p)
          PROVE  NoLostWakeup'
      BY <1>0, <2>5 DEF NoLostWakeup, UnlockContended, UnlockReset, Interrupt, TypeOK
    <2>6. ASSUME NEW p \in Proc, FutexWake(p)
          PROVE  NoLostWakeup'
      <3>1. CASE Asleep = {}
        BY <1>0, <2>6, <3>1 DEF NoLostWakeup, FutexWake, AfterRound, Asleep, TypeOK
      <3>2. ASSUME NEW w \in Asleep, pc' = [pc EXCEPT ![p] = AfterRound(p), ![w] = "xchg"]
            PROVE  NoLostWakeup'
        BY <1>0, <3>2 DEF NoLostWakeup, Asleep, TypeOK
      <3>3. QED
        BY <2>6, <3>1, <3>2 DEF FutexWake
    <2>7. CASE UNCHANGED vars
      BY <1>0, <2>7 DEF NoLostWakeup, Asleep, vars
    <2>8. QED
      BY <2>1, <2>2, <2>3, <2>4, <2>5, <2>6, <2>7 DEF Next, Done, Step, Lock, Unlock
  <1>3. QED
    BY <1>0, <1>1, <1>2 DEF IndInv

(* The invariant holds in every reachable state. *)
LEMMA Invariance == Spec => []IndInv
  BY InitInv, NextInv, PTL DEF Spec

(* TypeOK of the mutex and its client. *)
THEOREM TypeCorrect == Spec => []TypeOK
  <1>1. IndInv => TypeOK
    BY DEF IndInv
  <1>2. QED
    BY <1>1, Invariance, PTL

(* Two processes never hold the mutex together, however many compete. *)
THEOREM Exclusion == Spec => []MutualExclusion
  <1>1. IndInv => MutualExclusion
    BY DEF IndInv
  <1>2. QED
    BY <1>1, Invariance, PTL

(* A process asleep in the kernel always has somebody who will wake it. *)
THEOREM WakeupNotLost == Spec => []NoLostWakeup
  <1>1. IndInv => NoLostWakeup
    BY DEF IndInv
  <1>2. QED
    BY <1>1, Invariance, PTL

(* Every change of the shared counter adds exactly one to it. *)
THEOREM UpdatesNotLost == Spec => NoLostUpdate
  <1>1. IndInv /\ [Next]_vars => [counter' \in {counter, counter + 1}]_vars
    <2> SUFFICES ASSUME IndInv, [Next]_vars PROVE counter' \in {counter, counter + 1}
      OBVIOUS
    <2>1. ASSUME NEW p \in Proc, Store(p) PROVE counter' = counter + 1
      BY <2>1 DEF IndInv, LoadedIsCurrent, Store
    <2>2. ASSUME NEW p \in Proc,
                 Lock(p) \/ Load(p) \/ Unlock(p) \/ TryLock(p) \/ Interrupt(p)
          PROVE  counter' = counter
      BY <2>2 DEF Lock, LockFast, LockContended, Exchange, FutexWait, Load, Unlock,
                  UnlockFast, UnlockContended, UnlockReset, FutexWake, TryLock, Interrupt
    <2>3. CASE UNCHANGED vars
      BY <2>3 DEF vars
    <2>4. QED
      BY <2>1, <2>2, <2>3 DEF Next, Done, Step, Critical
  <1>2. QED
    BY <1>1, Invariance, PTL DEF Spec, NoLostUpdate

-----------------------------------------------------------------------------
(* The counter at the end.  Increments are counted as a set of pairs, one  *)
(* for every round in which a process has made its store.                  *)
Stored(p) == round[p] + IF pc[p] \in {"sub", "reset", "wake"} THEN 1 ELSE 0
Increments == {x \in Proc \X (1 .. Rounds) : x[2] <= Stored(x[1])}

ExitIsComplete == \A p \in Proc : pc[p] = "exit" => round[p] = Rounds
CounterCounts == counter = Cardinality(Increments) /\ ExitIsComplete

(* The pairs form a finite set. *)
LEMMA IncrementsFinite ==
  /\ IsFiniteSet(Proc \X (1 .. Rounds))
  /\ Cardinality(Proc \X (1 .. Rounds)) = Cardinality(Proc) * Rounds
  /\ IsFiniteSet(Increments)
  <1>1. IsFiniteSet(1 .. Rounds) /\ Cardinality(1 .. Rounds) = Rounds
    BY RoundsAssumption, FS_Interval
  <1>2. /\ IsFiniteSet(Proc \X (1 .. Rounds))
        /\ Cardinality(Proc \X (1 .. Rounds)) = Cardinality(Proc) * Rounds
    BY <1>1, ProcAssumption, FS_Product
  <1>3. Increments \subseteq Proc \X (1 .. Rounds)
    BY DEF Increments
  <1>4. QED
    BY <1>2, <1>3, FS_Subset

(* A step that moves no process across a store leaves the count alone. *)
LEMMA SameIncrements ==
  ASSUME \A p \in Proc : Stored(p)' = Stored(p)
  PROVE  Increments' = Increments
  BY DEF Increments

(* The invariant on the count is inductive. *)
LEMMA NextCount == IndInv /\ CounterCounts /\ [Next]_vars => CounterCounts'
  <1> SUFFICES ASSUME IndInv, CounterCounts, [Next]_vars PROVE CounterCounts'
    OBVIOUS
  <1>0. TypeOK /\ RoundsLeft /\ LoadedIsCurrent
    BY DEF IndInv
  <1> USE DEF Goto
  <1>1. ASSUME NEW p \in Proc, Store(p) PROVE CounterCounts'
    <2>1. counter' = counter + 1
      BY <1>0, <1>1 DEF Store, LoadedIsCurrent
    <2> DEFINE x == <<p, round[p] + 1>>
    <2>2. x \in Proc \X (1 .. Rounds) /\ x \notin Increments
      <3>1. pc[p] = "store" /\ round[p] \in 0 .. Rounds /\ round[p] < Rounds
        BY <1>0, <1>1 DEF Store, RoundsLeft, TypeOK
      <3>2. Stored(p) = round[p]
        BY <3>1 DEF Stored
      <3>3. round[p] + 1 \in 1 .. Rounds /\ ~(round[p] + 1 <= Stored(p))
        BY <3>1, <3>2, RoundsAssumption
      <3>4. QED
        BY <3>3 DEF Increments
    <2>3. Increments' = Increments \cup {x}
      <3>1. Stored(p) = round[p] /\ Stored(p)' = round[p] + 1
        BY <1>0, <1>1 DEF Store, TypeOK, Stored
      <3>2. \A q \in Proc \ {p} : Stored(q)' = Stored(q)
        BY <1>0, <1>1 DEF Store, TypeOK, Stored
      <3>3. ASSUME NEW q \in Proc, NEW i \in 1 .. Rounds
            PROVE  i <= Stored(q)' <=> i <= Stored(q) \/ (q = p /\ i = round[p] + 1)
        <4>1. CASE q = p
          BY <1>0, <3>1, <4>1 DEF TypeOK
        <4>2. CASE q # p
          BY <3>2, <4>2
        <4>3. QED
          BY <4>1, <4>2
      <3>4. QED
        BY <2>2, <3>3 DEF Increments
    <2>4. Cardinality(Increments') = Cardinality(Increments) + 1
      BY <2>2, <2>3, IncrementsFinite, FS_AddElement
    <2>5. ExitIsComplete'
      BY <1>0, <1>1 DEF CounterCounts, ExitIsComplete, Store, TypeOK
    <2>6. QED
      BY <2>1, <2>4, <2>5 DEF CounterCounts
  <1>2. ASSUME NEW p \in Proc, Lock(p) \/ TryLock(p) \/ Load(p) \/ Interrupt(p)
        PROVE  CounterCounts'
    <2>1. (\A q \in Proc : Stored(q)' = Stored(q)) /\ counter' = counter /\ ExitIsComplete'
      BY <1>0, <1>2 DEF Lock, LockFast, LockContended, Exchange, FutexWait, TryLock, Load,
                        Interrupt, Stored, TypeOK, CounterCounts, ExitIsComplete
    <2>2. QED
      BY <2>1, SameIncrements DEF CounterCounts
  <1>3. ASSUME NEW p \in Proc, UnlockFast(p) PROVE CounterCounts'
    <2>1. (\A q \in Proc : Stored(q)' = Stored(q)) /\ counter' = counter /\ ExitIsComplete'
      BY <1>0, <1>3, RoundsAssumption
         DEF UnlockFast, AfterRound, Stored, TypeOK, RoundsLeft, CounterCounts, ExitIsComplete
    <2>2. QED
      BY <2>1, SameIncrements DEF CounterCounts
  <1>4. ASSUME NEW p \in Proc, UnlockContended(p) \/ UnlockReset(p) PROVE CounterCounts'
    <2>1. (\A q \in Proc : Stored(q)' = Stored(q)) /\ counter' = counter /\ ExitIsComplete'
      BY <1>0, <1>4
         DEF UnlockContended, UnlockReset, Stored, TypeOK, CounterCounts, ExitIsComplete
    <2>2. QED
      BY <2>1, SameIncrements DEF CounterCounts
  <1>5. ASSUME NEW p \in Proc, FutexWake(p) PROVE CounterCounts'
    <2>1. (\A q \in Proc : Stored(q)' = Stored(q)) /\ counter' = counter /\ ExitIsComplete'
      BY <1>0, <1>5, RoundsAssumption
         DEF FutexWake, AfterRound, Asleep, Stored, TypeOK, RoundsLeft, CounterCounts,
             ExitIsComplete
    <2>2. QED
      BY <2>1, SameIncrements DEF CounterCounts
  <1>6. CASE UNCHANGED vars
    BY <1>6 DEF vars, CounterCounts, Increments, Stored, ExitIsComplete
  <1>7. QED
    BY <1>1, <1>2, <1>3, <1>4, <1>5, <1>6 DEF Next, Done, Step, Critical, Unlock

(* When all children have exited the counter is processes times rounds:    *)
(* what both assertions on the shared counter demand, for any numbers.     *)
THEOREM CounterCorrect == Spec => []CounterExact
  <1>1. Init => CounterCounts
    <2> SUFFICES ASSUME Init PROVE CounterCounts
      OBVIOUS
    <2>1. Increments = {}
      BY RoundsAssumption DEF Init, Increments, Stored
    <2>2. QED
      BY <2>1, FS_EmptySet DEF Init, CounterCounts, ExitIsComplete
  <1>2. TypeOK /\ CounterCounts => CounterExact
    <2> SUFFICES ASSUME TypeOK, CounterCounts, AllExited
                 PROVE  counter = Cardinality(Proc) * Rounds
      BY DEF CounterExact
    <2>1. \A p \in Proc : Stored(p) = Rounds
      BY RoundsAssumption DEF CounterCounts, ExitIsComplete, AllExited, Stored
    <2>2. Increments = Proc \X (1 .. Rounds)
      BY <2>1, RoundsAssumption DEF Increments
    <2>3. QED
      BY <2>2, IncrementsFinite DEF CounterCounts
  <1>3. IndInv => TypeOK
    BY DEF IndInv
  <1>4. QED
    BY <1>1, <1>2, <1>3, NextCount, Invariance, PTL DEF Spec

-----------------------------------------------------------------------------
(* What operations and completions there are, whom they are for ({} is the *)
(* listener) and which bytes they carry.                                   *)
ReadOps == [type : {"read"}, c : Clients]
WriteOps == [type : {"write"}, c : Clients, bytes : Seq(Nat)]
Op == {AcceptOp} \cup ReadOps \cup WriteOps
Cqe ==
  [op : {AcceptOp}, ok : {TRUE}, c : Clients] \cup [op : {AcceptOp}, ok : {FALSE}]
  \cup [op : ReadOps, ok : BOOLEAN, bytes : Seq(Nat)] \cup [op : WriteOps, ok : BOOLEAN]
Sub(op) == IF op.type = "accept" THEN {} ELSE {op.c}
Subs(e) == {Sub(e.op)} \cup IF e.op.type = "accept" /\ e.ok THEN {{e.c}} ELSE {}
Payload(op) == IF op.type = "write" THEN op.bytes ELSE << >>
Result(e) == IF e.op.type = "read" /\ e.ok THEN e.bytes ELSE << >>
Everyone == {{}} \cup {{c} : c \in Clients}

(* A ring of operations q, operations F in the kernel and a ring of        *)
(* completions r have exactly one place for each member of W.              *)
SqSubs(q) == {Sub(q[i]) : i \in DOMAIN q}
KernelSubs(F) == {Sub(op) : op \in F}
CqSubs(r) == UNION {Subs(r[i]) : i \in DOMAIN r}
Ring(q, F, r, W) ==
  /\ \A i, j \in DOMAIN q : Sub(q[i]) = Sub(q[j]) => i = j
  /\ \A o, p \in F : Sub(o) = Sub(p) => o = p
  /\ \A i, j \in DOMAIN r : \A s \in Subs(r[i]) : s \in Subs(r[j]) => i = j
  /\ \A s \in SqSubs(q) : s \notin KernelSubs(F) /\ s \notin CqSubs(r)
  /\ \A s \in KernelSubs(F) : s \notin CqSubs(r)
  /\ \A s : s \in W <=> s \in SqSubs(q) \/ s \in KernelSubs(F) \/ s \in CqSubs(r)

(* c has a place in them, with the bytes b. *)
Carries(q, F, r, c, b) ==
  \/ \E i \in DOMAIN q : Sub(q[i]) = {c} /\ b = Payload(q[i])
  \/ \E op \in F : Sub(op) = {c} /\ b = Payload(op)
  \/ \E i \in DOMAIN r : {c} \in Subs(r[i]) /\ b = Result(r[i])

-----------------------------------------------------------------------------
(* What an operation is, whom it is for and which bytes it carries. *)
LEMMA OpShape ==
  ASSUME NEW op \in Op
  PROVE  /\ op.type \in {"accept", "read", "write"}
         /\ op.type # "accept" => op.c \in Clients
         /\ Sub(op) \in Everyone /\ Payload(op) \in Seq(Nat)
  <1>1. CASE op = AcceptOp
    BY <1>1 DEF AcceptOp, Sub, Payload, Everyone
  <1>2. CASE op \in ReadOps
    BY <1>2 DEF ReadOps, Sub, Payload, Everyone
  <1>3. CASE op \in WriteOps
    BY <1>3 DEF WriteOps, Sub, Payload, Everyone
  <1>4. QED
    BY <1>1, <1>2, <1>3 DEF Op

(* The three operations the reactor submits. *)
LEMMA OpMade ==
  /\ AcceptOp \in Op /\ Sub(AcceptOp) = {} /\ Payload(AcceptOp) = << >> /\ AcceptOp.type = "accept"
  /\ \A c \in Clients : /\ ReadOp(c) \in Op /\ Sub(ReadOp(c)) = {c} /\ Payload(ReadOp(c)) = << >>
                        /\ ReadOp(c).type = "read"
  /\ \A c \in Clients, b \in Seq(Nat) :
       WriteOp(c, b) \in Op /\ Sub(WriteOp(c, b)) = {c} /\ Payload(WriteOp(c, b)) = b
  <1>1. AcceptOp \in Op /\ Sub(AcceptOp) = {} /\ Payload(AcceptOp) = << >> /\ AcceptOp.type = "accept"
    BY DEF AcceptOp, Op, Sub, Payload
  <1>2. ASSUME NEW c \in Clients
        PROVE  /\ ReadOp(c) \in Op /\ Sub(ReadOp(c)) = {c} /\ Payload(ReadOp(c)) = << >>
               /\ ReadOp(c).type = "read"
    BY DEF ReadOp, Op, ReadOps, Sub, Payload
  <1>3. ASSUME NEW c \in Clients, NEW b \in Seq(Nat)
        PROVE  WriteOp(c, b) \in Op /\ Sub(WriteOp(c, b)) = {c} /\ Payload(WriteOp(c, b)) = b
    BY DEF WriteOp, Op, WriteOps, Sub, Payload
  <1>4. QED
    BY <1>1, <1>2, <1>3

(* What a completion settles: an accept that succeeds brings a connection too. *)
LEMMA CqeShape ==
  ASSUME NEW e \in Cqe
  PROVE  /\ e.op \in Op /\ e.ok \in BOOLEAN /\ Result(e) \in Seq(Nat)
         /\ e.op.type = "accept" /\ e.ok => e.c \in Clients /\ Subs(e) = {{}, {e.c}}
         /\ e.op.type = "accept" /\ ~e.ok => Subs(e) = {{}}
         /\ e.op.type # "accept" => e.op.c \in Clients /\ Subs(e) = {{e.op.c}}
         /\ e.op.type = "read" /\ e.ok => e.bytes \in Seq(Nat) /\ Result(e) = e.bytes
         /\ ~(e.op.type = "read" /\ e.ok) => Result(e) = << >>
         /\ Subs(e) \subseteq Everyone
  <1>1. e.op \in Op /\ e.ok \in BOOLEAN
    BY DEF Cqe, Op
  <1>2. e.op.type = "accept" /\ e.ok => e.c \in Clients
    BY DEF Cqe, ReadOps, WriteOps
  <1>3. e.op.type = "read" => e.bytes \in Seq(Nat)
    <2>1. CASE e \in [op : ReadOps, ok : BOOLEAN, bytes : Seq(Nat)]
      BY <2>1
    <2>2. CASE e \in [op : WriteOps, ok : BOOLEAN]
      BY <2>2 DEF WriteOps
    <2>3. CASE e.op = AcceptOp
      BY <2>3 DEF AcceptOp
    <2>4. QED
      BY <2>1, <2>2, <2>3 DEF Cqe
  <1>4. e.op.type # "accept" => e.op.c \in Clients
    BY <1>1, OpShape
  <1>5. QED
    BY <1>1, <1>2, <1>3, <1>4 DEF Subs, Sub, Result, Everyone

(* An operation for somebody without a place adds that place. *)
LEMMA RingAppend ==
  ASSUME NEW q \in Seq(Op), NEW F, NEW r, NEW W, Ring(q, F, r, W), NEW op \in Op, Sub(op) \notin W
  PROVE  /\ Append(q, op) \in Seq(Op) /\ Len(Append(q, op)) = Len(q) + 1
         /\ Ring(Append(q, op), F, r, W \cup {Sub(op)})
         /\ \A c, b : Carries(Append(q, op), F, r, c, b) =>
              Carries(q, F, r, c, b) \/ ({c} = Sub(op) /\ b = Payload(op))
  <1>1. PICK a : a = Append(q, op)
    OBVIOUS
  <1>2. /\ a \in Seq(Op) /\ Len(a) = Len(q) + 1 /\ Len(q) \in Nat
        /\ DOMAIN q = 1 .. Len(q) /\ DOMAIN a = 1 .. Len(q) + 1
        /\ \A i \in 1 .. Len(q) : a[i] = q[i]
        /\ a[Len(q) + 1] = op
    BY <1>1, AppendProperties, LenProperties
  <1>3. \A i \in DOMAIN a :
          \/ i \in DOMAIN q /\ a[i] = q[i]
          \/ i = Len(q) + 1 /\ a[i] = op /\ i \notin DOMAIN q
    BY <1>2
  <1>4. \A i \in DOMAIN q : i \in DOMAIN a
    BY <1>2
  <1>5. \A s : s \in SqSubs(a) <=> s \in SqSubs(q) \/ s = Sub(op)
    <2>1. Len(q) + 1 \in DOMAIN a
      BY <1>2
    <2>2. QED
      BY <1>2, <1>3, <1>4, <2>1 DEF SqSubs
  <1>6. \A i \in DOMAIN q : Sub(q[i]) # Sub(op)
    BY DEF Ring, SqSubs
  <1>7. \A i, j \in DOMAIN a : Sub(a[i]) = Sub(a[j]) => i = j
    BY <1>3, <1>6 DEF Ring
  <1>8. Ring(a, F, r, W \cup {Sub(op)})
    BY <1>5, <1>7, Zenon DEF Ring
  <1>9. \A c, b : Carries(a, F, r, c, b) => Carries(q, F, r, c, b) \/ ({c} = Sub(op) /\ b = Payload(op))
    BY <1>3, Zenon DEF Carries
  <1>10. QED
    BY <1>1, <1>2, <1>8, <1>9

(* io_uring_enter moves the first k operations of the ring into the kernel. *)
LEMMA RingEnter ==
  ASSUME NEW q \in Seq(Op), NEW F, NEW r, NEW W, Ring(q, F, r, W), NEW k \in 0 .. Len(q)
  PROVE  LET a == SubSeq(q, k + 1, Len(q))
             G == F \cup {q[i] : i \in 1 .. k}
         IN  /\ a \in Seq(Op) /\ Ring(a, G, r, W)
             /\ \A c, b : Carries(a, G, r, c, b) => Carries(q, F, r, c, b)
  <1>1. PICK a : a = SubSeq(q, k + 1, Len(q))
    OBVIOUS
  <1>2. PICK T : T = {q[i] : i \in 1 .. k}
    OBVIOUS
  <1>3. Len(q) \in Nat /\ DOMAIN q = 1 .. Len(q) /\ k \in Nat
    BY LenProperties
  <1>4. /\ a \in Seq(Op) /\ DOMAIN a = 1 .. Len(q) - k
        /\ \A i \in 1 .. Len(q) - k : a[i] = q[k + i]
    <2>1. /\ a \in Seq(Op)
          /\ Len(a) = IF k + 1 <= Len(q) THEN Len(q) - (k + 1) + 1 ELSE 0
          /\ \A i \in 1 .. Len(a) : a[i] = q[k + 1 + i - 1]
      BY <1>1, <1>3, SubSeqProperties
    <2>2. Len(a) = Len(q) - k
      <3>1. PICK n \in Nat : n = Len(q)
        BY <1>3
      <3>2. k \in Nat /\ k <= n
        BY <3>1
      <3>3. (IF k + 1 <= n THEN n - (k + 1) + 1 ELSE 0) = n - k
        BY <3>2
      <3>4. QED
        BY <2>1, <3>1, <3>3
    <2>3. \A i \in 1 .. Len(q) - k : k + 1 + i - 1 = k + i
      BY <1>3
    <2>4. QED
      BY <2>1, <2>2, <2>3, LenProperties
  <1>5. \A i \in DOMAIN a : k + i \in DOMAIN q /\ a[i] = q[k + i] /\ i \in Nat
    BY <1>3, <1>4
  <1>6. \A i \in DOMAIN q : i \in 1 .. k \/ (i - k \in DOMAIN a /\ a[i - k] = q[i])
    <2>1. PICK n \in Nat : n = Len(q)
      BY <1>3
    <2>2. \A i \in 1 .. n : i \in 1 .. k \/ (i - k \in 1 .. n - k /\ k + (i - k) = i)
      BY <1>3
    <2>3. QED
      BY <1>3, <1>4, <2>1, <2>2
  <1>7. \A i \in 1 .. k : i \in DOMAIN q
    BY <1>3
  <1>8. \A i \in 1 .. k : \A j \in DOMAIN a : i # k + j
    BY <1>3, <1>4
  <1>9. /\ \A i \in DOMAIN a : a[i] \notin T /\ Sub(a[i]) \notin KernelSubs(T)
        /\ \A i, j \in DOMAIN a : Sub(a[i]) = Sub(a[j]) => i = j
    <2>1. \A i, j \in DOMAIN a : Sub(a[i]) = Sub(a[j]) => i = j
      <3>1. \A i, j \in DOMAIN a : Sub(a[i]) = Sub(a[j]) => k + i = k + j
        BY <1>5 DEF Ring
      <3>2. \A i, j \in DOMAIN a : k + i = k + j => i = j
        BY <1>3, <1>5
      <3>3. QED
        BY <3>1, <3>2
    <2>2. \A i \in DOMAIN a : Sub(a[i]) \notin KernelSubs(T)
      BY <1>2, <1>5, <1>7, <1>8 DEF Ring, KernelSubs
    <2>3. QED
      BY <2>1, <2>2 DEF KernelSubs
  <1>10. \A o, p \in T : Sub(o) = Sub(p) => o = p
    BY <1>2, <1>7 DEF Ring
  <1>11. \A s : s \in SqSubs(q) <=> s \in SqSubs(a) \/ s \in KernelSubs(T)
    BY <1>2, <1>5, <1>6, <1>7 DEF SqSubs, KernelSubs
  <1>12. \A s \in SqSubs(a) : s \notin KernelSubs(T)
    BY <1>9 DEF SqSubs
  <1>13. \A s : s \in KernelSubs(F \cup T) <=> s \in KernelSubs(F) \/ s \in KernelSubs(T)
    BY DEF KernelSubs
  <1>14. \A o, p \in F \cup T : Sub(o) = Sub(p) => o = p
    <2>1. \A o \in F : Sub(o) \in KernelSubs(F)
      BY DEF KernelSubs
    <2>2. \A o \in T : Sub(o) \in SqSubs(q)
      BY <1>11 DEF KernelSubs
    <2>3. QED
      BY <1>10, <2>1, <2>2 DEF Ring
  <1>15. Ring(a, F \cup T, r, W)
    BY <1>9, <1>11, <1>12, <1>13, <1>14, Zenon DEF Ring
  <1>16. \A c, b : Carries(a, F \cup T, r, c, b) => Carries(q, F, r, c, b)
    <2>1. \A op \in T : \E i \in DOMAIN q : op = q[i]
      BY <1>2, <1>7
    <2>2. QED
      BY <1>5, <2>1, Zenon DEF Carries
  <1>17. QED
    BY <1>1, <1>2, <1>4, <1>15, <1>16

(* The kernel replaces an operation by its completion, for one more if it accepted. *)
LEMMA RingComplete ==
  ASSUME NEW q, NEW F, NEW r \in Seq(Cqe), NEW W, Ring(q, F, r, W), NEW op \in F, NEW e \in Cqe,
         NEW X, Subs(e) = {Sub(op)} \cup X, \A s \in X : s \notin W
  PROVE  /\ Append(r, e) \in Seq(Cqe) /\ Len(Append(r, e)) = Len(r) + 1
         /\ Ring(q, F \ {op}, Append(r, e), W \cup X)
         /\ \A c, b : Carries(q, F \ {op}, Append(r, e), c, b) =>
              \/ {c} \in Subs(e) /\ b = Result(e)
              \/ {c} \notin Subs(e) /\ Carries(q, F, r, c, b)
  <1>1. PICK a : a = Append(r, e)
    OBVIOUS
  <1>2. /\ a \in Seq(Cqe) /\ Len(a) = Len(r) + 1 /\ Len(r) \in Nat
        /\ DOMAIN r = 1 .. Len(r) /\ DOMAIN a = 1 .. Len(r) + 1
        /\ \A i \in 1 .. Len(r) : a[i] = r[i]
        /\ a[Len(r) + 1] = e
    BY <1>1, AppendProperties, LenProperties
  <1>3. \A i \in DOMAIN a :
          \/ i \in DOMAIN r /\ a[i] = r[i]
          \/ i = Len(r) + 1 /\ a[i] = e /\ i \notin DOMAIN r
    BY <1>2
  <1>4. (\A i \in DOMAIN r : i \in DOMAIN a /\ a[i] = r[i]) /\ Len(r) + 1 \in DOMAIN a
    BY <1>2
  <1>5. \A s : s \in CqSubs(a) <=> s \in CqSubs(r) \/ s \in Subs(e)
    BY <1>2, <1>3, <1>4 DEF CqSubs
  <1>6. PICK G : G = F \ {op}
    OBVIOUS
  <1>7. Sub(op) \in KernelSubs(F) /\ \A s : s \in KernelSubs(F) <=> s \in KernelSubs(G) \/ s = Sub(op)
    BY <1>6 DEF KernelSubs
  <1>8. Sub(op) \notin KernelSubs(G)
    BY <1>6 DEF Ring, KernelSubs
  <1>9. \A s \in Subs(e) : s \notin SqSubs(q) /\ s \notin KernelSubs(G) /\ s \notin CqSubs(r)
    BY <1>7, <1>8 DEF Ring
  <1>10. \A i \in DOMAIN r : \A s \in Subs(r[i]) : s \in CqSubs(r)
    BY DEF CqSubs
  <1>11. \A i, j \in DOMAIN a : \A s \in Subs(a[i]) : s \in Subs(a[j]) => i = j
    BY <1>3, <1>9, <1>10 DEF Ring
  <1>12. \A o, p \in G : Sub(o) = Sub(p) => o = p
    BY <1>6 DEF Ring
  <1>13. Ring(q, G, a, W \cup X)
    <2>1. /\ \A s \in SqSubs(q) : s \notin KernelSubs(G) /\ s \notin CqSubs(a)
          /\ \A s \in KernelSubs(G) : s \notin CqSubs(a)
      BY <1>5, <1>7, <1>9 DEF Ring
    <2>2. \A s : s \in W \cup X <=> s \in SqSubs(q) \/ s \in KernelSubs(G) \/ s \in CqSubs(a)
      BY <1>5, <1>7 DEF Ring
    <2>3. QED
      BY <1>11, <1>12, <2>1, <2>2 DEF Ring
  <1>14. ASSUME NEW c, NEW b, Carries(q, G, a, c, b)
         PROVE  \/ {c} \in Subs(e) /\ b = Result(e)
                \/ {c} \notin Subs(e) /\ Carries(q, F, r, c, b)
    <2>1. CASE \E i \in DOMAIN q : Sub(q[i]) = {c} /\ b = Payload(q[i])
      <3>1. {c} \in SqSubs(q)
        BY <2>1 DEF SqSubs
      <3>2. QED
        BY <1>9, <2>1, <3>1 DEF Carries
    <2>2. CASE \E o \in G : Sub(o) = {c} /\ b = Payload(o)
      <3>1. {c} \in KernelSubs(G)
        BY <2>2 DEF KernelSubs
      <3>2. \E o \in F : Sub(o) = {c} /\ b = Payload(o)
        BY <1>6, <2>2
      <3>3. QED
        BY <1>9, <3>1, <3>2 DEF Carries
    <2>3. CASE \E i \in DOMAIN a : {c} \in Subs(a[i]) /\ b = Result(a[i])
      <3>1. PICK i \in DOMAIN a : {c} \in Subs(a[i]) /\ b = Result(a[i])
        BY <2>3
      <3>2. CASE a[i] = e
        BY <3>1, <3>2
      <3>3. CASE i \in DOMAIN r /\ a[i] = r[i]
        <4>1. {c} \in CqSubs(r)
          BY <1>10, <3>1, <3>3
        <4>2. QED
          BY <1>9, <3>1, <3>3, <4>1 DEF Carries
      <3>4. QED
        BY <1>3, <3>2, <3>3
    <2>4. QED
      BY <1>14, <2>1, <2>2, <2>3 DEF Carries
  <1>15. QED
    BY <1>1, <1>2, <1>6, <1>13, <1>14

(* Taking the oldest completion frees the places it stood for. *)
LEMMA RingTail ==
  ASSUME NEW q, NEW F, NEW r \in Seq(Cqe), NEW W, Ring(q, F, r, W), r # << >>
  PROVE  /\ Tail(r) \in Seq(Cqe) /\ Len(Tail(r)) = Len(r) - 1 /\ Head(r) \in Cqe
         /\ \A s \in Subs(Head(r)) : s \in W
         /\ Ring(q, F, Tail(r), W \ Subs(Head(r)))
         /\ \A c, b : Carries(q, F, Tail(r), c, b) => Carries(q, F, r, c, b) /\ {c} \notin Subs(Head(r))
         /\ \A c : {c} \in Subs(Head(r)) => Carries(q, F, r, c, Result(Head(r)))
  <1>1. PICK a : a = Tail(r)
    OBVIOUS
  <1>2. PICK e : e = Head(r)
    OBVIOUS
  <1>3. /\ a \in Seq(Cqe) /\ Len(a) = Len(r) - 1 /\ e = r[1] /\ e \in Cqe /\ Len(r) \in Nat /\ Len(r) > 0
        /\ DOMAIN r = 1 .. Len(r) /\ DOMAIN a = 1 .. Len(r) - 1
        /\ \A i \in 1 .. Len(a) : a[i] = r[i + 1]
    <2>1. /\ e \in Cqe /\ a \in Seq(Cqe) /\ Len(a) = Len(r) - 1
          /\ \A i \in 1 .. Len(a) : a[i] = r[i + 1]
      BY <1>1, <1>2, HeadTailProperties
    <2>2. Len(r) \in Nat /\ Len(r) # 0 /\ DOMAIN r = 1 .. Len(r) /\ DOMAIN a = 1 .. Len(a)
      BY <2>1, EmptySeq, LenProperties
    <2>3. QED
      BY <1>2, <2>1, <2>2
  <1>4. \A i \in DOMAIN a : i + 1 \in DOMAIN r /\ a[i] = r[i + 1] /\ i + 1 # 1 /\ i \in Nat
    BY <1>3
  <1>5. 1 \in DOMAIN r /\ \A i \in DOMAIN r : i = 1 \/ (i - 1 \in DOMAIN a /\ a[i - 1] = r[i])
    BY <1>3
  <1>6. \A s : s \in CqSubs(r) <=> s \in CqSubs(a) \/ s \in Subs(e)
    BY <1>3, <1>4, <1>5 DEF CqSubs
  <1>7. \A i \in DOMAIN a : \A s \in Subs(a[i]) : s \notin Subs(e)
    BY <1>3, <1>4, <1>5 DEF Ring
  <1>8. \A s \in CqSubs(a) : s \notin Subs(e)
    BY <1>7 DEF CqSubs
  <1>9. \A i, j \in DOMAIN a : \A s \in Subs(a[i]) : s \in Subs(a[j]) => i = j
    <2>1. \A i, j \in DOMAIN a : \A s \in Subs(a[i]) : s \in Subs(a[j]) => i + 1 = j + 1
      BY <1>4 DEF Ring
    <2>2. \A i, j \in DOMAIN a : i + 1 = j + 1 => i = j
      BY <1>4
    <2>3. QED
      BY <2>1, <2>2
  <1>10. Ring(q, F, a, W \ Subs(e))
    BY <1>6, <1>8, <1>9 DEF Ring
  <1>11. \A s \in Subs(e) : s \in W /\ s \notin SqSubs(q) /\ s \notin KernelSubs(F)
    BY <1>6 DEF Ring
  <1>12. ASSUME NEW c, NEW b, Carries(q, F, a, c, b)
         PROVE  Carries(q, F, r, c, b) /\ {c} \notin Subs(e)
    <2>1. CASE \E i \in DOMAIN q : Sub(q[i]) = {c} /\ b = Payload(q[i])
      <3>1. {c} \in SqSubs(q)
        BY <2>1 DEF SqSubs
      <3>2. QED
        BY <1>11, <2>1, <3>1 DEF Carries
    <2>2. CASE \E o \in F : Sub(o) = {c} /\ b = Payload(o)
      <3>1. {c} \in KernelSubs(F)
        BY <2>2 DEF KernelSubs
      <3>2. QED
        BY <1>11, <2>2, <3>1 DEF Carries
    <2>3. CASE \E i \in DOMAIN a : {c} \in Subs(a[i]) /\ b = Result(a[i])
      BY <1>4, <1>7, <2>3 DEF Carries
    <2>4. QED
      BY <1>12, <2>1, <2>2, <2>3 DEF Carries
  <1>13. \A c : {c} \in Subs(e) => Carries(q, F, r, c, Result(e))
    BY <1>3, <1>5 DEF Carries
  <1>14. QED
    BY <1>1, <1>2, <1>3, <1>10, <1>11, <1>12, <1>13

(* The listener and the members of A, each with a place of its own. *)
Places(A) == {{}} \cup {{c} : c \in A}

(* One of them has no place: the ring holds no more than there are in A. *)
LEMMA SqRoom ==
  ASSUME NEW q \in Seq(Op), NEW F, NEW r, NEW W, Ring(q, F, r, W), NEW A, IsFiniteSet(A),
         W \subseteq Places(A), NEW s \in Places(A), s \notin W
  PROVE  Len(q) <= Cardinality(A)
  <1> DEFINE U == Places(A) \ {s}
             f == [i \in 1 .. Len(q) |-> Sub(q[i])]
  <1>1. Len(q) \in Nat /\ DOMAIN q = 1 .. Len(q)
    BY LenProperties
  <1>2. Cardinality(A) \in Nat
    BY FS_CardinalityType
  <1>3. IsFiniteSet(U) /\ Cardinality(U) \in Nat /\ Cardinality(U) <= Cardinality(A)
    <2> DEFINE I == {{c} : c \in A}
    <2>1. IsFiniteSet(I) /\ Cardinality(I) <= Cardinality(A)
      <3> DEFINE g == [c \in A |-> {c}]
      <3>1. g \in Surjection(A, I)
        <4>1. g \in [A -> I]
          OBVIOUS
        <4>2. \A t \in I : \E c \in A : g[c] = t
          OBVIOUS
        <4> HIDE DEF g, I
        <4>3. QED
          BY <4>1, <4>2 DEF Surjection
      <3> HIDE DEF g, I
      <3>2. QED
        BY <1>2, <3>1, FS_Surjection
    <2>2. Places(A) = I \cup {{}} /\ {} \notin I
      BY DEF Places
    <2> HIDE DEF I
    <2>3. IsFiniteSet(Places(A)) /\ Cardinality(Places(A)) = Cardinality(I) + 1
      <3>1. PICK J : J = I
        OBVIOUS
      <3>2. PICK x : x = {}
        OBVIOUS
      <3>3. x \notin J /\ IsFiniteSet(J) /\ Places(A) = J \cup {x}
        BY <2>1, <2>2, <3>1, <3>2
      <3>4. IsFiniteSet(J \cup {x}) /\ Cardinality(J \cup {x}) = Cardinality(J) + 1
        BY <3>3, FS_AddElement
      <3>5. QED
        BY <3>1, <3>3, <3>4
    <2>4. IsFiniteSet(U) /\ Cardinality(U) = Cardinality(Places(A)) - 1
      BY <2>3, FS_RemoveElement
    <2>5. Cardinality(I) \in Nat
      BY <2>1, FS_CardinalityType
    <2>6. QED
      BY <1>2, <2>1, <2>3, <2>4, <2>5
  <1>4. f \in Injection(1 .. Len(q), U)
    <2>1. \A i \in 1 .. Len(q) : Sub(q[i]) \in U
      <3>1. ASSUME NEW i \in 1 .. Len(q)
            PROVE  Sub(q[i]) \in U
        <4>1. Sub(q[i]) \in SqSubs(q)
          BY <1>1 DEF SqSubs
        <4>2. Sub(q[i]) \in W
          BY <4>1 DEF Ring
        <4>3. QED
          BY <4>2
      <3>2. QED
        BY <3>1
    <2>2. \A i, j \in 1 .. Len(q) : Sub(q[i]) = Sub(q[j]) => i = j
      BY <1>1 DEF Ring
    <2> HIDE DEF U
    <2>3. QED
      BY <2>1, <2>2 DEF Injection, IsInjective
  <1>5. Cardinality(1 .. Len(q)) = Len(q) /\ IsFiniteSet(1 .. Len(q))
    BY <1>1, FS_Interval
  <1> HIDE DEF U, f
  <1>6. Len(q) <= Cardinality(U)
    BY <1>3, <1>4, <1>5, FS_Injection
  <1>7. QED
    BY <1>1, <1>2, <1>3, <1>6

(* get_sqe() adds the operation, or leaves a full ring as it is. *)
Gets(q, op) == IF get_sqe(q, op) = q THEN {} ELSE {Sub(op)}
LEMMA RingSubmit ==
  ASSUME NEW q \in Seq(Op), NEW F, NEW r, NEW W, Ring(q, F, r, W), NEW op \in Op, Sub(op) \notin W,
         sq_entries \in Nat
  PROVE  /\ get_sqe(q, op) \in Seq(Op) /\ Len(get_sqe(q, op)) >= Len(q)
         /\ Ring(get_sqe(q, op), F, r, W \cup Gets(q, op))
         /\ \A c, b : Carries(get_sqe(q, op), F, r, c, b) =>
              Carries(q, F, r, c, b) \/ ({c} = Sub(op) /\ b = Payload(op))
         /\ get_sqe(q, op) = q => Len(q) >= sq_entries
         /\ Len(q) < sq_entries => Len(get_sqe(q, op)) = Len(q) + 1
  <1>1. Len(q) \in Nat
    BY LenProperties
  <1>2. PICK a : a = Append(q, op)
    OBVIOUS
  <1>3. /\ a \in Seq(Op) /\ Len(a) = Len(q) + 1 /\ Ring(a, F, r, W \cup {Sub(op)})
        /\ \A c, b : Carries(a, F, r, c, b) =>
             Carries(q, F, r, c, b) \/ ({c} = Sub(op) /\ b = Payload(op))
    BY <1>2, RingAppend
  <1>4. PICK g : g = get_sqe(q, op)
    OBVIOUS
  <1>5. PICK G : G = Gets(q, op)
    OBVIOUS
  <1>6. /\ g \in Seq(Op) /\ Len(g) >= Len(q) /\ Ring(g, F, r, W \cup G)
        /\ \A c, b : Carries(g, F, r, c, b) =>
             Carries(q, F, r, c, b) \/ ({c} = Sub(op) /\ b = Payload(op))
        /\ g = q => Len(q) >= sq_entries
        /\ Len(q) < sq_entries => Len(g) = Len(q) + 1
    <2>1. CASE Len(q) >= sq_entries
      <3>1. g = q
        BY <1>4, <2>1 DEF get_sqe
      <3>2. G = {}
        BY <1>4, <1>5, <3>1 DEF Gets
      <3>3. W \cup G = W
        BY <3>2
      <3>4. Len(q) >= Len(q) /\ ~(Len(q) < sq_entries)
        BY <1>1, <2>1
      <3>5. QED
        BY <2>1, <3>1, <3>3, <3>4
    <2>2. CASE ~(Len(q) >= sq_entries)
      <3>1. g = a
        BY <1>2, <1>4, <2>2 DEF get_sqe
      <3>2. g # q /\ Len(a) >= Len(q)
        BY <1>1, <1>3, <3>1
      <3>3. G = {Sub(op)}
        BY <1>4, <1>5, <3>2 DEF Gets
      <3>4. QED
        BY <1>3, <3>1, <3>2, <3>3
    <2>3. QED
      BY <2>1, <2>2
  <1>7. QED
    BY <1>4, <1>5, <1>6, Zenon

-----------------------------------------------------------------------------
(* The bytes b a connection still has to get are the last ones of the t    *)
(* read from it, and come after everything in E, which it got; if it is    *)
(* live, nothing is missing in between.                                    *)
Fits(b, t, E, live) ==
  /\ Len(b) <= t /\ \A i \in DOMAIN b : b[i] = t - Len(b) + i
  /\ \A i \in DOMAIN E : E[i] <= t - Len(b)
  /\ live => Len(E) = t - Len(b)
Good(E, t, whole) ==
  /\ \A i \in DOMAIN E : E[i] \in 1 .. t /\ (i > 1 => E[i - 1] < E[i])
  /\ whole => E = [i \in 1 .. Len(E) |-> i]

(* A function on 1 .. n is a sequence. *)
LEMMA FcnIsSeq ==
  ASSUME NEW n \in Nat, NEW S
  PROVE  [1 .. n -> S] \subseteq Seq(S)
  BY SeqDef, Zenon

(* The n bytes a read returns are the next ones. *)
LEMMA FitsTaken ==
  ASSUME NEW E \in Seq(Nat), NEW t \in Nat, NEW n \in Nat, NEW live, Fits(<< >>, t, E, live),
         NEW b, b = [i \in 1 .. n |-> t + i]
  PROVE  b \in Seq(Nat) /\ Fits(b, t + n, E, live)
  <1>1. b \in [1 .. n -> Nat]
    BY DEF Fits
  <1>2. b \in Seq(Nat) /\ Len(b) = n /\ DOMAIN b = 1 .. n
    <2>1. [1 .. n -> Nat] \subseteq Seq(Nat)
      BY FcnIsSeq
    <2>2. b \in Seq(Nat) /\ DOMAIN b = 1 .. n
      BY <1>1, <2>1
    <2>3. QED
      BY <2>2, LenProperties
  <1>3. Len(<< >>) = 0
    OBVIOUS
  <1>4. DOMAIN E = 1 .. Len(E) /\ Len(E) \in Nat /\ \A i \in DOMAIN E : E[i] \in Nat
    BY LenProperties, ElementOfSeq
  <1>5. (\A i \in DOMAIN E : E[i] <= t) /\ (live => Len(E) = t)
    <2>1. t - Len(<< >>) = t
      BY <1>3
    <2>2. QED
      BY <2>1, Zenon DEF Fits
  <1>6. n <= t + n /\ (t + n) - n = t /\ \A i \in 1 .. n : t + i = (t + n) - n + i
    OBVIOUS
  <1>7. QED
    BY <1>2, <1>5, <1>6 DEF Fits

(* A connection that is not live owes less. *)
LEMMA FitsWeaker ==
  ASSUME NEW b, NEW t, NEW E, NEW live, NEW less, less => live, Fits(b, t, E, live)
  PROVE  Fits(b, t, E, less)
  BY DEF Fits

(* So does one from which more was read, or whose echo has a gap. *)
LEMMA GoodWeaker ==
  ASSUME NEW E, NEW t \in Nat, NEW u \in Nat, t <= u, NEW whole, NEW less, less => whole, Good(E, t, whole)
  PROVE  Good(E, u, less)
  <1>1. \A x \in 1 .. t : x \in 1 .. u
    OBVIOUS
  <1>2. QED
    BY <1>1 DEF Good

(* Bytes that are dropped leave nothing to come, but a gap. *)
LEMMA FitsDropped ==
  ASSUME NEW b \in Seq(Nat), NEW t \in Nat, NEW E \in Seq(Nat), NEW live, Fits(b, t, E, live)
  PROVE  Fits(<< >>, t, E, FALSE)
  <1>1. Len(b) \in Nat /\ Len(<< >>) = 0 /\ DOMAIN << >> = {}
    BY LenProperties
  <1>2. \A i \in DOMAIN E : E[i] \in Nat
    BY LenProperties, ElementOfSeq
  <1>3. \A i \in DOMAIN E : E[i] <= t - 0
    BY <1>1, <1>2 DEF Fits
  <1>4. QED
    BY <1>1, <1>3, Zenon, SMT DEF Fits

(* A write of n bytes of b: they are echoed and the rest of b is still to come. *)
LEMMA FitsWritten ==
  ASSUME NEW E \in Seq(Nat), NEW b \in Seq(Nat), NEW t \in Nat, NEW n \in 1 .. Len(b),
         NEW live, Fits(b, t, E, live), Good(E, t, live)
  PROVE  LET G == E \o SubSeq(b, 1, n)
             v == SubSeq(b, n + 1, Len(b))
         IN  /\ G \in Seq(Nat) /\ Good(G, t, live)
             /\ v \in Seq(Nat) /\ Fits(v, t, G, live)
             /\ n = Len(b) => v = << >>
  <1>0. PICK G : G = E \o SubSeq(b, 1, n)
    OBVIOUS
  <1>1. PICK L \in Nat : L = Len(b)
    BY LenProperties
  <1>2. PICK M \in Nat : M = Len(E)
    BY LenProperties
  <1>3. PICK B : B = t - L
    OBVIOUS
  <1>4. /\ n \in Nat /\ 1 <= n /\ n <= L /\ B \in Nat
        /\ DOMAIN b = 1 .. L /\ DOMAIN E = 1 .. M
        /\ \A i \in 1 .. L : b[i] = B + i
        /\ \A i \in 1 .. M : E[i] \in Nat /\ E[i] <= B
        /\ live => M = B
    <2>1. n \in Nat /\ 1 <= n /\ n <= L /\ DOMAIN b = 1 .. L /\ DOMAIN E = 1 .. M
      BY <1>1, <1>2, LenProperties
    <2>2. B \in Nat
      BY <1>1, <1>3 DEF Fits
    <2>3. \A i \in 1 .. M : E[i] \in Nat
      BY <1>2, ElementOfSeq
    <2>4. QED
      BY <1>1, <1>2, <1>3, <2>1, <2>2, <2>3 DEF Fits
  <1>5. PICK w : w = SubSeq(b, 1, n)
    OBVIOUS
  <1>6. w \in Seq(Nat) /\ Len(w) = n /\ \A i \in 1 .. n : w[i] = B + i
    <2>1. /\ w \in Seq(Nat)
          /\ Len(w) = IF 1 <= n THEN n - 1 + 1 ELSE 0
          /\ \A i \in 1 .. Len(w) : w[i] = b[1 + i - 1]
      <3>1. 1 \in 1 .. Len(b) + 1 /\ n \in 0 .. Len(b)
        BY <1>1, <1>4
      <3>2. QED
        BY <1>5, <3>1, SubSeqProperties
    <2>2. Len(w) = n
      BY <1>4, <2>1
    <2>3. \A i \in 1 .. n : 1 + i - 1 = i /\ i \in 1 .. L
      BY <1>1, <1>4
    <2>4. QED
      BY <1>4, <2>1, <2>2, <2>3
  <1>7. PICK v : v = SubSeq(b, n + 1, L)
    OBVIOUS
  <1>8. v \in Seq(Nat) /\ Len(v) = L - n /\ DOMAIN v = 1 .. L - n /\ \A i \in 1 .. L - n : v[i] = B + n + i
    <2>1. /\ v \in Seq(Nat)
          /\ Len(v) = IF n + 1 <= L THEN L - (n + 1) + 1 ELSE 0
          /\ \A i \in 1 .. Len(v) : v[i] = b[n + 1 + i - 1]
      <3>1. PICK m \in 1 .. Len(b) + 1 : m = n + 1
        BY <1>1, <1>4
      <3>2. L \in m - 1 .. Len(b)
        BY <1>1, <1>4, <3>1
      <3>3. v = SubSeq(b, m, L)
        BY <1>7, <3>1
      <3>4. /\ v \in Seq(Nat)
            /\ Len(v) = IF m <= L THEN L - m + 1 ELSE 0
            /\ \A i \in 1 .. Len(v) : v[i] = b[m + i - 1]
        <4>1. /\ SubSeq(b, m, L) \in Seq(Nat)
              /\ Len(SubSeq(b, m, L)) = IF m <= L THEN L - m + 1 ELSE 0
              /\ \A i \in 1 .. Len(SubSeq(b, m, L)) : SubSeq(b, m, L)[i] = b[m + i - 1]
          BY <3>2, SubSeqProperties
        <4>2. QED
          BY <3>3, <4>1, Zenon
      <3>5. QED
        BY <3>1, <3>4
    <2>2. Len(v) = L - n
      <3>1. (IF n + 1 <= L THEN L - (n + 1) + 1 ELSE 0) = L - n
        BY <1>1, <1>4
      <3>2. QED
        BY <2>1, <3>1
    <2>3. \A i \in 1 .. L - n : n + 1 + i - 1 = n + i /\ n + i \in 1 .. L /\ B + (n + i) = B + n + i
      BY <1>1, <1>4
    <2>4. DOMAIN v = 1 .. L - n
      BY <2>1, <2>2, LenProperties
    <2>5. \A i \in 1 .. L - n : v[i] = b[n + 1 + i - 1]
      BY <2>1, <2>2
    <2>6. \A i \in 1 .. L - n : v[i] = B + n + i
      BY <1>4, <2>3, <2>5
    <2>7. QED
      BY <2>1, <2>2, <2>4, <2>6
  <1>9. /\ G \in Seq(Nat) /\ Len(G) = M + n /\ DOMAIN G = 1 .. M + n
        /\ \A i \in 1 .. M : G[i] = E[i]
        /\ \A i \in M + 1 .. M + n : G[i] = B + (i - M)
    <2>1. /\ G \in Seq(Nat) /\ Len(G) = Len(E) + Len(w)
          /\ \A i \in 1 .. Len(E) + Len(w) : G[i] = IF i <= Len(E) THEN E[i] ELSE w[i - Len(E)]
      BY <1>0, <1>5, <1>6, ConcatProperties
    <2>2. \A i \in 1 .. M : i \in 1 .. M + n /\ i <= M
      BY <1>4
    <2>3. \A i \in M + 1 .. M + n : i \in 1 .. M + n /\ ~(i <= M) /\ i - M \in 1 .. n
      BY <1>4
    <2>4. QED
      BY <1>2, <1>6, <2>1, <2>2, <2>3, LenProperties
  <1>10. \A i \in 1 .. M + n : i \in 1 .. M \/ i \in M + 1 .. M + n
    BY <1>4
  <1>11. t = B + L /\ t - (L - n) = B + n
    BY <1>1, <1>3, <1>4
  <1>12. Fits(v, t, G, live)
    <2>1. Len(v) <= t /\ \A i \in DOMAIN v : v[i] = t - Len(v) + i
      BY <1>4, <1>8, <1>11
    <2>2. \A i \in DOMAIN G : G[i] <= B + n
      <3>0. \A x \in Nat : x <= B => x <= B + n
        BY <1>4
      <3>1. \A i \in 1 .. M : G[i] <= B + n
        BY <1>4, <1>9, <3>0
      <3>2. \A i \in M + 1 .. M + n : B + (i - M) <= B + n
        BY <1>4
      <3>3. QED
        BY <1>9, <1>10, <3>1, <3>2
    <2>3. live => Len(G) = B + n
      BY <1>4, <1>9
    <2>4. QED
      BY <1>8, <1>11, <2>1, <2>2, <2>3 DEF Fits
  <1>13. Good(G, t, live)
    <2>1. ASSUME NEW i \in 1 .. M
          PROVE  G[i] \in 1 .. t /\ (i > 1 => G[i - 1] < G[i])
      <3>1. i > 1 => i - 1 \in 1 .. M
        OBVIOUS
      <3>2. E[i] \in 1 .. t /\ (i > 1 => E[i - 1] < E[i])
        BY <1>4 DEF Good
      <3>3. QED
        BY <1>9, <3>1, <3>2
    <2>2. ASSUME NEW i \in M + 1 .. M + n
          PROVE  G[i] \in 1 .. t /\ (i > 1 => G[i - 1] < G[i])
      <3>0. G[i] = B + (i - M)
        BY <1>9
      <3>1. G[i] \in Nat /\ G[i] \in 1 .. t
        <4>1. i - M \in 1 .. n /\ B + (i - M) \in 1 .. B + n
          BY <1>4
        <4>2. \A x \in 1 .. B + n : x \in Nat /\ x \in 1 .. t
          BY <1>1, <1>4, <1>11
        <4>3. QED
          BY <3>0, <4>1, <4>2
      <3>2. CASE i = M + 1
        <4>1. i > 1 => M \in 1 .. M /\ i - 1 = M
          BY <3>2
        <4>2. i > 1 => G[i - 1] \in Nat /\ G[i - 1] <= B
          BY <1>4, <1>9, <4>1
        <4>3. G[i] = B + 1
          BY <1>4, <3>0, <3>2
        <4>4. \A x \in Nat : x <= B => x < B + 1
          BY <1>4
        <4>5. QED
          BY <3>1, <4>2, <4>3, <4>4
      <3>3. CASE i # M + 1
        <4>1. i - 1 \in M + 1 .. M + n
          BY <1>4, <3>3
        <4>2. G[i - 1] = B + (i - 1 - M)
          BY <1>9, <4>1
        <4>3. B + (i - 1 - M) < B + (i - M)
          BY <1>4
        <4>4. QED
          BY <3>0, <3>1, <4>2, <4>3
      <3>4. QED
        BY <3>2, <3>3
    <2>3. ASSUME live
          PROVE  G = [i \in 1 .. Len(G) |-> i]
      <3>1. \A i \in 1 .. M : E[i] = i
        BY <1>2, <2>3 DEF Good
      <3>2. \A i \in M + 1 .. M + n : B + (i - M) = i
        BY <1>4, <2>3
      <3>3. \A i \in 1 .. M + n : G[i] = i
        BY <1>9, <1>10, <3>1, <3>2
      <3>4. G = [i \in DOMAIN G |-> G[i]]
        BY <1>9, LenProperties
      <3>5. QED
        BY <1>9, <3>3, <3>4
    <2>4. QED
      BY <1>9, <1>10, <2>1, <2>2, <2>3 DEF Good
  <1>14. n = L => v = << >>
    <2>1. n = L => Len(v) = 0
      BY <1>1, <1>4, <1>8
    <2>2. QED
      BY <1>8, <2>1, EmptySeq
  <1>15. QED
    BY <1>0, <1>1, <1>7, <1>8, <1>9, <1>12, <1>13, <1>14, Zenon

-----------------------------------------------------------------------------
(***************************************************************************)
(* The inductive invariant.  RingInv: exactly the listener and the open    *)
(* connections have a place in the rings or the kernel, one each, but for  *)
(* those get_sqe() has dropped; these stay open, and Drops says when there *)
(* are any.  IoFits and EpFits: the bytes such a place carries, or the     *)
(* epoll server's buffer holds, are the ones the client has to get next.   *)
(***************************************************************************)
SockTypes ==
  /\ conn \in [Clients -> {"new", "queued", "open", "closed"}]
  /\ peer \in [Clients -> {"up", "half", "gone", "reset"}]
  /\ sent \in [Clients -> Nat] /\ taken \in [Clients -> Nat] /\ got \in [Clients -> Nat]
  /\ echoed \in [Clients -> Seq(Nat)] /\ \A c \in Clients : taken[c] <= sent[c]
Live(c) == peer[c] \in {"up", "half"} /\ c \notin short
Entitled == {{}} \cup {{c} : c \in {d \in Clients : conn[d] = "open"}}
Place(x) == IF x = Listener THEN {} ELSE {x}
Missing == {Place(x) : x \in dropped}
Owned == Entitled \ Missing
Drops ==
  /\ sq_entries \in Nat /\ dropped \subseteq Clients \cup {Listener}
  /\ \A c \in Clients : c \in dropped => conn[c] = "open"
  /\ dropped # {} => Cardinality(Accepted) >= sq_entries
RingInv ==
  /\ Drops
  /\ sq \in Seq(Op) /\ flight \subseteq Op /\ cq \in Seq(Cqe)
  /\ Ring(sq, flight, cq, Owned)
  /\ pending_sqes \in 0 .. Len(sq)
  /\ io \in [pc : {"top", "poll", "drain"}, left : Nat]
  /\ io.pc = "drain" => io.left \in 1 .. Len(cq)
IoFits ==
  \A c \in Clients :
    /\ \A b : Carries(sq, flight, cq, c, b) => Fits(b, taken[c], echoed[c], Live(c))
    /\ conn[c] \in {"new", "queued"} => Fits(<< >>, taken[c], echoed[c], Live(c))
EpTypes ==
  /\ ready \subseteq Clients \cup {Listener}
  /\ ep \in [pc : {"wait", "next", "accept", "read", "write"},
             batch : SUBSET [fd : Clients \cup {Listener}, hup : BOOLEAN],
             fd : Clients \cup {Listener}, buf : Seq(Nat)]
  /\ \A e \in ep.batch : e.hup => e.fd \in Clients
  /\ ep.pc \in {"read", "write"} => ep.fd \in Clients
Buffered(c) == IF ep.pc = "write" /\ ep.fd = c THEN ep.buf ELSE << >>
EpFits == \A c \in Clients : Fits(Buffered(c), taken[c], echoed[c], Live(c))
EchoInv ==
  /\ SockTypes /\ EchoFaithful
  /\ server = "io_uring" => RingInv /\ IoFits
  /\ server = "epoll" => EpTypes /\ EpFits

(* The property, connection by connection. *)
LEMMA Faithfully ==
  EchoFaithful <=> \A c \in Clients : Good(echoed[c], taken[c], c \notin short)
  BY DEF EchoFaithful, Good

(* The connections accepted so far are finitely many and never fewer than before. *)
LEMMA AcceptedFinite ==
  IsFiniteSet(Accepted) /\ Cardinality(Accepted) \in Nat
  <1>1. Accepted \subseteq Clients
    BY DEF Accepted
  <1>2. QED
    BY <1>1, ClientsAssumption, FS_Subset, FS_CardinalityType

LEMMA AcceptedGrows ==
  ASSUME \A c \in Clients : conn[c] \in {"open", "closed"} => conn'[c] \in {"open", "closed"}
  PROVE  Cardinality(Accepted)' >= Cardinality(Accepted) /\ Cardinality(Accepted)' \in Nat
  <1>1. PICK A : A = Accepted'
    OBVIOUS
  <1>2. Accepted \subseteq A /\ A \subseteq Clients
    BY <1>1 DEF Accepted
  <1>3. IsFiniteSet(A) /\ Cardinality(A) \in Nat
    BY <1>2, ClientsAssumption, FS_Subset, FS_CardinalityType
  <1>4. Cardinality(Accepted) <= Cardinality(A) /\ Cardinality(Accepted) \in Nat
    BY <1>2, <1>3, AcceptedFinite, FS_Subset
  <1>5. Cardinality(Accepted)' = Cardinality(A)
    BY <1>1
  <1>6. QED
    BY <1>3, <1>4, <1>5

(* Nobody is dropped, and nobody who was is closed. *)
LEMMA DropsKept ==
  ASSUME Drops, UNCHANGED dropped, UNCHANGED sq_entries,
         \A c \in Clients : conn[c] \in {"open", "closed"} => conn'[c] \in {"open", "closed"},
         \A c \in Clients : c \in dropped => conn'[c] = "open"
  PROVE  Drops' /\ Missing' = Missing
  <1>1. PICK m \in Nat : m = Cardinality(Accepted)
    BY AcceptedFinite
  <1>2. PICK n \in Nat : n = Cardinality(Accepted)' /\ n >= m
    BY <1>1, AcceptedGrows
  <1>3. dropped' # {} => n >= sq_entries
    BY <1>1, <1>2 DEF Drops
  <1>4. Drops'
    BY <1>2, <1>3 DEF Drops
  <1>5. QED
    BY <1>4 DEF Missing

(* The ones of D are dropped. *)
LEMMA DropsGrown ==
  ASSUME Drops, NEW D, dropped' = dropped \cup D, UNCHANGED sq_entries, UNCHANGED conn,
         D \subseteq Clients \cup {Listener}, \A c \in Clients : c \in D => conn[c] = "open",
         D # {} => Cardinality(Accepted) >= sq_entries
  PROVE  Drops' /\ Missing' = Missing \cup {Place(x) : x \in D}
  <1>1. Cardinality(Accepted)' = Cardinality(Accepted)
    BY DEF Accepted
  <1>2. Drops'
    BY <1>1 DEF Drops
  <1>3. QED
    BY <1>2 DEF Missing

(* What the drops leave to whom: c has lost its place when it is dropped. *)
LEMMA PlaceOf ==
  /\ {} \in Owned <=> Listener \notin dropped
  /\ \A c \in Clients : {c} \in Owned <=> conn[c] = "open" /\ c \notin dropped
  /\ Place(Listener) = {} /\ \A c \in Clients : Place(c) = {c}
  /\ Owned \subseteq Places(Accepted)
  <1>1. \A x : Place(x) = {} <=> x = Listener
    BY DEF Place
  <1>2. \A c \in Clients : c # Listener
    BY ClientsAssumption
  <1>3. \A c, d : {c} = {d} => c = d
    OBVIOUS
  <1>4. \A c \in Clients : \A x : Place(x) = {c} <=> x = c
    BY <1>2, <1>3 DEF Place
  <1>5. Listener \notin dropped <=> {} \notin Missing
    BY <1>1 DEF Missing
  <1>6. \A c \in Clients : c \notin dropped <=> {c} \notin Missing
    BY <1>4 DEF Missing
  <1>7. {} \in Entitled /\ \A c \in Clients : {c} \in Entitled <=> conn[c] = "open"
    BY <1>3 DEF Entitled
  <1>8. Entitled \subseteq Places(Accepted)
    BY DEF Entitled, Places, Accepted
  <1>9. QED
    BY <1>1, <1>2, <1>4, <1>5, <1>6, <1>7, <1>8 DEF Owned

(* Nobody is accepted, closed or dropped. *)
LEMMA OwnedSame ==
  ASSUME \A c \in Clients : conn'[c] = "open" <=> conn[c] = "open",
         \A c \in Clients : conn[c] = "closed" => conn'[c] \in {"open", "closed"},
         UNCHANGED dropped, UNCHANGED sq_entries, Drops
  PROVE  Owned' = Owned /\ Drops'
  <1>1. Drops' /\ Missing' = Missing
    <2>1. \A c \in Clients : c \in dropped => conn'[c] = "open"
      BY DEF Drops
    <2>2. \A c \in Clients : conn[c] \in {"open", "closed"} => conn'[c] \in {"open", "closed"}
      OBVIOUS
    <2>3. QED
      BY <2>1, <2>2, DropsKept
  <1>2. Entitled' = Entitled
    BY DEF Entitled
  <1>3. QED
    BY <1>1, <1>2 DEF Owned

(* A connection is accepted. *)
LEMMA OwnedOpened ==
  ASSUME SockTypes, NEW c \in Clients, conn' = [conn EXCEPT ![c] = "open"], conn[c] \notin {"open", "closed"},
         UNCHANGED dropped, UNCHANGED sq_entries, Drops
  PROVE  Owned' = Owned \cup {{c}} /\ {c} \notin Owned /\ Drops'
  <1>1. \A d \in Clients : conn'[d] = "open" <=> d = c \/ conn[d] = "open"
    BY DEF SockTypes
  <1>2. {d \in Clients : conn'[d] = "open"} = {d \in Clients : conn[d] = "open"} \cup {c}
    BY <1>1
  <1>3. PICK S : S = {d \in Clients : conn[d] = "open"}
    OBVIOUS
  <1>4. Entitled = {{}} \cup {{d} : d \in S} /\ Entitled' = {{}} \cup {{d} : d \in S \cup {c}}
    BY <1>2, <1>3 DEF Entitled
  <1>5. Entitled' = Entitled \cup {{c}}
    BY <1>4
  <1>6. c \notin dropped
    BY DEF Drops
  <1>7. {c} \notin Owned
    BY PlaceOf
  <1>8. {c} \notin Missing
    <2>1. c # Listener
      BY ClientsAssumption
    <2>2. \A x \in dropped : Place(x) # {c}
      <3>1. \A x, y : {x} = {y} => x = y
        OBVIOUS
      <3>2. QED
        BY <1>6, <2>1, <3>1 DEF Place
    <2>3. QED
      BY <2>2 DEF Missing
  <1>9. Drops' /\ Missing' = Missing
    <2>1. \A d \in Clients : conn[d] \in {"open", "closed"} => conn'[d] \in {"open", "closed"}
      BY DEF SockTypes
    <2>2. \A d \in Clients : d \in dropped => conn'[d] = "open"
      BY <1>1 DEF Drops
    <2>3. QED
      BY <2>1, <2>2, DropsKept
  <1>10. QED
    BY <1>5, <1>7, <1>8, <1>9 DEF Owned

(* A connection that has its place is closed. *)
LEMMA OwnedClosed ==
  ASSUME SockTypes, NEW c \in Clients, CloseFd(c), UNCHANGED dropped, UNCHANGED sq_entries, Drops,
         {c} \in Owned
  PROVE  Owned' = Owned \ {{c}} /\ Drops'
  <1>1. \A d \in Clients : conn'[d] = "open" <=> d # c /\ conn[d] = "open"
    BY DEF SockTypes, CloseFd
  <1>2. {d \in Clients : conn'[d] = "open"} = {d \in Clients : conn[d] = "open"} \ {c}
    BY <1>1
  <1>3. PICK S : S = {d \in Clients : conn[d] = "open"}
    OBVIOUS
  <1>4. Entitled = {{}} \cup {{d} : d \in S} /\ Entitled' = {{}} \cup {{d} : d \in S \ {c}}
    BY <1>2, <1>3 DEF Entitled
  <1>5. \A d : {d} = {c} => d = c
    OBVIOUS
  <1>6. Entitled' = Entitled \ {{c}}
    BY <1>4, <1>5
  <1>7. Drops' /\ Missing' = Missing
    <2>1. \A d \in Clients : conn[d] \in {"open", "closed"} => conn'[d] \in {"open", "closed"}
      BY DEF SockTypes, CloseFd
    <2>2. c \notin dropped
      BY PlaceOf
    <2>3. \A d \in Clients : d \in dropped => conn'[d] = "open"
      BY <1>1, <2>2 DEF Drops
    <2>4. QED
      BY <2>1, <2>3, DropsKept
  <1>8. QED
    BY <1>6, <1>7 DEF Owned

(* Nothing is read or written: what fitted still fits. *)
LEMMA FitsKept ==
  ASSUME NEW c \in Clients, taken'[c] = taken[c], echoed'[c] = echoed[c], Live(c)' => Live(c)
  PROVE  \A b : Fits(b, taken[c], echoed[c], Live(c)) => Fits(b, taken[c], echoed[c], Live(c))'
  BY FitsWeaker DEF Fits

(* Nothing is read or written: the property is kept. *)
LEMMA FaithKept ==
  ASSUME EchoFaithful, UNCHANGED <<taken, echoed>>, \A c \in Clients : c \in short => c \in short'
  PROVE  EchoFaithful'
  BY DEF EchoFaithful

(* What a client does leaves alone what the server read and wrote. *)
LEMMA ClientStep ==
  ASSUME SockTypes, NEW c \in Clients, Connect(c) \/ Send(c) \/ HangUp(c) \/ Receive(c)
  PROVE  /\ SockTypes' /\ UNCHANGED <<taken, echoed>>
         /\ \A d \in Clients :
              /\ conn'[d] = "open" <=> conn[d] = "open"
              /\ conn[d] = "closed" => conn'[d] \in {"open", "closed"}
              /\ conn'[d] \in {"new", "queued"} => conn[d] \in {"new", "queued"}
              /\ peer'[d] \in {"up", "half"} => peer[d] \in {"up", "half"}
  <1>1. CASE Connect(c)
    BY <1>1 DEF Connect, SockTypes
  <1>2. CASE Send(c)
    <2>1. \A d \in Clients : sent'[d] \in Nat /\ sent[d] <= sent'[d]
      BY <1>2 DEF Send, SockTypes
    <2>2. sent' \in [Clients -> Nat]
      BY <1>2 DEF Send, SockTypes
    <2>3. \A d \in Clients : taken[d] <= sent'[d]
      BY <2>1 DEF SockTypes
    <2>4. QED
      BY <1>2, <2>2, <2>3 DEF Send, SockTypes
  <1>3. CASE HangUp(c)
    BY <1>3 DEF HangUp, SockTypes
  <1>4. CASE Receive(c)
    <2>1. got' \in [Clients -> Nat]
      BY <1>4 DEF Receive, SockTypes
    <2>2. QED
      BY <1>4, <2>1 DEF Receive, SockTypes
  <1>5. QED
    BY <1>1, <1>2, <1>3, <1>4

-----------------------------------------------------------------------------
(* init() submits the first accept. *)
LEMMA RingFirst ==
  ASSUME sq_entries \in Nat \ {0}
  PROVE
  LET q == get_sqe(<< >>, AcceptOp)
  IN  /\ q \in Seq(Op) /\ Ring(q, {}, << >>, {{}}) /\ Len(q) = 1
      /\ \A c, b : ~Carries(q, {}, << >>, c, b)
  <1>1. PICK z : z = << >>
    OBVIOUS
  <1>2. PICK F : F = {}
    OBVIOUS
  <1>3. z \in Seq(Op) /\ Len(z) = 0 /\ DOMAIN z = {}
    BY <1>1
  <1>4. Ring(z, F, z, F)
    BY <1>2, <1>3 DEF Ring, SqSubs, KernelSubs, CqSubs
  <1>5. AcceptOp \in Op /\ Sub(AcceptOp) = {}
    BY OpMade
  <1>6. PICK a : a = get_sqe(z, AcceptOp)
    OBVIOUS
  <1>7. Sub(AcceptOp) \notin F
    BY <1>2
  <1>8. /\ a \in Seq(Op) /\ Len(a) = Len(z) + 1 /\ Ring(a, F, z, F \cup {Sub(AcceptOp)})
        /\ \A c, b : Carries(a, F, z, c, b) =>
             Carries(z, F, z, c, b) \/ ({c} = Sub(AcceptOp) /\ b = Payload(AcceptOp))
    <2>1. PICK op \in Op : op = AcceptOp
      BY <1>5
    <2>a. Sub(op) \notin F
      BY <1>7, <2>1
    <2> HIDE <2>1
    <2>d. sq_entries \in Nat
      OBVIOUS
    <2>e. z \in Seq(Op) /\ Ring(z, F, z, F)
      BY <1>3, <1>4
    <2>2. /\ get_sqe(z, op) \in Seq(Op) /\ Len(get_sqe(z, op)) >= Len(z)
          /\ Ring(get_sqe(z, op), F, z, F \cup Gets(z, op))
          /\ \A c, b : Carries(get_sqe(z, op), F, z, c, b) =>
               Carries(z, F, z, c, b) \/ ({c} = Sub(op) /\ b = Payload(op))
          /\ get_sqe(z, op) = z => Len(z) >= sq_entries
          /\ Len(z) < sq_entries => Len(get_sqe(z, op)) = Len(z) + 1
      BY <2>a, <2>d, <2>e, RingSubmit, Zenon
    <2>3. a = get_sqe(z, op)
      BY <1>6, <2>1
    <2>b. Len(a) = Len(z) + 1
      BY <1>3, <2>2, <2>3
    <2>c. Gets(z, op) = {Sub(op)}
      BY <1>3, <2>b, <2>3 DEF Gets
    <2>4. /\ a \in Seq(Op) /\ Len(a) = Len(z) + 1 /\ Ring(a, F, z, F \cup {Sub(op)})
          /\ \A c, b : Carries(a, F, z, c, b) =>
               Carries(z, F, z, c, b) \/ ({c} = Sub(op) /\ b = Payload(op))
      BY <2>2, <2>3, <2>b, <2>c, Zenon
    <2>5. QED
      BY <2>1, <2>4
  <1>9. \A c, b : ~Carries(a, F, z, c, b)
    BY <1>2, <1>3, <1>5, <1>8 DEF Carries
  <1>10. F \cup {Sub(AcceptOp)} = {{}} /\ Len(a) = 1
    BY <1>2, <1>3, <1>5, <1>8
  <1>11. QED
    BY <1>1, <1>2, <1>6, <1>8, <1>9, <1>10, Zenon

(* Both servers start in the invariant. *)
LEMMA EchoInitially ==
  EchoInit => EchoInv
  <1> SUFFICES ASSUME EchoInit PROVE EchoInv
    OBVIOUS
  <1> USE DEF EchoInit, SockInit, EpInit, IoInit
  <1>1. << >> \in Seq(Nat) /\ << >> \in Seq(Op) /\ << >> \in Seq(Cqe) /\ Len(<< >>) = 0 /\ DOMAIN << >> = {}
    OBVIOUS
  <1>2. SockTypes
    BY <1>1 DEF SockTypes
  <1>3. \A c \in Clients : taken[c] = 0 /\ echoed[c] = << >> /\ conn[c] = "new"
    OBVIOUS
  <1>4. \A live, whole : Fits(<< >>, 0, << >>, live) /\ Good(<< >>, 0, whole)
    <2>1. << >> = [i \in 1 .. 0 |-> i]
      OBVIOUS
    <2>2. PICK z : z = << >>
      OBVIOUS
    <2>3. Len(z) = 0 /\ DOMAIN z = {} /\ z = [i \in 1 .. Len(z) |-> i]
      BY <1>1, <2>1, <2>2
    <2>4. \A live : Fits(z, 0, z, live)
      BY <2>3 DEF Fits
    <2>5. \A whole : Good(z, 0, whole)
      BY <2>3, Zenon DEF Good
    <2>6. QED
      BY <2>2, <2>4, <2>5
  <1>5. EchoFaithful
    BY <1>3, <1>4, Faithfully
  <1>6. EpTypes /\ EpFits
    <2>1. ep.pc = "wait" /\ ready = {} /\ ep.batch = {}
      OBVIOUS
    <2>2. EpTypes
      BY <1>1, <2>1 DEF EpTypes
    <2>3. \A c \in Clients : Buffered(c) = << >>
      BY <2>1 DEF Buffered
    <2>4. QED
      BY <1>3, <1>4, <2>2, <2>3 DEF EpFits
  <1>7. RingInv /\ IoFits
    <2>1. PICK q : q = get_sqe(<< >>, AcceptOp)
      OBVIOUS
    <2>4. /\ q \in Seq(Op) /\ Ring(q, {}, << >>, {{}}) /\ Len(q) = 1
          /\ \A c, b : ~Carries(q, {}, << >>, c, b)
      <3>1. sq_entries \in Nat \ {0}
        BY SqAssumption
      <3>2. QED
        BY <2>1, <3>1, RingFirst
    <2>6. sq = q /\ flight = {} /\ cq = << >> /\ pending_sqes = 1
      BY <2>1, <2>4 DEF submit_accept
    <2>7. Owned = {{}}
      <3>1. Missing = {} /\ Entitled = {{}}
        BY <1>3 DEF Missing, Entitled
      <3>2. QED
        BY <3>1 DEF Owned
    <2>a. Drops
      BY SqAssumption DEF Drops
    <2>8. RingInv
      BY <1>1, <2>4, <2>6, <2>7, <2>a DEF RingInv
    <2>9. QED
      BY <1>3, <1>4, <2>4, <2>6, <2>8 DEF IoFits
  <1>8. QED
    BY <1>2, <1>5, <1>6, <1>7 DEF EchoInv

(* Operations and completions that carry what was carried before still fit. *)
LEMMA IoFitsKept ==
  ASSUME IoFits, UNCHANGED <<taken, echoed>>,
         \A c \in Clients :
           /\ Live(c)' => Live(c)
           /\ conn'[c] \in {"new", "queued"} => conn[c] \in {"new", "queued"}
           /\ \A b : Carries(sq', flight', cq', c, b) =>
                Carries(sq, flight, cq, c, b) \/ Fits(b, taken[c], echoed[c], Live(c))
  PROVE  IoFits'
  <1>1. ASSUME NEW c \in Clients
        PROVE  /\ \A b : Carries(sq', flight', cq', c, b) => Fits(b, taken'[c], echoed'[c], Live(c)')
               /\ conn'[c] \in {"new", "queued"} => Fits(<< >>, taken'[c], echoed'[c], Live(c)')
    <2>1. \A b : Fits(b, taken[c], echoed[c], Live(c)) => Fits(b, taken'[c], echoed'[c], Live(c)')
      BY FitsWeaker DEF Fits
    <2>2. QED
      BY <2>1 DEF IoFits
  <1>2. QED
    BY <1>1 DEF IoFits

(* run(): io_uring_enter, also when it fails. *)
LEMMA IoEnterStep ==
  ASSUME SockTypes, EchoFaithful, RingInv, IoFits, IoEnter
  PROVE  SockTypes' /\ EchoFaithful' /\ RingInv' /\ IoFits'
  <1>1. UNCHANGED conn /\ UNCHANGED peer /\ UNCHANGED sent /\ UNCHANGED taken /\ UNCHANGED echoed
        /\ UNCHANGED got /\ UNCHANGED cq /\ UNCHANGED short /\ UNCHANGED dropped /\ UNCHANGED sq_entries
    BY DEF IoEnter
  <1>2. SockTypes' /\ EchoFaithful'
    BY <1>1, FaithKept DEF SockTypes
  <1>3. Owned' = Owned /\ Drops'
    BY <1>1, OwnedSame DEF RingInv
  <1>4. /\ sq' \in Seq(Op) /\ flight' \subseteq Op /\ Ring(sq', flight', cq, Owned)
        /\ \A c, b : Carries(sq', flight', cq, c, b) => Carries(sq, flight, cq, c, b)
    <2>1. CASE UNCHANGED <<sq, flight>>
      BY <2>1 DEF RingInv
    <2>2. CASE /\ sq' = SubSeq(sq, pending_sqes + 1, Len(sq))
               /\ flight' = flight \cup {sq[i] : i \in 1..pending_sqes}
      <3>1. sq' \in Seq(Op) /\ Ring(sq', flight', cq, Owned)
            /\ \A c, b : Carries(sq', flight', cq, c, b) => Carries(sq, flight, cq, c, b)
        BY <2>2, RingEnter DEF RingInv
      <3>2. \A i \in 1 .. pending_sqes : sq[i] \in Op
        <4>1. \A i \in 1 .. pending_sqes : i \in 1 .. Len(sq)
          BY LenProperties DEF RingInv
        <4>2. QED
          BY <4>1, ElementOfSeq DEF RingInv
      <3>3. QED
        BY <2>2, <3>1, <3>2 DEF RingInv
    <2>3. QED
      BY <2>1, <2>2 DEF IoEnter
  <1>5. IoFits'
    BY <1>1, <1>4, IoFitsKept DEF Live
  <1>6. pending_sqes' \in 0 .. Len(sq')
    <2>1. pending_sqes' = 0
      BY DEF IoEnter
    <2>2. Len(sq') \in Nat
      BY <1>4, LenProperties
    <2>3. QED
      BY <2>1, <2>2
  <1>7. io' \in [pc : {"top", "poll", "drain"}, left : Nat] /\ io'.pc = "poll"
    BY DEF IoEnter, RingInv
  <1>8. cq' \in Seq(Cqe)
    BY <1>1 DEF RingInv
  <1>9. Ring(sq', flight', cq', Owned')
    BY <1>1, <1>3, <1>4
  <1>10. QED
    BY <1>2, <1>3, <1>4, <1>5, <1>6, <1>7, <1>8, <1>9 DEF RingInv

(* run(): the look at the completion ring. *)
LEMMA IoPollStep ==
  ASSUME SockTypes, EchoFaithful, RingInv, IoFits, IoPoll
  PROVE  SockTypes' /\ EchoFaithful' /\ RingInv' /\ IoFits'
  <1>1. UNCHANGED conn /\ UNCHANGED peer /\ UNCHANGED sent /\ UNCHANGED taken /\ UNCHANGED echoed
        /\ UNCHANGED got /\ UNCHANGED cq /\ UNCHANGED short /\ UNCHANGED sq /\ UNCHANGED flight
        /\ UNCHANGED pending_sqes /\ UNCHANGED dropped /\ UNCHANGED sq_entries
    BY DEF IoPoll, sockVars
  <1>2. SockTypes' /\ EchoFaithful'
    BY <1>1, FaithKept DEF SockTypes
  <1>3. Owned' = Owned /\ Drops'
    BY <1>1, OwnedSame DEF RingInv
  <1>4. IoFits'
    BY <1>1, IoFitsKept DEF Live
  <1>5. /\ io' \in [pc : {"top", "poll", "drain"}, left : Nat]
        /\ io'.pc = "drain" => io'.left \in 1 .. Len(cq)
    <2>1. CASE cq = << >>
      BY <2>1 DEF IoPoll, RingInv
    <2>2. CASE cq # << >>
      <3>1. Len(cq) \in Nat /\ Len(cq) # 0
        BY <2>2, EmptySeq, LenProperties DEF RingInv
      <3>2. Len(cq) \in 1 .. Len(cq)
        BY <3>1
      <3>3. io' = [pc |-> "drain", left |-> Len(cq)]
        BY <2>2 DEF IoPoll
      <3>4. QED
        BY <3>1, <3>2, <3>3
    <2>3. QED
      BY <2>1, <2>2
  <1>6. Ring(sq', flight', cq', Owned')
    BY <1>1, <1>3 DEF RingInv
  <1>7. QED
    BY <1>1, <1>2, <1>3, <1>4, <1>5, <1>6 DEF RingInv

(* What is common to every case of handle_completion(). *)
LEMMA AfterCompletion ==
  ASSUME SockTypes, EchoFaithful, RingInv, IoFits, handle_completion,
         \A c \in Clients : conn'[c] \in {"new", "queued"} => conn[c] \in {"new", "queued"},
         conn' \in [Clients -> {"new", "queued", "open", "closed"}],
         sq' \in Seq(Op), Len(sq') >= Len(sq), pending_sqes' = pending_sqes + Len(sq') - Len(sq),
         Ring(sq', flight, Tail(cq), Owned'), Drops',
         \A c \in Clients : \A b : Carries(sq', flight, Tail(cq), c, b) => Carries(sq, flight, cq, c, b)
  PROVE  SockTypes' /\ EchoFaithful' /\ RingInv' /\ IoFits'
  <1>1. UNCHANGED peer /\ UNCHANGED sent /\ UNCHANGED taken /\ UNCHANGED echoed
        /\ UNCHANGED got /\ UNCHANGED short /\ UNCHANGED flight
    BY DEF handle_completion
  <1>2. cq' = Tail(cq) /\ io.pc = "drain"
        /\ io' = [pc |-> IF io.left = 1 THEN "top" ELSE "drain", left |-> io.left - 1]
    BY DEF handle_completion
  <1>3. cq \in Seq(Cqe) /\ io.left \in 1 .. Len(cq) /\ Len(cq) \in Nat
    BY <1>2, LenProperties DEF RingInv
  <1>4. cq # << >>
    BY <1>3
  <1>5. cq' \in Seq(Cqe) /\ Len(cq') = Len(cq) - 1
    BY <1>2, <1>3, <1>4, HeadTailProperties
  <1>6. /\ io' \in [pc : {"top", "poll", "drain"}, left : Nat]
        /\ io'.pc = "drain" => io'.left \in 1 .. Len(cq')
    <2>1. io.left - 1 \in Nat /\ (io.left # 1 => io.left - 1 \in 1 .. Len(cq) - 1)
      BY <1>3
    <2>2. QED
      BY <1>2, <1>5, <2>1
  <1>7. pending_sqes' \in 0 .. Len(sq')
    <2>1. Len(sq) \in Nat /\ Len(sq') \in Nat /\ pending_sqes \in 0 .. Len(sq)
      BY LenProperties DEF RingInv
    <2>2. \A m, n \in Nat : n >= m => \A p \in 0 .. m : p + n - m \in 0 .. n
      OBVIOUS
    <2>3. QED
      BY <2>1, <2>2
  <1>8. SockTypes' /\ EchoFaithful'
    BY <1>1, FaithKept DEF SockTypes
  <1>9. IoFits'
    BY <1>1, <1>2, IoFitsKept DEF Live
  <1>10. Ring(sq', flight', cq', Owned')
    BY <1>1, <1>2
  <1>11. flight' \subseteq Op
    BY <1>1 DEF RingInv
  <1>12. QED
    BY <1>5, <1>6, <1>7, <1>8, <1>9, <1>10, <1>11 DEF RingInv

(* handle_completion(): the place the completion frees is used again or closed. *)
LEMMA CompletionStep ==
  ASSUME SockTypes, EchoFaithful, RingInv, IoFits, handle_completion
  PROVE  SockTypes' /\ EchoFaithful' /\ RingInv' /\ IoFits'
  <1>1. PICK e : e = Head(cq)
    OBVIOUS
  <1>2. PICK r : r = Tail(cq)
    OBVIOUS
  <1>3. sq \in Seq(Op) /\ cq \in Seq(Cqe) /\ Ring(sq, flight, cq, Owned) /\ cq # << >>
    <2>1. io.left \in 1 .. Len(cq) /\ cq \in Seq(Cqe)
      BY DEF RingInv, handle_completion
    <2>2. cq # << >>
      BY <2>1
    <2>3. QED
      BY <2>1, <2>2 DEF RingInv
  <1>4. PICK W : W = Owned \ Subs(e)
    OBVIOUS
  <1>5. /\ r \in Seq(Cqe) /\ e \in Cqe /\ \A s \in Subs(e) : s \in Owned
        /\ Ring(sq, flight, r, W)
        /\ \A c, b : Carries(sq, flight, r, c, b) => Carries(sq, flight, cq, c, b)
        /\ \A c : {c} \in Subs(e) => Carries(sq, flight, cq, c, Result(e))
    BY <1>1, <1>2, <1>3, <1>4, RingTail
  <1>6. /\ e.op.type = "accept" /\ e.ok => e.c \in Clients /\ Subs(e) = {{}, {e.c}}
        /\ e.op.type = "accept" /\ ~e.ok => Subs(e) = {{}}
        /\ e.op.type # "accept" => e.op.c \in Clients /\ Subs(e) = {{e.op.c}}
        /\ e.op.type = "read" /\ e.ok => e.bytes \in Seq(Nat) /\ Result(e) = e.bytes
        /\ ~(e.op.type = "read" /\ e.ok) => Result(e) = << >>
    BY <1>5, CqeShape
  <1>7. Len(sq) \in Nat
    BY <1>3, LenProperties
  <1>d. Drops /\ UNCHANGED sq_entries /\ sq_entries \in Nat
    BY DEF RingInv, Drops, handle_completion
  <1>o. W \subseteq Places(Accepted)
    BY <1>4, PlaceOf
  <1>8. ASSUME NEW c \in Clients, NEW op \in Op, Sub(op) = {c}, Payload(op) = Result(e), Subs(e) = {{c}},
               Submitted(get_sqe(sq, op)), UNCHANGED conn, dropped' = dropped \cup Refused(sq, op, c)
        PROVE  SockTypes' /\ EchoFaithful' /\ RingInv' /\ IoFits'
    <2>1. PICK q : q = get_sqe(sq, op)
      OBVIOUS
    <2>2. {c} \notin W /\ {c} \in Owned /\ conn[c] = "open" /\ Place(c) = {c}
      BY <1>4, <1>5, <1>8, PlaceOf
    <2>a. PICK G : G = Gets(sq, op)
      OBVIOUS
    <2>3. /\ q \in Seq(Op) /\ Len(q) >= Len(sq) /\ Ring(q, flight, r, W \cup G)
          /\ \A d, b : Carries(q, flight, r, d, b) =>
               Carries(sq, flight, r, d, b) \/ ({d} = {c} /\ b = Result(e))
          /\ q = sq => Len(sq) >= sq_entries
      <3>1. Sub(op) \notin W
        BY <1>8, <2>2
      <3>2. /\ q \in Seq(Op) /\ Len(q) >= Len(sq) /\ Ring(q, flight, r, W \cup G)
            /\ \A d, b : Carries(q, flight, r, d, b) =>
                 Carries(sq, flight, r, d, b) \/ ({d} = Sub(op) /\ b = Payload(op))
            /\ q = sq => Len(sq) >= sq_entries
        BY <1>3, <1>5, <1>d, <2>1, <2>a, <3>1, RingSubmit
      <3>3. QED
        BY <1>8, <3>2, Zenon
    <2>b. PICK D : D = Refused(sq, op, c)
      OBVIOUS
    <2>c. \/ G = {} /\ D = {c} /\ q = sq
          \/ G = {{c}} /\ D = {}
      BY <1>8, <2>1, <2>a, <2>b DEF Gets, Refused
    <2>d. D # {} => Cardinality(Accepted) >= sq_entries
      <3>1. {c} \in Places(Accepted)
        BY <2>2, PlaceOf
      <3>2. Len(sq) <= Cardinality(Accepted)
        BY <1>3, <1>5, <1>o, <2>2, <3>1, AcceptedFinite, SqRoom
      <3>3. QED
        BY <1>7, <1>d, <2>3, <2>c, <3>2, AcceptedFinite
    <2>e. Drops' /\ Missing' = Missing \cup {Place(x) : x \in D}
      <3>1. D \subseteq Clients \cup {Listener} /\ \A d \in Clients : d \in D => conn[d] = "open"
        BY <2>2, <2>c
      <3>2. dropped' = dropped \cup D /\ UNCHANGED conn
        BY <1>8, <2>b
      <3>3. QED
        BY <1>d, <2>d, <3>1, <3>2, DropsGrown
    <2>4. W \cup G = Owned'
      <3>1. Entitled' = Entitled
        BY <1>8 DEF Entitled
      <3>2. {Place(x) : x \in D} = {{c}} \ G
        BY <2>2, <2>c
      <3>3. W = Owned \ {{c}} /\ {c} \in Owned /\ (G = {} \/ G = {{c}})
        BY <1>4, <1>8, <2>2, <2>c
      <3>4. QED
        BY <2>e, <3>1, <3>2, <3>3 DEF Owned
    <2>5. sq' = q /\ pending_sqes' = pending_sqes + Len(sq') - Len(sq)
      BY <1>8, <2>1 DEF Submitted
    <2>6. \A d \in Clients : \A b : Carries(q, flight, r, d, b) => Carries(sq, flight, cq, d, b)
      BY <1>5, <1>8, <2>3
    <2>7. Ring(q, flight, r, Owned')
      BY <2>3, <2>4
    <2>9. QED
      BY <1>2, <1>8, <2>3, <2>5, <2>6, <2>7, <2>e, AfterCompletion DEF SockTypes
  <1>9. ASSUME NEW c \in Clients, Subs(e) = {{c}}, CloseFd(c), Submitted(sq), UNCHANGED dropped
        PROVE  SockTypes' /\ EchoFaithful' /\ RingInv' /\ IoFits'
    <2>1. Owned' = W /\ Drops'
      BY <1>4, <1>5, <1>9, <1>d, OwnedClosed
    <2>2. sq' = sq /\ pending_sqes' = pending_sqes + Len(sq') - Len(sq)
      BY <1>9 DEF Submitted
    <2>3. conn' \in [Clients -> {"new", "queued", "open", "closed"}]
          /\ \A d \in Clients : conn'[d] \in {"new", "queued"} => conn[d] \in {"new", "queued"}
      BY <1>9 DEF SockTypes, CloseFd
    <2>4. Ring(sq, flight, r, Owned') /\ Len(sq) >= Len(sq)
      BY <1>5, <1>7, <2>1
    <2>5. QED
      BY <1>2, <1>3, <1>5, <2>1, <2>2, <2>3, <2>4, AfterCompletion
  <1>10. ASSUME e.op.type = "accept", UNCHANGED conn,
                LET q == IF e.ok THEN submit_read(sq, e.c) ELSE sq IN
                /\ Submitted(submit_accept(q))
                /\ dropped' = dropped \cup Refused(q, AcceptOp, Listener)
                     \cup IF e.ok THEN Refused(sq, ReadOp(e.c), e.c) ELSE {}
         PROVE  SockTypes' /\ EchoFaithful' /\ RingInv' /\ IoFits'
    <2>1. PICK q : q = IF e.ok THEN submit_read(sq, e.c) ELSE sq
      OBVIOUS
    <2>2. PICK G : G = IF e.ok THEN Gets(sq, ReadOp(e.c)) ELSE {}
      OBVIOUS
    <2>a. PICK D : D = IF e.ok THEN Refused(sq, ReadOp(e.c), e.c) ELSE {}
      OBVIOUS
    <2>b. PICK E : E = Refused(q, AcceptOp, Listener)
      OBVIOUS
    <2>c. /\ {} \notin W /\ {} \in Owned
          /\ e.ok => e.c \in Clients /\ {e.c} \notin W /\ {e.c} \in Owned /\ conn[e.c] = "open"
                     /\ {e.c} \in Places(Accepted) /\ Place(e.c) = {e.c}
      BY <1>4, <1>5, <1>6, <1>10, PlaceOf
    <2>d. \/ G = {} /\ D = {}
          \/ e.ok /\ G = {{e.c}} /\ D = {}
          \/ e.ok /\ G = {} /\ D = {e.c}
      <3>1. CASE e.ok
        <4>1. PICK op \in Op : op = ReadOp(e.c) /\ Sub(op) = {e.c} /\ Payload(op) = << >>
          BY <2>c, <3>1, OpMade
        <4>2. QED
          BY <2>2, <2>a, <3>1, <4>1 DEF Gets, Refused
      <3>2. CASE ~e.ok
        BY <2>2, <2>a, <3>2
      <3>3. QED
        BY <3>1, <3>2
    <2>3. /\ q \in Seq(Op) /\ Len(q) >= Len(sq) /\ Ring(q, flight, r, W \cup G)
          /\ \A d, b : Carries(q, flight, r, d, b) => Carries(sq, flight, cq, d, b)
          /\ D # {} => Len(sq) >= sq_entries
          /\ ~e.ok => D = {} /\ G = {}
          /\ e.ok => G = {{e.c}} \/ D = {e.c}
      <3>1. CASE e.ok
        <4>1. PICK op \in Op : op = ReadOp(e.c) /\ Sub(op) = {e.c} /\ Payload(op) = << >>
          BY <2>c, <3>1, OpMade
        <4>2. Sub(op) \notin W
          BY <2>c, <3>1, <4>1
        <4>3. q = get_sqe(sq, op) /\ G = Gets(sq, op) /\ D = Refused(sq, op, e.c)
          BY <2>1, <2>2, <2>a, <3>1, <4>1 DEF submit_read
        <4>4. /\ q \in Seq(Op) /\ Len(q) >= Len(sq) /\ Ring(q, flight, r, W \cup G)
              /\ \A d, b : Carries(q, flight, r, d, b) =>
                   Carries(sq, flight, r, d, b) \/ ({d} = Sub(op) /\ b = Payload(op))
              /\ q = sq => Len(sq) >= sq_entries
          BY <1>3, <1>5, <1>d, <4>2, <4>3, RingSubmit
        <4>5. D # {} => q = sq
          BY <4>3 DEF Refused
        <4>6. Carries(sq, flight, cq, e.c, << >>)
          BY <1>5, <1>6, <1>10, <3>1
        <4>7. \A d, b : Carries(q, flight, r, d, b) => Carries(sq, flight, cq, d, b)
          BY <1>5, <4>1, <4>4, <4>6
        <4>8. G = {{e.c}} \/ D = {e.c}
          BY <4>1, <4>3 DEF Gets, Refused
        <4>9. QED
          BY <3>1, <4>4, <4>5, <4>7, <4>8
      <3>2. CASE ~e.ok
        <4>1. q = sq /\ G = {} /\ D = {} /\ Len(sq) >= Len(sq)
          BY <1>7, <2>1, <2>2, <2>a, <3>2
        <4>2. W \cup G = W
          BY <4>1
        <4>3. QED
          BY <1>3, <1>5, <3>2, <4>1, <4>2
      <3>3. QED
        BY <3>1, <3>2
    <2>4. PICK op \in Op : op = AcceptOp /\ Sub(op) = {} /\ Payload(op) = << >>
      BY OpMade
    <2>5. Sub(op) \notin W \cup G
      BY <2>4, <2>c, <2>d
    <2>6. PICK p : p = get_sqe(q, op)
      OBVIOUS
    <2>e. PICK H : H = Gets(q, op)
      OBVIOUS
    <2>f. PICK V : V = W \cup G
      OBVIOUS
    <2>7. /\ p \in Seq(Op) /\ Len(p) >= Len(q) /\ Ring(p, flight, r, V \cup H)
          /\ \A d, b : Carries(p, flight, r, d, b) =>
               Carries(q, flight, r, d, b) \/ ({d} = Sub(op) /\ b = Payload(op))
          /\ p = q => Len(q) >= sq_entries
      BY <1>d, <2>3, <2>5, <2>6, <2>e, <2>f, RingSubmit
    <2>g. \/ H = {} /\ E = {Listener} /\ p = q
          \/ H = {{}} /\ E = {}
      BY <2>4, <2>6, <2>b, <2>e DEF Gets, Refused
    <2>h. D \cup E # {} => Cardinality(Accepted) >= sq_entries
      <3>1. {} \in Places(Accepted) /\ V \subseteq Places(Accepted) /\ {} \notin V
        BY <1>o, <2>4, <2>5, <2>c, <2>d, <2>f DEF Places
      <3>2. Len(q) <= Cardinality(Accepted)
        BY <2>3, <2>f, <3>1, AcceptedFinite, SqRoom
      <3>3. Len(q) \in Nat
        BY <2>3, LenProperties
      <3>4. D # {} \/ E # {} => Len(q) >= sq_entries
        BY <1>7, <1>d, <2>3, <2>7, <2>g, <3>3
      <3>5. QED
        BY <1>d, <3>2, <3>3, <3>4, AcceptedFinite
    <2>i. PICK X : X = D \cup E
      OBVIOUS
    <2>j. Drops' /\ Missing' = Missing \cup {Place(x) : x \in X}
      <3>1. X \subseteq Clients \cup {Listener} /\ \A d \in Clients : d \in X => conn[d] = "open"
        <4>1. Listener \notin Clients
          BY ClientsAssumption
        <4>2. QED
          BY <2>c, <2>d, <2>g, <2>i, <4>1
      <3>2. dropped' = dropped \cup X
        BY <1>10, <2>1, <2>a, <2>b, <2>i
      <3>3. X # {} => Cardinality(Accepted) >= sq_entries
        BY <2>h, <2>i
      <3>4. QED
        BY <1>10, <1>d, <3>1, <3>2, <3>3, DropsGrown
    <2>8. V \cup H = Owned'
      <3>1. Entitled' = Entitled
        BY <1>10 DEF Entitled
      <3>2. PICK M : M = {Place(x) : x \in X}
        OBVIOUS
      <3>3. /\ {} \in M <=> H = {}
            /\ e.ok => ({e.c} \in M <=> G = {})
            /\ \A m \in M : m = {} \/ (e.ok /\ m = {e.c})
        <4>1. Place(Listener) = {} /\ (e.ok => Place(e.c) = {e.c} /\ {e.c} # {})
          BY <2>c DEF Place
        <4>2. X = D \cup E /\ (D = {} \/ (e.ok /\ D = {e.c})) /\ (E = {} \/ E = {Listener})
          BY <2>d, <2>g, <2>i
        <4>3. /\ E = {Listener} <=> H = {}
              /\ e.ok => (D = {e.c} <=> G = {})
          <5>1. {} # {{}} /\ {Listener} # {}
            OBVIOUS
          <5>2. e.ok => (D = {e.c} <=> G = {})
            BY <2>3, <2>d
          <5>3. QED
            BY <2>g, <5>1, <5>2
        <4>4. QED
          BY <3>2, <4>1, <4>2, <4>3
      <3>4. Owned' = Owned \ M
        BY <2>j, <3>1, <3>2 DEF Owned
      <3>5. /\ W = Owned \ Subs(e) /\ {} \in Subs(e) /\ {} \in Owned
            /\ e.ok => Subs(e) = {{}, {e.c}} /\ {e.c} \in Owned
            /\ ~e.ok => Subs(e) = {{}}
        BY <1>4, <1>6, <1>10, <2>c
      <3>6. /\ H = {} \/ H = {{}}
            /\ e.ok => G = {} \/ G = {{e.c}}
            /\ ~e.ok => G = {}
        BY <2>3, <2>d, <2>g
      <3>7. CASE e.ok
        <4>1. PICK k : k = {e.c}
          OBVIOUS
        <4>2. PICK l : l = {}
          OBVIOUS
        <4>3. k # l /\ k \in Owned /\ l \in Owned /\ W = Owned \ {l, k}
          BY <3>5, <3>7, <4>1, <4>2
        <4>4. /\ l \in M <=> H = {}
              /\ k \in M <=> G = {}
              /\ \A m \in M : m = l \/ m = k
          BY <3>3, <3>7, <4>1, <4>2
        <4>5. (H = {} \/ H = {l}) /\ (G = {} \/ G = {k})
          BY <3>6, <3>7, <4>1, <4>2
        <4>6. \A x : x \in V \cup H <=> x \in Owned \ M
          BY <2>f, <4>3, <4>4, <4>5
        <4>7. QED
          BY <3>4, <4>6
      <3>8. CASE ~e.ok
        BY <2>f, <3>3, <3>4, <3>5, <3>6, <3>8
      <3>9. QED
        BY <3>7, <3>8
    <2>9. sq' = p /\ pending_sqes' = pending_sqes + Len(sq') - Len(sq)
      BY <1>10, <2>1, <2>4, <2>6 DEF Submitted, submit_accept
    <2>10. \A d, b : Carries(p, flight, r, d, b) => Carries(sq, flight, cq, d, b)
      BY <2>3, <2>4, <2>7
    <2>11. Ring(p, flight, r, Owned')
      BY <2>7, <2>8
    <2>12. Len(p) >= Len(sq)
      <3>1. Len(q) \in Nat /\ Len(p) \in Nat
        BY <2>3, <2>7, LenProperties
      <3>2. QED
        BY <1>7, <2>3, <2>7, <3>1
    <2>13. QED
      BY <1>2, <1>10, <2>7, <2>9, <2>10, <2>11, <2>12, <2>j, AfterCompletion DEF SockTypes
  <1>11. ASSUME e.op.type = "read", e.ok, Submitted(submit_write(sq, e.op.c, e.bytes)), UNCHANGED conn,
                dropped' = dropped \cup Refused(sq, WriteOp(e.op.c, e.bytes), e.op.c)
         PROVE  SockTypes' /\ EchoFaithful' /\ RingInv' /\ IoFits'
    <2>1. PICK op \in Op : op = WriteOp(e.op.c, e.bytes) /\ Sub(op) = {e.op.c} /\ Payload(op) = e.bytes
      BY <1>6, <1>11, OpMade
    <2>2. Submitted(get_sqe(sq, op)) /\ dropped' = dropped \cup Refused(sq, op, e.op.c)
      BY <1>11, <2>1 DEF submit_write
    <2>3. QED
      BY <1>6, <1>8, <1>11, <2>1, <2>2
  <1>12. ASSUME e.op.type = "write", e.ok, Submitted(submit_read(sq, e.op.c)), UNCHANGED conn,
                dropped' = dropped \cup Refused(sq, ReadOp(e.op.c), e.op.c)
         PROVE  SockTypes' /\ EchoFaithful' /\ RingInv' /\ IoFits'
    <2>1. PICK op \in Op : op = ReadOp(e.op.c) /\ Sub(op) = {e.op.c} /\ Payload(op) = << >>
      BY <1>6, <1>12, OpMade
    <2>2. Submitted(get_sqe(sq, op)) /\ dropped' = dropped \cup Refused(sq, op, e.op.c)
      BY <1>12, <2>1 DEF submit_read
    <2>3. QED
      BY <1>6, <1>8, <1>12, <2>1, <2>2
  <1>13. CASE e.op.type # "accept" /\ ~e.ok /\ CloseFd(e.op.c) /\ Submitted(sq) /\ UNCHANGED dropped
    BY <1>6, <1>9, <1>13
  <1>14. QED
    BY <1>1, <1>10, <1>11, <1>12, <1>13 DEF handle_completion

-----------------------------------------------------------------------------
(* The kernel completes op with e; X is the connection it opens, if any. *)
LEMMA AfterKernel ==
  ASSUME SockTypes, RingInv, NEW op \in Op, NEW e \in Cqe, Completed(op, e),
         NEW X, Subs(e) = {Sub(op)} \cup X, \A s \in X : s \notin Owned, Owned' = Owned \cup X,
         Drops'
  PROVE  /\ RingInv'
         /\ \A c, b : Carries(sq', flight', cq', c, b) =>
              \/ {c} \in Subs(e) /\ b = Result(e)
              \/ {c} \notin Subs(e) /\ Carries(sq, flight, cq, c, b)
         /\ {Sub(op)} \subseteq Owned
  <1>1. UNCHANGED peer /\ UNCHANGED sent /\ UNCHANGED got /\ UNCHANGED sq /\ UNCHANGED pending_sqes
        /\ UNCHANGED io /\ op \in flight
    BY DEF Completed
  <1>2. cq \in Seq(Cqe) /\ Ring(sq, flight, cq, Owned)
    BY DEF RingInv
  <1>3. PICK a : a = Append(cq, e)
    OBVIOUS
  <1>4. PICK F : F = flight \ {op}
    OBVIOUS
  <1>5. /\ a \in Seq(Cqe) /\ Len(a) = Len(cq) + 1 /\ Ring(sq, F, a, Owned \cup X)
        /\ \A c, b : Carries(sq, F, a, c, b) =>
             \/ {c} \in Subs(e) /\ b = Result(e)
             \/ {c} \notin Subs(e) /\ Carries(sq, flight, cq, c, b)
    <2>1. /\ Append(cq, e) \in Seq(Cqe) /\ Len(Append(cq, e)) = Len(cq) + 1
          /\ Ring(sq, flight \ {op}, Append(cq, e), Owned \cup X)
          /\ \A c, b : Carries(sq, flight \ {op}, Append(cq, e), c, b) =>
               \/ {c} \in Subs(e) /\ b = Result(e)
               \/ {c} \notin Subs(e) /\ Carries(sq, flight, cq, c, b)
      BY <1>1, <1>2, RingComplete
    <2>2. QED
      BY <1>3, <1>4, <2>1, Zenon
  <1>6. cq' = a /\ flight' = F
    BY <1>3, <1>4 DEF Completed
  <1>7. io'.pc = "drain" => io'.left \in 1 .. Len(cq')
    <2>1. Len(cq) \in Nat
      BY <1>2, LenProperties
    <2>2. \A i \in 1 .. Len(cq) : i \in 1 .. Len(cq) + 1
      BY <2>1
    <2>3. QED
      BY <1>1, <1>5, <1>6, <2>2 DEF RingInv
  <1>8. flight' \subseteq Op
    BY <1>4, <1>6 DEF RingInv
  <1>9. RingInv'
    BY <1>1, <1>5, <1>6, <1>7, <1>8 DEF RingInv
  <1>10. Sub(op) \in Owned
    BY <1>1, <1>2 DEF Ring, KernelSubs
  <1>11. QED
    BY <1>1, <1>5, <1>6, <1>9, <1>10

(* The kernel accepts a connection, or fails to. *)
LEMMA AcceptsStep ==
  ASSUME SockTypes, EchoFaithful, RingInv, IoFits, NEW c \in Clients, Accepts(c)
  PROVE  SockTypes' /\ EchoFaithful' /\ RingInv' /\ IoFits'
  <1>1. UNCHANGED taken /\ UNCHANGED echoed /\ UNCHANGED short /\ UNCHANGED peer
        /\ UNCHANGED sent /\ UNCHANGED got /\ conn[c] = "queued"
        /\ UNCHANGED dropped /\ UNCHANGED sq_entries /\ Drops
    BY DEF Accepts, Completed, RingInv
  <1>2. EchoFaithful'
    BY <1>1, FaithKept
  <1>3. PICK op \in Op : op = AcceptOp /\ Sub(op) = {} /\ op.type = "accept"
    BY OpMade
  <1>4. CASE /\ conn' = [conn EXCEPT ![c] = "open"]
             /\ Completed(AcceptOp, [op |-> AcceptOp, ok |-> TRUE, c |-> c])
    <2>1. PICK e : e = [op |-> AcceptOp, ok |-> TRUE, c |-> c]
      OBVIOUS
    <2>2. e \in Cqe /\ e.op.type = "accept" /\ e.ok /\ e.c = c
      BY <1>3, <2>1 DEF Cqe
    <2>3. Subs(e) = {{}, {c}} /\ Result(e) = << >>
      BY <2>2, CqeShape
    <2>4. Owned' = Owned \cup {{c}} /\ {c} \notin Owned /\ Drops'
      BY <1>1, <1>4, OwnedOpened
    <2>5. PICK X : X = {{c}}
      OBVIOUS
    <2>6. Subs(e) = {Sub(op)} \cup X /\ (\A s \in X : s \notin Owned) /\ Owned' = Owned \cup X
      BY <1>3, <2>3, <2>4, <2>5
    <2>7. Completed(op, e)
      BY <1>3, <1>4, <2>1
    <2>8. /\ RingInv'
          /\ \A d, b : Carries(sq', flight', cq', d, b) =>
               \/ {d} \in Subs(e) /\ b = Result(e)
               \/ {d} \notin Subs(e) /\ Carries(sq, flight, cq, d, b)
      BY <2>2, <2>4, <2>6, <2>7, AfterKernel
    <2>9. Fits(<< >>, taken[c], echoed[c], Live(c))
      BY <1>1 DEF IoFits
    <2>10. SockTypes' /\ \A d \in Clients : conn'[d] \in {"new", "queued"} => conn[d] \in {"new", "queued"}
      BY <1>1, <1>4 DEF SockTypes
    <2>11. \A d \in Clients : \A b : Carries(sq', flight', cq', d, b) =>
             Carries(sq, flight, cq, d, b) \/ Fits(b, taken[d], echoed[d], Live(d))
      BY <2>3, <2>8, <2>9
    <2>12. IoFits'
      BY <1>1, <2>10, <2>11, IoFitsKept DEF Live
    <2>13. QED
      BY <1>2, <2>8, <2>10, <2>12
  <1>5. CASE UNCHANGED conn /\ Completed(AcceptOp, [op |-> AcceptOp, ok |-> FALSE])
    <2>1. PICK e : e = [op |-> AcceptOp, ok |-> FALSE]
      OBVIOUS
    <2>2. e \in Cqe /\ e.op.type = "accept" /\ ~e.ok
      BY <1>3, <2>1 DEF Cqe
    <2>3. Subs(e) = {{}}
      BY <2>2, CqeShape
    <2>4. Owned' = Owned /\ Drops'
      BY <1>1, <1>5, OwnedSame
    <2>5. PICK X : X = {}
      OBVIOUS
    <2>6. Subs(e) = {Sub(op)} \cup X /\ (\A s \in X : s \notin Owned) /\ Owned' = Owned \cup X
      BY <1>3, <2>3, <2>4, <2>5
    <2>7. Completed(op, e)
      BY <1>3, <1>5, <2>1
    <2>8. /\ RingInv'
          /\ \A d, b : Carries(sq', flight', cq', d, b) =>
               \/ {d} \in Subs(e) /\ b = Result(e)
               \/ {d} \notin Subs(e) /\ Carries(sq, flight, cq, d, b)
      BY <2>2, <2>4, <2>6, <2>7, AfterKernel
    <2>9. \A d \in Clients : \A b : Carries(sq', flight', cq', d, b) => Carries(sq, flight, cq, d, b)
      BY <2>3, <2>8
    <2>10. SockTypes'
      BY <1>1, <1>5 DEF SockTypes
    <2>11. IoFits'
      BY <1>1, <1>5, <2>9, IoFitsKept DEF Live
    <2>12. QED
      BY <1>2, <2>8, <2>10, <2>11
  <1>6. QED
    BY <1>4, <1>5 DEF Accepts

(* A read or a write of c completes with e, for which c is found fitting afterwards. *)
LEMMA AfterTransfer ==
  ASSUME SockTypes, EchoFaithful, RingInv, IoFits, NEW c \in Clients, NEW op \in Op, Sub(op) = {c},
         NEW e \in Cqe, Subs(e) = {{c}}, Completed(op, e), UNCHANGED conn,
         \A d \in Clients : d # c => UNCHANGED <<taken[d], echoed[d]>> /\ (Live(d)' => Live(d))
                                     /\ (d \in short' <=> d \in short),
         taken' \in [Clients -> Nat], echoed' \in [Clients -> Seq(Nat)], taken'[c] <= sent[c],
         Good(echoed'[c], taken'[c], c \notin short'),
         Fits(Result(e), taken'[c], echoed'[c], Live(c)')
  PROVE  SockTypes' /\ EchoFaithful' /\ RingInv' /\ IoFits'
  <1>1. Owned' = Owned /\ Drops'
    BY OwnedSame DEF Completed, RingInv
  <1>2. PICK X : X = {}
    OBVIOUS
  <1>3. Subs(e) = {Sub(op)} \cup X /\ (\A s \in X : s \notin Owned) /\ Owned' = Owned \cup X
    BY <1>1, <1>2
  <1>4. /\ RingInv' /\ {Sub(op)} \subseteq Owned
        /\ \A d, b : Carries(sq', flight', cq', d, b) =>
             \/ {d} \in Subs(e) /\ b = Result(e)
             \/ {d} \notin Subs(e) /\ Carries(sq, flight, cq, d, b)
    BY <1>1, <1>3, AfterKernel
  <1>5. conn[c] = "open"
    BY <1>4, PlaceOf
  <1>6. UNCHANGED peer /\ UNCHANGED sent /\ UNCHANGED got
    BY DEF Completed
  <1>7. SockTypes'
    <2>1. \A d \in Clients : taken'[d] <= sent'[d]
      BY <1>6 DEF SockTypes
    <2>2. QED
      BY <1>6, <2>1 DEF SockTypes
  <1>8. EchoFaithful'
    <2>1. \A d \in Clients : Good(echoed[d], taken[d], d \notin short)
      BY Faithfully
    <2>2. \A d \in Clients : Good(echoed'[d], taken'[d], d \notin short')
      <3>1. ASSUME NEW d \in Clients, d # c
            PROVE  Good(echoed'[d], taken'[d], d \notin short')
        <4>1. echoed'[d] = echoed[d] /\ taken'[d] = taken[d] /\ (d \notin short' => d \notin short)
          BY <3>1
        <4>2. Good(echoed[d], taken[d], d \notin short)
          BY <2>1
        <4>3. QED
          BY <4>1, <4>2 DEF Good
      <3>2. QED
        BY <3>1
    <2>3. QED
      BY <2>2 DEF EchoFaithful, Good
  <1>9. IoFits'
    <2>1. ASSUME NEW d \in Clients, d # c
          PROVE  /\ \A b : Carries(sq', flight', cq', d, b) => Fits(b, taken'[d], echoed'[d], Live(d)')
                 /\ conn'[d] \in {"new", "queued"} => Fits(<< >>, taken'[d], echoed'[d], Live(d)')
      <3>1. {d} # {c}
        BY <2>1
      <3>2. echoed'[d] = echoed[d] /\ taken'[d] = taken[d] /\ (Live(d)' => Live(d))
        BY <2>1
      <3>3. \A b : Fits(b, taken[d], echoed[d], Live(d)) => Fits(b, taken'[d], echoed'[d], Live(d)')
        BY <3>2 DEF Fits
      <3>4. QED
        BY <1>4, <3>1, <3>3 DEF IoFits
    <2>2. /\ \A b : Carries(sq', flight', cq', c, b) => Fits(b, taken'[c], echoed'[c], Live(c)')
          /\ conn'[c] \in {"new", "queued"} => Fits(<< >>, taken'[c], echoed'[c], Live(c)')
      BY <1>4, <1>5
    <2>3. \A d \in Clients :
            /\ \A b : Carries(sq', flight', cq', d, b) => Fits(b, taken'[d], echoed'[d], Live(d)')
            /\ conn'[d] \in {"new", "queued"} => Fits(<< >>, taken'[d], echoed'[d], Live(d)')
      BY <2>1, <2>2
    <2>4. QED
      BY <2>3 DEF IoFits
  <1>10. QED
    BY <1>4, <1>7, <1>8, <1>9

(* The kernel reads from a connection. *)
LEMMA ReadsStep ==
  ASSUME SockTypes, EchoFaithful, RingInv, IoFits, NEW c \in Clients, Reads(c)
  PROVE  SockTypes' /\ EchoFaithful' /\ RingInv' /\ IoFits'
  <1>1. PICK n : n = IF peer[c] = "reset" THEN 0 ELSE AtMost(Unread(c), BufferSize)
    OBVIOUS
  <1>2. /\ Completed(ReadOp(c), [op |-> ReadOp(c), ok |-> n > 0, bytes |-> Bytes(c, n)])
        /\ taken' = [taken EXCEPT ![c] = @ + n]
        /\ UNCHANGED conn /\ UNCHANGED echoed /\ UNCHANGED short
    BY <1>1 DEF Reads, Taken
  <1>3. PICK t \in Nat : t = taken[c]
    BY DEF SockTypes
  <1>4. n \in Nat /\ t + n <= sent[c] /\ t + n \in Nat /\ t <= t + n
    <2>1. sent[c] \in Nat /\ t <= sent[c] /\ BufferSize \in Nat /\ Unread(c) = sent[c] - t
      BY <1>3, SocketAssumption DEF SockTypes, Unread
    <2>2. n \in Nat /\ n <= sent[c] - t
      BY <1>1, <2>1 DEF AtMost
    <2>3. QED
      BY <2>1, <2>2
  <1>5. PICK b : b = [i \in 1 .. n |-> t + i]
    OBVIOUS
  <1>6. PICK op \in Op : /\ op = ReadOp(c) /\ Sub(op) = {c} /\ Payload(op) = << >> /\ op \in ReadOps
                         /\ op.type = "read"
    BY OpMade DEF ReadOp, ReadOps
  <1>7. PICK e : e = [op |-> op, ok |-> n > 0, bytes |-> b]
    OBVIOUS
  <1>8. Completed(op, e)
    BY <1>2, <1>3, <1>5, <1>6, <1>7 DEF Bytes
  <1>9. Fits(<< >>, t, echoed[c], Live(c))
    <2>1. Carries(sq, flight, cq, c, << >>)
      BY <1>6, <1>8 DEF Carries, Completed
    <2>2. QED
      BY <1>3, <2>1 DEF IoFits
  <1>10. echoed[c] \in Seq(Nat) /\ echoed'[c] = echoed[c] /\ taken'[c] = t + n
    BY <1>2, <1>3 DEF SockTypes
  <1>11. b \in Seq(Nat) /\ Fits(b, t + n, echoed[c], Live(c))
    BY <1>4, <1>5, <1>9, <1>10, FitsTaken
  <1>12. e \in Cqe /\ e.op = op /\ e.ok = (n > 0) /\ e.bytes = b
    <2>1. (n > 0) \in BOOLEAN
      BY <1>4
    <2>2. QED
      BY <1>6, <1>7, <1>11, <2>1 DEF Cqe
  <1>13. Subs(e) = {{c}} /\ Result(e) = IF n > 0 THEN b ELSE << >>
    BY <1>6, <1>12 DEF Subs, Result
  <1>14. Live(c)' = Live(c) /\ \A d \in Clients : Live(d)' = Live(d)
    BY <1>2, <1>8 DEF Live, Completed
  <1>15. Fits(Result(e), t + n, echoed[c], Live(c))
    <2>1. CASE n > 0
      BY <1>11, <1>13, <2>1
    <2>2. CASE n = 0
      <3>1. t + n = t /\ ~(n > 0)
        BY <2>2
      <3>2. QED
        BY <1>9, <1>13, <3>1
    <2>3. QED
      BY <1>4, <2>1, <2>2
  <1>16. Fits(Result(e), taken'[c], echoed'[c], Live(c)')
    BY <1>10, <1>14, <1>15
  <1>17. Good(echoed'[c], taken'[c], c \notin short')
    <2>1. Good(echoed[c], t, c \notin short)
      BY <1>3, Faithfully
    <2>2. Good(echoed[c], t + n, c \notin short)
      BY <1>4, <2>1, GoodWeaker
    <2>3. QED
      BY <1>2, <1>10, <2>2
  <1>18. taken' \in [Clients -> Nat] /\ echoed' \in [Clients -> Seq(Nat)] /\ taken'[c] <= sent[c]
    BY <1>2, <1>3, <1>4, <1>10 DEF SockTypes
  <1>19. \A d \in Clients : d # c => UNCHANGED <<taken[d], echoed[d]>> /\ (Live(d)' => Live(d))
                                     /\ (d \in short' <=> d \in short)
    BY <1>2, <1>14 DEF SockTypes
  <1>20. QED
    BY <1>2, <1>6, <1>8, <1>12, <1>13, <1>16, <1>17, <1>18, <1>19, AfterTransfer

(* The kernel writes to a connection, perhaps less than it was asked to. *)
LEMMA WritesStep ==
  ASSUME SockTypes, EchoFaithful, RingInv, IoFits, NEW c \in Clients, Writes(c)
  PROVE  SockTypes' /\ EchoFaithful' /\ RingInv' /\ IoFits'
  <1>1. PICK op \in flight :
          LET n == AtMost(Len(op.bytes), Room(c)) IN
          /\ op.type = "write" /\ op.c = c
          /\ UNCHANGED <<conn, taken, faults>>
          /\ \/ /\ peer[c] = "reset"
                /\ Completed(op, [op |-> op, ok |-> FALSE])
                /\ UNCHANGED <<echoed, up, short>>
             \/ /\ peer[c] = "gone"
                /\ Completed(op, [op |-> op, ok |-> TRUE])
                /\ up' \in BOOLEAN
                /\ UNCHANGED <<echoed, short>>
             \/ /\ peer[c] \in {"up", "half"} /\ n > 0
                /\ Completed(op, [op |-> op, ok |-> TRUE])
                /\ Echo(c, SubSeq(op.bytes, 1, n))
                /\ short' = IF n < Len(op.bytes) THEN short \cup {c} ELSE short
                /\ UNCHANGED up
    BY DEF Writes
  <1>2. op \in Op /\ op \in WriteOps
    <2>1. op \in Op
      BY DEF RingInv
    <2>2. QED
      BY <1>1, <2>1 DEF Op, AcceptOp, ReadOps
  <1>3. PICK b \in Seq(Nat) : b = op.bytes
    BY <1>2 DEF WriteOps
  <1>4. Sub(op) = {c} /\ Payload(op) = b
    BY <1>1, <1>3 DEF Sub, Payload
  <1>5. PICK t \in Nat : t = taken[c]
    BY DEF SockTypes
  <1>6. PICK E \in Seq(Nat) : E = echoed[c]
    BY DEF SockTypes
  <1>7. Fits(b, t, E, Live(c))
    <2>1. Carries(sq, flight, cq, c, b)
      BY <1>1, <1>4 DEF Carries
    <2>2. QED
      BY <1>5, <1>6, <2>1 DEF IoFits
  <1>8. UNCHANGED conn /\ taken' = taken /\ taken'[c] = t /\ t <= sent[c]
    BY <1>1, <1>5 DEF SockTypes
  <1>9. \A ok \in BOOLEAN : LET e == [op |-> op, ok |-> ok] IN
          e \in Cqe /\ Subs(e) = {{c}} /\ Result(e) = << >>
    BY <1>1, <1>2, <1>4 DEF Cqe, Subs, Result
  <1>10. Good(E, t, c \notin short)
    BY <1>5, <1>6, Faithfully
  <1>11. ASSUME NEW ok \in BOOLEAN, Completed(op, [op |-> op, ok |-> ok]), UNCHANGED <<echoed, short>>,
                peer[c] \in {"reset", "gone"}
         PROVE  SockTypes' /\ EchoFaithful' /\ RingInv' /\ IoFits'
    <2>1. PICK e \in Cqe : e = [op |-> op, ok |-> ok] /\ Subs(e) = {{c}} /\ Result(e) = << >>
      BY <1>9
    <2>2. peer' = peer
      BY <1>11 DEF Completed
    <2>3. ~Live(c)' /\ \A d \in Clients : Live(d)' => Live(d)
      BY <1>11, <2>2 DEF Live
    <2>4. Fits(<< >>, t, E, FALSE)
      BY <1>7, FitsDropped
    <2>5. Fits(Result(e), taken'[c], echoed'[c], Live(c)')
      <3>1. Fits(<< >>, t, E, Live(c)')
        BY <2>3, <2>4, FitsWeaker
      <3>2. QED
        BY <1>6, <1>8, <1>11, <2>1, <3>1
    <2>6. Good(echoed'[c], taken'[c], c \notin short')
      BY <1>6, <1>8, <1>10, <1>11
    <2>7. \A d \in Clients : d # c => UNCHANGED <<taken[d], echoed[d]>> /\ (Live(d)' => Live(d))
                                     /\ (d \in short' <=> d \in short)
      BY <1>8, <1>11, <2>3
    <2>8. taken' \in [Clients -> Nat] /\ echoed' \in [Clients -> Seq(Nat)] /\ taken'[c] <= sent[c]
      BY <1>8, <1>11 DEF SockTypes
    <2>9. Completed(op, e)
      BY <1>11, <2>1
    <2>10. QED
      BY <1>2, <1>4, <1>8, <2>1, <2>5, <2>6, <2>7, <2>8, <2>9, AfterTransfer
  <1>12. ASSUME NEW n, n = AtMost(Len(b), Room(c)), n > 0, peer[c] \in {"up", "half"},
                Completed(op, [op |-> op, ok |-> TRUE]), Echo(c, SubSeq(b, 1, n)),
                short' = IF n < Len(b) THEN short \cup {c} ELSE short
         PROVE  SockTypes' /\ EchoFaithful' /\ RingInv' /\ IoFits'
    <2>1. PICK e \in Cqe : e = [op |-> op, ok |-> TRUE] /\ Subs(e) = {{c}} /\ Result(e) = << >>
      BY <1>9
    <2>2. peer' = peer
      BY <1>12 DEF Completed
    <2>3. n \in 1 .. Len(b)
      <3>1. PICK L \in Nat : L = Len(b)
        BY LenProperties
      <3>2. PICK R \in Int : R = Room(c)
        <4>1. SndBuf \in Nat /\ Len(E) \in Nat /\ got[c] \in Nat
          BY SocketAssumption, LenProperties DEF SockTypes
        <4>2. SndBuf - (Len(E) - got[c]) \in Int
          BY <4>1
        <4>3. QED
          BY <1>6, <4>2 DEF Room
      <3>3. QED
        BY <1>12, <3>1, <3>2 DEF AtMost
    <2>4. Live(c) <=> c \notin short
      BY <1>12 DEF Live
    <2>5. PICK G : G = E \o SubSeq(b, 1, n)
      OBVIOUS
    <2>6. PICK w : w = SubSeq(b, n + 1, Len(b))
      OBVIOUS
    <2>7. /\ G \in Seq(Nat) /\ Good(G, t, Live(c)) /\ w \in Seq(Nat) /\ Fits(w, t, G, Live(c))
          /\ n = Len(b) => w = << >>
      <3>1. PICK live : live = Live(c)
        OBVIOUS
      <3>2. Fits(b, t, E, live) /\ Good(E, t, live)
        BY <1>7, <1>10, <2>4, <3>1 DEF Good
      <3>3. /\ G \in Seq(Nat) /\ Good(G, t, live)
            /\ w \in Seq(Nat) /\ Fits(w, t, G, live)
            /\ n = Len(b) => w = << >>
        <4>1. /\ G \in Seq(Nat) /\ Good(G, t, live)
              /\ SubSeq(b, n + 1, Len(b)) \in Seq(Nat) /\ Fits(SubSeq(b, n + 1, Len(b)), t, G, live)
              /\ n = Len(b) => SubSeq(b, n + 1, Len(b)) = << >>
          <5>1. LET H == E \o SubSeq(b, 1, n)
                    v == SubSeq(b, n + 1, Len(b))
                IN  /\ H \in Seq(Nat) /\ Good(H, t, live)
                    /\ v \in Seq(Nat) /\ Fits(v, t, H, live)
                    /\ n = Len(b) => v = << >>
            BY <2>3, <3>2, FitsWritten
          <5>2. QED
            BY <2>5, <5>1, Zenon
        <4>2. QED
          BY <2>6, <4>1, Zenon
      <3>4. QED
        BY <3>1, <3>3
    <2>8. echoed' = [echoed EXCEPT ![c] = G] /\ echoed'[c] = G
      BY <1>6, <1>12, <2>5 DEF Echo, SockTypes
    <2>9. \A d \in Clients : d # c => UNCHANGED <<taken[d], echoed[d]>> /\ (Live(d)' => Live(d))
                                     /\ (d \in short' <=> d \in short)
      BY <1>8, <1>12, <2>2, <2>8 DEF Live, SockTypes
    <2>10. Fits(<< >>, t, G, Live(c)') /\ Good(G, t, c \notin short')
      <3>1. CASE n = Len(b)
        <4>1. short' = short
          BY <1>12, <2>3, <3>1
        <4>2. Live(c)' = Live(c)
          BY <2>2, <4>1 DEF Live
        <4>3. Fits(<< >>, t, G, Live(c))
          BY <2>7, <3>1
        <4>4. Good(G, t, c \notin short)
          BY <2>4, <2>7 DEF Good
        <4>5. QED
          BY <4>1, <4>2, <4>3, <4>4
      <3>2. CASE n < Len(b)
        <4>1. c \in short'
          BY <1>12, <3>2
        <4>2. ~Live(c)'
          BY <4>1 DEF Live
        <4>3. Fits(<< >>, t, G, FALSE)
          BY <2>7, FitsDropped
        <4>4. Fits(<< >>, t, G, Live(c)')
          BY <4>2, <4>3, FitsWeaker
        <4>5. Good(G, t, c \notin short')
          BY <2>7, <4>1 DEF Good
        <4>6. QED
          BY <4>4, <4>5
      <3>3. Len(b) \in Nat
        BY LenProperties
      <3>4. QED
        BY <2>3, <3>1, <3>2, <3>3
    <2>11. Fits(Result(e), taken'[c], echoed'[c], Live(c)') /\ Good(echoed'[c], taken'[c], c \notin short')
      BY <1>8, <2>1, <2>8, <2>10
    <2>12. taken' \in [Clients -> Nat] /\ echoed' \in [Clients -> Seq(Nat)] /\ taken'[c] <= sent[c]
      BY <1>8, <2>7, <2>8 DEF SockTypes
    <2>13. Completed(op, e)
      BY <1>12, <2>1
    <2>14. QED
      BY <1>2, <1>4, <1>8, <2>1, <2>9, <2>11, <2>12, <2>13, AfterTransfer
  <1>13. PICK n : n = AtMost(Len(b), Room(c))
    OBVIOUS
  <1>14. QED
    BY <1>1, <1>3, <1>11, <1>12, <1>13

(* A client of the reactor. *)
LEMMA IoClientStep ==
  ASSUME SockTypes, EchoFaithful, RingInv, IoFits, NEW c \in Clients, IoClient(c)
  PROVE  SockTypes' /\ EchoFaithful' /\ RingInv' /\ IoFits'
  <1>1. UNCHANGED sq /\ UNCHANGED pending_sqes /\ UNCHANGED flight /\ UNCHANGED cq /\ UNCHANGED io
        /\ UNCHANGED short /\ UNCHANGED dropped /\ UNCHANGED sq_entries
    BY DEF IoClient, ioVars
  <1>2. /\ SockTypes' /\ UNCHANGED <<taken, echoed>>
        /\ \A d \in Clients :
             /\ conn'[d] = "open" <=> conn[d] = "open"
             /\ conn[d] = "closed" => conn'[d] \in {"open", "closed"}
             /\ conn'[d] \in {"new", "queued"} => conn[d] \in {"new", "queued"}
             /\ peer'[d] \in {"up", "half"} => peer[d] \in {"up", "half"}
    BY ClientStep DEF IoClient
  <1>3. EchoFaithful'
    BY <1>1, <1>2, FaithKept
  <1>4. Owned' = Owned /\ Drops'
    BY <1>1, <1>2, OwnedSame DEF RingInv
  <1>5. RingInv'
    BY <1>1, <1>4 DEF RingInv
  <1>6. \A d \in Clients : Live(d)' => Live(d)
    BY <1>1, <1>2 DEF Live
  <1>7. IoFits'
    BY <1>1, <1>2, <1>6, IoFitsKept
  <1>8. QED
    BY <1>2, <1>3, <1>5, <1>7

(* stop() of the reactor, or nothing. *)
LEMMA IoStopStep ==
  ASSUME SockTypes, EchoFaithful, RingInv, IoFits,
         IoStop \/ UNCHANGED <<conn, peer, sent, taken, echoed, got, ioVars>>
  PROVE  SockTypes' /\ EchoFaithful' /\ RingInv' /\ IoFits'
  <1>1. UNCHANGED sq /\ UNCHANGED pending_sqes /\ UNCHANGED flight /\ UNCHANGED cq /\ UNCHANGED io
        /\ UNCHANGED short /\ UNCHANGED conn /\ UNCHANGED peer /\ UNCHANGED sent /\ UNCHANGED taken
        /\ UNCHANGED echoed /\ UNCHANGED got /\ UNCHANGED dropped /\ UNCHANGED sq_entries
    BY DEF IoStop, ioVars
  <1>a. EchoFaithful' /\ SockTypes'
    BY <1>1, FaithKept DEF SockTypes
  <1>2. EchoFaithful' /\ SockTypes' /\ Owned' = Owned /\ Drops'
    BY <1>1, <1>a, OwnedSame DEF RingInv
  <1>3. RingInv'
    BY <1>1, <1>2 DEF RingInv
  <1>4. IoFits'
    BY <1>1, IoFitsKept DEF Live
  <1>5. QED
    BY <1>2, <1>3, <1>4

-----------------------------------------------------------------------------
(* A step of the epoll server that neither reads nor writes. *)
LEMMA EpFitsKept ==
  ASSUME EpFits, EchoFaithful, UNCHANGED <<taken, echoed, short>>,
         \A c \in Clients : Live(c)' => Live(c), \A c \in Clients : Buffered(c)' = Buffered(c)
  PROVE  EchoFaithful' /\ EpFits'
  <1>1. EchoFaithful'
    BY FaithKept
  <1>2. ASSUME NEW c \in Clients
        PROVE  Fits(Buffered(c)', taken'[c], echoed'[c], Live(c)')
    <2>1. Fits(Buffered(c), taken[c], echoed[c], Live(c)')
      BY FitsWeaker DEF EpFits
    <2>2. QED
      BY <2>1
  <1>3. QED
    BY <1>1, <1>2 DEF EpFits

(* The server turns to its next event. *)
LEMMA NextEventTyped ==
  ASSUME EpTypes, ep' = NextEvent, ready' \subseteq Clients \cup {Listener}
  PROVE  EpTypes' /\ ep'.pc = "next"
  <1>1. << >> \in Seq(Nat)
    OBVIOUS
  <1>2. QED
    BY <1>1 DEF NextEvent, EpTypes

(* run(): epoll_wait. *)
LEMMA EpWaitStep ==
  ASSUME SockTypes, EchoFaithful, EpTypes, EpFits, EpWait, UNCHANGED short
  PROVE  SockTypes' /\ EchoFaithful' /\ EpTypes' /\ EpFits'
  <1>1. UNCHANGED conn /\ UNCHANGED peer /\ UNCHANGED sent /\ UNCHANGED taken /\ UNCHANGED echoed
        /\ UNCHANGED got /\ ready' = {}
    BY DEF EpWait, sockVars
  <1>2. PICK events : /\ events = {f \in ready : IF f = Listener THEN Pending # {} ELSE Readable(f)}
                      /\ ep' = [ep EXCEPT !.pc = "next",
                           !.batch = {[fd |-> f, hup |-> f # Listener /\ peer[f] # "up"] : f \in events}]
    BY DEF EpWait
  <1>3. PICK B : B = {[fd |-> f, hup |-> f # Listener /\ peer[f] # "up"] : f \in events}
    OBVIOUS
  <1>4. \A e \in B : e \in [fd : Clients \cup {Listener}, hup : BOOLEAN] /\ (e.hup => e.fd \in Clients)
    <2>1. \A f \in events : f \in Clients \cup {Listener}
      BY <1>2 DEF EpTypes
    <2>2. ASSUME NEW e \in B
          PROVE  e \in [fd : Clients \cup {Listener}, hup : BOOLEAN] /\ (e.hup => e.fd \in Clients)
      <3>1. PICK f \in events : e = [fd |-> f, hup |-> f # Listener /\ peer[f] # "up"]
        BY <1>3
      <3>2. PICK h \in BOOLEAN : h = (f # Listener /\ peer[f] # "up")
        OBVIOUS
      <3>3. e = [fd |-> f, hup |-> h]
        BY <3>1, <3>2
      <3>4. h => f \in Clients
        BY <2>1, <3>2
      <3>5. QED
        BY <2>1, <3>3, <3>4
    <2>3. QED
      BY <2>2
  <1>5. ep' = [ep EXCEPT !.pc = "next", !.batch = B]
    BY <1>2, <1>3
  <1>6. EpTypes' /\ ep'.pc = "next" /\ ep.pc = "wait"
    BY <1>1, <1>4, <1>5 DEF EpTypes, EpWait
  <1>7. SockTypes'
    BY <1>1 DEF SockTypes
  <1>8. \A c \in Clients : Buffered(c)' = Buffered(c)
    BY <1>6 DEF Buffered
  <1>9. QED
    BY <1>1, <1>6, <1>7, <1>8, EpFitsKept DEF Live

(* run(): the next event of the batch. *)
LEMMA EpDispatchStep ==
  ASSUME SockTypes, EchoFaithful, EpTypes, EpFits, EpDispatch, UNCHANGED short
  PROVE  SockTypes' /\ EchoFaithful' /\ EpTypes' /\ EpFits'
  <1>1. UNCHANGED peer /\ UNCHANGED sent /\ UNCHANGED taken /\ UNCHANGED echoed
        /\ UNCHANGED got /\ ep.pc = "next"
    BY DEF EpDispatch
  <1>2. /\ conn' \in [Clients -> {"new", "queued", "open", "closed"}] /\ EpTypes'
        /\ ep'.pc \in {"wait", "next", "accept", "read"}
    <2>1. CASE ep.batch = {}
      BY <1>1, <2>1 DEF EpDispatch, EpTypes, SockTypes
    <2>2. CASE ep.batch # {}
      <3>1. PICK e \in ep.batch :
              IF e.hup
              THEN /\ CloseFd(e.fd)
                   /\ ep' = [ep EXCEPT !.batch = ep.batch \ {e}]
                   /\ ready' = ready \ {e.fd}
              ELSE /\ ep' = [ep EXCEPT !.batch = ep.batch \ {e}, !.fd = e.fd,
                                       !.pc = IF e.fd = Listener THEN "accept" ELSE "read"]
                   /\ UNCHANGED <<ready, conn>>
        BY <2>2 DEF EpDispatch
      <3>2. e.fd \in Clients \cup {Listener} /\ (e.hup => e.fd \in Clients)
        BY DEF EpTypes
      <3>3. PICK B : B = ep.batch \ {e}
        OBVIOUS
      <3>4. B \subseteq ep.batch /\ B \in SUBSET [fd : Clients \cup {Listener}, hup : BOOLEAN]
            /\ \A f \in B : f.hup => f.fd \in Clients
        BY <3>3 DEF EpTypes
      <3>5. CASE e.hup
        <4>1. /\ conn' = [conn EXCEPT ![e.fd] = "closed"]
              /\ ep' = [ep EXCEPT !.batch = B] /\ ready' = ready \ {e.fd}
          BY <3>1, <3>3, <3>5 DEF CloseFd
        <4>2. conn' \in [Clients -> {"new", "queued", "open", "closed"}]
          BY <4>1 DEF SockTypes
        <4>3. EpTypes' /\ ep'.pc = "next"
          BY <1>1, <3>4, <4>1 DEF EpTypes
        <4>4. QED
          BY <4>2, <4>3
      <3>6. CASE ~e.hup
        <4>1. PICK at : at = IF e.fd = Listener THEN "accept" ELSE "read"
          OBVIOUS
        <4>2. ep' = [ep EXCEPT !.batch = B, !.fd = e.fd, !.pc = at] /\ ready' = ready /\ conn' = conn
          BY <3>1, <3>3, <3>6, <4>1
        <4>3. at \in {"accept", "read"} /\ (at = "read" => e.fd \in Clients)
          BY <3>2, <4>1
        <4>4. EpTypes' /\ ep'.pc = at
          BY <3>2, <3>4, <4>2, <4>3 DEF EpTypes
        <4>5. QED
          BY <4>2, <4>3, <4>4 DEF SockTypes
      <3>7. QED
        BY <3>5, <3>6
    <2>3. QED
      BY <2>1, <2>2
  <1>3. SockTypes'
    BY <1>1, <1>2 DEF SockTypes
  <1>4. \A c \in Clients : Buffered(c)' = Buffered(c)
    BY <1>1, <1>2 DEF Buffered
  <1>5. QED
    BY <1>1, <1>2, <1>3, <1>4, EpFitsKept DEF Live

(* handle_accept(). *)
LEMMA AcceptStep ==
  ASSUME SockTypes, EchoFaithful, EpTypes, EpFits, handle_accept, UNCHANGED short
  PROVE  SockTypes' /\ EchoFaithful' /\ EpTypes' /\ EpFits'
  <1>1. UNCHANGED peer /\ UNCHANGED sent /\ UNCHANGED taken /\ UNCHANGED echoed
        /\ UNCHANGED got /\ ep.pc = "accept"
    BY DEF handle_accept
  <1>2. /\ conn' \in [Clients -> {"new", "queued", "open", "closed"}]
        /\ ready' \subseteq Clients \cup {Listener} /\ (ep' = NextEvent \/ ep' = ep)
    <2>1. Pending \subseteq Clients
      BY DEF Pending
    <2>2. ready \subseteq Clients \cup {Listener} /\ conn \in [Clients -> {"new", "queued", "open", "closed"}]
      BY DEF EpTypes, SockTypes
    <2>3. \/ conn' = conn
          \/ \E c \in Clients : conn' = [conn EXCEPT ![c] = "open"] \/ conn' = [conn EXCEPT ![c] = "closed"]
      BY <2>1 DEF handle_accept, CloseFd
    <2>4. ready' = ready \/ \E c \in Clients : ready' = ready \cup {c}
      BY <2>1 DEF handle_accept
    <2>5. ep' = NextEvent \/ ep' = ep
      BY DEF handle_accept
    <2>6. ready' \subseteq Clients \cup {Listener}
      BY <2>2, <2>4
    <2>7. conn' \in [Clients -> {"new", "queued", "open", "closed"}]
      BY <2>2, <2>3
    <2>8. QED
      BY <2>5, <2>6, <2>7
  <1>3. EpTypes' /\ ep'.pc \in {"next", "accept"}
    <2>1. CASE ep' = NextEvent
      BY <1>2, <2>1, NextEventTyped
    <2>2. CASE ep' = ep
      BY <1>1, <1>2, <2>2 DEF EpTypes
    <2>3. QED
      BY <1>2, <2>1, <2>2
  <1>4. SockTypes'
    BY <1>1, <1>2 DEF SockTypes
  <1>5. \A c \in Clients : Buffered(c)' = Buffered(c)
    BY <1>1, <1>3 DEF Buffered
  <1>6. QED
    BY <1>1, <1>3, <1>4, <1>5, EpFitsKept DEF Live

(* A client of the epoll server. *)
LEMMA EpClientStep ==
  ASSUME SockTypes, EchoFaithful, EpTypes, EpFits, UNCHANGED short, NEW c \in Clients, EpClient(c)
  PROVE  SockTypes' /\ EchoFaithful' /\ EpTypes' /\ EpFits'
  <1>1. ep' = ep /\ ready' \subseteq Clients \cup {Listener}
    BY DEF EpClient, Arrived, EpTypes, epVars
  <1>2. /\ SockTypes' /\ UNCHANGED <<taken, echoed>>
        /\ \A d \in Clients : peer'[d] \in {"up", "half"} => peer[d] \in {"up", "half"}
    BY ClientStep DEF EpClient
  <1>3. EpTypes' /\ \A d \in Clients : Buffered(d)' = Buffered(d)
    BY <1>1 DEF EpTypes, Buffered
  <1>4. \A d \in Clients : Live(d)' => Live(d)
    BY <1>2 DEF Live
  <1>5. QED
    BY <1>2, <1>3, <1>4, EpFitsKept

(* stop() of the epoll server, or nothing. *)
LEMMA EpStopStep ==
  ASSUME SockTypes, EchoFaithful, EpTypes, EpFits, UNCHANGED short,
         EpStop \/ UNCHANGED <<conn, peer, sent, taken, echoed, got, epVars>>
  PROVE  SockTypes' /\ EchoFaithful' /\ EpTypes' /\ EpFits'
  <1>1. UNCHANGED ep /\ UNCHANGED ready /\ UNCHANGED conn /\ UNCHANGED peer /\ UNCHANGED sent
        /\ UNCHANGED taken /\ UNCHANGED echoed /\ UNCHANGED got
    BY DEF EpStop, epVars
  <1>2. SockTypes' /\ EpTypes' /\ \A d \in Clients : Buffered(d)' = Buffered(d)
    BY <1>1 DEF EpTypes, Buffered, SockTypes
  <1>3. QED
    BY <1>1, <1>2, EpFitsKept DEF Live

(* A read or a write of the epoll server that leaves c fitting. *)
LEMMA AfterSystemCall ==
  ASSUME SockTypes, EchoFaithful, EpFits, NEW c \in Clients, UNCHANGED <<peer, sent, got, short>>,
         conn' \in [Clients -> {"new", "queued", "open", "closed"}],
         taken' \in [Clients -> Nat], echoed' \in [Clients -> Seq(Nat)], taken'[c] <= sent[c],
         \A d \in Clients : d # c => UNCHANGED <<taken[d], echoed[d]>> /\ Buffered(d)' = Buffered(d),
         Good(echoed'[c], taken'[c], c \notin short),
         Fits(Buffered(c)', taken'[c], echoed'[c], Live(c))
  PROVE  SockTypes' /\ EchoFaithful' /\ EpFits'
  <1>1. SockTypes'
    <2>1. \A d \in Clients : taken'[d] <= sent'[d]
      BY DEF SockTypes
    <2>2. QED
      BY <2>1 DEF SockTypes
  <1>2. EchoFaithful'
    <2>1. \A d \in Clients : Good(echoed[d], taken[d], d \notin short)
      BY Faithfully
    <2>2. \A d \in Clients : d # c => echoed'[d] = echoed[d] /\ taken'[d] = taken[d]
      OBVIOUS
    <2>3. \A d \in Clients : Good(echoed'[d], taken'[d], d \notin short')
      BY <2>1, <2>2
    <2>4. QED
      BY <2>3 DEF EchoFaithful, Good
  <1>3. EpFits'
    <2>1. \A d \in Clients : Live(d)' = Live(d)
      BY DEF Live
    <2>2. \A d \in Clients : d # c => echoed'[d] = echoed[d] /\ taken'[d] = taken[d] /\ Buffered(d)' = Buffered(d)
      OBVIOUS
    <2>3. \A d \in Clients : Fits(Buffered(d)', taken'[d], echoed'[d], Live(d)')
      BY <2>1, <2>2 DEF EpFits
    <2>4. QED
      BY <2>3 DEF EpFits
  <1>4. QED
    BY <1>1, <1>2, <1>3

(* handle_read(): a read. *)
LEMMA EpReadStep ==
  ASSUME SockTypes, EchoFaithful, EpTypes, EpFits, EpRead, UNCHANGED short
  PROVE  SockTypes' /\ EchoFaithful' /\ EpTypes' /\ EpFits'
  <1>1. PICK c \in Clients : c = ep.fd
    BY DEF EpRead, EpTypes
  <1>2. PICK n : n = AtMost(Unread(c), BufferSize)
    OBVIOUS
  <1>3. UNCHANGED peer /\ UNCHANGED sent /\ UNCHANGED echoed /\ UNCHANGED got /\ ep.pc = "read"
    BY DEF EpRead
  <1>4. CASE /\ n > 0 /\ taken' = [taken EXCEPT ![c] = @ + n]
             /\ ep' = [ep EXCEPT !.pc = "write", !.buf = Bytes(c, n)]
             /\ UNCHANGED <<ready, conn>>
    <2>1. PICK t \in Nat : t = taken[c]
      BY DEF SockTypes
    <2>2. n \in Nat /\ t + n <= sent[c] /\ t + n \in Nat /\ t <= t + n
      <3>1. sent[c] \in Nat /\ t <= sent[c] /\ BufferSize \in Nat /\ Unread(c) = sent[c] - t
        BY <2>1, SocketAssumption DEF SockTypes, Unread
      <3>2. n \in Nat /\ n <= sent[c] - t
        BY <1>2, <3>1 DEF AtMost
      <3>3. QED
        BY <3>1, <3>2
    <2>3. PICK b : b = [i \in 1 .. n |-> t + i]
      OBVIOUS
    <2>4. echoed[c] \in Seq(Nat) /\ echoed'[c] = echoed[c] /\ taken'[c] = t + n
      BY <1>3, <1>4, <2>1 DEF SockTypes
    <2>5. Fits(<< >>, t, echoed[c], Live(c))
      <3>1. Buffered(c) = << >>
        BY <1>3 DEF Buffered
      <3>2. QED
        BY <2>1, <3>1 DEF EpFits
    <2>6. b \in Seq(Nat) /\ Fits(b, t + n, echoed[c], Live(c))
      BY <2>2, <2>3, <2>4, <2>5, FitsTaken
    <2>7. ep' = [ep EXCEPT !.pc = "write", !.buf = b]
      BY <1>4, <2>1, <2>3 DEF Bytes
    <2>8. EpTypes' /\ ep'.pc = "write" /\ ep'.fd = c /\ ep'.buf = b
      BY <1>1, <1>4, <2>6, <2>7 DEF EpTypes
    <2>9. Buffered(c)' = b /\ \A d \in Clients : d # c => Buffered(d)' = Buffered(d)
      BY <1>3, <2>8 DEF Buffered
    <2>10. Good(echoed'[c], taken'[c], c \notin short)
      <3>1. Good(echoed[c], t, c \notin short)
        BY <2>1, Faithfully
      <3>2. Good(echoed[c], t + n, c \notin short)
        BY <2>2, <3>1, GoodWeaker
      <3>3. QED
        BY <2>4, <3>2
    <2>11. taken' \in [Clients -> Nat] /\ echoed' \in [Clients -> Seq(Nat)] /\ taken'[c] <= sent[c]
           /\ conn' \in [Clients -> {"new", "queued", "open", "closed"}]
      BY <1>3, <1>4, <2>1, <2>2, <2>4 DEF SockTypes
    <2>12. Fits(Buffered(c)', taken'[c], echoed'[c], Live(c))
      BY <2>4, <2>6, <2>9
    <2>13. \A d \in Clients : d # c => UNCHANGED <<taken[d], echoed[d]>> /\ Buffered(d)' = Buffered(d)
      BY <1>3, <1>4, <2>9 DEF SockTypes
    <2>14. SockTypes' /\ EchoFaithful' /\ EpFits'
      BY <1>3, <2>10, <2>11, <2>12, <2>13, AfterSystemCall
    <2>15. QED
      BY <2>8, <2>14
  <1>5. CASE UNCHANGED taken /\ (close_client(c) \/ (ep' = NextEvent /\ UNCHANGED <<ready, conn>>))
    <2>1. /\ conn' \in [Clients -> {"new", "queued", "open", "closed"}]
          /\ ready' \subseteq Clients \cup {Listener} /\ ep' = NextEvent
      BY <1>5 DEF close_client, CloseFd, SockTypes, EpTypes
    <2>2. EpTypes' /\ ep'.pc = "next"
      BY <2>1, NextEventTyped
    <2>3. \A d \in Clients : Buffered(d)' = Buffered(d)
      BY <1>3, <2>2 DEF Buffered
    <2>4. SockTypes'
      BY <1>3, <1>5, <2>1 DEF SockTypes
    <2>5. QED
      BY <1>3, <1>5, <2>2, <2>3, <2>4, EpFitsKept DEF Live
  <1>6. QED
    BY <1>1, <1>2, <1>4, <1>5 DEF EpRead, Taken

(* handle_read(): a write; what is left of the buffer is written next. *)
LEMMA EpWriteStep ==
  ASSUME SockTypes, EchoFaithful, EpTypes, EpFits, EpWrite, UNCHANGED short
  PROVE  SockTypes' /\ EchoFaithful' /\ EpTypes' /\ EpFits'
  <1>1. PICK c \in Clients : c = ep.fd
    BY DEF EpWrite, EpTypes
  <1>2. PICK b \in Seq(Nat) : b = ep.buf
    BY DEF EpTypes
  <1>3. PICK n : n = AtMost(Len(b), Room(c))
    OBVIOUS
  <1>4. UNCHANGED peer /\ UNCHANGED sent /\ taken' = taken /\ UNCHANGED got /\ ep.pc = "write"
    BY DEF EpWrite
  <1>5. PICK t \in Nat : t = taken[c] /\ t <= sent[c]
    BY DEF SockTypes
  <1>6. PICK E \in Seq(Nat) : E = echoed[c]
    BY DEF SockTypes
  <1>7. PICK live : live = Live(c)
    OBVIOUS
  <1>8. Fits(b, t, E, live)
    <2>1. Buffered(c) = b
      BY <1>1, <1>2, <1>4 DEF Buffered
    <2>2. QED
      BY <1>5, <1>6, <1>7, <2>1 DEF EpFits
  <1>9. Good(E, t, c \notin short)
    BY <1>5, <1>6, Faithfully
  <1>11. taken' \in [Clients -> Nat] /\ taken'[c] = t /\ taken'[c] <= sent[c]
    BY <1>4, <1>5 DEF SockTypes
  <1>12. EpTypes /\ << >> \in Seq(Nat)
    OBVIOUS
  <1>13. ASSUME peer[c] \in {"reset", "gone"}, UNCHANGED echoed,
                conn' \in [Clients -> {"new", "queued", "open", "closed"}],
                EpTypes', ep'.pc # "write"
         PROVE  SockTypes' /\ EchoFaithful' /\ EpTypes' /\ EpFits'
    <2>1. Buffered(c)' = << >> /\ \A d \in Clients : d # c => Buffered(d)' = Buffered(d)
      BY <1>1, <1>13 DEF Buffered
    <2>2. Fits(<< >>, t, E, FALSE)
      BY <1>8, FitsDropped
    <2>3. ~Live(c)
      BY <1>13 DEF Live
    <2>4. Fits(<< >>, t, E, Live(c))
      BY <2>2, <2>3, FitsWeaker
    <2>5. Fits(Buffered(c)', taken'[c], echoed'[c], Live(c)) /\ Good(echoed'[c], taken'[c], c \notin short)
      BY <1>6, <1>9, <1>11, <1>13, <2>1, <2>4
    <2>6. echoed' \in [Clients -> Seq(Nat)]
      BY <1>13 DEF SockTypes
    <2>7. \A d \in Clients : d # c => UNCHANGED <<taken[d], echoed[d]>> /\ Buffered(d)' = Buffered(d)
      BY <1>4, <1>13, <2>1
    <2>8. SockTypes' /\ EchoFaithful' /\ EpFits'
      BY <1>4, <1>11, <1>13, <2>5, <2>6, <2>7, AfterSystemCall
    <2>9. QED
      BY <1>13, <2>8
  <1>14. CASE peer[c] = "reset" /\ close_client(c) /\ UNCHANGED echoed
    <2>1. /\ conn' \in [Clients -> {"new", "queued", "open", "closed"}]
          /\ ready' \subseteq Clients \cup {Listener} /\ ep' = NextEvent
      BY <1>14 DEF close_client, CloseFd, SockTypes, EpTypes
    <2>2. EpTypes' /\ ep'.pc = "next"
      BY <2>1, NextEventTyped
    <2>3. QED
      BY <1>13, <1>14, <2>1, <2>2
  <1>15. CASE peer[c] = "gone" /\ ep' = AfterWrite(Len(b)) /\ UNCHANGED <<conn, echoed, ready>>
    <2>1. ep' = [ep EXCEPT !.pc = "read", !.buf = << >>]
      BY <1>2, <1>15 DEF AfterWrite
    <2>2. EpTypes' /\ ep'.pc = "read"
      BY <1>1, <1>12, <1>15, <2>1 DEF EpTypes
    <2>3. conn' \in [Clients -> {"new", "queued", "open", "closed"}]
      BY <1>15 DEF SockTypes
    <2>4. QED
      BY <1>13, <1>15, <2>2, <2>3
  <1>16. CASE /\ peer[c] \in {"up", "half"} /\ n > 0
              /\ Echo(c, SubSeq(b, 1, n))
              /\ ep' = AfterWrite(n)
              /\ UNCHANGED <<conn, ready>>
    <2>1. n \in 1 .. Len(b)
      <3>1. PICK L \in Nat : L = Len(b)
        BY LenProperties
      <3>2. PICK R \in Int : R = Room(c)
        <4>1. SndBuf \in Nat /\ Len(E) \in Nat /\ got[c] \in Nat
          BY SocketAssumption, LenProperties DEF SockTypes
        <4>2. SndBuf - (Len(E) - got[c]) \in Int
          BY <4>1
        <4>3. QED
          BY <1>6, <4>2 DEF Room
      <3>3. QED
        BY <1>3, <1>16, <3>1, <3>2 DEF AtMost
    <2>2. live <=> c \notin short
      BY <1>7, <1>16 DEF Live
    <2>3. Good(E, t, live)
      BY <1>9, <2>2 DEF Good
    <2>4. PICK G : G = E \o SubSeq(b, 1, n)
      OBVIOUS
    <2>5. PICK v : v = SubSeq(b, n + 1, Len(b))
      OBVIOUS
    <2>6. /\ G \in Seq(Nat) /\ Good(G, t, live)
          /\ v \in Seq(Nat) /\ Fits(v, t, G, live)
          /\ n = Len(b) => v = << >>
      <3>1. LET H == E \o SubSeq(b, 1, n)
                w == SubSeq(b, n + 1, Len(b))
            IN  /\ H \in Seq(Nat) /\ Good(H, t, live)
                /\ w \in Seq(Nat) /\ Fits(w, t, H, live)
                /\ n = Len(b) => w = << >>
        BY <1>8, <2>1, <2>3, FitsWritten
      <3>2. QED
        BY <2>4, <2>5, <3>1, Zenon
    <2>7. echoed' = [echoed EXCEPT ![c] = G] /\ echoed'[c] = G
      BY <1>6, <1>16, <2>4 DEF Echo, SockTypes
    <2>8. EpTypes' /\ Buffered(c)' = v /\ \A d \in Clients : d # c => Buffered(d)' = Buffered(d)
      <3>1. CASE n = Len(b)
        <4>1. ep' = [ep EXCEPT !.pc = "read", !.buf = << >>]
          BY <1>2, <1>16, <3>1 DEF AfterWrite
        <4>2. EpTypes' /\ ep'.pc = "read"
          BY <1>1, <1>12, <1>16, <4>1 DEF EpTypes
        <4>3. QED
          BY <1>1, <2>6, <3>1, <4>2 DEF Buffered
      <3>2. CASE n # Len(b)
        <4>1. ep' = [ep EXCEPT !.buf = v]
          BY <1>2, <1>16, <2>5, <3>2 DEF AfterWrite
        <4>2. EpTypes' /\ ep'.pc = "write" /\ ep'.fd = c /\ ep'.buf = v
          BY <1>1, <1>4, <1>12, <1>16, <2>6, <4>1 DEF EpTypes
        <4>3. QED
          BY <1>1, <4>2 DEF Buffered
      <3>3. QED
        BY <3>1, <3>2
    <2>9. Good(G, t, c \notin short)
      BY <2>2, <2>6 DEF Good
    <2>10. Fits(Buffered(c)', taken'[c], echoed'[c], Live(c)) /\ Good(echoed'[c], taken'[c], c \notin short)
      BY <1>7, <1>11, <2>6, <2>7, <2>8, <2>9
    <2>11. echoed' \in [Clients -> Seq(Nat)] /\ conn' \in [Clients -> {"new", "queued", "open", "closed"}]
      BY <1>16, <2>6, <2>7 DEF SockTypes
    <2>12. \A d \in Clients : d # c => UNCHANGED <<taken[d], echoed[d]>> /\ Buffered(d)' = Buffered(d)
      BY <1>4, <2>7, <2>8 DEF SockTypes
    <2>13. SockTypes' /\ EchoFaithful' /\ EpFits'
      BY <1>4, <1>11, <2>10, <2>11, <2>12, AfterSystemCall
    <2>14. QED
      BY <2>8, <2>13
  <1>17. QED
    BY <1>1, <1>2, <1>3, <1>14, <1>15, <1>16 DEF EpWrite

-----------------------------------------------------------------------------
(* Every step of either server, its clients and the kernel keeps the invariant. *)
LEMMA EchoStep ==
  EchoInv /\ [EchoNext]_echoVars => EchoInv'
  <1> SUFFICES ASSUME EchoInv, [EchoNext]_echoVars PROVE EchoInv'
    OBVIOUS
  <1>1. SockTypes /\ EchoFaithful
    BY DEF EchoInv
  <1>2. CASE IoUring(IoNext)
    <2>1. server = "io_uring" /\ server' = server /\ RingInv /\ IoFits
      BY <1>2 DEF IoUring, EchoInv
    <2>2. SockTypes' /\ EchoFaithful' /\ RingInv' /\ IoFits'
      BY <1>1, <1>2, <2>1, IoEnterStep, IoPollStep, CompletionStep, IoStopStep, IoClientStep,
         AcceptsStep, ReadsStep, WritesStep DEF IoUring, IoNext, IoServer, Completes
    <2>3. QED
      BY <2>1, <2>2 DEF EchoInv
  <1>3. CASE Epoll(EpNext)
    <2>1. server = "epoll" /\ server' = server /\ EpTypes /\ EpFits /\ short' = short
      BY <1>3 DEF Epoll, EchoInv, ioVars
    <2>2. SockTypes' /\ EchoFaithful' /\ EpTypes' /\ EpFits'
      BY <1>1, <1>3, <2>1, EpWaitStep, EpDispatchStep, AcceptStep, EpReadStep, EpWriteStep, EpStopStep,
         EpClientStep DEF Epoll, EpNext, EpServer
    <2>3. QED
      BY <2>1, <2>2 DEF EchoInv
  <1>4. CASE UNCHANGED echoVars
    <2>1. /\ UNCHANGED <<conn, peer, sent, taken, echoed, got, ioVars>>
          /\ UNCHANGED <<conn, peer, sent, taken, echoed, got, epVars>>
          /\ server' = server /\ short' = short
      BY <1>4 DEF echoVars, sockVars, ioVars
    <2>2. SockTypes' /\ EchoFaithful'
      BY <1>1, <2>1, FaithKept DEF SockTypes
    <2>3. server = "io_uring" => RingInv' /\ IoFits'
      BY <1>1, <2>1, IoStopStep DEF EchoInv
    <2>4. server = "epoll" => EpTypes' /\ EpFits'
      BY <1>1, <2>1, EpStopStep DEF EchoInv
    <2>5. QED
      BY <2>1, <2>2, <2>3, <2>4 DEF EchoInv
  <1>5. QED
    BY <1>2, <1>3, <1>4 DEF EchoNext

(***************************************************************************)
(* BytesComeBack: either server echoes to every client what it sent, in    *)
(* order, nothing twice or invented, without a gap unless io_uring wrote   *)
(* short (handle_read, epoll_server.hpp:163-201; handle_completion,        *)
(* iouring_reactor.hpp:242-277).                                           *)
(***************************************************************************)
THEOREM BytesComeBack ==
  EchoSpec => []EchoFaithful
  <1>1. EchoInv => EchoFaithful
    BY DEF EchoInv
  <1>2. QED
    BY EchoInitially, EchoStep, <1>1, PTL DEF EchoSpec

(* A set without two elements has none or one. *)
LEMMA AtMostOne ==
  ASSUME NEW S, \A x, y \in S : x = y
  PROVE  Cardinality(S) = IF S = {} THEN 0 ELSE 1
  <1>1. CASE S = {}
    BY <1>1, FS_EmptySet
  <1>2. CASE S # {}
    <2>1. PICK x : S = {x}
      BY <1>2
    <2>2. QED
      BY <1>2, <2>1, FS_Singleton
  <1>3. QED
    BY <1>1, <1>2

(* Exactly one place means one operation or completion, counted over all three. *)
LEMMA RingCount ==
  ASSUME NEW q, NEW F, NEW r, NEW W, Ring(q, F, r, W), NEW s,
         NEW A, A = {i \in DOMAIN q : Sub(q[i]) = s},
         NEW B, B = {op \in F : Sub(op) = s},
         NEW C, NEW D, C \cup D = {i \in DOMAIN r : s \in Subs(r[i])}, C \cap D = {}
  PROVE  Cardinality(A) + Cardinality(B) + Cardinality(C) + Cardinality(D) = IF s \in W THEN 1 ELSE 0
  <1>1. \A x, y \in A : x = y
    BY DEF Ring
  <1>2. \A x, y \in B : x = y
    BY DEF Ring
  <1>3. \A x, y \in C \cup D : x = y
    BY DEF Ring
  <1>4. /\ A # {} <=> s \in SqSubs(q)
        /\ B # {} <=> s \in KernelSubs(F)
        /\ C # {} \/ D # {} <=> s \in CqSubs(r)
    <2>1. A # {} <=> s \in SqSubs(q)
      BY DEF SqSubs
    <2>2. B # {} <=> s \in KernelSubs(F)
      BY DEF KernelSubs
    <2>3. C # {} \/ D # {} <=> s \in CqSubs(r)
      BY DEF CqSubs
    <2>4. QED
      BY <2>1, <2>2, <2>3
  <1>5. C = {} \/ D = {}
    BY <1>3
  <1>6. /\ Cardinality(A) = IF A = {} THEN 0 ELSE 1
        /\ Cardinality(B) = IF B = {} THEN 0 ELSE 1
        /\ Cardinality(C) = IF C = {} THEN 0 ELSE 1
        /\ Cardinality(D) = IF D = {} THEN 0 ELSE 1
    BY <1>1, <1>2, <1>3, AtMostOne
  <1>7. /\ s \in W <=> A # {} \/ B # {} \/ C # {} \/ D # {}
        /\ A # {} => B = {} /\ C = {} /\ D = {}
        /\ B # {} => C = {} /\ D = {}
    BY <1>4, Zenon DEF Ring
  <1>8. QED
    BY <1>5, <1>6, <1>7

(* The invariant gives the count OneOperation asks for. *)
LEMMA OneEach ==
  EchoInv => OneOperation
  <1> SUFFICES ASSUME EchoInv, server = "io_uring"
               PROVE  OneOperation
    BY DEF OneOperation
  <1>1. sq \in Seq(Op) /\ flight \subseteq Op /\ cq \in Seq(Cqe) /\ Ring(sq, flight, cq, Owned)
    BY DEF EchoInv, RingInv
  <1>2. (\A i \in DOMAIN sq : sq[i] \in Op) /\ (\A i \in DOMAIN cq : cq[i] \in Cqe)
    BY <1>1, ElementOfSeq, LenProperties
  <1>3. \A op \in Op : op.type = "accept" <=> Sub(op) = {}
    BY DEF Sub
  <1>4. \A op \in Op, c \in Clients : op.type # "accept" /\ op.c = c <=> Sub(op) = {c}
    BY DEF Sub
  <1>5. \A e \in Cqe : e.op.type = "accept" <=> {} \in Subs(e)
    BY DEF Subs, Sub
  <1>6. \A e \in Cqe, c \in Clients :
          {c} \in Subs(e) <=> \/ e.op.type # "accept" /\ e.op.c = c
                              \/ e.op.type = "accept" /\ e.ok /\ e.c = c
    BY DEF Subs, Sub
  <1>7. Cardinality({i \in DOMAIN sq : sq[i].type = "accept"})
        + Cardinality({o \in flight : o.type = "accept"})
        + Cardinality({i \in DOMAIN cq : cq[i].op.type = "accept"})
        = IF Listener \in dropped THEN 0 ELSE 1
    <2>1. PICK A : A = {i \in DOMAIN sq : sq[i].type = "accept"}
      OBVIOUS
    <2>2. PICK B : B = {o \in flight : o.type = "accept"}
      OBVIOUS
    <2>3. PICK C : C = {i \in DOMAIN cq : cq[i].op.type = "accept"}
      OBVIOUS
    <2>4. PICK D : D = {}
      OBVIOUS
    <2>5. PICK s : s = {}
      OBVIOUS
    <2>6. A = {i \in DOMAIN sq : Sub(sq[i]) = s}
      BY <1>2, <1>3, <2>1, <2>5
    <2>7. B = {op \in flight : Sub(op) = s}
      BY <1>1, <1>3, <2>2, <2>5
    <2>8. C \cup D = {i \in DOMAIN cq : s \in Subs(cq[i])} /\ C \cap D = {}
      BY <1>2, <1>5, <2>3, <2>4, <2>5
    <2>9. Cardinality(A) + Cardinality(B) + Cardinality(C) + Cardinality(D) = IF s \in Owned THEN 1 ELSE 0
      BY <1>1, <2>6, <2>7, <2>8, RingCount
    <2>10. (s \in Owned <=> Listener \notin dropped) /\ Cardinality(D) = 0
      BY <2>4, <2>5, FS_EmptySet, PlaceOf
    <2>11. \A x, y \in A : x = y
      BY <1>1, <2>6 DEF Ring
    <2>12. \A x, y \in B : x = y
      BY <1>1, <2>7 DEF Ring
    <2>13. \A x, y \in C : x = y
      BY <1>1, <2>8 DEF Ring
    <2>14. Cardinality(A) \in Nat /\ Cardinality(B) \in Nat /\ Cardinality(C) \in Nat
      BY <2>11, <2>12, <2>13, AtMostOne
    <2>15. Cardinality(A) + Cardinality(B) + Cardinality(C) = IF Listener \in dropped THEN 0 ELSE 1
      BY <2>9, <2>10, <2>14
    <2>16. QED
      BY <2>1, <2>2, <2>3, <2>15
  <1>8. ASSUME NEW c \in Clients
        PROVE  Cardinality({i \in DOMAIN sq : sq[i].type # "accept" /\ sq[i].c = c})
               + Cardinality({o \in flight : o.type # "accept" /\ o.c = c})
               + Cardinality({i \in DOMAIN cq : cq[i].op.type # "accept" /\ cq[i].op.c = c})
               + Cardinality({i \in DOMAIN cq : cq[i].op.type = "accept" /\ cq[i].ok /\ cq[i].c = c})
               = IF conn[c] = "open" /\ c \notin dropped THEN 1 ELSE 0
    <2>1. PICK A : A = {i \in DOMAIN sq : sq[i].type # "accept" /\ sq[i].c = c}
      OBVIOUS
    <2>2. PICK B : B = {o \in flight : o.type # "accept" /\ o.c = c}
      OBVIOUS
    <2>3. PICK C : C = {i \in DOMAIN cq : cq[i].op.type # "accept" /\ cq[i].op.c = c}
      OBVIOUS
    <2>4. PICK D : D = {i \in DOMAIN cq : cq[i].op.type = "accept" /\ cq[i].ok /\ cq[i].c = c}
      OBVIOUS
    <2>5. PICK s : s = {c}
      OBVIOUS
    <2>6. A = {i \in DOMAIN sq : Sub(sq[i]) = s}
      BY <1>2, <1>4, <2>1, <2>5
    <2>7. B = {op \in flight : Sub(op) = s}
      BY <1>1, <1>4, <2>2, <2>5
    <2>8. C \cup D = {i \in DOMAIN cq : s \in Subs(cq[i])} /\ C \cap D = {}
      BY <1>2, <1>6, <2>3, <2>4, <2>5
    <2>9. Cardinality(A) + Cardinality(B) + Cardinality(C) + Cardinality(D) = IF s \in Owned THEN 1 ELSE 0
      BY <1>1, <2>6, <2>7, <2>8, RingCount
    <2>10. s \in Owned <=> conn[c] = "open" /\ c \notin dropped
      BY <2>5, PlaceOf
    <2>11. QED
      BY <2>1, <2>2, <2>3, <2>4, <2>9, <2>10
  <1>9. dropped # {} => Cardinality(Accepted) >= sq_entries
    BY DEF EchoInv, RingInv, Drops
  <1>10. QED
    BY <1>7, <1>8, <1>9 DEF OneOperation

(***************************************************************************)
(* OneOperationEach: whatever the size of the submission ring, the reactor *)
(* has exactly one operation for the listener and one for each open        *)
(* connection, but for those whose operation get_sqe() had no entry for;   *)
(* and there is none of these before as many connections were accepted as  *)
(* the ring has entries (iouring_reactor.hpp:184-277).                     *)
(***************************************************************************)
THEOREM OneOperationEach ==
  EchoSpec => []OneOperation
  BY EchoInitially, EchoStep, OneEach, PTL DEF EchoSpec
=============================================================================
