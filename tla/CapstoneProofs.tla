--------------------------- MODULE CapstoneProofs ---------------------------
(***************************************************************************)
(* Proofs about two of the capstone systems of chapter 12.                 *)
(*                                                                         *)
(* FiberRuntime, for every finite set of fibers, capacity of the channel   *)
(* and number of calls: mutual exclusion, every fiber in one place, and no *)
(* lost wake-up.                                                           *)
(*                                                                         *)
(* EmbeddedLsm, for every set of keys, threshold and number of puts, lives *)
(* of the process, tables and recoveries: reads after crashes.             *)
(***************************************************************************)
EXTENDS FiberRuntime, EmbeddedLsm, SequenceTheorems, FiniteSetTheorems, FunctionTheorems,
        WellFoundedInduction, TLAPS

-----------------------------------------------------------------------------
(* How often a fiber occurs in a queue.                                    *)

(* The positions of a fiber in a queue are finitely many. *)
LEMMA CountType ==
  ASSUME NEW s \in Seq(Fiber), NEW g
  PROVE  /\ IsFiniteSet({i \in DOMAIN s : s[i] = g})
         /\ Count(g, s) \in Nat
  <1>1. Len(s) \in Nat /\ DOMAIN s = 1 .. Len(s)
    BY LenProperties
  <1>2. IsFiniteSet(DOMAIN s)
    BY <1>1, FS_Interval
  <1>3. IsFiniteSet({i \in DOMAIN s : s[i] = g})
    BY <1>2, FS_Subset
  <1>4. QED
    BY <1>3, FS_CardinalityType DEF Count

(* No fiber is in an empty queue. *)
LEMMA CountEmpty ==
  ASSUME NEW g
  PROVE  Count(g, << >>) = 0
  <1>1. {i \in DOMAIN << >> : << >>[i] = g} = {}
    OBVIOUS
  <1>2. QED
    BY <1>1, FS_EmptySet DEF Count

(* push_back adds one occurrence of its argument. *)
LEMMA CountAppend ==
  ASSUME NEW s \in Seq(Fiber), NEW e \in Fiber, NEW g
  PROVE  Count(g, Append(s, e)) = Count(g, s) + IF e = g THEN 1 ELSE 0
  <1> DEFINE D == {i \in DOMAIN s : s[i] = g}
             E == {i \in DOMAIN Append(s, e) : Append(s, e)[i] = g}
  <1>1. /\ Len(s) \in Nat /\ DOMAIN s = 1 .. Len(s)
        /\ DOMAIN Append(s, e) = 1 .. Len(s) + 1
        /\ \A i \in 1 .. Len(s) : Append(s, e)[i] = s[i]
        /\ Append(s, e)[Len(s) + 1] = e
    BY LenProperties, AppendProperties
  <1>2. E = IF e = g THEN D \cup {Len(s) + 1} ELSE D
    BY <1>1
  <1>3. Len(s) + 1 \notin D
    BY <1>1
  <1>4. IsFiniteSet(D) /\ Cardinality(D) \in Nat
    BY CountType DEF Count
  <1> HIDE DEF D, E
  <1>5. Cardinality(D \cup {Len(s) + 1}) = Cardinality(D) + 1
    BY <1>3, <1>4, FS_AddElement
  <1>6. Cardinality(E) = Cardinality(D) + IF e = g THEN 1 ELSE 0
    BY <1>2, <1>4, <1>5
  <1>7. QED
    BY <1>6 DEF Count, D, E

(* pop_front takes one occurrence of the first fiber away. *)
LEMMA CountTail ==
  ASSUME NEW s \in Seq(Fiber), s # << >>, NEW g
  PROVE  Count(g, s) = Count(g, Tail(s)) + IF Head(s) = g THEN 1 ELSE 0
  <1> DEFINE D == {i \in DOMAIN s : s[i] = g}
             E == {i \in DOMAIN Tail(s) : Tail(s)[i] = g}
             shift == [i \in E |-> i + 1]
  <1>1. /\ Len(s) \in Nat \ {0} /\ DOMAIN s = 1 .. Len(s)
        /\ Tail(s) \in Seq(Fiber) /\ DOMAIN Tail(s) = 1 .. Len(s) - 1
        /\ \A i \in 1 .. Len(s) - 1 : Tail(s)[i] = s[i + 1]
        /\ Head(s) = s[1]
    BY LenProperties, HeadTailProperties, EmptySeq
  <1>2. IsFiniteSet(D) /\ IsFiniteSet(E) /\ Cardinality(D) \in Nat /\ Cardinality(E) \in Nat
    BY <1>1, CountType DEF Count
  <1>3. shift \in Bijection(E, D \ {1})
    <2>1. shift \in [E -> D \ {1}]
      BY <1>1
    <2>2. \A i, j \in E : shift[i] = shift[j] => i = j
      BY <1>1
    <2>3. ASSUME NEW d \in D \ {1} PROVE \E i \in E : shift[i] = d
      <3>1. d - 1 \in E /\ shift[d - 1] = d
        BY <1>1, <2>3
      <3>2. QED
        BY <3>1
    <2> HIDE DEF D, E, shift
    <2>4. QED
      BY <2>1, <2>2, <2>3, Fun_IsBij
  <1>4. Cardinality(D \ {1}) = Cardinality(E)
    BY <1>2, <1>3, FS_Bijection, ZenonT(30) DEF ExistsBijection
  <1>5. 1 \in D <=> Head(s) = g
    BY <1>1
  <1> HIDE DEF D, E
  <1>6. Cardinality(D \ {1}) = IF 1 \in D THEN Cardinality(D) - 1 ELSE Cardinality(D)
    BY <1>2, FS_RemoveElement
  <1>7. Cardinality(D) = Cardinality(E) + IF Head(s) = g THEN 1 ELSE 0
    BY <1>2, <1>4, <1>5, <1>6
  <1>8. QED
    BY <1>7 DEF Count, D, E

-----------------------------------------------------------------------------
(* The inductive invariant.                                                *)

(* The fibers that will take another turn of the loop of this call. *)
Retrying(loop) ==
  {f \in Fiber : state[f] \in {"READY", "RUNNING"} /\ pc[f] = loop}

(* Whoever waits for a free mutex, for room or for a value has somebody    *)
(* ahead of it who has been resumed and will use it up: for the channel,   *)
(* as many as there are free places or values.                             *)
WakeupsUnderWay ==
  /\ waiters # << >> => locked \/ Retrying("lock") # {}
  /\ send_waiters # << >> => queue + Cardinality(Retrying("send")) >= Capacity
  /\ recv_waiters # << >> => Cardinality(Retrying("receive")) >= queue

IndInv == TypeOK /\ MutualExclusion /\ OnePlace /\ WakeupsUnderWay

(* Finitely many fibers retry a call. *)
LEMMA RetryingFinite ==
  ASSUME NEW loop
  PROVE  IsFiniteSet(Retrying(loop)) /\ Cardinality(Retrying(loop)) \in Nat
  BY FiberAssumption, FS_Subset, FS_CardinalityType DEF Retrying

(* The queues hold fibers. *)
LEMMA QueueTypes ==
  ASSUME TypeOK
  PROVE  /\ ready_queue \in Seq(Fiber) /\ waiters \in Seq(Fiber)
         /\ send_waiters \in Seq(Fiber) /\ recv_waiters \in Seq(Fiber)
  BY DEF TypeOK

(* The first fiber of a queue occurs in it. *)
LEMMA HeadCounted ==
  ASSUME NEW s \in Seq(Fiber), s # << >>
  PROVE  Head(s) \in Fiber /\ Tail(s) \in Seq(Fiber) /\ Count(Head(s), s) >= 1
  <1>1. Head(s) \in Fiber /\ Tail(s) \in Seq(Fiber)
    BY HeadTailProperties
  <1>2. Count(Head(s), s) = Count(Head(s), Tail(s)) + 1
    BY CountTail
  <1>3. Count(Head(s), Tail(s)) \in Nat
    BY <1>1, CountType
  <1>4. QED
    BY <1>1, <1>2, <1>3

(* A scheduler without fibers. *)
LEMMA InitInv == Init => IndInv
  <1> SUFFICES ASSUME Init PROVE IndInv
    OBVIOUS
  <1>0. << >> \in Seq(Fiber)
    BY EmptySeq
  <1>1. TypeOK
    <2>1. /\ ready_queue \in Seq(Fiber) /\ waiters \in Seq(Fiber)
          /\ send_waiters \in Seq(Fiber) /\ recv_waiters \in Seq(Fiber)
      BY EmptySeq DEF Init
    <2>2. state \in [Fiber -> {"UNBORN", "READY", "RUNNING", "SUSPENDED", "DEAD"}]
       /\ pc \in [Fiber -> {"client", "lock", "send", "receive"}]
      BY DEF Init
    <2>3. queue \in 0 .. Capacity /\ ops \in [Fiber -> 0 .. MaxOps]
      BY FiberAssumption DEF Init
    <2>4. locked \in BOOLEAN /\ holders \subseteq Fiber
      BY DEF Init
    <2>5. current \in Fiber \cup {NoFiber}
      BY DEF Init
    <2>6. QED
      BY <2>1, <2>2, <2>3, <2>4, <2>5 DEF TypeOK
  <1>2. MutualExclusion /\ WakeupsUnderWay
    BY DEF Init, MutualExclusion, WakeupsUnderWay
  <1>3. OnePlace
    BY FiberAssumption, CountEmpty DEF Init, OnePlace
  <1>4. QED
    BY <1>1, <1>2, <1>3 DEF IndInv

(* What resume() of the first waiter of a call, after pop_front, does: the *)
(* waiter moves from the waiters to the ready queue.                       *)
Resumed(ws, loop) ==
  /\ Rest(ws) \in Seq(Fiber) /\ ready_queue' \in Seq(Fiber)
  /\ current' = current
  /\ ws = << >> => Rest(ws) = << >> /\ state' = state /\ ready_queue' = ready_queue
  /\ ws # << >> =>
       /\ Head(ws) \in Fiber
       /\ state[Head(ws)] = "SUSPENDED" /\ pc[Head(ws)] = loop
       /\ state' = [state EXCEPT ![Head(ws)] = "READY"]
       /\ \A g \in Fiber :
            /\ Count(g, ready_queue') =
                 Count(g, ready_queue) + IF Head(ws) = g THEN 1 ELSE 0
            /\ Count(g, ws) = Count(g, Rest(ws)) + IF Head(ws) = g THEN 1 ELSE 0
            /\ Count(g, Rest(ws)) \in Nat

LEMMA ResumeMoves ==
  ASSUME TypeOK, NEW loop, NEW ws \in Seq(Fiber), ResumeFirst(ws),
         \A g \in Fiber :
           Count(g, ws) = IF state[g] = "SUSPENDED" /\ pc[g] = loop THEN 1 ELSE 0
  PROVE  Resumed(ws, loop)
  <1>0. ready_queue \in Seq(Fiber)
    BY QueueTypes
  <1>1. CASE ws = << >>
    BY <1>0, <1>1 DEF ResumeFirst, Rest, sched, Resumed
  <1>2. CASE ws # << >>
    <2>1. Head(ws) \in Fiber /\ Tail(ws) \in Seq(Fiber) /\ Count(Head(ws), ws) >= 1
      BY <1>2, HeadCounted
    <2>2. state[Head(ws)] = "SUSPENDED" /\ pc[Head(ws)] = loop
      BY <2>1
    <2>3. /\ state' = [state EXCEPT ![Head(ws)] = "READY"]
          /\ ready_queue' = Append(ready_queue, Head(ws))
          /\ current' = current /\ Rest(ws) = Tail(ws)
      BY <1>2, <2>2 DEF ResumeFirst, Rest
    <2>4. ready_queue' \in Seq(Fiber)
      BY <1>0, <2>1, <2>3, AppendProperties
    <2>5. ASSUME NEW g \in Fiber
          PROVE  /\ Count(g, ready_queue') =
                      Count(g, ready_queue) + IF Head(ws) = g THEN 1 ELSE 0
                 /\ Count(g, ws) = Count(g, Rest(ws)) + IF Head(ws) = g THEN 1 ELSE 0
                 /\ Count(g, Rest(ws)) \in Nat
      BY <1>0, <1>2, <2>1, <2>3, CountAppend, CountTail, CountType, ZenonT(30)
    <2>6. QED
      BY <1>2, <2>1, <2>2, <2>3, <2>4, <2>5 DEF Resumed
  <1>3. QED
    BY <1>1, <1>2

-----------------------------------------------------------------------------
(* Type correctness is inductive by itself. *)
LEMMA NextType == TypeOK /\ [Next]_vars => TypeOK'
  <1> SUFFICES ASSUME TypeOK, [Next]_vars PROVE TypeOK'
    OBVIOUS
  <1> USE FiberAssumption
  <1>0. /\ ready_queue \in Seq(Fiber) /\ waiters \in Seq(Fiber)
        /\ send_waiters \in Seq(Fiber) /\ recv_waiters \in Seq(Fiber)
    BY QueueTypes
  <1>a. ASSUME NEW ws \in Seq(Fiber), ResumeFirst(ws)
        PROVE  /\ Rest(ws) \in Seq(Fiber) /\ ready_queue' \in Seq(Fiber)
               /\ state' \in [Fiber -> {"UNBORN", "READY", "RUNNING", "SUSPENDED", "DEAD"}]
               /\ current' \in Fiber \cup {NoFiber}
    <2>1. ws # << >> => Head(ws) \in Fiber /\ Tail(ws) \in Seq(Fiber)
      BY HeadTailProperties
    <2>2. ws # << >> => Append(ready_queue, Head(ws)) \in Seq(Fiber)
      BY <1>0, <2>1, AppendProperties
    <2>3. QED
      BY <1>0, <1>a, <2>1, <2>2 DEF ResumeFirst, Rest, sched, TypeOK
  <1>b. ASSUME NEW f \in Fiber
        PROVE  /\ Append(ready_queue, f) \in Seq(Fiber) /\ Append(waiters, f) \in Seq(Fiber)
               /\ Append(send_waiters, f) \in Seq(Fiber)
               /\ Append(recv_waiters, f) \in Seq(Fiber)
    BY <1>0, AppendProperties
  <1>c. ASSUME NEW f \in Fiber, NEW loop, Calls(f, loop)
        PROVE  ops' \in [Fiber -> 0 .. MaxOps]
    <2>1. CASE ops[f] < MaxOps /\ ops' = [ops EXCEPT ![f] = @ + 1]
      BY <2>1 DEF TypeOK
    <2>2. QED
      BY <1>c, <2>1 DEF Calls, TypeOK
  <1>1. CASE Run
    <2>1. Head(ready_queue) \in Fiber /\ Tail(ready_queue) \in Seq(Fiber)
      BY <1>0, <1>1, HeadTailProperties DEF Run
    <2>2. QED
      BY <1>1, <2>1 DEF Run, TypeOK, mutex, channel
  <1>2. ASSUME NEW f \in Fiber, spawn(f) PROVE TypeOK'
    BY <1>2, <1>b DEF spawn, TypeOK, mutex, channel
  <1>3. ASSUME NEW f \in Fiber, Yield(f) PROVE TypeOK'
    BY <1>3, <1>b DEF Yield, YieldReady, TypeOK, mutex, channel
  <1>4. ASSUME NEW f \in Fiber, Exit(f) PROVE TypeOK'
    BY <1>4 DEF Exit, TypeOK, mutex, channel
  <1>5. ASSUME NEW f \in Fiber, Lock(f) PROVE TypeOK'
    BY <1>5, <1>c DEF Lock, TypeOK, sched, channel
  <1>6. ASSUME NEW f \in Fiber, LockWait(f) PROVE TypeOK'
    BY <1>6, <1>b, <1>c DEF LockWait, YieldSuspended, TypeOK, channel
  <1>7. ASSUME NEW f \in Fiber, Unlock(f) PROVE TypeOK'
    BY <1>7, <1>0, <1>a DEF Unlock, TypeOK, channel
  <1>8. ASSUME NEW f \in Fiber, Send(f) PROVE TypeOK'
    BY <1>8, <1>0, <1>a, <1>c DEF Send, TypeOK, mutex
  <1>9. ASSUME NEW f \in Fiber, SendWait(f) PROVE TypeOK'
    BY <1>9, <1>b, <1>c DEF SendWait, YieldSuspended, TypeOK, mutex
  <1>10. ASSUME NEW f \in Fiber, Receive(f) PROVE TypeOK'
    BY <1>10, <1>0, <1>a, <1>c DEF Receive, TypeOK, mutex
  <1>11. ASSUME NEW f \in Fiber, ReceiveWait(f) PROVE TypeOK'
    BY <1>11, <1>b, <1>c DEF ReceiveWait, YieldSuspended, TypeOK, mutex
  <1>12. CASE UNCHANGED vars
    BY <1>12 DEF vars, TypeOK
  <1>13. QED
    BY <1>1, <1>2, <1>3, <1>4, <1>5, <1>6, <1>7, <1>8, <1>9, <1>10, <1>11, <1>12
       DEF Next, Step

(* A lock is only taken from a free mutex, and only its holder frees it. *)
LEMMA NextExclusion == TypeOK /\ MutualExclusion /\ [Next]_vars => MutualExclusion'
  <1> SUFFICES ASSUME TypeOK, MutualExclusion, [Next]_vars PROVE MutualExclusion'
    OBVIOUS
  <1>1. ASSUME NEW f \in Fiber, Lock(f) PROVE MutualExclusion'
    BY <1>1 DEF Lock, MutualExclusion
  <1>2. ASSUME NEW f \in Fiber, Unlock(f) PROVE MutualExclusion'
    BY <1>2 DEF Unlock, MutualExclusion
  <1>3. CASE UNCHANGED <<locked, holders>>
    BY <1>3 DEF MutualExclusion
  <1>4. QED
    BY <1>1, <1>2, <1>3
       DEF Next, Step, Run, spawn, Yield, Exit, LockWait, Send, SendWait, Receive,
           ReceiveWait, mutex, vars

(* Every move of a fiber takes it out of one place and into one other. *)
LEMMA NextOnePlace == TypeOK /\ OnePlace /\ [Next]_vars => OnePlace'
  <1> SUFFICES ASSUME TypeOK, OnePlace, [Next]_vars PROVE OnePlace'
    OBVIOUS
  <1> USE FiberAssumption
  <1>0. /\ ready_queue \in Seq(Fiber) /\ waiters \in Seq(Fiber)
        /\ send_waiters \in Seq(Fiber) /\ recv_waiters \in Seq(Fiber)
    BY QueueTypes
  <1>a. ASSUME NEW f \in Fiber, NEW g \in Fiber
        PROVE  /\ Count(g, Append(ready_queue, f)) =
                    Count(g, ready_queue) + IF f = g THEN 1 ELSE 0
               /\ Count(g, Append(waiters, f)) = Count(g, waiters) + IF f = g THEN 1 ELSE 0
               /\ Count(g, Append(send_waiters, f)) =
                    Count(g, send_waiters) + IF f = g THEN 1 ELSE 0
               /\ Count(g, Append(recv_waiters, f)) =
                    Count(g, recv_waiters) + IF f = g THEN 1 ELSE 0
    BY <1>0, CountAppend
  <1>1. CASE Run
    <2>1. /\ Head(ready_queue) \in Fiber /\ Tail(ready_queue) \in Seq(Fiber)
          /\ Count(Head(ready_queue), ready_queue) >= 1
      BY <1>0, <1>1, HeadCounted DEF Run
    <2>2. state[Head(ready_queue)] = "READY"
      BY <2>1 DEF OnePlace
    <2>3. \A g \in Fiber :
            /\ Count(g, ready_queue) =
                 Count(g, ready_queue') + IF Head(ready_queue) = g THEN 1 ELSE 0
            /\ Count(g, ready_queue') \in Nat
      BY <1>0, <1>1, <2>1, CountTail, CountType DEF Run
    <2>4. /\ state' = [state EXCEPT ![Head(ready_queue)] = "RUNNING"]
          /\ current' = Head(ready_queue) /\ current = NoFiber
          /\ UNCHANGED <<pc, waiters, send_waiters, recv_waiters>>
      BY <1>1, <2>2 DEF Run, mutex, channel
    <2>5. ASSUME NEW g \in Fiber
          PROVE  Count(g, ready_queue') = IF state'[g] = "READY" THEN 1 ELSE 0
      BY <2>1, <2>2, <2>3, <2>4, SMTT(30) DEF OnePlace, TypeOK
    <2>6. QED
      BY <2>1, <2>2, <2>4, <2>5 DEF OnePlace, TypeOK
  <1>2. ASSUME NEW f \in Fiber, spawn(f) PROVE OnePlace'
    BY <1>2, <1>a DEF spawn, OnePlace, TypeOK, mutex, channel
  <1>3. ASSUME NEW f \in Fiber, Yield(f) PROVE OnePlace'
    BY <1>3, <1>a DEF Yield, YieldReady, OnePlace, TypeOK, mutex, channel
  <1>4. ASSUME NEW f \in Fiber, Exit(f) PROVE OnePlace'
    BY <1>4 DEF Exit, OnePlace, TypeOK, mutex, channel
  <1>5. ASSUME NEW f \in Fiber, Lock(f) PROVE OnePlace'
    BY <1>5 DEF Lock, Calls, OnePlace, TypeOK, sched, channel
  <1>6. ASSUME NEW f \in Fiber, LockWait(f) PROVE OnePlace'
    BY <1>6, <1>a DEF LockWait, Calls, YieldSuspended, OnePlace, TypeOK, channel
  <1>7. ASSUME NEW f \in Fiber, Unlock(f) PROVE OnePlace'
    <2>1. \A g \in Fiber :
            Count(g, waiters) = IF state[g] = "SUSPENDED" /\ pc[g] = "lock" THEN 1 ELSE 0
      BY DEF OnePlace
    <2>2. Resumed(waiters, "lock")
      BY <1>0, <1>7, <2>1, ResumeMoves DEF Unlock
    <2>3. waiters' = Rest(waiters)
      BY <1>7 DEF Unlock
    <2>4. CASE waiters = << >>
      BY <1>7, <2>2, <2>3, <2>4 DEF Resumed, Unlock, OnePlace, TypeOK, channel
    <2>5. CASE waiters # << >>
      <3>1. ASSUME NEW g \in Fiber
            PROVE  /\ Count(g, ready_queue') = IF state'[g] = "READY" THEN 1 ELSE 0
                   /\ Count(g, waiters') =
                        IF state'[g] = "SUSPENDED" /\ pc[g] = "lock" THEN 1 ELSE 0
        <4>1. /\ Count(g, ready_queue') =
                   Count(g, ready_queue) + IF Head(waiters) = g THEN 1 ELSE 0
              /\ Count(g, waiters) = Count(g, waiters') + IF Head(waiters) = g THEN 1 ELSE 0
              /\ Count(g, waiters') \in Nat
          BY <2>2, <2>3, <2>5 DEF Resumed
        <4>2. /\ Head(waiters) \in Fiber /\ state[Head(waiters)] = "SUSPENDED"
              /\ pc[Head(waiters)] = "lock"
              /\ state'[g] = IF Head(waiters) = g THEN "READY" ELSE state[g]
          BY <2>2, <2>5 DEF Resumed, TypeOK
        <4>3. QED
          BY <2>1, <4>1, <4>2 DEF OnePlace
      <3>2. /\ current = f /\ UNCHANGED <<pc, send_waiters, recv_waiters>>
        BY <1>7 DEF Unlock, channel
      <3>3. state[f] = "RUNNING"
        BY <3>2 DEF OnePlace
      <3>4. /\ Head(waiters) \in Fiber /\ state[Head(waiters)] = "SUSPENDED"
            /\ pc[Head(waiters)] = "lock" /\ current' = current
            /\ state' = [state EXCEPT ![Head(waiters)] = "READY"]
        BY <2>2, <2>5 DEF Resumed
      <3>5. QED
        BY <3>1, <3>2, <3>3, <3>4 DEF OnePlace, TypeOK
    <2>6. QED
      BY <2>4, <2>5
  <1>8. ASSUME NEW f \in Fiber, Send(f) PROVE OnePlace'
    <2>1. \A g \in Fiber :
            Count(g, recv_waiters) = IF state[g] = "SUSPENDED" /\ pc[g] = "receive" THEN 1 ELSE 0
      BY DEF OnePlace
    <2>2. Resumed(recv_waiters, "receive")
      BY <1>0, <1>8, <2>1, ResumeMoves DEF Send
    <2>3. recv_waiters' = Rest(recv_waiters)
      BY <1>8 DEF Send
    <2>4. CASE recv_waiters = << >>
      BY <1>8, <2>2, <2>3, <2>4 DEF Resumed, Send, Calls, OnePlace, TypeOK, mutex
    <2>5. CASE recv_waiters # << >>
      <3>1. ASSUME NEW g \in Fiber
            PROVE  /\ Count(g, ready_queue') = IF state'[g] = "READY" THEN 1 ELSE 0
                   /\ Count(g, recv_waiters') =
                        IF state'[g] = "SUSPENDED" /\ pc[g] = "receive" THEN 1 ELSE 0
        <4>1. /\ Count(g, ready_queue') =
                   Count(g, ready_queue) + IF Head(recv_waiters) = g THEN 1 ELSE 0
              /\ Count(g, recv_waiters) = Count(g, recv_waiters') + IF Head(recv_waiters) = g THEN 1 ELSE 0
              /\ Count(g, recv_waiters') \in Nat
          BY <2>2, <2>3, <2>5 DEF Resumed
        <4>2. /\ Head(recv_waiters) \in Fiber /\ state[Head(recv_waiters)] = "SUSPENDED"
              /\ pc[Head(recv_waiters)] = "receive"
              /\ state'[g] = IF Head(recv_waiters) = g THEN "READY" ELSE state[g]
          BY <2>2, <2>5 DEF Resumed, TypeOK
        <4>3. QED
          BY <2>1, <4>1, <4>2 DEF OnePlace
      <3>2. /\ current = f /\ UNCHANGED <<waiters, send_waiters>>
            /\ pc' = [pc EXCEPT ![f] = "client"]
        BY <1>8 DEF Send, Calls, mutex
      <3>3. state[f] = "RUNNING"
        BY <3>2 DEF OnePlace
      <3>4. /\ Head(recv_waiters) \in Fiber /\ state[Head(recv_waiters)] = "SUSPENDED"
            /\ pc[Head(recv_waiters)] = "receive" /\ current' = current
            /\ state' = [state EXCEPT ![Head(recv_waiters)] = "READY"]
        BY <2>2, <2>5 DEF Resumed
      <3>5. QED
        BY <3>1, <3>2, <3>3, <3>4 DEF OnePlace, TypeOK
    <2>6. QED
      BY <2>4, <2>5
  <1>9. ASSUME NEW f \in Fiber, SendWait(f) PROVE OnePlace'
    BY <1>9, <1>a DEF SendWait, Calls, YieldSuspended, OnePlace, TypeOK, mutex
  <1>10. ASSUME NEW f \in Fiber, Receive(f) PROVE OnePlace'
    <2>1. \A g \in Fiber :
            Count(g, send_waiters) = IF state[g] = "SUSPENDED" /\ pc[g] = "send" THEN 1 ELSE 0
      BY DEF OnePlace
    <2>2. Resumed(send_waiters, "send")
      BY <1>0, <1>10, <2>1, ResumeMoves DEF Receive
    <2>3. send_waiters' = Rest(send_waiters)
      BY <1>10 DEF Receive
    <2>4. CASE send_waiters = << >>
      BY <1>10, <2>2, <2>3, <2>4 DEF Resumed, Receive, Calls, OnePlace, TypeOK, mutex
    <2>5. CASE send_waiters # << >>
      <3>1. ASSUME NEW g \in Fiber
            PROVE  /\ Count(g, ready_queue') = IF state'[g] = "READY" THEN 1 ELSE 0
                   /\ Count(g, send_waiters') =
                        IF state'[g] = "SUSPENDED" /\ pc[g] = "send" THEN 1 ELSE 0
        <4>1. /\ Count(g, ready_queue') =
                   Count(g, ready_queue) + IF Head(send_waiters) = g THEN 1 ELSE 0
              /\ Count(g, send_waiters) = Count(g, send_waiters') + IF Head(send_waiters) = g THEN 1 ELSE 0
              /\ Count(g, send_waiters') \in Nat
          BY <2>2, <2>3, <2>5 DEF Resumed
        <4>2. /\ Head(send_waiters) \in Fiber /\ state[Head(send_waiters)] = "SUSPENDED"
              /\ pc[Head(send_waiters)] = "send"
              /\ state'[g] = IF Head(send_waiters) = g THEN "READY" ELSE state[g]
          BY <2>2, <2>5 DEF Resumed, TypeOK
        <4>3. QED
          BY <2>1, <4>1, <4>2 DEF OnePlace
      <3>2. /\ current = f /\ UNCHANGED <<waiters, recv_waiters>>
            /\ pc' = [pc EXCEPT ![f] = "client"]
        BY <1>10 DEF Receive, Calls, mutex
      <3>3. state[f] = "RUNNING"
        BY <3>2 DEF OnePlace
      <3>4. /\ Head(send_waiters) \in Fiber /\ state[Head(send_waiters)] = "SUSPENDED"
            /\ pc[Head(send_waiters)] = "send" /\ current' = current
            /\ state' = [state EXCEPT ![Head(send_waiters)] = "READY"]
        BY <2>2, <2>5 DEF Resumed
      <3>5. QED
        BY <3>1, <3>2, <3>3, <3>4 DEF OnePlace, TypeOK
    <2>6. QED
      BY <2>4, <2>5
  <1>11. ASSUME NEW f \in Fiber, ReceiveWait(f) PROVE OnePlace'
    BY <1>11, <1>a DEF ReceiveWait, Calls, YieldSuspended, OnePlace, TypeOK, mutex
  <1>12. CASE UNCHANGED vars
    BY <1>12 DEF vars, OnePlace
  <1>13. QED
    BY <1>1, <1>2, <1>3, <1>4, <1>5, <1>6, <1>7, <1>8, <1>9, <1>10, <1>11, <1>12
       DEF Next, Step

(* A free mutex, room or a value is always matched by fibers that retry.   *)
LEMMA NextWakeups ==
  TypeOK /\ OnePlace /\ WakeupsUnderWay /\ [Next]_vars => WakeupsUnderWay'
  <1> SUFFICES ASSUME TypeOK, OnePlace, WakeupsUnderWay, [Next]_vars
               PROVE  WakeupsUnderWay'
    OBVIOUS
  <1> USE FiberAssumption
  <1>0. /\ ready_queue \in Seq(Fiber) /\ waiters \in Seq(Fiber)
        /\ send_waiters \in Seq(Fiber) /\ recv_waiters \in Seq(Fiber)
        /\ queue \in Nat
    BY QueueTypes DEF TypeOK
  <1>a. ASSUME NEW loop \in {"lock", "send", "receive"}
        PROVE  /\ IsFiniteSet(Retrying(loop)) /\ Cardinality(Retrying(loop)) \in Nat
               /\ IsFiniteSet(Retrying(loop)') /\ Cardinality(Retrying(loop)') \in Nat
    <2>1. Retrying(loop) \subseteq Fiber /\ Retrying(loop)' \subseteq Fiber
      BY DEF Retrying
    <2>2. QED
      BY <2>1, FS_Subset, FS_CardinalityType
  <1>1. ASSUME Run \/ (\E f \in Fiber : spawn(f) \/ Yield(f) \/ Exit(f)) PROVE WakeupsUnderWay'
    <2>1. UNCHANGED <<locked, waiters, queue, send_waiters, recv_waiters>>
      BY <1>1 DEF Run, spawn, Yield, Exit, mutex, channel
    <2>2. ASSUME NEW loop \in {"lock", "send", "receive"}
          PROVE  Retrying(loop) \subseteq Retrying(loop)'
      <3>1. CASE Run
        <4>1. Head(ready_queue) \in Fiber
          BY <1>0, <3>1, HeadTailProperties DEF Run
        <4>2. QED
          BY <3>1, <4>1 DEF Run, Retrying, TypeOK
      <3>2. ASSUME NEW f \in Fiber, spawn(f) \/ Yield(f) \/ Exit(f)
            PROVE  Retrying(loop) \subseteq Retrying(loop)'
        BY <3>2 DEF spawn, Yield, YieldReady, Exit, Retrying, TypeOK
      <3>3. QED
        BY <1>1, <3>1, <3>2
    <2>3. ASSUME NEW loop \in {"lock", "send", "receive"}
          PROVE  Cardinality(Retrying(loop)) <= Cardinality(Retrying(loop)')
      BY <1>a, <2>2, FS_Subset
    <2>4. Retrying("lock") # {} => Retrying("lock")' # {}
      BY <2>2
    <2>5. QED
      BY <1>0, <1>a, <2>1, <2>3, <2>4 DEF WakeupsUnderWay
  <1>2. ASSUME NEW f \in Fiber, Lock(f) \/ LockWait(f) PROVE WakeupsUnderWay'
    <2>1. locked' /\ UNCHANGED <<queue, send_waiters, recv_waiters>>
      BY <1>2 DEF Lock, LockWait, channel, TypeOK
    <2>2. Retrying("send")' = Retrying("send") /\ Retrying("receive")' = Retrying("receive")
      BY <1>2 DEF Lock, LockWait, Calls, YieldSuspended, Retrying, TypeOK, sched
    <2>3. QED
      BY <2>1, <2>2 DEF WakeupsUnderWay
  <1>3. ASSUME NEW f \in Fiber, Unlock(f) PROVE WakeupsUnderWay'
    <2>1. Resumed(waiters, "lock")
      BY <1>0, <1>3, ResumeMoves DEF Unlock, OnePlace
    <2>2. UNCHANGED <<pc, queue, send_waiters, recv_waiters>> /\ waiters' = Rest(waiters)
      BY <1>3 DEF Unlock, channel
    <2>3. Retrying("send")' = Retrying("send") /\ Retrying("receive")' = Retrying("receive")
      BY <2>1, <2>2 DEF Resumed, Retrying, TypeOK
    <2>4. waiters' # << >> => Retrying("lock")' # {}
      <3>1. waiters # << >> => Head(waiters) \in Retrying("lock")'
        BY <2>1, <2>2 DEF Resumed, Retrying, TypeOK
      <3>2. QED
        BY <2>1, <2>2, <3>1 DEF Resumed
    <2>5. QED
      BY <2>2, <2>3, <2>4 DEF WakeupsUnderWay
  <1>4. ASSUME NEW f \in Fiber, Send(f) PROVE WakeupsUnderWay'
    <2>1. Resumed(recv_waiters, "receive")
      BY <1>0, <1>4, ResumeMoves DEF Send, OnePlace
    <2>2. /\ UNCHANGED <<locked, waiters, send_waiters>> /\ queue' = queue + 1
          /\ recv_waiters' = Rest(recv_waiters)
          /\ pc[f] \in {"client", "send"} /\ pc' = [pc EXCEPT ![f] = "client"]
          /\ current = f
      BY <1>4 DEF Send, Calls, mutex
    <2>3. state[f] = "RUNNING"
      BY <2>2 DEF OnePlace
    <2>4. Retrying("lock")' = Retrying("lock")
      BY <2>1, <2>2 DEF Resumed, Retrying, TypeOK
    <2>5. Retrying("send") \ {f} = Retrying("send")'
      BY <2>1, <2>2 DEF Resumed, Retrying, TypeOK
    <2>6. Cardinality(Retrying("send")') >= Cardinality(Retrying("send")) - 1
      BY <1>a, <2>5, FS_RemoveElement
    <2>7. recv_waiters # << >> =>
            Cardinality(Retrying("receive")') = Cardinality(Retrying("receive")) + 1
      <3> SUFFICES ASSUME recv_waiters # << >>
                   PROVE  Cardinality(Retrying("receive")') = Cardinality(Retrying("receive")) + 1
        OBVIOUS
      <3>1. /\ Retrying("receive")' = Retrying("receive") \cup {Head(recv_waiters)}
            /\ Head(recv_waiters) \notin Retrying("receive")
        BY <2>1, <2>2, <2>3, SMTT(30) DEF Resumed, Retrying, TypeOK
      <3>2. QED
        BY <1>a, <3>1, FS_AddElement
    <2>8. recv_waiters' # << >> => recv_waiters # << >>
      BY <2>1, <2>2 DEF Resumed
    <2>9. send_waiters' # << >> => queue' + Cardinality(Retrying("send")') >= Capacity
      <3>1. /\ Cardinality(Retrying("send")) \in Nat /\ Cardinality(Retrying("send")') \in Nat
            /\ send_waiters' # << >> => queue + Cardinality(Retrying("send")) >= Capacity
        BY <1>a, <2>2 DEF WakeupsUnderWay
      <3>2. QED
        BY <1>0, <2>2, <2>6, <3>1
    <2>10. recv_waiters' # << >> => Cardinality(Retrying("receive")') >= queue'
      <3>1. /\ Cardinality(Retrying("receive")) \in Nat /\ Cardinality(Retrying("receive")') \in Nat
            /\ recv_waiters' # << >> => Cardinality(Retrying("receive")) >= queue
        BY <1>a, <2>8 DEF WakeupsUnderWay
      <3>2. QED
        BY <1>0, <2>2, <2>7, <2>8, <3>1
    <2>11. QED
      BY <2>2, <2>4, <2>9, <2>10 DEF WakeupsUnderWay
  <1>5. ASSUME NEW f \in Fiber, SendWait(f) PROVE WakeupsUnderWay'
    <2>1. /\ UNCHANGED <<locked, waiters, queue, recv_waiters>> /\ queue >= Capacity
          /\ pc[f] \in {"client", "send"} /\ pc' = [pc EXCEPT ![f] = "send"]
          /\ state' = [state EXCEPT ![f] = "SUSPENDED"]
      BY <1>5 DEF SendWait, Calls, YieldSuspended, mutex
    <2>2. Retrying("lock")' = Retrying("lock") /\ Retrying("receive")' = Retrying("receive")
      BY <2>1 DEF Retrying, TypeOK
    <2>3. QED
      BY <1>0, <1>a, <2>1, <2>2 DEF WakeupsUnderWay
  <1>6. ASSUME NEW f \in Fiber, Receive(f) PROVE WakeupsUnderWay'
    <2>1. Resumed(send_waiters, "send")
      BY <1>0, <1>6, ResumeMoves DEF Receive, OnePlace
    <2>2. /\ UNCHANGED <<locked, waiters, recv_waiters>> /\ queue' = queue - 1 /\ queue > 0
          /\ send_waiters' = Rest(send_waiters)
          /\ pc[f] \in {"client", "receive"} /\ pc' = [pc EXCEPT ![f] = "client"]
          /\ current = f
      BY <1>6 DEF Receive, Calls, mutex
    <2>3. state[f] = "RUNNING"
      BY <2>2 DEF OnePlace
    <2>4. Retrying("lock")' = Retrying("lock")
      BY <2>1, <2>2 DEF Resumed, Retrying, TypeOK
    <2>5. Retrying("receive") \ {f} = Retrying("receive")'
      BY <2>1, <2>2 DEF Resumed, Retrying, TypeOK
    <2>6. Cardinality(Retrying("receive")') >= Cardinality(Retrying("receive")) - 1
      BY <1>a, <2>5, FS_RemoveElement, SMTT(30)
    <2>7. send_waiters # << >> =>
            Cardinality(Retrying("send")') = Cardinality(Retrying("send")) + 1
      <3> SUFFICES ASSUME send_waiters # << >>
                   PROVE  Cardinality(Retrying("send")') = Cardinality(Retrying("send")) + 1
        OBVIOUS
      <3>1. /\ Retrying("send")' = Retrying("send") \cup {Head(send_waiters)}
            /\ Head(send_waiters) \notin Retrying("send")
        BY <2>1, <2>2, <2>3 DEF Resumed, Retrying, TypeOK
      <3>2. QED
        BY <1>a, <3>1, FS_AddElement
    <2>8. send_waiters' # << >> => send_waiters # << >>
      BY <2>1, <2>2 DEF Resumed
    <2>9. QED
      BY <1>0, <1>a, <2>2, <2>4, <2>6, <2>7, <2>8 DEF WakeupsUnderWay
  <1>7. ASSUME NEW f \in Fiber, ReceiveWait(f) PROVE WakeupsUnderWay'
    <2>1. /\ UNCHANGED <<locked, waiters, queue, send_waiters>> /\ queue = 0
          /\ pc[f] \in {"client", "receive"} /\ pc' = [pc EXCEPT ![f] = "receive"]
          /\ state' = [state EXCEPT ![f] = "SUSPENDED"]
      BY <1>7 DEF ReceiveWait, Calls, YieldSuspended, mutex
    <2>2. Retrying("lock")' = Retrying("lock") /\ Retrying("send")' = Retrying("send")
      BY <2>1 DEF Retrying, TypeOK
    <2>3. QED
      BY <1>0, <1>a, <2>1, <2>2 DEF WakeupsUnderWay
  <1>8. CASE UNCHANGED vars
    BY <1>8 DEF vars, WakeupsUnderWay, Retrying
  <1>9. QED
    BY <1>1, <1>2, <1>3, <1>4, <1>5, <1>6, <1>7, <1>8 DEF Next, Step

-----------------------------------------------------------------------------
(* Every reachable state satisfies the inductive invariant. *)
LEMMA Invariance == Spec => []IndInv
  <1>1. IndInv /\ [Next]_vars => IndInv'
    BY NextType, NextExclusion, NextOnePlace, NextWakeups DEF IndInv
  <1>2. QED
    BY <1>1, InitInv, PTL DEF Spec

(* For every number of fibers, at most one is between lock() and unlock(), *)
(* however fibers barge in between a resumption and its turn, and locked_  *)
(* tells whether there is one.                                             *)
THEOREM Exclusion == Spec => []MutualExclusion
  <1>1. IndInv => MutualExclusion
    BY DEF IndInv
  <1>2. QED
    BY <1>1, Invariance, PTL

(* Every fiber is running, or exactly once in the queue its state calls    *)
(* for, or finished: resume() and yield() neither duplicate nor drop one.  *)
THEOREM FiberInOnePlace == Spec => []OnePlace
  <1>1. IndInv => OnePlace
    BY DEF IndInv
  <1>2. QED
    BY <1>1, Invariance, PTL

(* When run() returns, no fiber waits for a free mutex, for room in a      *)
(* channel that has room or for a value in one that has a value.           *)
THEOREM NoLostWakeup == Spec => []NothingForgotten
  <1>1. IndInv => NothingForgotten
    <2> SUFFICES ASSUME IndInv, current = NoFiber, ready_queue = << >>
                 PROVE  /\ waiters # << >> => locked
                        /\ send_waiters # << >> => queue = Capacity
                        /\ recv_waiters # << >> => queue = 0
      BY DEF NothingForgotten
    <2>1. TypeOK /\ OnePlace /\ WakeupsUnderWay
      BY DEF IndInv
    <2>2. ASSUME NEW f \in Fiber PROVE state[f] \notin {"READY", "RUNNING"}
      <3>1. Count(f, ready_queue) = 0
        BY CountEmpty
      <3>2. QED
        BY <2>1, <3>1, FiberAssumption DEF OnePlace
    <2>3. \A loop : Retrying(loop) = {}
      BY <2>2 DEF Retrying
    <2>4. Cardinality(Retrying("send")) = 0 /\ Cardinality(Retrying("receive")) = 0
      BY <2>3, FS_EmptySet
    <2>5. QED
      BY <2>1, <2>3, <2>4, FiberAssumption DEF WakeupsUnderWay, TypeOK
  <1>2. QED
    BY <1>1, Invariance, PTL

-----------------------------------------------------------------------------
(* EmbeddedLsmDatabase.                                                    *)

(* The least-number principle, for sets: the form of induction used here.  *)
LEMMA LeastNumber ==
  ASSUME NEW T \in SUBSET Nat, T # {}
  PROVE  \E x \in T : \A y \in T : x <= y
  <1> DEFINE R == {ss \in Nat \X Nat : ss[1] < ss[2]}
  <1>1. IsWellFoundedOn(OpToRel(<, Nat), Nat)
    BY NatLessThanWellFounded
  <1>2. R = OpToRel(<, Nat)
    BY Zenon DEF OpToRel
  <1> HIDE DEF R
  <1>3. IsWellFoundedOn(R, Nat)
    BY <1>1, <1>2, Zenon
  <1>4. PICK x \in T : \A y \in T : ~(<<y, x>> \in R)
    BY <1>3, WFMin
  <1>5. ASSUME NEW y \in T
        PROVE  x <= y
    <2>1. x \in Nat /\ y \in Nat
      OBVIOUS
    <2>2. <<y, x>> \in Nat \X Nat /\ <<y, x>>[1] = y /\ <<y, x>>[2] = x
      BY <2>1
    <2>3. ~(y < x)
      BY <1>4, <2>2, Zenon DEF R
    <2>4. QED
      BY <2>1, <2>3
  <1>6. QED
    BY <1>5

(* The greatest of some positions, as LastIn chooses it. *)
LEMMA GreatestChosen ==
  ASSUME NEW n \in Nat, NEW T \in SUBSET (1 .. n), T # {}
  PROVE  LET c == CHOOSE i \in T : \A j \in T : j <= i IN c \in T /\ \A j \in T : j <= c
  <1> DEFINE F == {n - i : i \in T}
  <1>1. F \in SUBSET Nat /\ F # {}
    <2>1. \A i \in T : i \in 1 .. n
      OBVIOUS
    <2>2. \A i \in T : n - i \in Nat
      BY <2>1
    <2>3. QED
      BY <2>2
  <1>2. PICK x \in F : \A y \in F : x <= y
    BY <1>1, LeastNumber
  <1>3. PICK i \in T : x = n - i
    OBVIOUS
  <1>4. \A j \in T : j <= i
    <2> SUFFICES ASSUME NEW j \in T PROVE j <= i
      OBVIOUS
    <2>1. n - j \in F
      OBVIOUS
    <2>2. n - i <= n - j
      BY <1>2, <1>3, <2>1
    <2>3. QED
      BY <2>2
  <1>5. QED
    BY <1>4

-----------------------------------------------------------------------------
(* Puts are logged in the order of their calls, and a put knows as over    *)
(* only earlier ones.                                                      *)
LogInv ==
  /\ \A i \in 1 .. Len(wal) : wal[i] = <<key_of[i], i>>
  /\ \A p \in Put : call[p] # "not called" <=> p <= Len(wal)
  /\ \A p \in Put : \A q \in pre[p] : q < p /\ call[q] \in {"returned", "killed"}
  /\ lives = 0 => wal = << >> /\ proc = "down"

(* Whatever memtable, tables and files hold is a logged put of its key.    *)
Holds(m) == \A k \in Key : m[k] # None => m[k] <= Len(wal) /\ key_of[m[k]] = k
DataInv ==
  /\ proc # "down" => next_sst_id <= MaxTables
  /\ Holds(memtable)
  /\ \A t \in DOMAIN sstables : Holds(sstables[t].data)
  /\ \A f \in FileId : Holds(files[f].data)

(* The tables above position b were flushed after the last recovery: the   *)
(* next flush does not take their files, and nothing has overwritten them. *)
Own(b) ==
  \A t \in b + 1 .. Len(sstables) : sstables[t].file < next_sst_id /\ ~Stale(t)

(* get finds put p under k in memtable m or in a table above b.            *)
Seen(m, b, k, p) ==
  \/ m[k] = p
  \/ /\ m[k] = None
     /\ \E t \in b + 1 .. Len(sstables) :
          /\ sstables[t].data[k] = p
          /\ \A u \in t + 1 .. Len(sstables) : sstables[u].data[k] = None

(* The puts of D have their keys seen, with values none of them replaced.  *)
Reads(m, D, b) ==
  \A q \in D : \E p \in Put :
    Seen(m, b, key_of[q], p) /\ \A r \in D : key_of[r] = key_of[q] => p \notin pre[r]

(* The returned puts whose key no failed flush dropped.                    *)
Shown == {q \in Done : key_of[q] \notin lost}

(* No search for a key that such a put wrote ever gets down to the tables  *)
(* recover opened, whose files a flush may overwrite.                      *)
ReadyInv == ready => \E b \in 0 .. Len(sstables) : Own(b) /\ Reads(memtable, Shown, b)

DbInv == DbTypeOK /\ LogInv /\ DataInv /\ ReadyInv

-----------------------------------------------------------------------------
(* The constants, and the numbers that stand for no put. *)
LEMMA Numbers ==
  /\ MaxPuts \in Nat /\ MaxTables \in Nat /\ MaxLives \in Nat /\ MaxRecovers \in Nat
  /\ \A p \in Put : p \in Nat /\ 1 <= p /\ p <= MaxPuts
  /\ None \notin Put /\ Garbage \notin Put
  BY EmbeddedAssumption DEF Put, None, Garbage

(* The empty memtable. *)
LEMMA EmptyTyped ==
  EmptyTable \in Table /\ \A k \in Key : EmptyTable[k] = None
  BY DEF EmptyTable, Table

(* The search from the newest table down: it ends at the newest table      *)
(* that is stale or has the key.                                           *)
LEMMA Searched ==
  ASSUME sstables \in Seq([file : FileId, data : Table]), NEW k \in Key
  PROVE  \/ /\ SearchTables(k) = None
            /\ \A t \in 1 .. Len(sstables) : ~Stale(t) /\ sstables[t].data[k] = None
         \/ \E t \in 1 .. Len(sstables) :
              /\ \A u \in t + 1 .. Len(sstables) : ~Stale(u) /\ sstables[u].data[k] = None
              /\ \/ Stale(t) /\ SearchTables(k) = Garbage
                 \/ ~Stale(t) /\ sstables[t].data[k] # None /\ SearchTables(k) = sstables[t].data[k]
  <1> DEFINE N == Len(sstables)
             run(f) == [t \in 0 .. N |->
               IF t = 0 THEN None
               ELSE IF Stale(t) THEN Garbage
               ELSE IF sstables[t].data[k] # None THEN sstables[t].data[k]
               ELSE f[t - 1]]
             at == CHOOSE f : f = run(f)
             H(t) == {i \in 1 .. t : Stale(i) \/ sstables[i].data[k] # None}
             top(t) == CHOOSE i \in H(t) : \A j \in H(t) : j <= i
             val(i) == IF Stale(i) THEN Garbage ELSE sstables[i].data[k]
             g == [t \in 0 .. N |-> IF H(t) = {} THEN None ELSE val(top(t))]
  <1>1. N \in Nat
    BY LenProperties
  <1>2. ASSUME NEW t \in 0 .. N, H(t) # {}
        PROVE  top(t) \in H(t) /\ \A j \in H(t) : j <= top(t)
    <2>1. H(t) \in SUBSET (1 .. t) /\ t \in Nat
      BY <1>1
    <2> HIDE DEF H
    <2>2. QED
      BY <1>2, <2>1, GreatestChosen
  <1>3. SearchTables(k) = at[N]
    BY DEF SearchTables
  <1> HIDE DEF N
  <1>4. g = run(g)
    <2> SUFFICES ASSUME NEW t \in 0 .. N
                 PROVE  g[t] = IF t = 0 THEN None
                               ELSE IF Stale(t) THEN Garbage
                               ELSE IF sstables[t].data[k] # None THEN sstables[t].data[k]
                               ELSE g[t - 1]
      <3> HIDE DEF H, top, val
      <3>1. QED
        OBVIOUS
    <2>1. CASE t = 0
      <3>1. H(t) = {}
        BY <2>1
      <3>2. QED
        BY <2>1, <3>1
    <2>2. CASE t # 0 /\ (Stale(t) \/ sstables[t].data[k] # None)
      <3>1. t \in H(t)
        BY <1>1, <2>2
      <3>2. top(t) = t
        <4>1. top(t) \in H(t) /\ t <= top(t)
          BY <1>2, <3>1
        <4>2. top(t) \in 1 .. t
          BY <4>1
        <4> HIDE DEF top
        <4>3. QED
          BY <1>1, <4>1, <4>2
      <3>3. H(t) # {}
        BY <3>1
      <3> HIDE DEF top, H
      <3>4. g[t] = val(t)
        BY <3>2, <3>3
      <3>5. QED
        BY <2>2, <3>4
    <2>3. CASE t # 0 /\ ~Stale(t) /\ sstables[t].data[k] = None
      <3>1. t - 1 \in 0 .. N
        BY <1>1, <2>3
      <3>2. H(t) = H(t - 1)
        <4>1. \A i \in 1 .. t : i = t \/ i \in 1 .. t - 1
          BY <1>1
        <4>2. \A i \in 1 .. t - 1 : i \in 1 .. t
          BY <1>1
        <4>3. QED
          BY <2>3, <4>1, <4>2
      <3>3. g[t] = (IF H(t) = {} THEN None ELSE val(top(t))) /\ g[t - 1] = IF H(t - 1) = {} THEN None ELSE val(top(t - 1))
        BY <3>1
      <3>4. g[t] = g[t - 1]
        BY <3>2, <3>3
      <3> HIDE DEF g
      <3>5. QED
        BY <2>3, <3>4
    <2>4. QED
      BY <2>1, <2>2, <2>3
  <1> HIDE DEF g
  <1>5. at = run(at)
    BY <1>4
  <1> HIDE DEF at
  <1>6. \A t \in 0 .. N : at[t] = g[t]
    <2> DEFINE T == {t \in 0 .. N : at[t] # g[t]}
    <2> SUFFICES ASSUME T # {} PROVE FALSE
      OBVIOUS
    <2>1. T \in SUBSET Nat
      BY <1>1
    <2>2. PICK t \in T : \A j \in T : t <= j
      BY <2>1, LeastNumber
    <2>3. t \in 0 .. N /\ at[t] # g[t]
      OBVIOUS
    <2>4. /\ at[t] = IF t = 0 THEN None
                     ELSE IF Stale(t) THEN Garbage
                     ELSE IF sstables[t].data[k] # None THEN sstables[t].data[k]
                     ELSE at[t - 1]
          /\ g[t] = IF t = 0 THEN None
                    ELSE IF Stale(t) THEN Garbage
                    ELSE IF sstables[t].data[k] # None THEN sstables[t].data[k]
                    ELSE g[t - 1]
      BY <1>4, <1>5, <2>3
    <2>5. t # 0
      BY <2>3, <2>4
    <2>6. t - 1 \in 0 .. N /\ ~(t <= t - 1)
      BY <1>1, <2>3, <2>5
    <2>7. at[t - 1] = g[t - 1]
      BY <2>2, <2>6
    <2>8. QED
      BY <2>3, <2>4, <2>7
  <1>7. SearchTables(k) = IF H(N) = {} THEN None ELSE val(top(N))
    <2> HIDE DEF H, top, val
    <2>1. N \in 0 .. N
      BY <1>1
    <2>2. QED
      BY <1>3, <1>6, <2>1 DEF g
  <1>8. CASE H(N) = {}
    BY <1>7, <1>8 DEF N
  <1>9. CASE H(N) # {}
    <2>1. top(N) \in H(N) /\ \A j \in H(N) : j <= top(N)
      <3> HIDE DEF H, top
      <3>1. N \in 0 .. N
        BY <1>1
      <3>2. QED
        BY <1>2, <1>9, <3>1
    <2>2. PICK c : c = top(N)
      OBVIOUS
    <2> HIDE DEF top
    <2>3. c \in 1 .. N /\ (Stale(c) \/ sstables[c].data[k] # None)
      BY <2>1, <2>2
    <2>4. ASSUME NEW u \in c + 1 .. N
          PROVE  ~Stale(u) /\ sstables[u].data[k] = None
      <3>1. u \in 1 .. N /\ ~(u <= c)
        BY <1>1, <2>3
      <3>2. u \notin H(N)
        BY <2>1, <2>2, <3>1
      <3>3. QED
        BY <3>1, <3>2
    <2>5. SearchTables(k) = val(c)
      BY <1>7, <1>9, <2>2
    <2>6. QED
      BY <2>3, <2>4, <2>5 DEF N
  <1>10. QED
    BY <1>8, <1>9

(* Replaying the log gives, for every key, the last put of it that was     *)
(* logged.                                                                 *)
LEMMA ReplayedLast ==
  ASSUME DbTypeOK, LogInv, NEW k \in Key
  PROVE  \/ Replayed(wal)[k] = None /\ \A p \in Put : p <= Len(wal) => key_of[p] # k
         \/ /\ Replayed(wal)[k] \in Put /\ Replayed(wal)[k] <= Len(wal)
            /\ key_of[Replayed(wal)[k]] = k
            /\ \A p \in Put : p <= Len(wal) /\ key_of[p] = k => p <= Replayed(wal)[k]
  <1> DEFINE at == {i \in DOMAIN wal : wal[i][1] = k}
             c == CHOOSE i \in at : \A j \in at : j <= i
  <1>1. wal \in Seq(Key \X Put) /\ Len(wal) \in Nat /\ DOMAIN wal = 1 .. Len(wal) /\ Len(wal) <= MaxPuts
    BY LenProperties DEF DbTypeOK
  <1>2. \A i \in 1 .. Len(wal) : wal[i][1] = key_of[i] /\ wal[i][2] = i
    <2> SUFFICES ASSUME NEW i \in 1 .. Len(wal)
                 PROVE  wal[i][1] = key_of[i] /\ wal[i][2] = i
      OBVIOUS
    <2>1. wal[i] = <<key_of[i], i>>
      BY DEF LogInv
    <2>2. QED
      BY <2>1
  <1>3. Replayed(wal)[k] = IF at = {} THEN None ELSE wal[c][2]
    BY DEF Replayed, LastIn
  <1>4. \A p \in Put : p <= Len(wal) => p \in 1 .. Len(wal)
    BY <1>1, Numbers DEF Put
  <1>5. at \in SUBSET (1 .. Len(wal))
    BY <1>1
  <1>6. CASE at = {}
    <2>1. \A p \in 1 .. Len(wal) : key_of[p] # k
      BY <1>1, <1>2, <1>6
    <2> HIDE DEF at, c
    <2>2. QED
      BY <1>3, <1>4, <1>6, <2>1
  <1>7. CASE at # {}
    <2>1. c \in at /\ \A j \in at : j <= c
      <3> HIDE DEF at
      <3>1. QED
        BY <1>1, <1>5, <1>7, GreatestChosen
    <2>2. PICK x : x = c
      OBVIOUS
    <2> HIDE DEF c
    <2>3. x \in 1 .. Len(wal) /\ wal[x][1] = k
      BY <1>1, <2>1, <2>2
    <2>4. Replayed(wal)[k] = x /\ key_of[x] = k
      BY <1>2, <1>3, <1>7, <2>2, <2>3
    <2>5. \A p \in 1 .. Len(wal) : key_of[p] = k => p <= x
      BY <1>1, <1>2, <2>1, <2>2
    <2>6. x \in Put /\ x <= Len(wal)
      BY <1>1, <2>3, Numbers DEF Put
    <2> HIDE DEF at
    <2>7. QED
      BY <1>4, <2>4, <2>5, <2>6
  <1>8. QED
    BY <1>6, <1>7

(* Whatever put get answers with was logged, and is a put of that key.     *)
LEMMA GetLogged ==
  ASSUME DbInv, NEW k \in Key, get(k) \in Put
  PROVE  get(k) <= Len(wal) /\ key_of[get(k)] = k
  <1>1. sstables \in Seq([file : FileId, data : Table]) /\ DOMAIN sstables = 1 .. Len(sstables)
    BY LenProperties DEF DbInv, DbTypeOK
  <1>2. CASE memtable[k] # None
    BY <1>2 DEF DbInv, DataInv, Holds, get
  <1>3. CASE memtable[k] = None
    <2>1. get(k) = SearchTables(k)
      BY <1>3 DEF get
    <2>2. SearchTables(k) # None /\ SearchTables(k) # Garbage
      BY <2>1, Numbers
    <2>3. PICK t \in 1 .. Len(sstables) : sstables[t].data[k] # None /\ SearchTables(k) = sstables[t].data[k]
      BY <1>1, <2>2, Searched
    <2>4. Holds(sstables[t].data)
      BY <1>1 DEF DbInv, DataInv
    <2>5. QED
      BY <2>1, <2>3, <2>4 DEF Holds
  <1>4. QED
    BY <1>2, <1>3

(* A put that is seen is what get returns: no table above it is stale or   *)
(* has the key.                                                            *)
LEMMA SeenRead ==
  ASSUME DbTypeOK, NEW b \in 0 .. Len(sstables), Own(b), NEW k \in Key, NEW p \in Put,
         Seen(memtable, b, k, p)
  PROVE  get(k) = p
  <1>1. sstables \in Seq([file : FileId, data : Table]) /\ Len(sstables) \in Nat
    BY LenProperties DEF DbTypeOK
  <1>2. CASE memtable[k] # None
    BY <1>2 DEF get, Seen
  <1>3. CASE memtable[k] = None
    <2>1. PICK t \in b + 1 .. Len(sstables) :
            /\ sstables[t].data[k] = p
            /\ \A u \in t + 1 .. Len(sstables) : sstables[u].data[k] = None
      BY <1>3, Numbers DEF Seen
    <2>2. t \in 1 .. Len(sstables) /\ p # None
      BY <1>1, Numbers
    <2>3. PICK v \in 1 .. Len(sstables) :
            /\ \A u \in v + 1 .. Len(sstables) : ~Stale(u) /\ sstables[u].data[k] = None
            /\ \/ Stale(v) /\ SearchTables(k) = Garbage
               \/ ~Stale(v) /\ sstables[v].data[k] # None /\ SearchTables(k) = sstables[v].data[k]
      BY <1>1, <2>1, <2>2, Searched
    <2>4. ~(t < v)
      <3> SUFFICES ASSUME t < v PROVE FALSE
        OBVIOUS
      <3>1. v \in t + 1 .. Len(sstables) /\ v \in b + 1 .. Len(sstables)
        BY <1>1, <2>2
      <3>2. QED
        BY <2>1, <2>3, <3>1 DEF Own
    <2>5. ~(v < t)
      <3> SUFFICES ASSUME v < t PROVE FALSE
        OBVIOUS
      <3>1. t \in v + 1 .. Len(sstables)
        BY <1>1, <2>2
      <3>2. QED
        BY <2>1, <2>2, <2>3, <3>1
    <2>6. v = t
      BY <1>1, <2>2, <2>4, <2>5
    <2>7. SearchTables(k) = p
      BY <2>1, <2>3, <2>6 DEF Own
    <2>8. QED
      BY <1>3, <2>7 DEF get
  <1>4. QED
    BY <1>2, <1>3

(* What is seen is what get returns. *)
LEMMA ReadNotStale ==
  ASSUME DbInv
  PROVE  NoStaleRead
  <1> SUFFICES ASSUME ready, NEW k \in Key \ lost
               PROVE  LET written == {q \in Done : key_of[q] = k}
                      IN  /\ written # {} => get(k) \in Put
                          /\ get(k) \in Put => /\ key_of[get(k)] = k
                                               /\ \A q \in written : get(k) \notin pre[q]
    BY DEF NoStaleRead
  <1> DEFINE written == {q \in Done : key_of[q] = k}
  <1>1. PICK b \in 0 .. Len(sstables) : Own(b) /\ Reads(memtable, Shown, b)
    BY DEF DbInv, ReadyInv
  <1>2. ASSUME NEW q \in written
        PROVE  get(k) \in Put /\ \A r \in written : get(k) \notin pre[r]
    <2>0. \A r \in Done : key_of[r] = k => r \in Shown
      BY DEF Shown
    <2>1. PICK p \in Put : Seen(memtable, b, k, p) /\ \A r \in Done : key_of[r] = k => p \notin pre[r]
      BY <1>1, <2>0 DEF Reads
    <2>2. get(k) = p
      BY <1>1, <2>1, SeenRead DEF DbInv
    <2>3. QED
      BY <2>1, <2>2
  <1>3. get(k) \in Put => key_of[get(k)] = k
    BY GetLogged
  <1>4. QED
    BY <1>2, <1>3

(* Recovery has the last logged put, which is not before the one get has. *)
LEMMA NotOlder ==
  ASSUME DbInv
  PROVE  RecoveryNotOlder
  <1> SUFFICES ASSUME ready, NEW k \in Key, get(k) \in Put
               PROVE  Recovered(k) # {} /\ Recovered(k) \cap pre[get(k)] = {}
    BY DEF RecoveryNotOlder
  <1>1. PICK g : g = get(k)
    OBVIOUS
  <1>2. g \in Put /\ g <= Len(wal) /\ key_of[g] = k
    BY <1>1, GetLogged
  <1>3. PICK r : r = Replayed(wal)[k]
    OBVIOUS
  <1>4. r \in Put /\ g <= r
    BY <1>2, <1>3, ReplayedLast DEF DbInv
  <1>5. Recovered(k) = {r}
    BY <1>3, <1>4, Numbers DEF Recovered
  <1>6. r \notin pre[g]
    <2>1. \A q \in pre[g] : q < g
      BY <1>2 DEF DbInv, LogInv
    <2>2. ~(r < g)
      BY <1>2, <1>4, Numbers
    <2>3. QED
      BY <2>1, <2>2
  <1>7. QED
    BY <1>1, <1>5, <1>6

-----------------------------------------------------------------------------
(* What the type invariant says of the tables and of the log. *)
LEMMA TablesTyped ==
  ASSUME DbTypeOK
  PROVE  /\ sstables \in Seq([file : FileId, data : Table])
         /\ Len(sstables) \in Nat /\ DOMAIN sstables = 1 .. Len(sstables)
         /\ \A t \in 1 .. Len(sstables) : sstables[t].file \in FileId /\ sstables[t].data \in Table
         /\ \A f \in FileId : files[f].data \in Table
         /\ memtable \in Table /\ next_sst_id \in Nat
         /\ wal \in Seq(Key \X Put) /\ Len(wal) \in Nat /\ DOMAIN wal = 1 .. Len(wal)
         /\ Done \subseteq Put /\ \A p \in Put : key_of[p] \in Key
  <1>1. /\ sstables \in Seq([file : FileId, data : Table])
        /\ Len(sstables) \in Nat /\ DOMAIN sstables = 1 .. Len(sstables)
        /\ wal \in Seq(Key \X Put) /\ Len(wal) \in Nat /\ DOMAIN wal = 1 .. Len(wal)
    BY LenProperties DEF DbTypeOK
  <1>2. \A t \in 1 .. Len(sstables) : sstables[t] \in [file : FileId, data : Table]
    BY <1>1, ElementOfSeq
  <1>3. ASSUME NEW f \in FileId
        PROVE  files[f].data \in Table
    <2>1. files[f] \in TableFile
      BY DEF DbTypeOK
    <2>2. QED
      BY <2>1, EmptyTyped DEF TableFile, Absent, Partial, Written
  <1>4. memtable \in Table /\ next_sst_id \in Nat
    <2>1. memtable \in Table /\ next_sst_id \in 0 .. MaxTables + 1 /\ MaxTables \in Nat
      BY Numbers DEF DbTypeOK
    <2>2. QED
      BY <2>1
  <1>5. Done \subseteq Put /\ \A p \in Put : key_of[p] \in Key
    BY DEF DbTypeOK, Done
  <1>6. QED
    BY <1>1, <1>2, <1>3, <1>4, <1>5

(* What a flush of a memtable m leaves behind, when it makes a table and   *)
(* when it fails.                                                          *)
Flushed(m, gone) ==
  /\ files' = [files EXCEPT ![next_sst_id] = Written(m)]
  /\ sstables' = Append(sstables, [file |-> next_sst_id, data |-> m])
  /\ next_sst_id' = next_sst_id + 1
  /\ lost' = gone
Dropped(m, gone) ==
  /\ \E left \in {files[next_sst_id], Partial, Written(m)} :
       files' = [files EXCEPT ![next_sst_id] = left]
  /\ sstables' = sstables
  /\ next_sst_id' = next_sst_id + 1
  /\ lost' = gone \cup Keys(m)

LEMMA FlushEffect ==
  ASSUME DbTypeOK, next_sst_id <= MaxTables, NEW m \in Table, NEW gone \in SUBSET Key,
         flush_memtable_locked(m, gone)
  PROVE  /\ memtable' = EmptyTable
         /\ compactor' \in {compactor, "woken"}
         /\ \/ m = EmptyTable /\ lost' = gone /\ UNCHANGED <<files, sstables, next_sst_id>>
            \/ Flushed(m, gone)
            \/ Dropped(m, gone)
         /\ files' \in [FileId -> TableFile]
         /\ sstables' \in Seq([file : FileId, data : Table])
         /\ next_sst_id' \in 0 .. MaxTables + 1
         /\ lost' \subseteq Key
         /\ next_sst_id < MaxTables => next_sst_id' <= MaxTables
  <1>1. next_sst_id \in FileId /\ next_sst_id \in Nat /\ MaxTables \in Nat
    <2>1. next_sst_id \in 0 .. MaxTables + 1 /\ MaxTables \in Nat
      BY Numbers DEF DbTypeOK
    <2>2. QED
      BY <2>1 DEF FileId
  <1>2. CASE m = EmptyTable
    BY <1>1, <1>2 DEF flush_memtable_locked, DbTypeOK
  <1>3. CASE m # EmptyTable
    <2>1. /\ memtable' = EmptyTable /\ compactor' \in {compactor, "woken"}
          /\ Flushed(m, gone) \/ Dropped(m, gone)
      BY <1>3 DEF flush_memtable_locked, Notified, Flushed, Dropped
    <2>2. files' \in [FileId -> TableFile]
      <3>1. {files[next_sst_id], Partial, Written(m)} \subseteq TableFile
        BY <1>1 DEF TableFile, DbTypeOK
      <3>2. PICK left \in TableFile : files' = [files EXCEPT ![next_sst_id] = left]
        BY <2>1, <3>1 DEF Flushed, Dropped
      <3>3. QED
        BY <3>2 DEF DbTypeOK
    <2>3. sstables' \in Seq([file : FileId, data : Table])
      <3>1. [file |-> next_sst_id, data |-> m] \in [file : FileId, data : Table]
        BY <1>1
      <3>2. sstables \in Seq([file : FileId, data : Table])
        BY DEF DbTypeOK
      <3>3. Append(sstables, [file |-> next_sst_id, data |-> m]) \in Seq([file : FileId, data : Table])
        BY <3>1, <3>2, AppendProperties
      <3>4. QED
        BY <2>1, <3>2, <3>3 DEF Flushed, Dropped
    <2>4. lost' \subseteq Key /\ next_sst_id' = next_sst_id + 1
      BY <2>1 DEF Flushed, Dropped, Keys
    <2>5. QED
      BY <1>1, <2>1, <2>2, <2>3, <2>4
  <1>4. QED
    BY <1>2, <1>3

(* The tables recover opens. *)
LEMMA TablesOpened ==
  ASSUME DbTypeOK, NEW order \in SetToSeqs(Complete)
  PROVE  /\ OpenTables(order) \in Seq([file : FileId, data : Table])
         /\ \A t \in DOMAIN OpenTables(order) : \E f \in FileId : OpenTables(order)[t].data = files[f].data
  <1>1. IsFiniteSet(Complete) /\ Complete \subseteq FileId
    <2>1. IsFiniteSet(FileId)
      BY Numbers, FS_Interval DEF FileId
    <2>2. QED
      BY <2>1, FS_Subset DEF Complete
  <1>2. PICK n \in Nat : n = Cardinality(Complete)
    BY <1>1, FS_CardinalityType
  <1>3. order \in [1 .. n -> Complete]
    BY <1>2 DEF SetToSeqs
  <1>4. \A i \in 1 .. n : [file |-> order[i], data |-> files[order[i]].data] \in [file : FileId, data : Table]
    BY <1>1, <1>3, TablesTyped
  <1>5. OpenTables(order) = [i \in 1 .. n |-> [file |-> order[i], data |-> files[order[i]].data]]
    BY <1>3 DEF OpenTables
  <1>6. OpenTables(order) \in Seq([file : FileId, data : Table])
    <2> DEFINE e(i) == [file |-> order[i], data |-> files[order[i]].data]
    <2>1. \A i \in 1 .. n : e(i) \in [file : FileId, data : Table]
      BY <1>4
    <2> HIDE DEF e
    <2>2. [i \in 1 .. n |-> e(i)] \in [1 .. n -> [file : FileId, data : Table]]
      BY <2>1
    <2>3. \A S : [1 .. n -> S] \subseteq Seq(S)
      BY <1>2, SeqDef, Zenon
    <2>4. QED
      BY <1>5, <2>2, <2>3 DEF e
  <1>7. QED
    BY <1>1, <1>3, <1>5, <1>6

(* A put changes the entry of its key. *)
LEMMA AppliedTyped ==
  ASSUME DbTypeOK, NEW p \in Put
  PROVE  /\ Applied(p) \in Table
         /\ \A k \in Key : Applied(p)[k] = IF k = key_of[p] THEN p ELSE memtable[k]
  BY TablesTyped DEF Applied, Table

(* What the log replays to is a memtable. *)
LEMMA ReplayedTyped ==
  ASSUME DbTypeOK, LogInv
  PROVE  Replayed(wal) \in Table
  <1>1. \A k \in Key : Replayed(wal)[k] \in Put \cup {None}
    BY ReplayedLast
  <1>2. QED
    BY <1>1 DEF Replayed, Table

(* An empty directory satisfies the invariant. *)
LEMMA DbTypesStart ==
  ASSUME DbInit
  PROVE  DbInv
  <1>1. DbTypeOK
    <2>1. 0 \in 0 .. MaxTables + 1 /\ 0 \in 0 .. MaxLives /\ 0 \in 0 .. MaxRecovers /\ 0 <= MaxPuts
      BY Numbers
    <2>2. [f \in FileId |-> Absent] \in [FileId -> TableFile]
      BY DEF TableFile
    <2>3. << >> \in Seq(Key \X Put) /\ << >> \in Seq([file : FileId, data : Table]) /\ Len(<< >>) = 0
      OBVIOUS
    <2>4. [p \in Put |-> {}] \in [Put -> SUBSET Put]
      OBVIOUS
    <2>5. QED
      BY <2>1, <2>2, <2>3, <2>4, EmptyTyped DEF DbInit, DbTypeOK
  <1>2. LogInv
    <2>1. wal = << >> /\ Len(wal) = 0 /\ proc = "down" /\ \A p \in Put : call[p] = "not called" /\ pre[p] = {}
      BY DEF DbInit
    <2>2. \A p \in Put : ~(p <= 0)
      BY Numbers
    <2>3. \A i \in 1 .. 0 : FALSE
      OBVIOUS
    <2>4. QED
      BY <2>1, <2>2, <2>3, Zenon DEF LogInv
  <1>3. DataInv
    <2>1. Holds(EmptyTable)
      BY EmptyTyped DEF Holds
    <2>2. \A f \in FileId : files[f].data = EmptyTable
      BY DEF DbInit, Absent
    <2>3. DOMAIN << >> = {}
      OBVIOUS
    <2>4. memtable = EmptyTable /\ sstables = << >> /\ proc = "down"
      BY DEF DbInit
    <2>5. QED
      BY <2>1, <2>2, <2>3, <2>4, Zenon DEF DataInv
  <1>4. ReadyInv
    BY DEF DbInit, ReadyInv
  <1>5. QED
    BY <1>1, <1>2, <1>3, <1>4 DEF DbInv

(* Every step keeps the types; a table number stays within its bound. *)
LEMMA DbTypesStep ==
  ASSUME DbInv, [DbNext]_dbVars
  PROVE  DbTypeOK'
  <1> USE DEF DbInv
  <1>0. DbTypeOK /\ LogInv /\ (proc # "down" => next_sst_id <= MaxTables)
    BY DEF DataInv
  <1>1. CASE Construct
    <2>1. lives' \in 0 .. MaxLives /\ next_sst_id' \in 0 .. MaxTables + 1
      <3>1. lives \in 0 .. MaxLives /\ lives < MaxLives /\ lives' = lives + 1 /\ next_sst_id' = 0
        BY <1>0, <1>1 DEF Construct, DbTypeOK
      <3>2. QED
        BY <3>1, Numbers
    <2>2. sstables' \in Seq([file : FileId, data : Table]) /\ memtable' \in Table
      BY <1>1, EmptyTyped DEF Construct
    <2>3. QED
      BY <1>0, <1>1, <2>1, <2>2 DEF Construct, DbTypeOK, hist
  <1>2. CASE Flush
    <2>1. /\ flush_memtable_locked(memtable, lost) /\ memtable \in Table /\ lost \in SUBSET Key
          /\ next_sst_id <= MaxTables
      BY <1>0, <1>2 DEF Flush, DbTypeOK
    <2>2. /\ memtable' \in Table /\ compactor' \in {compactor, "woken"}
          /\ files' \in [FileId -> TableFile]
          /\ sstables' \in Seq([file : FileId, data : Table])
          /\ next_sst_id' \in 0 .. MaxTables + 1 /\ lost' \subseteq Key
      BY <1>0, <2>1, FlushEffect, EmptyTyped
    <2>3. QED
      BY <1>0, <1>2, <2>2 DEF Flush, DbTypeOK, hist, bounds
  <1>3. CASE recover
    <2>1. PICK order \in SetToSeqs(Complete) : sstables' = OpenTables(order)
      BY <1>3 DEF recover
    <2>2. sstables' \in Seq([file : FileId, data : Table]) /\ memtable' \in Table
      BY <1>0, <1>3, <2>1, TablesOpened, ReplayedTyped DEF recover
    <2>3. recovers' \in 0 .. MaxRecovers
      <3>1. recovers \in 0 .. MaxRecovers /\ recovers < MaxRecovers /\ recovers' = recovers + 1
        BY <1>0, <1>3 DEF recover, DbTypeOK
      <3>2. QED
        BY <3>1, Numbers
    <2>4. QED
      BY <1>0, <1>3, <2>2, <2>3 DEF recover, DbTypeOK, hist
  <1>4. CASE Kill \/ KillInFlush
    <2>1. Killed
      BY <1>4 DEF Kill, KillInFlush
    <2>2. files' \in [FileId -> TableFile]
      <3>1. CASE Kill
        BY <1>0, <3>1 DEF Kill, DbTypeOK
      <3>2. CASE KillInFlush
        <4>1. Partial \in TableFile
          BY DEF TableFile
        <4>2. QED
          BY <1>0, <3>2, <4>1 DEF KillInFlush, DbTypeOK
      <3>3. QED
        BY <1>4, <3>1, <3>2
    <2>3. memtable' \in Table /\ sstables' \in Seq([file : FileId, data : Table]) /\ next_sst_id' \in 0 .. MaxTables + 1
      BY <2>1, EmptyTyped, Numbers DEF Killed
    <2>4. call' \in [Put -> {"not called", "logged", "returned", "killed"}]
      BY <1>0, <2>1 DEF Killed, DbTypeOK
    <2>5. QED
      BY <1>0, <2>1, <2>2, <2>3, <2>4 DEF Killed, DbTypeOK, bounds
  <1>5. CASE CloseStop \/ CloseJoin
    BY <1>0, <1>5 DEF CloseStop, CloseJoin, Notified, DbTypeOK, mem, hist, bounds
  <1>6. CASE CloseFlush
    <2>1. /\ flush_memtable_locked(memtable, lost) /\ memtable \in Table /\ lost \in SUBSET Key
          /\ next_sst_id <= MaxTables
      BY <1>0, <1>6 DEF CloseFlush, DbTypeOK
    <2>2. /\ memtable' \in Table /\ compactor' \in {compactor, "woken"}
          /\ files' \in [FileId -> TableFile]
          /\ sstables' \in Seq([file : FileId, data : Table])
          /\ next_sst_id' \in 0 .. MaxTables + 1 /\ lost' \subseteq Key
      BY <1>0, <2>1, FlushEffect, EmptyTyped
    <2>3. QED
      BY <1>0, <1>6, <2>2 DEF CloseFlush, DbTypeOK, hist, bounds
  <1>7. CASE Compactor
    BY <1>0, <1>7 DEF Compactor, CompactorTop, CompactorTest, CompactorBlock, CompactorTimeout,
                      Compacting, DbTypeOK, mem, hist, bounds
  <1>8. ASSUME NEW p \in Put, PutLog(p)
        PROVE  DbTypeOK'
    <2>1. Len(wal) < p
      <3>1. ~(p <= Len(wal)) /\ Len(wal) \in Nat /\ p \in Nat
        BY <1>0, <1>8, TablesTyped, Numbers DEF PutLog, LogInv
      <3>2. QED
        BY <3>1
    <2>2. wal' \in Seq(Key \X Put) /\ Len(wal') <= MaxPuts
      <3>1. <<key_of[p], p>> \in Key \X Put
        BY <1>0, TablesTyped
      <3>2. wal' \in Seq(Key \X Put) /\ Len(wal') = Len(wal) + 1
        <4>1. wal' = Append(wal, <<key_of[p], p>>) /\ wal \in Seq(Key \X Put)
          BY <1>0, <1>8, TablesTyped DEF PutLog
        <4>2. QED
          BY <3>1, <4>1, AppendProperties
      <3>3. QED
        BY <1>0, <2>1, <3>2, TablesTyped, Numbers DEF Put
    <2>3. pre' \in [Put -> SUBSET Put]
      BY <1>0, <1>8 DEF PutLog, DbTypeOK
    <2>4. QED
      BY <1>0, <1>8, <2>2, <2>3 DEF PutLog, DbTypeOK, mem, bounds
  <1>9. ASSUME NEW p \in Put, PutApply(p)
        PROVE  DbTypeOK'
    <2>1. Applied(p) \in Table
      BY <1>0, AppliedTyped
    <2>2. CASE ByteSize(Applied(p)) >= FlushKeys
      <3>1. /\ flush_memtable_locked(Applied(p), Found(p)) /\ next_sst_id <= MaxTables
            /\ Found(p) \in SUBSET Key
        BY <1>0, <1>9, <2>2 DEF PutApply, Found, DbTypeOK
      <3>2. /\ memtable' \in Table /\ compactor' \in {compactor, "woken"}
            /\ files' \in [FileId -> TableFile]
            /\ sstables' \in Seq([file : FileId, data : Table])
            /\ next_sst_id' \in 0 .. MaxTables + 1 /\ lost' \subseteq Key
        BY <1>0, <2>1, <3>1, FlushEffect, EmptyTyped
      <3>3. QED
        BY <1>0, <1>9, <3>2 DEF PutApply, DbTypeOK, bounds
    <2>3. CASE ~(ByteSize(Applied(p)) >= FlushKeys)
      BY <1>0, <1>9, <2>1, <2>3 DEF PutApply, Found, DbTypeOK, bounds
    <2>4. QED
      BY <2>2, <2>3
  <1>10. CASE UNCHANGED dbVars
    BY <1>0, <1>10 DEF dbVars, DbTypeOK
  <1>11. QED
    BY <1>1, <1>2, <1>3, <1>4, <1>5, <1>6, <1>7, <1>8, <1>9, <1>10 DEF DbNext

(* The log grows in the order of the calls, and what was over when a put   *)
(* was called stays over.                                                  *)
LEMMA LogStep ==
  ASSUME DbInv, [DbNext]_dbVars
  PROVE  LogInv'
  <1>0. DbTypeOK /\ LogInv
    BY DEF DbInv
  <1>1. ASSUME UNCHANGED <<wal, key_of, pre, lives>>, proc # "down" \/ proc' = proc,
               \A q \in Put : \/ call'[q] = call[q]
                              \/ call[q] = "logged" /\ call'[q] \in {"returned", "killed"}
        PROVE  LogInv'
    <2>1. \A q \in Put : /\ call[q] # "not called" <=> call'[q] # "not called"
                         /\ call[q] \in {"returned", "killed"} => call'[q] \in {"returned", "killed"}
      BY <1>1
    <2>2. \A p \in Put : \A q \in pre[p] : q < p /\ call'[q] \in {"returned", "killed"}
      <3>1. \A p \in Put : pre[p] \subseteq Put
        BY <1>0 DEF DbTypeOK
      <3>2. QED
        BY <1>0, <2>1, <3>1 DEF LogInv
    <2>3. lives' = 0 => wal = << >> /\ proc' = "down"
      BY <1>0, <1>1 DEF LogInv
    <2>4. (\A p \in Put : call[p] # "not called" <=> p <= Len(wal))'
      BY <1>0, <1>1, <2>1 DEF LogInv
    <2>5. (\A i \in 1 .. Len(wal) : wal[i] = <<key_of[i], i>>)'
      BY <1>0, <1>1 DEF LogInv
    <2>6. QED
      BY <1>1, <2>2, <2>3, <2>4, <2>5 DEF LogInv
  <1>2. CASE Construct
    <2>1. UNCHANGED <<wal, call, key_of, pre>> /\ lives' # 0
      <3>1. lives \in 0 .. MaxLives /\ lives' = lives + 1
        BY <1>0, <1>2 DEF Construct, DbTypeOK
      <3>2. QED
        BY <1>2, <3>1, Numbers DEF Construct, hist
    <2>2. QED
      BY <1>0, <2>1 DEF LogInv
  <1>3. CASE Flush \/ recover \/ CloseStop \/ CloseJoin \/ CloseFlush
    BY <1>1, <1>3 DEF Flush, recover, CloseStop, CloseJoin, CloseFlush, hist, bounds
  <1>4. CASE Kill \/ KillInFlush
    <2>1. Killed
      BY <1>4 DEF Kill, KillInFlush
    <2>2. QED
      BY <1>0, <1>1, <2>1 DEF Killed, bounds
  <1>5. CASE Compactor \/ UNCHANGED dbVars
    BY <1>1, <1>5 DEF Compactor, CompactorTop, CompactorTest, CompactorBlock, CompactorTimeout,
                      Compacting, hist, bounds, dbVars
  <1>6. ASSUME NEW p \in Put, PutApply(p)
        PROVE  LogInv'
    <2>1. UNCHANGED <<wal, key_of, pre, lives>> /\ proc # "down"
      BY <1>6 DEF PutApply, bounds
    <2>2. \A q \in Put : \/ call'[q] = call[q]
                         \/ call[q] = "logged" /\ call'[q] \in {"returned", "killed"}
      BY <1>0, <1>6 DEF PutApply, DbTypeOK
    <2>3. QED
      BY <1>1, <2>1, <2>2
  <1>7. ASSUME NEW p \in Put, PutLog(p)
        PROVE  LogInv'
    <2>1. p = Len(wal) + 1
      <3>1. ~(p <= Len(wal)) /\ Len(wal) \in Nat /\ p \in Nat
        BY <1>0, <1>7, TablesTyped, Numbers DEF PutLog, LogInv
      <3>2. CASE p = 1
        BY <3>1, <3>2
      <3>3. CASE p # 1
        <4>1. p - 1 \in 1 .. p - 1 /\ p - 1 \in Put
          BY <3>1, <3>3, Numbers DEF Put
        <4>2. p - 1 <= Len(wal)
          BY <1>0, <1>7, <4>1 DEF PutLog, LogInv
        <4>3. QED
          BY <3>1, <4>2
      <3>4. QED
        BY <3>2, <3>3
    <2>2. /\ wal' = Append(wal, <<key_of[p], p>>) /\ wal \in Seq(Key \X Put) /\ Len(wal) \in Nat
          /\ <<key_of[p], p>> \in Key \X Put /\ key_of' = key_of
      BY <1>0, <1>7, TablesTyped DEF PutLog
    <2>3. /\ Len(wal') = p
          /\ \A i \in 1 .. Len(wal) : wal'[i] = wal[i]
          /\ wal'[p] = <<key_of[p], p>>
      BY <2>1, <2>2, AppendProperties
    <2>4. \A i \in 1 .. Len(wal') : wal'[i] = <<key_of'[i], i>>
      <3>1. \A i \in 1 .. p : i = p \/ i \in 1 .. Len(wal)
        BY <2>1, <2>2
      <3>2. \A i \in 1 .. Len(wal) : wal[i] = <<key_of[i], i>>
        BY <1>0 DEF LogInv
      <3>3. QED
        BY <2>2, <2>3, <3>1, <3>2
    <2>5. \A q \in Put : call'[q] = IF q = p THEN "logged" ELSE call[q]
      BY <1>0, <1>7 DEF PutLog, DbTypeOK
    <2>6. \A q \in Put : call'[q] # "not called" <=> q <= Len(wal')
      <3>1. \A q \in Put : q <= p <=> q = p \/ q <= Len(wal)
        BY <2>1, <2>2, Numbers
      <3>2. \A q \in Put : call[q] # "not called" <=> q <= Len(wal)
        BY <1>0 DEF LogInv
      <3>3. QED
        BY <2>3, <2>5, <3>1, <3>2
    <2>7. ASSUME NEW x \in Put, NEW q \in pre'[x]
          PROVE  q < x /\ call'[q] \in {"returned", "killed"}
      <3>1. q \in Put /\ call[q] \in {"returned", "killed"} /\ q < x
        <4>1. CASE x = p
          <5>1. q \in Put /\ call[q] \in {"returned", "killed"}
            BY <1>0, <1>7, <4>1 DEF PutLog, DbTypeOK
          <5>2. q <= Len(wal)
            BY <1>0, <5>1 DEF LogInv
          <5>3. QED
            BY <2>1, <2>2, <4>1, <5>1, <5>2, Numbers
        <4>2. CASE x # p
          <5>1. q \in pre[x] /\ pre[x] \subseteq Put
            BY <1>0, <1>7, <4>2 DEF PutLog, DbTypeOK
          <5>2. QED
            BY <1>0, <5>1 DEF LogInv
        <4>3. QED
          BY <4>1, <4>2
      <3>2. q # p
        BY <1>7, <3>1 DEF PutLog
      <3>3. QED
        BY <2>5, <3>1, <3>2
    <2>8. lives' # 0
      BY <1>0, <1>7 DEF PutLog, LogInv, bounds
    <2>9. QED
      BY <2>4, <2>6, <2>7, <2>8 DEF LogInv
  <1>8. QED
    BY <1>2, <1>3, <1>4, <1>5, <1>6, <1>7 DEF DbNext

(* Entries stay entries: the log only grows. *)
LEMMA HoldsKept ==
  ASSUME DbInv, [DbNext]_dbVars, NEW m, Holds(m), m \in Table
  PROVE  Holds(m)'
  <1>1. key_of' = key_of /\ (wal' = wal \/ \E p \in Put : PutLog(p))
    BY DEF DbNext, Construct, Flush, flush_memtable_locked, recover, Kill, KillInFlush, Killed, CloseStop, CloseJoin,
           CloseFlush, Compactor, CompactorTop, CompactorTest, CompactorBlock, CompactorTimeout,
           Compacting, PutLog, PutApply, hist, bounds, dbVars
  <1>2. Len(wal) \in Nat /\ Len(wal') \in Nat /\ Len(wal) <= Len(wal')
    <2>1. Len(wal) \in Nat
      BY TablesTyped DEF DbInv
    <2>2. CASE wal' = wal
      BY <2>1, <2>2
    <2>3. CASE \E p \in Put : PutLog(p)
      <3>1. PICK p \in Put : PutLog(p)
        BY <2>3
      <3>2. /\ wal' = Append(wal, <<key_of[p], p>>) /\ wal \in Seq(Key \X Put)
            /\ <<key_of[p], p>> \in Key \X Put
        BY <3>1, TablesTyped DEF PutLog, DbInv
      <3>3. Len(wal') = Len(wal) + 1
        BY <3>2, AppendProperties
      <3>4. QED
        BY <2>1, <3>3
    <2>4. QED
      BY <1>1, <2>2, <2>3
  <1>3. ASSUME NEW k \in Key, m[k] # None
        PROVE  m[k] <= Len(wal') /\ key_of'[m[k]] = k
    <2>1. m[k] \in Put /\ m[k] <= Len(wal) /\ key_of[m[k]] = k
      BY <1>3 DEF Holds, Table
    <2>2. QED
      BY <1>1, <1>2, <2>1, Numbers
  <1>4. QED
    BY <1>3 DEF Holds

(* A flush writes entries of the memtable, which are logged puts.          *)
LEMMA DataFlush ==
  ASSUME DbInv, [DbNext]_dbVars, NEW m \in Table, Holds(m)', proc # "down",
         NEW gone \in SUBSET Key, flush_memtable_locked(m, gone)
  PROVE  /\ Holds(memtable)'
         /\ (\A t \in DOMAIN sstables : Holds(sstables[t].data))'
         /\ (\A f \in FileId : Holds(files[f].data))'
  <1>0. DbTypeOK /\ next_sst_id <= MaxTables
    BY DEF DbInv, DataInv
  <1>1. \A x \in Table : Holds(x) => Holds(x)'
    BY HoldsKept
  <1>2. Holds(EmptyTable)'
    BY EmptyTyped DEF Holds, EmptyTable
  <1>3. /\ memtable' = EmptyTable
        /\ \/ files' = files
           \/ \E left \in {files[next_sst_id], Partial, Written(m)} :
                files' = [files EXCEPT ![next_sst_id] = left]
        /\ \/ sstables' = sstables
           \/ sstables' = Append(sstables, [file |-> next_sst_id, data |-> m])
    BY <1>0, FlushEffect DEF Flushed, Dropped
  <1>4. Holds(memtable)'
    BY <1>2, <1>3 DEF Holds
  <1>5. ASSUME NEW f \in FileId
        PROVE  Holds(files[f].data)'
    <2>1. files[f].data \in Table /\ Holds(files[f].data)
      BY <1>0, TablesTyped DEF DbInv, DataInv
    <2>2. files'[f].data \in {files[f].data, EmptyTable, m}
      <3>1. CASE files' = files
        BY <3>1
      <3>2. ASSUME NEW left \in {files[next_sst_id], Partial, Written(m)},
                   files' = [files EXCEPT ![next_sst_id] = left]
            PROVE  files'[f].data \in {files[f].data, EmptyTable, m}
        <4>1. files'[f] \in {files[f], Partial, Written(m)}
          BY <1>0, <3>2 DEF DbTypeOK
        <4>2. Written(m).data = m /\ Partial.data = EmptyTable
          BY DEF Written, Partial
        <4>3. QED
          BY <4>1, <4>2
      <3>3. QED
        BY <1>3, <3>1, <3>2
    <2>3. PICK x \in Table : x = files'[f].data /\ Holds(x)'
      <3>1. PICK y : y = files[f].data
        OBVIOUS
      <3>2. y \in Table /\ Holds(y)
        BY <2>1, <3>1
      <3>3. Holds(y)'
        BY <1>1, <3>2
      <3>4. QED
        BY <1>2, <2>2, <3>1, <3>2, <3>3, EmptyTyped
    <2>4. QED
      BY <2>3 DEF Holds
  <1>6. ASSUME NEW t \in (DOMAIN sstables)'
        PROVE  Holds(sstables[t].data)'
    <2>1. sstables'[t].data = m \/ (t \in DOMAIN sstables /\ sstables'[t].data = sstables[t].data)
      <3>1. CASE sstables' = sstables
        BY <3>1
      <3>2. CASE sstables' = Append(sstables, [file |-> next_sst_id, data |-> m])
        <4>1. /\ sstables \in Seq([file : FileId, data : Table])
              /\ next_sst_id \in FileId /\ Len(sstables) \in Nat /\ DOMAIN sstables = 1 .. Len(sstables)
          <5>1. next_sst_id \in 0 .. MaxTables + 1
            BY <1>0 DEF DbTypeOK
          <5>2. QED
            BY <1>0, <5>1, TablesTyped, Numbers DEF FileId
        <4>2. PICK e \in [file : FileId, data : Table] : e = [file |-> next_sst_id, data |-> m]
          BY <4>1
        <4>3. /\ DOMAIN sstables' = 1 .. Len(sstables) + 1
              /\ \A i \in 1 .. Len(sstables) : sstables'[i] = sstables[i]
              /\ sstables'[Len(sstables) + 1] = e
          BY <3>2, <4>1, <4>2, AppendProperties
        <4>4. t = Len(sstables) + 1 \/ t \in 1 .. Len(sstables)
          BY <4>1, <4>3
        <4>5. QED
          BY <4>1, <4>2, <4>3, <4>4
      <3>3. QED
        BY <1>3, <3>1, <3>2
    <2>2. PICK x \in Table : x = sstables'[t].data /\ Holds(x)'
      <3>1. CASE sstables'[t].data = m
        BY <3>1
      <3>2. CASE t \in DOMAIN sstables /\ sstables'[t].data = sstables[t].data
        <4>1. PICK y : y = sstables[t].data
          OBVIOUS
        <4>2. y \in Table /\ Holds(y)
          BY <1>0, <3>2, <4>1, TablesTyped DEF DbInv, DataInv
        <4>3. Holds(y)'
          BY <1>1, <4>2
        <4>4. QED
          BY <3>2, <4>1, <4>2, <4>3
      <3>3. QED
        BY <2>1, <3>1, <3>2
    <2>3. QED
      BY <2>2 DEF Holds
  <1>7. QED
    BY <1>4, <1>5, <1>6

(* Tables and files only ever hold logged puts. *)
LEMMA DataStep ==
  ASSUME DbInv, [DbNext]_dbVars
  PROVE  DataInv'
  <1>0. /\ DbTypeOK /\ (proc # "down" => next_sst_id <= MaxTables)
        /\ Holds(memtable) /\ memtable \in Table
        /\ \A t \in DOMAIN sstables : sstables[t].data \in Table /\ Holds(sstables[t].data)
        /\ \A f \in FileId : files[f].data \in Table /\ Holds(files[f].data)
    BY TablesTyped DEF DbInv, DataInv
  <1>1. \A x \in Table : Holds(x) => Holds(x)'
    BY HoldsKept
  <1>2. Holds(EmptyTable)'
    BY EmptyTyped DEF Holds, EmptyTable
  <1>3. ASSUME memtable' = memtable
        PROVE  Holds(memtable)'
    BY <1>0, <1>1, <1>3 DEF Holds
  <1>4. ASSUME sstables' = sstables
        PROVE  (\A t \in DOMAIN sstables : Holds(sstables[t].data))'
    BY <1>0, <1>1, <1>4 DEF Holds
  <1>5. ASSUME files' = files
        PROVE  (\A f \in FileId : Holds(files[f].data))'
    BY <1>0, <1>1, <1>5 DEF Holds
  <1>6. ASSUME memtable' = EmptyTable
        PROVE  Holds(memtable)'
    BY <1>2, <1>6 DEF Holds
  <1>7. ASSUME sstables' = << >>
        PROVE  (\A t \in DOMAIN sstables : Holds(sstables[t].data))'
    <2>1. DOMAIN << >> = {}
      OBVIOUS
    <2>2. QED
      BY <1>7, <2>1, Zenon
  <1>8. CASE Construct
    BY <1>5, <1>6, <1>7, <1>8, Numbers DEF Construct, DataInv
  <1>9. CASE Flush
    <2>1. /\ next_sst_id <= MaxTables /\ next_sst_id < MaxTables /\ proc # "down"
          /\ flush_memtable_locked(memtable, lost)
      BY <1>0, <1>9 DEF Flush
    <2>2. PICK gone \in SUBSET Key : gone = lost
      BY <1>0 DEF DbTypeOK
    <2>3. PICK m \in Table : m = memtable /\ Holds(m)
      BY <1>0
    <2>4. /\ Holds(m)' /\ flush_memtable_locked(m, gone)
          /\ next_sst_id' <= MaxTables
      <3>1. Holds(m)' /\ flush_memtable_locked(m, gone)
        BY <1>1, <2>1, <2>2, <2>3
      <3>2. QED
        BY <1>0, <2>1, <3>1, FlushEffect
    <2>5. QED
      BY <2>1, <2>4, DataFlush DEF DataInv
  <1>10. CASE CloseFlush
    <2>1. proc # "down" /\ flush_memtable_locked(memtable, lost) /\ proc' = "down"
      BY <1>0, <1>10 DEF CloseFlush
    <2>2. /\ \E m \in Table : m = memtable /\ Holds(m)
          /\ \E gone \in SUBSET Key : gone = lost
      BY <1>0 DEF DbTypeOK
    <2>3. PICK m \in Table, gone \in SUBSET Key : Holds(m)' /\ flush_memtable_locked(m, gone)
      BY <1>1, <2>1, <2>2
    <2>4. QED
      BY <2>1, <2>3, DataFlush DEF DataInv
  <1>11. CASE recover
    <2>1. PICK order \in SetToSeqs(Complete) : sstables' = OpenTables(order)
      BY <1>11 DEF recover
    <2>2. /\ files' = files /\ wal' = wal /\ key_of' = key_of /\ next_sst_id' = next_sst_id /\ proc' = proc
          /\ memtable' = Replayed(wal)
      BY <1>11 DEF recover, hist
    <2>3. Holds(memtable)'
      <3>1. \A k \in Key : LET m == Replayed(wal)[k]
                           IN  m # None => m <= Len(wal) /\ key_of[m] = k
        BY ReplayedLast DEF DbInv
      <3>2. QED
        BY <2>2, <3>1 DEF Holds
    <2>4. ASSUME NEW t \in (DOMAIN sstables)'
          PROVE  Holds(sstables[t].data)'
      <3>1. PICK f \in FileId : sstables'[t].data = files[f].data
        BY <1>0, <2>1, TablesOpened
      <3>2. Holds(files[f].data)
        BY <1>0
      <3>3. QED
        BY <2>2, <3>1, <3>2 DEF Holds
    <2>5. QED
      BY <1>0, <1>5, <2>2, <2>3, <2>4 DEF DataInv
  <1>12. CASE Kill \/ KillInFlush
    <2>1. Killed
      BY <1>12 DEF Kill, KillInFlush
    <2>2. memtable' = EmptyTable /\ sstables' = << >> /\ proc' = "down"
      BY <2>1 DEF Killed
    <2>3. (\A f \in FileId : Holds(files[f].data))'
      <3>1. CASE Kill
        BY <1>5, <3>1 DEF Kill
      <3>2. CASE KillInFlush
        <4>1. ASSUME NEW f \in FileId
              PROVE  Holds(files[f].data)'
          <5>1. files'[f].data \in {files[f].data, EmptyTable}
            BY <1>0, <3>2 DEF KillInFlush, DbTypeOK, Partial
          <5>2. PICK y : y = files[f].data
            OBVIOUS
          <5>3. Holds(y)'
            BY <1>0, <1>1, <5>2
          <5>4. QED
            BY <1>2, <5>1, <5>2, <5>3 DEF Holds
        <4>2. QED
          BY <4>1
      <3>3. QED
        BY <1>12, <3>1, <3>2
    <2>4. QED
      BY <1>6, <1>7, <2>2, <2>3 DEF DataInv
  <1>13. CASE CloseStop \/ CloseJoin \/ Compactor \/ UNCHANGED dbVars \/ \E p \in Put : PutLog(p)
    <2>1. UNCHANGED <<files, memtable, sstables, next_sst_id>> /\ (proc # "down" \/ proc' = proc)
      BY <1>13 DEF CloseStop, CloseJoin, Compactor, CompactorTop, CompactorTest, CompactorBlock,
                   CompactorTimeout, Compacting, PutLog, mem, dbVars
    <2>2. proc' # "down" => next_sst_id' <= MaxTables
      BY <1>0, <2>1
    <2>3. QED
      BY <1>3, <1>4, <1>5, <2>1, <2>2 DEF DataInv
  <1>14. ASSUME NEW p \in Put, PutApply(p)
         PROVE  DataInv'
    <2>1. proc = "up" /\ call[p] = "logged" /\ wal' = wal /\ key_of' = key_of /\ proc' = proc
      BY <1>14 DEF PutApply
    <2>2. PICK m \in Table : m = Applied(p)
      BY <1>0, AppliedTyped
    <2>3. Holds(m)
      <3>1. p <= Len(wal)
        BY <2>1 DEF DbInv, LogInv
      <3>2. QED
        BY <1>0, <2>2, <3>1, AppliedTyped DEF Holds
    <2>4. Holds(m)'
      BY <1>1, <2>3
    <2>5. CASE ByteSize(Applied(p)) >= FlushKeys
      <3>0. PICK gone \in SUBSET Key : gone = Found(p)
        BY <1>0 DEF DbTypeOK, Found
      <3>1. flush_memtable_locked(m, gone) /\ next_sst_id < MaxTables /\ next_sst_id <= MaxTables
        BY <1>0, <1>14, <2>1, <2>2, <2>5, <3>0 DEF PutApply
      <3>2. next_sst_id' <= MaxTables
        BY <1>0, <3>1, FlushEffect
      <3>3. QED
        BY <2>1, <2>4, <3>1, <3>2, DataFlush DEF DataInv
    <2>6. CASE ~(ByteSize(Applied(p)) >= FlushKeys)
      <3>1. memtable' = m /\ UNCHANGED <<files, sstables, next_sst_id>>
        BY <1>14, <2>2, <2>6 DEF PutApply
      <3>2. Holds(memtable)'
        BY <2>4, <3>1 DEF Holds
      <3>3. QED
        BY <1>0, <1>4, <1>5, <2>1, <3>1, <3>2 DEF DataInv
    <2>7. QED
      BY <2>5, <2>6
  <1>15. QED
    BY <1>8, <1>9, <1>10, <1>11, <1>12, <1>13, <1>14 DEF DbNext

(* A flush keeps what is seen: the memtable becomes the newest table, and  *)
(* its file is none of those this life has written; a flush that fails     *)
(* leaves what was seen below the memtable.                                *)
LEMMA ReadsFlush ==
  ASSUME DbTypeOK, next_sst_id <= MaxTables, NEW m \in Table, NEW b \in 0 .. Len(sstables),
         Own(b), NEW D \in SUBSET Put, Reads(m, D, b),
         NEW gone \in SUBSET Key, flush_memtable_locked(m, gone),
         UNCHANGED <<key_of, pre>>, D = {q \in Done' : key_of[q] \notin gone}
  PROVE  b \in 0 .. Len(sstables') /\ Own(b)' /\ Reads(memtable, Shown, b)'
  <1>0. PICK L \in Nat : L = Len(sstables)
    BY TablesTyped
  <1>1. /\ sstables \in Seq([file : FileId, data : Table]) /\ L \in Nat
        /\ next_sst_id \in Nat /\ next_sst_id \in FileId /\ \A q \in D : key_of[q] \in Key
    BY <1>0, TablesTyped, Numbers DEF FileId
  <1>2. memtable' = EmptyTable
    BY FlushEffect
  <1>3. CASE m = EmptyTable /\ lost' = gone /\ UNCHANGED <<files, sstables, next_sst_id>>
    <2>1. Own(b)'
      BY <1>3 DEF Own, Stale
    <2>0. Shown' = D
      BY <1>3 DEF Shown
    <2>2. Reads(memtable, Shown, b)'
      BY <1>2, <1>3, <2>0 DEF Reads, Seen
    <2>3. QED
      BY <1>3, <2>1, <2>2
  <1>4. CASE Flushed(m, gone)
    <2> USE DEF Flushed
    <2>0. Shown' = D
      BY <1>4 DEF Shown
    <2>1. PICK e \in [file : FileId, data : Table] : e = [file |-> next_sst_id, data |-> m]
      BY <1>1
    <2>2. /\ Len(sstables') = L + 1
          /\ \A i \in 1 .. L : sstables'[i] = sstables[i]
          /\ sstables'[L + 1].file = next_sst_id /\ sstables'[L + 1].data = m
      <3>1. /\ Len(sstables') = L + 1
            /\ \A i \in 1 .. L : sstables'[i] = sstables[i]
            /\ sstables'[L + 1] = e
        BY <1>0, <1>1, <1>4, <2>1, AppendProperties
      <3>2. QED
        BY <2>1, <3>1
    <2>3. b \in 0 .. L /\ b \in 0 .. L + 1
      BY <1>0
    <2>4. ASSUME NEW t \in b + 1 .. L + 1
          PROVE  sstables'[t].file < next_sst_id' /\ files'[sstables'[t].file] = Written(sstables'[t].data)
      <3>1. CASE t = L + 1
        <4>1. sstables'[t].file < next_sst_id'
          BY <1>1, <1>4, <2>2, <3>1
        <4>2. files'[next_sst_id] = Written(m)
          BY <1>1, <1>4 DEF DbTypeOK
        <4>3. QED
          BY <2>2, <3>1, <4>1, <4>2
      <3>2. CASE t # L + 1
        <4>1. t \in 1 .. L /\ t \in b + 1 .. L
          BY <1>1, <2>3, <3>2
        <4>2. sstables[t].file < next_sst_id /\ files[sstables[t].file] = Written(sstables[t].data)
          BY <1>0, <4>1 DEF Own, Stale
        <4>3. sstables[t].file \in FileId /\ sstables[t].file \in Nat
          BY <1>0, <4>1, TablesTyped DEF FileId
        <4>4. sstables[t].file # next_sst_id /\ sstables[t].file < next_sst_id + 1
          BY <1>1, <4>2, <4>3
        <4>5. files'[sstables[t].file] = files[sstables[t].file]
          BY <1>4, <4>3, <4>4 DEF DbTypeOK
        <4>6. sstables'[t] = sstables[t]
          BY <2>2, <4>1
        <4>7. QED
          BY <1>4, <4>2, <4>4, <4>5, <4>6
      <3>3. QED
        BY <3>1, <3>2
    <2>5. Own(b)'
      BY <2>2, <2>4 DEF Own, Stale
    <2>6. ASSUME NEW q \in D
          PROVE  \E p \in Put : /\ Seen(memtable, b, key_of[q], p)'
                                /\ \A r \in D : key_of[r] = key_of[q] => p \notin pre[r]
      <3>1. PICK k \in Key : k = key_of[q]
        BY <1>1
      <3>2. PICK p \in Put : Seen(m, b, k, p) /\ \A r \in D : key_of[r] = k => p \notin pre[r]
        BY <3>1 DEF Reads
      <3>3. memtable'[k] = None
        BY <1>2, EmptyTyped
      <3>4. \E t \in b + 1 .. L + 1 :
              /\ sstables'[t].data[k] = p
              /\ \A u \in t + 1 .. L + 1 : sstables'[u].data[k] = None
        <4>1. CASE m[k] = p
          <5>1. L + 1 \in b + 1 .. L + 1 /\ \A u \in L + 1 + 1 .. L + 1 : FALSE
            BY <1>1, <2>3
          <5>2. QED
            BY <2>2, <4>1, <5>1
        <4>2. CASE m[k] # p
          <5>1. m[k] = None
            BY <3>2, <4>2 DEF Seen
          <5>2. PICK t \in b + 1 .. L :
                  /\ sstables[t].data[k] = p
                  /\ \A u \in t + 1 .. L : sstables[u].data[k] = None
            BY <1>0, <3>2, <4>2 DEF Seen
          <5>3. t \in 1 .. L /\ t \in b + 1 .. L + 1
            BY <1>1, <2>3
          <5>4. \A u \in t + 1 .. L + 1 : u = L + 1 \/ (u \in t + 1 .. L /\ u \in 1 .. L)
            BY <1>1, <5>3
          <5>5. sstables'[t].data[k] = p
            BY <2>2, <5>2, <5>3
          <5>6. \A u \in t + 1 .. L + 1 : sstables'[u].data[k] = None
            BY <2>2, <5>1, <5>2, <5>4
          <5>7. QED
            BY <5>3, <5>5, <5>6
        <4>3. QED
          BY <4>1, <4>2
      <3>5. Seen(memtable, b, key_of[q], p)'
        BY <2>2, <3>1, <3>3, <3>4 DEF Seen
      <3>6. QED
        BY <3>1, <3>2, <3>5
    <2>7. Reads(memtable, Shown, b)'
      BY <2>0, <2>6 DEF Reads
    <2>8. QED
      BY <2>2, <2>3, <2>5, <2>7
  <1>5. CASE Dropped(m, gone)
    <2>1. /\ sstables' = sstables /\ next_sst_id' = next_sst_id + 1 /\ lost' = gone \cup Keys(m)
          /\ \A f \in FileId : f # next_sst_id => files'[f] = files[f]
      BY <1>5 DEF Dropped, DbTypeOK
    <2>2. ASSUME NEW t \in b + 1 .. L
          PROVE  sstables[t].file < next_sst_id' /\ files'[sstables[t].file] = Written(sstables[t].data)
      <3>1. t \in 1 .. L
        BY <1>0
      <3>2. sstables[t].file < next_sst_id /\ files[sstables[t].file] = Written(sstables[t].data)
        BY <1>0 DEF Own, Stale
      <3>3. sstables[t].file \in FileId /\ sstables[t].file \in Nat
        BY <1>0, <3>1, TablesTyped DEF FileId
      <3>4. sstables[t].file # next_sst_id /\ sstables[t].file < next_sst_id + 1
        BY <1>1, <3>2, <3>3
      <3>5. QED
        BY <2>1, <3>2, <3>3, <3>4
    <2>3. Own(b)'
      BY <1>0, <2>1, <2>2 DEF Own, Stale
    <2>4. Shown' \subseteq D /\ \A q \in Shown' : m[key_of[q]] = None
      BY <1>1, <2>1 DEF Shown, Keys
    <2>5. ASSUME NEW q \in Shown'
          PROVE  \E p \in Put : /\ Seen(memtable, b, key_of[q], p)'
                                /\ \A r \in Shown' : key_of[r] = key_of[q] => p \notin pre[r]
      <3>1. PICK k \in Key : k = key_of[q]
        BY <1>1, <2>4
      <3>2. PICK p \in Put : Seen(m, b, k, p) /\ \A r \in D : key_of[r] = k => p \notin pre[r]
        BY <2>4, <3>1 DEF Reads
      <3>3. memtable'[k] = None /\ m[k] = None
        BY <1>2, <2>4, <3>1, EmptyTyped
      <3>4. Seen(memtable, b, key_of[q], p)'
        BY <2>1, <3>1, <3>2, <3>3 DEF Seen
      <3>5. QED
        BY <2>4, <3>1, <3>2, <3>4
    <2>6. Reads(memtable, Shown, b)'
      BY <2>5 DEF Reads
    <2>7. QED
      BY <2>1, <2>3, <2>6
  <1>6. QED
    BY <1>3, <1>4, <1>5, FlushEffect

(* A put that is applied is seen, and no put knew of it as over; its key   *)
(* is lost no more.                                                        *)
LEMMA ReadsApplied ==
  ASSUME DbTypeOK, LogInv, NEW p \in Put, call[p] = "logged", NEW b, Reads(memtable, Shown, b),
         NEW D, D = {q \in Done \cup {p} : key_of[q] \notin Found(p)}
  PROVE  Reads(Applied(p), D, b)
  <1>1. \A r \in Put : p \notin pre[r]
    BY DEF LogInv
  <1>2. D \subseteq Put /\ \A q \in Put : key_of[q] \in Key
    BY TablesTyped
  <1>3. \A k \in Key : Applied(p)[k] = IF k = key_of[p] THEN p ELSE memtable[k]
    BY AppliedTyped
  <1>4. \A q \in D : key_of[q] # key_of[p] => q \in Shown
    BY DEF Shown, Found
  <1>5. ASSUME NEW q \in D
        PROVE  \E x \in Put : /\ Seen(Applied(p), b, key_of[q], x)
                              /\ \A r \in D : key_of[r] = key_of[q] => x \notin pre[r]
    <2>1. CASE key_of[q] = key_of[p]
      <3>1. Seen(Applied(p), b, key_of[q], p)
        BY <1>2, <1>3, <2>1 DEF Seen
      <3>2. QED
        BY <1>1, <1>2, <3>1
    <2>2. CASE key_of[q] # key_of[p]
      <3>1. PICK k \in Key : k = key_of[q]
        BY <1>2
      <3>2. PICK x \in Put : Seen(memtable, b, k, x) /\ \A r \in Shown : key_of[r] = k => x \notin pre[r]
        BY <1>4, <2>2, <3>1 DEF Reads
      <3>3. Applied(p)[k] = memtable[k]
        BY <1>3, <2>2, <3>1
      <3>4. Seen(Applied(p), b, k, x)
        BY <3>2, <3>3 DEF Seen
      <3>5. QED
        BY <1>4, <2>2, <3>1, <3>2, <3>4
    <2>3. QED
      BY <2>1, <2>2
  <1>6. QED
    BY <1>5 DEF Reads

(* The reads stay good: a put is applied to the memtable, a flush moves    *)
(* the memtable on top of the tables, a recovery replays the whole log     *)
(* into the memtable.                                                      *)
LEMMA ReadyStep ==
  ASSUME DbInv, [DbNext]_dbVars
  PROVE  ReadyInv'
  <1>0. /\ DbTypeOK /\ LogInv /\ ReadyInv /\ (proc # "down" => next_sst_id <= MaxTables)
        /\ Done \subseteq Put
    BY TablesTyped DEF DbInv, DataInv
  <1>1. ASSUME ready' => ready, Done' = Done, \A q \in Done : pre'[q] = pre[q],
               UNCHANGED <<files, memtable, sstables, next_sst_id, key_of, lost>>
        PROVE  ReadyInv'
    <2> SUFFICES ASSUME ready'
                 PROVE  \E b \in 0 .. Len(sstables') : Own(b)' /\ Reads(memtable, Shown, b)'
      BY DEF ReadyInv
    <2>1. PICK b \in 0 .. Len(sstables) : Own(b) /\ Reads(memtable, Shown, b)
      BY <1>0, <1>1 DEF ReadyInv
    <2>2. Own(b)'
      BY <1>1, <2>1 DEF Own, Stale
    <2>3. Shown' = Shown /\ Shown \subseteq Done
      BY <1>1 DEF Shown
    <2>4. Reads(memtable, Shown, b)'
      BY <1>1, <2>1, <2>3 DEF Reads, Seen
    <2>5. QED
      BY <1>1, <2>2, <2>4
  <1>2. ASSUME ~ready' PROVE ReadyInv'
    BY <1>2 DEF ReadyInv
  <1>3. CASE Construct
    <2> SUFFICES ASSUME ready'
                 PROVE  \E b \in 0 .. Len(sstables') : Own(b)' /\ Reads(memtable, Shown, b)'
      BY DEF ReadyInv
    <2>1. wal = << >> /\ sstables' = << >> /\ call' = call
      BY <1>0, <1>3 DEF Construct, LogInv, hist
    <2>2. Done' = {}
      <3>1. Len(wal) = 0
        BY <2>1
      <3>2. \A p \in Put : ~(p <= Len(wal))
        BY <3>1, Numbers
      <3>3. \A p \in Put : call'[p] = "not called"
        BY <1>0, <2>1, <3>2 DEF LogInv
      <3>4. QED
        BY <3>3 DEF Done
    <2>3. Len(sstables') = 0
      BY <2>1
    <2>4. 0 \in 0 .. Len(sstables') /\ Own(0)'
      BY <2>3 DEF Own
    <2>5. QED
      BY <2>2, <2>4 DEF Reads, Shown
  <1>4. CASE Kill \/ KillInFlush \/ CloseFlush
    BY <1>2, <1>4 DEF Kill, KillInFlush, Killed, CloseFlush
  <1>5. CASE CloseStop \/ CloseJoin \/ Compactor \/ UNCHANGED dbVars
    <2>1. UNCHANGED <<ready, lost, call, pre, key_of, files, memtable, sstables, next_sst_id>>
      BY <1>5 DEF CloseStop, CloseJoin, Compactor, CompactorTop, CompactorTest, CompactorBlock,
                  CompactorTimeout, Compacting, mem, hist, dbVars
    <2>2. QED
      BY <1>1, <2>1 DEF Done
  <1>6. ASSUME NEW p \in Put, PutLog(p)
        PROVE  ReadyInv'
    <2>1. UNCHANGED <<ready, lost, key_of, files, memtable, sstables, next_sst_id>>
      BY <1>6 DEF PutLog, mem
    <2>2. \A q \in Put : call'[q] = (IF q = p THEN "logged" ELSE call[q]) /\ (q # p => pre'[q] = pre[q])
      BY <1>0, <1>6 DEF PutLog, DbTypeOK
    <2>3. call[p] = "not called"
      BY <1>6 DEF PutLog
    <2>4. Done' = Done /\ \A q \in Done : pre'[q] = pre[q]
      BY <2>2, <2>3 DEF Done
    <2>5. QED
      BY <1>1, <2>1, <2>4
  <1>7. CASE Flush
    <2> SUFFICES ASSUME ready'
                 PROVE  \E b \in 0 .. Len(sstables') : Own(b)' /\ Reads(memtable, Shown, b)'
      BY DEF ReadyInv
    <2>1. /\ proc # "down" /\ flush_memtable_locked(memtable, lost) /\ ready
          /\ UNCHANGED <<key_of, pre, call>>
      BY <1>7 DEF Flush, hist
    <2>2. PICK b \in 0 .. Len(sstables) : Own(b) /\ Reads(memtable, Shown, b)
      BY <1>0, <2>1 DEF ReadyInv
    <2>3. PICK m \in Table : m = memtable
      BY <1>0 DEF DbTypeOK
    <2>4. PICK gone \in SUBSET Key : gone = lost
      BY <1>0 DEF DbTypeOK
    <2>5. PICK D \in SUBSET Put : D = Shown /\ D = {q \in Done' : key_of[q] \notin gone}
      BY <1>0, <2>1, <2>4 DEF Shown, Done
    <2>6. Reads(m, D, b) /\ flush_memtable_locked(m, gone)
      BY <2>1, <2>2, <2>3, <2>4, <2>5
    <2>7. QED
      BY <1>0, <2>1, <2>2, <2>5, <2>6, ReadsFlush
  <1>8. ASSUME NEW p \in Put, PutApply(p)
        PROVE  ReadyInv'
    <2> SUFFICES ASSUME ready'
                 PROVE  \E b \in 0 .. Len(sstables') : Own(b)' /\ Reads(memtable, Shown, b)'
      BY DEF ReadyInv
    <2>1. proc # "down" /\ ready /\ UNCHANGED <<key_of, pre>> /\ call[p] = "logged"
      BY <1>8 DEF PutApply
    <2>2. PICK b \in 0 .. Len(sstables) : Own(b) /\ Reads(memtable, Shown, b)
      BY <1>0, <2>1 DEF ReadyInv
    <2>3. PICK m \in Table : m = Applied(p)
      BY <1>0, AppliedTyped
    <2>4. PICK gone \in SUBSET Key : gone = Found(p)
      BY <1>0 DEF DbTypeOK, Found
    <2>5. PICK D \in SUBSET Put : /\ D = {q \in Done \cup {p} : key_of[q] \notin gone}
                                 /\ D = {q \in Done' : key_of[q] \notin gone}
      <3>1. \A q \in Put : call'[q] = IF q = p THEN "returned" ELSE call[q]
        BY <1>0, <1>8 DEF PutApply, DbTypeOK
      <3>2. Done' = Done \cup {p}
        BY <3>1 DEF Done
      <3>3. QED
        BY <1>0, <3>2
    <2>6. Reads(m, D, b)
      BY <1>0, <2>1, <2>2, <2>3, <2>4, <2>5, ReadsApplied
    <2>7. CASE ByteSize(Applied(p)) >= FlushKeys
      <3>1. flush_memtable_locked(m, gone)
        BY <1>8, <2>3, <2>4, <2>7 DEF PutApply
      <3>2. QED
        BY <1>0, <2>1, <2>2, <2>5, <2>6, <3>1, ReadsFlush
    <2>8. CASE ~(ByteSize(Applied(p)) >= FlushKeys)
      <3>1. memtable' = m /\ lost' = gone /\ UNCHANGED <<files, sstables, next_sst_id>>
        BY <1>8, <2>3, <2>4, <2>8 DEF PutApply
      <3>2. Own(b)'
        BY <2>2, <3>1 DEF Own, Stale
      <3>3. Shown' = D
        BY <2>1, <2>5, <3>1 DEF Shown
      <3>4. Reads(memtable, Shown, b)'
        BY <2>1, <2>6, <3>1, <3>3 DEF Reads, Seen
      <3>5. QED
        BY <3>1, <3>2, <3>4
    <2>9. QED
      BY <2>7, <2>8
  <1>9. CASE recover
    <2>1. PICK order \in SetToSeqs(Complete) : sstables' = OpenTables(order)
      BY <1>9 DEF recover
    <2>2. Len(sstables') \in Nat
      BY <1>0, <2>1, TablesOpened, LenProperties
    <2>3. memtable' = Replayed(wal) /\ UNCHANGED <<wal, call, key_of, pre>>
      BY <1>9 DEF recover, hist
    <2>4. Len(sstables') \in 0 .. Len(sstables') /\ \A t \in Len(sstables') + 1 .. Len(sstables') : FALSE
      BY <2>2
    <2>5. PICK b : b = Len(sstables')
      OBVIOUS
    <2>6. Own(b)'
      BY <2>4, <2>5 DEF Own
    <2>7. ASSUME NEW q \in Done
          PROVE  \E p \in Put : /\ memtable'[key_of[q]] = p
                                /\ \A r \in Done : key_of[r] = key_of[q] => p \notin pre[r]
      <3>1. PICK k \in Key : k = key_of[q]
        BY <1>0 DEF DbTypeOK
      <3>2. \A r \in Done : r \in Put /\ r <= Len(wal)
        BY <1>0 DEF LogInv, Done
      <3>3. PICK p \in Put : p = Replayed(wal)[k] /\ \A r \in Put : r <= Len(wal) /\ key_of[r] = k => r <= p
        BY <1>0, <3>1, <3>2, ReplayedLast
      <3>4. ASSUME NEW r \in Done, key_of[r] = k
            PROVE  p \notin pre[r]
        <4>1. r \in Put /\ r <= p
          BY <3>2, <3>3, <3>4
        <4>2. \A x \in pre[r] : x < r
          BY <1>0, <4>1 DEF LogInv
        <4>3. ~(p < r)
          BY <4>1, Numbers
        <4>4. QED
          BY <4>2, <4>3
      <3>5. QED
        BY <2>3, <3>1, <3>3, <3>4
    <2>8. Reads(memtable, Shown, b)'
      <3>1. Shown' \subseteq Done
        BY <2>3 DEF Shown, Done
      <3>2. QED
        BY <2>3, <2>7, <3>1 DEF Reads, Seen
    <2>9. QED
      BY <2>4, <2>5, <2>6, <2>8 DEF ReadyInv
  <1>10. QED
    BY <1>3, <1>4, <1>5, <1>6, <1>7, <1>8, <1>9 DEF DbNext

(* The invariant holds in every state of every behaviour. *)
LEMMA DbInvariant == DbSpec => []DbInv
  <1>1. DbInit => DbInv
    BY DbTypesStart
  <1>2. DbInv /\ [DbNext]_dbVars => DbInv'
    BY DbTypesStep, LogStep, DataStep, ReadyStep DEF DbInv
  <1>3. QED
    BY <1>1, <1>2, PTL DEF DbSpec

(* An acknowledged put is lost only by a failed flush, for any number of   *)
(* threads, lives, tables and recoveries: in the same life or after a      *)
(* recovery get finds it or what replaced it, whatever table files were    *)
(* overwritten meanwhile, unless its key was in a memtable that a failed   *)
(* flush dropped and was neither put nor recovered since (put, get,        *)
(* flush_memtable_locked and recover).                                     *)
THEOREM AcknowledgedPutsRead == DbSpec => []NoStaleRead
  <1>1. DbInv => NoStaleRead
    BY ReadNotStale
  <1>2. QED
    BY <1>1, DbInvariant, PTL

(* A recovery from what is on disk, should the process be killed in any    *)
(* state, never answers with a put that was over before the one that get   *)
(* answers with was called (recover replays the whole log).                *)
THEOREM RecoveryKeepsReads == DbSpec => []RecoveryNotOlder
  <1>1. DbInv => RecoveryNotOlder
    BY NotOlder
  <1>2. QED
    BY <1>1, DbInvariant, PTL

=============================================================================
