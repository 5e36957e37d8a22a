----------------------------- MODULE IoUringReactor -----------------------------
(***************************************************************************)
(* iouring_reactor.hpp: completions drive a state machine per connection.  *)
(* An operation is in the submission ring, in the kernel (external) or, as *)
(* a completion, in the completion ring; its ConnectionContext with it.    *)
(***************************************************************************)
EXTENDS EchoSockets

CONSTANT SqSizes   \* sizes the submission ring may have
ASSUME SqAssumption == SqSizes \subseteq Nat \ {0}

VARIABLES sq, pending_sqes, flight, cq, io,
          sq_entries, \* params_.sq_entries: the size of the ring
          short,      \* connections for which the kernel wrote less than was asked
          dropped     \* whose next operation get_sqe() had no room for
ioVars == <<sq, pending_sqes, flight, cq, io, sq_entries, short, dropped>>

AcceptOp == [type |-> "accept"]
ReadOp(c) == [type |-> "read", c |-> c]
WriteOp(c, bytes) == [type |-> "write", c |-> c, bytes |-> bytes]

GetSqeOffByOne(q, op) ==   \* mutant
  IF Len(q) >= sq_entries - 1 THEN q ELSE Append(q, op)

\* get_sqe(): nothing is submitted if the ring is full, and the caller returns.
get_sqe(q, op) == IF Len(q) >= sq_entries THEN q ELSE Append(q, op)

submit_accept(q) == get_sqe(q, AcceptOp)
submit_read(q, c) == get_sqe(q, ReadOp(c))
submit_write(q, c, bytes) == get_sqe(q, WriteOp(c, bytes))

\* Nobody looks at who got no entry: its context stays without an operation.
Refused(q, op, who) == IF get_sqe(q, op) = q THEN {who} ELSE {}

\* Requests added to the ring are counted for the next io_uring_enter.
Submitted(q) == sq' = q /\ pending_sqes' = pending_sqes + Len(q) - Len(sq)

\* init(): the rings are mapped and the first accept is queued.
IoInit ==
  /\ sq_entries \in SqSizes /\ dropped = {}
  /\ sq = submit_accept(<<>>) /\ pending_sqes = Len(sq)
  /\ flight = {} /\ cq = <<>> /\ short = {}
  /\ io = [pc |-> "top", left |-> 0]

IoClient(c) ==
  (Connect(c) \/ Send(c) \/ HangUp(c) \/ Receive(c)) /\ UNCHANGED ioVars

\* run(): io_uring_enter takes pending_sqes_ entries from the ring.  Its result is
\* not looked at: after a failure the entries stay, and are not counted any more.
IoEnter ==
  /\ up /\ io.pc = "top"
  /\ io' = [io EXCEPT !.pc = "poll"]
  /\ pending_sqes' = 0
  /\ \/ /\ sq' = SubSeq(sq, pending_sqes + 1, Len(sq))
        /\ flight' = flight \cup {sq[i] : i \in 1..pending_sqes}
        /\ UNCHANGED faults
     \/ /\ pending_sqes > 0 /\ faults < MaxFaults
        /\ faults' = faults + 1
        /\ UNCHANGED <<sq, flight>>
  /\ UNCHANGED <<conn, peer, sent, taken, echoed, got, up, cq, sq_entries, short, dropped>>

\* run(): the tail of the completion ring is read; a sleep if nothing is there.
IoPoll ==
  /\ up /\ io.pc = "poll"
  /\ io' = IF cq = <<>> THEN [io EXCEPT !.pc = "top"]
                        ELSE [pc |-> "drain", left |-> Len(cq)]
  /\ UNCHANGED <<sockVars, sq, pending_sqes, flight, cq, sq_entries, short, dropped>>

\* handle_completion() of the oldest completion; the head is stored after the last.
handle_completion ==
  LET e == Head(cq) IN
  /\ up /\ io.pc = "drain"
  /\ cq' = Tail(cq)
  /\ io' = [pc |-> IF io.left = 1 THEN "top" ELSE "drain", left |-> io.left - 1]
  /\ UNCHANGED <<peer, sent, taken, echoed, got, up, faults, flight, sq_entries, short>>
  /\ \/ /\ e.op.type = "accept"
        /\ LET q == IF e.ok THEN submit_read(sq, e.c) ELSE sq IN
           /\ Submitted(submit_accept(q))
           /\ dropped' = dropped \cup Refused(q, AcceptOp, Listener)
                \cup IF e.ok THEN Refused(sq, ReadOp(e.c), e.c) ELSE {}
        /\ UNCHANGED conn
     \/ /\ e.op.type = "read" /\ e.ok
        /\ Submitted(submit_write(sq, e.op.c, e.bytes))
        /\ dropped' = dropped \cup Refused(sq, WriteOp(e.op.c, e.bytes), e.op.c)
        /\ UNCHANGED conn
     \/ /\ e.op.type = "write" /\ e.ok
        /\ Submitted(submit_read(sq, e.op.c))
        /\ dropped' = dropped \cup Refused(sq, ReadOp(e.op.c), e.op.c)
        /\ UNCHANGED conn
     \/ /\ e.op.type # "accept" /\ ~e.ok
        /\ CloseFd(e.op.c)
        /\ Submitted(sq) /\ UNCHANGED dropped

-----------------------------------------------------------------------------
(* The kernel (external). *)

Completed(op, e) ==
  /\ op \in flight /\ up
  /\ flight' = flight \ {op}
  /\ cq' = Append(cq, e)
  /\ UNCHANGED <<peer, sent, got, sq, pending_sqes, io, sq_entries, dropped>>

Accepts(c) ==
  /\ conn[c] = "queued"
  /\ \/ /\ conn' = [conn EXCEPT ![c] = "open"]
        /\ Completed(AcceptOp, [op |-> AcceptOp, ok |-> TRUE, c |-> c])
        /\ UNCHANGED faults
     \/ /\ faults < MaxFaults
        /\ faults' = faults + 1
        /\ Completed(AcceptOp, [op |-> AcceptOp, ok |-> FALSE])
        /\ UNCHANGED conn
  /\ UNCHANGED <<taken, echoed, up, short>>

Reads(c) ==
  LET n == IF peer[c] = "reset" THEN 0 ELSE AtMost(Unread(c), BufferSize) IN
  /\ Readable(c)
  /\ Completed(ReadOp(c), [op |-> ReadOp(c), ok |-> n > 0, bytes |-> Bytes(c, n)])
  /\ Taken(c, n)
  /\ UNCHANGED <<conn, echoed, up, faults, short>>

Writes(c) ==
  \E op \in {o \in flight : o.type = "write" /\ o.c = c} :
    LET n == AtMost(Len(op.bytes), Room(c)) IN
    /\ UNCHANGED <<conn, taken, faults>>
    /\ \/ /\ peer[c] = "reset"
          /\ Completed(op, [op |-> op, ok |-> FALSE])
          /\ UNCHANGED <<echoed, up, short>>
       \/ /\ peer[c] = "gone"
          /\ Completed(op, [op |-> op, ok |-> TRUE])
          /\ up' \in BOOLEAN
          /\ UNCHANGED <<echoed, short>>
       \/ /\ peer[c] \in {"up", "half"} /\ n > 0
          /\ Completed(op, [op |-> op, ok |-> TRUE])
          /\ Echo(c, SubSeq(op.bytes, 1, n))
          /\ short' = IF n < Len(op.bytes) THEN short \cup {c} ELSE short
          /\ UNCHANGED up

Completes(c) == Accepts(c) \/ Reads(c) \/ Writes(c)

\* stop(): the ring and the listener are closed.
IoStop == up /\ up' = FALSE /\ UNCHANGED <<conn, peer, sent, taken, echoed, got, faults, ioVars>>

IoServer == IoEnter \/ IoPoll \/ handle_completion
IoNext == IoServer \/ IoStop \/ \E c \in Clients : IoClient(c) \/ Completes(c)
=============================================================================
