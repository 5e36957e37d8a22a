---------------------------- MODULE EpollEchoServer ----------------------------
(***************************************************************************)
(* epoll_server.hpp: one thread, edge-triggered epoll, non-blocking        *)
(* sockets.  ready is the kernel's ready list (external): a descriptor     *)
(* enters it when something arrives and leaves it when it is reported,     *)
(* with the events that hold at that moment.                               *)
(***************************************************************************)
EXTENDS EchoSockets

VARIABLES ready, ep
epVars == <<ready, ep>>

Pending == {c \in Clients : conn[c] = "queued"}

\* init(): the listener is registered; a failure there leaves no server to model.
EpInit == ready = {} /\ ep = [pc |-> "wait", batch |-> {}, fd |-> Listener, buf |-> <<>>]

\* Something arrived for c: a connection for the listener, data or the end for c.
Arrived(c) ==
  ready' = ready \cup (IF conn[c] = "new" THEN {Listener}
                       ELSE IF conn[c] = "open" THEN {c} ELSE {})

EpClient(c) ==
  \/ (Connect(c) \/ Send(c) \/ HangUp(c)) /\ Arrived(c) /\ UNCHANGED ep
  \/ Receive(c) /\ UNCHANGED epVars

\* run(): epoll_wait reports what is ready; its time-outs change nothing.
EpWait ==
  LET events == {f \in ready : IF f = Listener THEN Pending # {} ELSE Readable(f)} IN
  /\ up /\ ep.pc = "wait" /\ events # {}
  /\ ep' = [ep EXCEPT !.pc = "next",
              !.batch = {[fd |-> f, hup |-> f # Listener /\ peer[f] # "up"] : f \in events}]
  /\ ready' = {}
  /\ UNCHANGED sockVars

NextEvent == [ep EXCEPT !.pc = "next", !.fd = Listener, !.buf = <<>>]

close_client(c) == CloseFd(c) /\ ep' = NextEvent /\ ready' = ready \ {c}

\* run(): the next event of the batch.  An end or error of the connection closes
\* it even if there is data to read.
EpDispatch ==
  /\ up /\ ep.pc = "next"
  /\ UNCHANGED <<peer, sent, taken, echoed, got, up, faults>>
  /\ IF ep.batch = {} THEN ep' = [ep EXCEPT !.pc = "wait"] /\ UNCHANGED <<ready, conn>>
     ELSE \E e \in ep.batch :
       LET rest == ep.batch \ {e} IN
       IF e.hup
       THEN /\ CloseFd(e.fd)
            /\ ep' = [ep EXCEPT !.batch = rest]
            /\ ready' = ready \ {e.fd}
       ELSE /\ ep' = [ep EXCEPT !.batch = rest, !.fd = e.fd,
                                !.pc = IF e.fd = Listener THEN "accept" ELSE "read"]
            /\ UNCHANGED <<ready, conn>>

AcceptOnce ==   \* mutant: one accept per event
  /\ up /\ ep.pc = "accept"
  /\ ep' = NextEvent
  /\ \E c \in Pending : conn' = [conn EXCEPT ![c] = "open"]
                      /\ ready' = IF Readable(c) THEN ready \cup {c} ELSE ready
  /\ UNCHANGED <<peer, sent, taken, echoed, got, up, faults>>

\* handle_accept(): accept4 until it fails; EAGAIN and every other error end the
\* loop.  A descriptor epoll_ctl refuses is closed.
handle_accept ==
  /\ up /\ ep.pc = "accept"
  /\ UNCHANGED <<peer, sent, taken, echoed, got, up>>
  /\ \/ /\ Pending = {}
        /\ ep' = NextEvent
        /\ UNCHANGED <<ready, conn, faults>>
     \/ \E c \in Pending :
          /\ conn' = [conn EXCEPT ![c] = "open"]
          /\ ready' = IF Readable(c) THEN ready \cup {c} ELSE ready
          /\ UNCHANGED <<ep, faults>>
     \/ /\ Pending # {} /\ faults < MaxFaults
        /\ faults' = faults + 1
        /\ \/ ep' = NextEvent /\ UNCHANGED conn
           \/ UNCHANGED ep /\ \E c \in Pending : CloseFd(c)
        /\ UNCHANGED ready

\* handle_read(): one read(); data, end of file, EAGAIN or an error.
EpRead ==
  LET c == ep.fd  n == AtMost(Unread(c), BufferSize) IN
  /\ up /\ ep.pc = "read"
  /\ UNCHANGED <<peer, sent, echoed, got, up, faults>>
  /\ IF peer[c] # "reset" /\ n > 0
     THEN /\ Taken(c, n)
          /\ ep' = [ep EXCEPT !.pc = "write", !.buf = Bytes(c, n)]
          /\ UNCHANGED <<ready, conn>>
     ELSE /\ UNCHANGED taken
          /\ IF peer[c] # "up" THEN close_client(c)
             ELSE ep' = NextEvent /\ UNCHANGED <<ready, conn>>

\* What is left to do after n bytes of the buffer are written: the rest of it, then
\* the next read.
AfterWriteFromStart(n) ==   \* mutant: the rest is taken from the buffer's start
  IF n = Len(ep.buf) THEN [ep EXCEPT !.pc = "read", !.buf = <<>>] ELSE ep
AfterWrite(n) ==
  IF n = Len(ep.buf) THEN [ep EXCEPT !.pc = "read", !.buf = <<>>]
                     ELSE [ep EXCEPT !.buf = SubSeq(@, n + 1, Len(@))]

\* handle_read(): one write() of what is left of the buffer.  EAGAIN is a spin,
\* with every other connection waiting.  A write to a peer that has gone is
\* swallowed once, then it is a SIGPIPE.
EpWrite ==
  LET c == ep.fd  n == AtMost(Len(ep.buf), Room(c)) IN
  /\ up /\ ep.pc = "write"
  /\ UNCHANGED <<peer, sent, taken, got, faults>>
  /\ \/ /\ peer[c] = "reset"
        /\ close_client(c)
        /\ UNCHANGED <<echoed, up>>
     \/ /\ peer[c] = "gone"
        /\ up' \in BOOLEAN
        /\ ep' = AfterWrite(Len(ep.buf))
        /\ UNCHANGED <<conn, echoed, ready>>
     \/ /\ peer[c] \in {"up", "half"} /\ n > 0
        /\ Echo(c, SubSeq(ep.buf, 1, n))
        /\ ep' = AfterWrite(n)
        /\ UNCHANGED <<conn, ready, up>>

\* stop(): both descriptors are closed; run() ends at its next test.  Connections
\* stay open until the process ends.
EpStop == up /\ up' = FALSE /\ UNCHANGED <<conn, peer, sent, taken, echoed, got, faults, epVars>>

EpServer == EpWait \/ EpDispatch \/ handle_accept \/ EpRead \/ EpWrite
EpNext == EpServer \/ EpStop \/ \E c \in Clients : EpClient(c)
=============================================================================
