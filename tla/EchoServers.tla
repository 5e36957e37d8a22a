------------------------------ MODULE EchoServers ------------------------------
(***************************************************************************)
(* The two echo servers of chapter 05 against the same clients and sockets *)
(* and the same two requirements.  server says which one runs.             *)
(***************************************************************************)
EXTENDS EpollEchoServer, IoUringReactor

VARIABLE server
echoVars == <<sockVars, epVars, ioVars, server>>

EchoInit == SockInit /\ EpInit /\ IoInit /\ server \in {"epoll", "io_uring"}

Epoll(A) == server = "epoll" /\ A /\ UNCHANGED <<ioVars, server>>
IoUring(A) == server = "io_uring" /\ A /\ UNCHANGED <<epVars, server>>
EchoNext == Epoll(EpNext) \/ IoUring(IoNext)

\* The server's thread and the kernel run; a client need not read, nor hang up.
EchoFairness ==
  /\ WF_echoVars(Epoll(EpServer)) /\ WF_echoVars(IoUring(IoServer))
  /\ \A c \in Clients : WF_echoVars(IoUring(Completes(c)))
EchoSpec == EchoInit /\ [][EchoNext]_echoVars /\ EchoFairness

(***************************************************************************)
(* EchoFaithful: what a client gets back is what it sent, in order, nothing *)
(* twice and nothing invented, and without a gap unless io_uring completed  *)
(* a write short, whose rest the reactor never writes (handle_read,         *)
(* epoll_server.hpp:163-201; handle_completion, iouring_reactor.hpp:266).   *)
(***************************************************************************)
EchoFaithful ==
  \A c \in Clients :
    /\ \A i \in DOMAIN echoed[c] :
         /\ echoed[c][i] \in 1..taken[c]
         /\ i > 1 => echoed[c][i - 1] < echoed[c][i]
    /\ c \notin short => echoed[c] = [i \in 1..Len(echoed[c]) |-> i]

(***************************************************************************)
(* EveryByteEchoed: again and again a client has got back all it has sent,  *)
(* whenever it sends and in how many pieces, in spite of edge-triggered     *)
(* events, several clients at once and others that hang up: since it sends  *)
(* at most MaxBytes, every byte comes back.  That is so unless the          *)
(* connection is lost or remains stuck (run, handle_accept and handle_read, *)
(* epoll_server.hpp:88-201; run and handle_completion,                      *)
(* iouring_reactor.hpp:136-277).  It is lost when the server is stopped or  *)
(* killed, when the client closes, or only half-closes and the server is    *)
(* the epoll one, which then closes without a read (see FullyDrained), when *)
(* a write was short, get_sqe() had no entry for it, or registering it      *)
(* failed.                                                                  *)
(***************************************************************************)
Lost(c) ==
  \/ ~up \/ peer[c] \in {"gone", "reset"} \/ (server = "epoll" /\ peer[c] = "half")
  \/ c \in short \/ c \in dropped \/ (conn[c] = "queued" /\ Listener \in dropped)
  \/ (conn[c] = "closed" /\ peer[c] = "up" /\ faults > 0)

\* It is stuck while the client reads nothing, while the one thread of the epoll
\* server spins for another client that reads nothing, and while its operation is
\* left in the ring by an io_uring_enter, or itself in the backlog by an accept4,
\* that failed.
Stuck(c) ==
  \/ Room(c) = 0
  \/ server = "epoll" /\ ep.pc = "write" /\ Room(ep.fd) = 0
  \/ server = "io_uring" /\ \E i \in pending_sqes + 1 .. Len(sq) :
       IF sq[i].type = "accept" THEN conn[c] = "queued" ELSE sq[i].c = c
  \/ server = "epoll" /\ conn[c] = "queued" /\ faults > 0

EveryByteEchoed ==
  \A c \in Clients : <>[]Stuck(c) \/ []<>(Len(echoed[c]) = sent[c] \/ Lost(c))

(***************************************************************************)
(* FullyDrained: "Drain receive buffer completely until EAGAIN"             *)
(* (epoll_server.hpp:166), "full buffer draining" (README of module 05): a  *)
(* client that sends and then only shuts down its sending side, the usual   *)
(* way to mark the end of a request, has got everything back when the       *)
(* server closes the connection.  Not so: EPOLLRDHUP is reported together   *)
(* with EPOLLIN, and run() then closes without a read (line 103).           *)
(***************************************************************************)
FullyDrained ==
  \A c \in Clients :
    server = "epoll" /\ conn[c] = "closed" /\ peer[c] = "half" /\ faults = 0
      => Len(echoed[c]) = sent[c]

(***************************************************************************)
(* OneOperation: every open connection has exactly one operation in the     *)
(* rings or the kernel, and so has the listener, unless get_sqe() once had  *)
(* no entry for it: none is closed or its buffer reused while the kernel    *)
(* still works on it.  And get_sqe() has an entry for everybody until as    *)
(* many connections have been accepted as the ring has entries, whatever    *)
(* completes in one batch and whatever a failed io_uring_enter left there   *)
(* (iouring_reactor.hpp:184-277).                                           *)
(***************************************************************************)
Accepted == {c \in Clients : conn[c] \in {"open", "closed"}}
OneOperation ==
  LET ops(P(_)) == Cardinality({i \in DOMAIN sq : P(sq[i])})
                 + Cardinality({o \in flight : P(o)})
                 + Cardinality({i \in DOMAIN cq : P(cq[i].op)})
      of(c) == ops(LAMBDA o : o.type # "accept" /\ o.c = c)
             + Cardinality({i \in DOMAIN cq : cq[i].op.type = "accept" /\ cq[i].ok
                                              /\ cq[i].c = c}) IN
  server = "io_uring" =>
    /\ ops(LAMBDA o : o.type = "accept") = IF Listener \in dropped THEN 0 ELSE 1
    /\ \A c \in Clients : of(c) = IF conn[c] = "open" /\ c \notin dropped THEN 1 ELSE 0
    /\ dropped # {} => Cardinality(Accepted) >= sq_entries
=============================================================================
