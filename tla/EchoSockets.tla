------------------------------ MODULE EchoSockets ------------------------------
(***************************************************************************)
(* External: the TCP connections both echo servers serve, as far as their  *)
(* system calls can tell.  A client sends the bytes 1, 2, 3, ...; what the *)
(* kernel has accepted from the server for it is kept in echoed.           *)
(***************************************************************************)
EXTENDS Integers, Sequences, FiniteSets, SequencesExt

CONSTANTS Clients,   \* each connects once
          MaxBytes,  \* bound: bytes a client sends
          SndBuf,    \* bytes the send buffer of a connection holds
          BufferSize,\* of the server's buffer: the most one read returns
          MaxFaults  \* bound: system calls that fail

ASSUME SocketAssumption ==
  /\ {MaxBytes, SndBuf, BufferSize} \subseteq Nat \ {0}
  /\ MaxFaults \in Nat

Listener == "listener"   \* the other descriptor a server has
ASSUME ClientsAssumption == IsFiniteSet(Clients) /\ Listener \notin Clients

VARIABLES conn,   \* "new", "queued" for accept, "open" or "closed" by the server
          peer,   \* "up", "half" closed, "gone" (closed), "reset"
          sent, taken, echoed, got, \* bytes sent, read by the server, echoed, received
          up,     \* the server runs: not stopped, not killed
          faults
sockVars == <<conn, peer, sent, taken, echoed, got, up, faults>>

SockInit ==
  /\ conn = [c \in Clients |-> "new"]
  /\ peer = [c \in Clients |-> "up"]
  /\ sent = [c \in Clients |-> 0]
  /\ taken = sent /\ got = sent
  /\ echoed = [c \in Clients |-> <<>>]
  /\ up = TRUE
  /\ faults = 0

Unread(c) == sent[c] - taken[c]
Room(c) == SndBuf - (Len(echoed[c]) - got[c])
Readable(c) == Unread(c) > 0 \/ peer[c] # "up"   \* EPOLLIN, or a read completes
AtMost(a, b) == IF a < b THEN a ELSE b

\* Clients are followed while the server runs.
Connect(c) ==
  /\ up /\ conn[c] = "new"
  /\ conn' = [conn EXCEPT ![c] = "queued"]
  /\ UNCHANGED <<peer, sent, taken, echoed, got, up, faults>>

Send(c) ==
  /\ up /\ conn[c] \in {"queued", "open"}
  /\ peer[c] = "up" /\ sent[c] < MaxBytes
  /\ sent' = [sent EXCEPT ![c] = @ + 1]
  /\ UNCHANGED <<conn, peer, taken, echoed, got, up, faults>>

Receive(c) ==
  /\ up /\ peer[c] \in {"up", "half"} /\ got[c] < Len(echoed[c])
  /\ got' = [got EXCEPT ![c] = @ + 1]
  /\ UNCHANGED <<conn, peer, sent, taken, echoed, up, faults>>

\* shutdown(SHUT_WR), or close(), which resets the connection if data is unread.
HangUp(c) ==
  /\ up /\ conn[c] \in {"queued", "open"}
  /\ \/ /\ peer[c] = "up"
        /\ peer' = [peer EXCEPT ![c] = "half"]
     \/ /\ peer[c] \in {"up", "half"}
        /\ peer' = [peer EXCEPT ![c] =
             IF got[c] < Len(echoed[c]) THEN "reset" ELSE "gone"]
  /\ UNCHANGED <<conn, sent, taken, echoed, got, up, faults>>

\* read() of n bytes and write() of a sequence of bytes by the server.
Taken(c, n) == taken' = [taken EXCEPT ![c] = @ + n]
Bytes(c, n) == [i \in 1..n |-> taken[c] + i]
Echo(c, bytes) == echoed' = [echoed EXCEPT ![c] = @ \o bytes]
CloseFd(c) == conn' = [conn EXCEPT ![c] = "closed"]
=============================================================================
