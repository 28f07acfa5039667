---------------------------- MODULE ServerSockets ----------------------------
(***************************************************************************)
(* What the echo servers run on, and who talks to them: the kernel's side  *)
(* of the listening socket and of the connected sockets, the descriptor    *)
(* table of the server process, and the clients.  External: modelled from  *)
(* how the servers use it.                                                 *)
(*                                                                         *)
(* The k-th byte client c sends is <<c, k>>.                               *)
(***************************************************************************)
EXTENDS Integers, Sequences, FiniteSets

CONSTANTS
  Clients,        \* connections that clients may open, each once
  NOFILE,         \* the descriptors of the server process are 0 .. NOFILE-1
  MaxSend,        \* bound: bytes one client sends
  RcvWindow,      \* bytes a client's end holds before the client reads them
  AbortOutcomes,  \* what becomes of a connection reset before accept: it leaves
                  \* the queue (4.4BSD), stays and is accepted (Linux), or stays
                  \* and makes accept return ECONNABORTED (POSIX) or EPROTO (SVR4)
  Trouble         \* what else may go wrong: a connection is lost, the system
                  \* runs out of files or memory

ASSUME ClientsAssumption == Clients \cap {"free", "std", "listen"} = {}
ASSUME FilesAssumption == NOFILE \in Nat /\ NOFILE > 4
ASSUME BoundsAssumption == MaxSend \in Nat /\ RcvWindow \in Nat \ {0}
ASSUME AbortAssumption ==
  AbortOutcomes # {} /\ AbortOutcomes \subseteq {"dequeued", "accepted", "reported"}
ASSUME TroubleAssumption == Trouble \subseteq {"lost", "short"}

VARIABLES
  files,     \* what each descriptor of the server is open on
  queue,     \* the accept queue: completed connections, oldest first
  conn,      \* the server's view: "none", "queued", "aborted", "open", "closed"
  peer,      \* the client's end: "none", "open", "half" (FIN sent), "closed"
  broken,    \* the connection has an error: it has been reset, or it is lost
  lost,      \* the connections lost otherwise than by a RST (ETIMEDOUT, EHOSTUNREACH)
  short,     \* the system has run out of files or memory (ENFILE, ENOBUFS, ENOMEM)
  sentBy,    \* bytes the client has sent
  readFrom,  \* how many of them the server has read
  echoed,    \* what the server has written to the connection, in order
  consumed   \* how many of those bytes the client has read

sockVars == <<files, queue, conn, peer, broken, lost, short, sentBy, readFrom, echoed, consumed>>

listenfd == 3     \* the first descriptor after the standard ones

FDs == 0..(NOFILE - 1)
FreeFds == {fd \in FDs : files[fd] = "free"}
Lowest(S, n) == n \in S /\ \A m \in S : n <= m

SocketsInit ==
  /\ files = [fd \in FDs |-> IF fd < listenfd THEN "std"
                             ELSE IF fd = listenfd THEN "listen" ELSE "free"]
  /\ queue = <<>>
  /\ conn = [c \in Clients |-> "none"]
  /\ peer = [c \in Clients |-> "none"]
  /\ broken = [c \in Clients |-> FALSE] /\ lost = {}
  /\ short = FALSE
  /\ sentBy = [c \in Clients |-> 0]
  /\ readFrom = [c \in Clients |-> 0]
  /\ echoed = [c \in Clients |-> <<>>]
  /\ consumed = [c \in Clients |-> 0]

Pending(c) == readFrom[c] < sentBy[c]
Fin(c)     == peer[c] \in {"half", "closed"}
Readable(c) == Pending(c) \/ Fin(c) \/ broken[c]

(* Room for bytes towards c.  An end that was closed takes and discards     *)
(* them (and answers with a RST).                                           *)
Room(c) == peer[c] = "closed" \/ Len(echoed[c]) - consumed[c] < RcvWindow

-----------------------------------------------------------------------------
(* The clients and the network. *)

ClientConnect(c) ==
  /\ conn[c] = "none"
  /\ conn' = [conn EXCEPT ![c] = "queued"]
  /\ peer' = [peer EXCEPT ![c] = "open"]
  /\ queue' = Append(queue, c)
  /\ UNCHANGED <<files, broken, lost, short, sentBy, readFrom, echoed, consumed>>

ClientSend(c) ==
  /\ peer[c] = "open" /\ ~broken[c] /\ sentBy[c] < MaxSend
  /\ sentBy' = [sentBy EXCEPT ![c] = @ + 1]
  /\ UNCHANGED <<files, queue, conn, peer, broken, lost, short, readFrom, echoed, consumed>>

ClientRead(c) ==
  /\ peer[c] \in {"open", "half"} /\ consumed[c] < Len(echoed[c])
  /\ consumed' = [consumed EXCEPT ![c] = @ + 1]
  /\ UNCHANGED <<files, queue, conn, peer, broken, lost, short, sentBy, readFrom, echoed>>

(* shutdown(SHUT_WR), or close(). *)
ClientFin(c) ==
  /\ ~broken[c]
  /\ \E p \in {"half", "closed"} :
       /\ peer[c] = "open" \/ (peer[c] = "half" /\ p = "closed")
       /\ peer' = [peer EXCEPT ![c] = p]
  /\ UNCHANGED <<files, queue, conn, broken, lost, short, sentBy, readFrom, echoed, consumed>>

(* Bytes that the server wrote reach an end that was closed. *)
LateRst(c) ==
  /\ peer[c] = "closed" /\ ~broken[c] /\ conn[c] = "open" /\ consumed[c] < Len(echoed[c])
  /\ broken' = [broken EXCEPT ![c] = TRUE]
  /\ UNCHANGED <<files, queue, conn, peer, lost, short, sentBy, readFrom, echoed, consumed>>

(* What the server wrote is not acknowledged any more: the kernel gives up, *)
(* or is told that there is no route.                                       *)
ConnectionLost(c) ==
  /\ "lost" \in Trouble
  /\ conn[c] = "open" /\ ~broken[c] /\ echoed[c] # <<>>
  /\ broken' = [broken EXCEPT ![c] = TRUE]
  /\ lost' = lost \cup {c}
  /\ UNCHANGED <<files, queue, conn, peer, short, sentBy, readFrom, echoed, consumed>>

(* close() with SO_LINGER set to zero, as nonblock_tcpcli3_rst does, before *)
(* or after the server has accepted the connection.                         *)
ClientAbort(c) ==
  /\ peer[c] \in {"open", "half"} /\ ~broken[c]
  /\ peer' = [peer EXCEPT ![c] = "closed"]
  /\ broken' = [broken EXCEPT ![c] = TRUE]
  /\ \/ /\ conn[c] = "queued" /\ "dequeued" \in AbortOutcomes
        /\ \E k \in DOMAIN queue :
             queue[k] = c /\ queue' = SubSeq(queue, 1, k - 1) \o SubSeq(queue, k + 1, Len(queue))
        /\ conn' = [conn EXCEPT ![c] = "aborted"]
     \/ /\ conn[c] = "queued" /\ "reported" \in AbortOutcomes
        /\ conn' = [conn EXCEPT ![c] = "aborted"]
        /\ UNCHANGED queue
     \/ /\ conn[c] = "queued" => "accepted" \in AbortOutcomes
        /\ UNCHANGED <<queue, conn>>
  /\ UNCHANGED <<files, lost, short, sentBy, readFrom, echoed, consumed>>

ClientStep(c) ==
  \/ ClientConnect(c) \/ ClientSend(c) \/ ClientRead(c)
  \/ ClientFin(c) \/ LateRst(c) \/ ConnectionLost(c) \/ ClientAbort(c)

Shortage ==
  /\ "short" \in Trouble /\ ~short
  /\ short' = TRUE
  /\ UNCHANGED <<files, queue, conn, peer, broken, lost, sentBy, readFrom, echoed, consumed>>

-----------------------------------------------------------------------------
(* The system calls of the server. *)

(* accept() takes the oldest connection and the lowest free descriptor. *)
SysAccept(fd) ==
  /\ queue # <<>> /\ conn[Head(queue)] # "aborted"
  /\ Lowest(FreeFds, fd)
  /\ files' = [files EXCEPT ![fd] = Head(queue)]
  /\ conn' = [conn EXCEPT ![Head(queue)] = "open"]
  /\ queue' = Tail(queue)
  /\ UNCHANGED <<peer, broken, lost, short, sentBy, readFrom, echoed, consumed>>

(* It returns ECONNABORTED (EPROTO) for a connection that has gone.         *)
SysAcceptAborted ==
  /\ queue # <<>> /\ conn[Head(queue)] = "aborted"
  /\ queue' = Tail(queue)
  /\ UNCHANGED <<files, conn, peer, broken, lost, short, sentBy, readFrom, echoed, consumed>>

(* It returns EMFILE, ENFILE, ENOBUFS or ENOMEM.                            *)
AcceptRunsOut == FreeFds = {} \/ short

(* read() returns the next n bytes of c. *)
SysRead(c, n) ==
  /\ n \in 1..(sentBy[c] - readFrom[c])
  /\ readFrom' = [readFrom EXCEPT ![c] = @ + n]
  /\ UNCHANGED <<files, queue, conn, peer, broken, lost, short, sentBy, echoed, consumed>>

(* write() takes the bytes there is room for. *)
SysWrite(c, bytes) ==
  /\ Room(c)
  /\ peer[c] # "closed" => Len(echoed[c]) + Len(bytes) - consumed[c] <= RcvWindow
  /\ echoed' = [echoed EXCEPT ![c] = @ \o bytes]
  /\ UNCHANGED <<files, queue, conn, peer, broken, lost, short, sentBy, readFrom, consumed>>

SysClose(fd) ==
  /\ conn' = [conn EXCEPT ![files[fd]] = "closed"]
  /\ files' = [files EXCEPT ![fd] = "free"]
  /\ UNCHANGED <<queue, peer, broken, lost, short, sentBy, readFrom, echoed, consumed>>
=============================================================================
