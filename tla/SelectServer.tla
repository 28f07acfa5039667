---------------------------- MODULE SelectServer ----------------------------
(***************************************************************************)
(* The single-process echo servers server_2_select, server_2_pselect and   *)
(* nonblock_srv_select_accept_busy: one loop that waits in select, accepts *)
(* at most one connection, then reads from and echoes to the clients       *)
(* select reported.  The third sleeps before accept (any time may pass     *)
(* there in the others, too) and does not check what accept returns.       *)
(*                                                                         *)
(* client[] holds the connected descriptors (-1: free entry), maxi its     *)
(* highest index ever used, maxfd the highest descriptor, allset what      *)
(* select is asked about.  Every system call that may block, and every     *)
(* iteration of the client loop that reads, is a step of its own.          *)
(***************************************************************************)
EXTENDS ServerSockets

CONSTANTS
  FD_SETSIZE,      \* entries of client[], and bits of an fd_set
  SigintBlocked,   \* server_2_pselect: SIGINT is delivered inside pselect only
  AcceptChecked,   \* all but nonblock_srv_select_accept_busy
  StrayBit         \* the bit FD_SET(-1) may set: 63 in the GNU library on x86-64

(* A descriptor fits an fd_set; above that, FD_SET writes outside the set. *)
ASSUME SetSizeAssumption == FD_SETSIZE \in Nat /\ NOFILE <= FD_SETSIZE
ASSUME ProgramAssumption == SigintBlocked \in BOOLEAN /\ AcceptChecked \in BOOLEAN
ASSUME StrayBitAssumption == StrayBit \in Nat /\ StrayBit > listenfd

VARIABLES
  pc,        \* "select", "accept", "scan", "write"; "exited" (SIGINT), "failed"
  client, maxi, maxfd, allset,
  rset,      \* what select reported: main never clears its bits
  nready,    \* descriptors reported and not yet handled
  i,         \* the client loop's index
  buf        \* bytes read and still to be written by Writen

tableVars == <<client, maxi, maxfd, allset>>
passVars  == <<rset, nready, i, buf>>
vars == <<pc, tableVars, passVars, sockVars>>

Slots == 0..(FD_SETSIZE - 1)
FreeSlots == {s \in Slots : client[s] < 0}
Stopped == pc \in {"exited", "failed"}

Init ==
  /\ SocketsInit
  /\ pc = "select"
  /\ client = [s \in Slots |-> -1]
  /\ maxi = -1
  /\ maxfd = listenfd
  /\ allset = {listenfd}
  /\ rset = {} /\ nready = 0 /\ i = 0 /\ buf = <<>>

(* select returns EBADF when it is asked about a descriptor that is not open. *)
AsksClosed == \E fd \in allset : fd <= maxfd /\ fd \in FreeFds

ReadyFd(fd) ==
  \/ files[fd] = "listen" /\ queue # <<>>
  \/ files[fd] \in Clients /\ Readable(files[fd])

(* Mutant: accept is called whatever select reported. *)
SelectThenAccept ==
  /\ pc = "select" /\ ~AsksClosed
  /\ rset' = {fd \in allset : fd <= maxfd /\ fd \in FDs /\ ReadyFd(fd)}
  /\ rset' # {}
  /\ nready' = Cardinality(rset')
  /\ pc' = "accept"
  /\ i' = 0
  /\ UNCHANGED <<tableVars, buf, sockVars>>

(* select (maxfd + 1, &rset) with rset = allset; it looks at the first       *)
(* maxfd + 1 descriptors and blocks until one is ready.                     *)
Select ==
  /\ pc = "select" /\ ~AsksClosed
  /\ rset' = {fd \in allset : fd <= maxfd /\ fd \in FDs /\ ReadyFd(fd)}
  /\ rset' # {}
  /\ nready' = Cardinality(rset')
  /\ pc' = IF listenfd \in rset' THEN "accept" ELSE "scan"
  /\ i' = 0
  /\ UNCHANGED <<tableVars, buf, sockVars>>

SelectFails ==
  /\ pc = "select" /\ AsksClosed
  /\ pc' = "failed"                   \* err_sys
  /\ UNCHANGED <<tableVars, passVars, sockVars>>

(* Mutant: a handled descriptor is still counted. *)
HandledUncounted(next) ==
  /\ nready' = nready
  /\ IF nready' <= 0 THEN pc' = "select" /\ i' = 0
                     ELSE pc' = "scan" /\ i' = next

(* One descriptor has been handled: --nready <= 0 ends the pass. *)
Handled(next) ==
  /\ nready' = nready - 1
  /\ IF nready' <= 0 THEN pc' = "select" /\ i' = 0
                     ELSE pc' = "scan" /\ i' = next

(* Mutant: maxfd keeps its first value. *)
AcceptKeepsMaxfd ==
  /\ pc = "accept"
  /\ \E fd \in FDs, s \in Slots :
       /\ SysAccept(fd)
       /\ Lowest(FreeSlots, s)
       /\ client' = [client EXCEPT ![s] = fd]
       /\ allset' = allset \cup {fd}
       /\ maxi' = IF s > maxi THEN s ELSE maxi
  /\ Handled(0)
  /\ UNCHANGED <<maxfd, rset, buf>>

(* Accept blocks while the queue is empty; the connection goes to the first *)
(* free entry of client[].                                                  *)
Accept ==
  /\ pc = "accept"
  /\ \E fd \in FDs, s \in Slots :
       /\ SysAccept(fd)
       /\ Lowest(FreeSlots, s)
       /\ client' = [client EXCEPT ![s] = fd]
       /\ allset' = allset \cup {fd}
       /\ maxfd' = IF fd > maxfd THEN fd ELSE maxfd
       /\ maxi' = IF s > maxi THEN s ELSE maxi
  /\ Handled(0)
  /\ UNCHANGED <<rset, buf>>

(* The wrapper Accept calls accept again for a connection that has gone,    *)
(* and may block there.                                                     *)
AcceptAgain ==
  /\ pc = "accept" /\ AcceptChecked
  /\ SysAcceptAborted
  /\ UNCHANGED <<pc, tableVars, passVars>>

(* Any other error of accept is err_sys.  There is always an entry for a    *)
(* descriptor (TableConsistent), so err_quit("too many clients") has no     *)
(* action.                                                                  *)
AcceptFails ==
  /\ pc = "accept" /\ AcceptChecked
  /\ AcceptRunsOut
  /\ pc' = "failed"
  /\ UNCHANGED <<tableVars, passVars, sockVars>>

(* Unchecked, the -1 of an accept that failed for whatever reason goes to   *)
(* the first free entry, which stays free, and to FD_SET, whose behaviour   *)
(* for it is undefined: it leaves allset alone, sets some bit of it, or     *)
(* ends the process (the checks of the C library, or a fault).              *)
AcceptFailsUnseen ==
  /\ pc = "accept" /\ ~AcceptChecked
  /\ (AcceptRunsOut /\ UNCHANGED sockVars) \/ SysAcceptAborted
  /\ \/ /\ allset' \in {allset, allset \cup {StrayBit}}
        /\ \E s \in Slots : Lowest(FreeSlots, s) /\ maxi' = IF s > maxi THEN s ELSE maxi
        /\ Handled(0)
     \/ pc' = "failed" /\ UNCHANGED <<allset, maxi, nready, i>>
  /\ UNCHANGED <<client, maxfd, rset, buf>>

(* The entries the client loop has yet to reach and will read from. *)
DueSlots == {s \in Slots : i <= s /\ s <= maxi /\ client[s] >= 0 /\ client[s] \in rset}

(* Mutant: the bytes are taken from one place past where read() put them. *)
ReadDataShifted(s) ==
  LET c == files[client[s]] IN
  /\ Pending(c)
  /\ \E n \in 1..(sentBy[c] - readFrom[c]) :
       /\ SysRead(c, n)
       /\ buf' = [k \in 1..n |-> <<c, readFrom[c] + k + 1>>]
  /\ pc' = "write" /\ i' = s
  /\ UNCHANGED <<tableVars, nready>>

(* Read: the bytes there are, or 0 at the FIN (the descriptor is closed and *)
(* dropped), or err_sys when the connection is broken.                      *)
ReadData(s) ==
  LET c == files[client[s]] IN
  /\ Pending(c)
  /\ \E n \in 1..(sentBy[c] - readFrom[c]) :
       /\ SysRead(c, n)
       /\ buf' = [k \in 1..n |-> <<c, readFrom[c] + k>>]
  /\ pc' = "write" /\ i' = s
  /\ UNCHANGED <<tableVars, nready>>

(* Mutants: the descriptor stays in allset; a FIN is taken for an error. *)
ReadEofLeavesSet(s) ==
  /\ LET c == files[client[s]] IN ~Pending(c) /\ Fin(c) /\ ~broken[c]
  /\ SysClose(client[s])
  /\ client' = [client EXCEPT ![s] = -1]
  /\ Handled(s + 1)
  /\ UNCHANGED <<allset, maxi, maxfd, buf>>

ReadEofIsError(s) ==
  /\ LET c == files[client[s]] IN ~Pending(c) /\ Fin(c) /\ ~broken[c]
  /\ pc' = "failed"
  /\ UNCHANGED <<tableVars, nready, i, buf, sockVars>>

ReadEof(s) ==
  /\ LET c == files[client[s]] IN ~Pending(c) /\ Fin(c) /\ ~broken[c]
  /\ SysClose(client[s])
  /\ allset' = allset \ {client[s]}
  /\ client' = [client EXCEPT ![s] = -1]
  /\ Handled(s + 1)
  /\ UNCHANGED <<maxi, maxfd, buf>>

ReadError(s) ==
  /\ broken[files[client[s]]]
  /\ pc' = "failed"
  /\ UNCHANGED <<tableVars, nready, i, buf, sockVars>>

(* The loop reads from the lowest of them; it ends when there is none.      *)
ScanClient ==
  /\ pc = "scan"
  /\ IF DueSlots = {}
       THEN pc' = "select" /\ UNCHANGED <<tableVars, nready, i, buf, sockVars>>
       ELSE \E s \in DueSlots : /\ Lowest(DueSlots, s)
                                /\ ReadData(s) \/ ReadEof(s) \/ ReadError(s)
  /\ UNCHANGED rset

(* Mutant: a short write is taken for a full one. *)
EchoShort ==
  /\ pc = "write"
  /\ LET c == files[client[i]] IN
       \/ /\ ~broken[c]
          /\ \E n \in 1..Len(buf) : SysWrite(c, SubSeq(buf, 1, n))
          /\ buf' = <<>>
          /\ Handled(i + 1)
       \/ /\ broken[c]
          /\ pc' = "failed"
          /\ UNCHANGED <<buf, i, nready, sockVars>>
  /\ UNCHANGED <<tableVars, rset>>

(* Writen blocks until the client's end has taken every byte; a write after *)
(* the connection broke fails (err_sys, or SIGPIPE).                        *)
Echo ==
  /\ pc = "write"
  /\ LET c == files[client[i]] IN
       \/ /\ ~broken[c]
          /\ \E n \in 1..Len(buf) :
               /\ SysWrite(c, SubSeq(buf, 1, n))
               /\ buf' = SubSeq(buf, n + 1, Len(buf))
          /\ IF buf' = <<>> THEN Handled(i + 1) ELSE UNCHANGED <<pc, i, nready>>
       \/ /\ broken[c]
          /\ pc' = "failed"
          /\ UNCHANGED <<buf, i, nready, sockVars>>
  /\ UNCHANGED <<tableVars, rset>>

(* Mutant: SIGINT is delivered anywhere. *)
SigintAnywhere ==
  /\ ~Stopped
  /\ pc' = "exited"
  /\ UNCHANGED <<tableVars, passVars, sockVars>>

(* sigInt calls exit(0).  The mask pselect installs is empty, the one       *)
(* outside it blocks SIGINT; server_2_select never blocks it.               *)
Sigint ==
  /\ ~Stopped
  /\ SigintBlocked => pc = "select"
  /\ pc' = "exited"
  /\ UNCHANGED <<tableVars, passVars, sockVars>>

Server ==
  \/ Select \/ SelectFails
  \/ Accept \/ AcceptAgain \/ AcceptFails \/ AcceptFailsUnseen
  \/ ScanClient \/ Echo

Next ==
  \/ Server
  \/ Sigint
  \/ \E c \in Clients : ClientStep(c) /\ UNCHANGED <<pc, tableVars, passVars>>
  \/ Shortage /\ UNCHANGED <<pc, tableVars, passVars>>

(* The server keeps running and a client with an open end reads what it is  *)
(* sent; clients need not connect, send or close.                           *)
Fairness ==
  /\ WF_vars(Server)
  /\ \A c \in Clients :
       WF_vars(ClientRead(c) /\ UNCHANGED <<pc, tableVars, passVars>>)

Spec == Init /\ [][Next]_vars /\ Fairness

-----------------------------------------------------------------------------
(* Properties. *)

TypeOK ==
  /\ pc \in {"select", "accept", "scan", "write", "exited", "failed"}
  /\ client \in [Slots -> {-1} \cup FDs]
  /\ maxi \in {-1} \cup Slots
  /\ maxfd \in FDs
  /\ allset \subseteq FDs \cup {StrayBit} /\ rset \subseteq FDs
  /\ nready \in Nat
  /\ i \in 0..FD_SETSIZE
  /\ buf \in Seq(Clients \X (1..MaxSend))
  /\ files \in [FDs -> {"free", "std", "listen"} \cup Clients]
  /\ queue \in Seq(Clients)
  /\ conn \in [Clients -> {"none", "queued", "aborted", "open", "closed"}]
  /\ peer \in [Clients -> {"none", "open", "half", "closed"}]
  /\ broken \in [Clients -> BOOLEAN] /\ lost \subseteq Clients /\ short \in BOOLEAN
  /\ sentBy \in [Clients -> 0..MaxSend]
  /\ readFrom \in [Clients -> 0..MaxSend]
  /\ echoed \in [Clients -> Seq(Clients \X (1..MaxSend))]
  /\ consumed \in [Clients -> 0..MaxSend]

(* A bit of allset that only FD_SET(-1) can have set: an accept of the      *)
(* program that does not check it has failed though a descriptor was free.  *)
StrayBitSet(fd) ==
  /\ ~AcceptChecked /\ fd = StrayBit
  /\ fd \notin FDs \/ short \/ \E c \in Clients : conn[c] = "aborted"

(* client[], allset and the process's open descriptors are three copies of  *)
(* one fact: each open connection is in exactly one entry, at or below      *)
(* maxi, and in allset, at or below maxfd; nothing else is, but the bit an  *)
(* unchecked accept leaves.  So an entry is left for every descriptor       *)
(* accept may return ("too many clients" cannot happen).                    *)
TableConsistent ==
  /\ listenfd \in allset
  /\ \A s \in Slots : client[s] >= 0 =>
       /\ client[s] \in allset /\ client[s] <= maxfd /\ s <= maxi
       /\ files[client[s]] \in Clients
       /\ conn[files[client[s]]] = "open"
  /\ \A s, t \in Slots : client[s] = client[t] /\ client[s] >= 0 => s = t
  /\ \A fd \in FDs : files[fd] \in Clients => \E s \in Slots : client[s] = fd
  /\ \A fd \in allset : fd = listenfd \/ (\E s \in Slots : client[s] = fd) \/ StrayBitSet(fd)
  /\ FreeFds # {} => FreeSlots # {}

(* nready counts exactly the reported clients the loop has not reached: it  *)
(* never ends a pass early, and never makes the loop search for nothing.    *)
NreadyExact ==
  /\ pc = "scan" => nready = Cardinality(DueSlots)
  /\ pc = "write" => nready = Cardinality(DueSlots)

(* Each connection carries back its own bytes, in order and without gaps,   *)
(* whatever descriptors and entries were reused.                            *)
EchoesOwnBytes ==
  \A c \in Clients :
    echoed[c] \o (IF buf # <<>> /\ files[client[i]] = c THEN buf ELSE <<>>)
       = [k \in 1..readFrom[c] |-> <<c, k>>]

(* The server fails only for a connection it holds that is broken, or for   *)
(* want of descriptors or memory; the one that does not check accept, also  *)
(* for a connection reset before accept.                                    *)
FailureExplained ==
  pc = "failed" => \/ \E c \in Clients : broken[c] /\ conn[c] = "open"
                   \/ AcceptRunsOut
                   \/ ~AcceptChecked /\ \E c \in Clients : conn[c] = "aborted"

(* SIGINT ends the process between two passes: everything read from a       *)
(* client has been written back, and no pass is half done.                  *)
CleanExit ==
  pc = "exited" => /\ buf = <<>>
                   /\ \A c \in Clients : Len(echoed[c]) = readFrom[c]

(* Blocked in accept with nothing to accept. *)
StuckInAccept == pc = "accept" /\ queue = <<>>

(* That happens only when the connection select reported was reset first.   *)
StuckOnlyByAbort == StuckInAccept => \E c \in Clients : conn[c] = "aborted"

(* What a client sends is echoed unless the client gives up, the server     *)
(* stops, or it is stuck in accept.                                         *)
EveryByteServed ==
  \A c \in Clients : \A k \in 1..MaxSend :
    (sentBy[c] >= k) ~>
      (Len(echoed[c]) >= k \/ peer[c] = "closed" \/ Stopped \/ StuckInAccept)
=============================================================================
