----------------------------- MODULE PollServer -----------------------------
(***************************************************************************)
(* The single-process echo server server_3_poll.  client[] is the array    *)
(* poll reads and writes: entry 0 is the listening socket, the others hold *)
(* a connected descriptor or -1, and revents is what the last poll left in *)
(* the entry.  poll is given the first maxi + 1 entries only; the array is *)
(* a local variable that main does not clear, so until poll has seen an    *)
(* entry its revents is whatever the stack held.                           *)
(***************************************************************************)
EXTENDS ServerSockets

CONSTANT OpenMax      \* entries of client[]: open_max()

(* sysconf(_SC_OPEN_MAX) is the limit on descriptors. *)
ASSUME OpenMaxAssumption == OpenMax \in Nat /\ NOFILE <= OpenMax

VARIABLES
  pc,        \* "poll", "accept", "scan", "write"; "failed"
  client,    \* client[].fd
  revents,   \* client[].revents has POLLRDNORM or POLLERR
  maxi,
  nready,
  i,
  buf

tableVars == <<client, maxi>>
vars == <<pc, tableVars, revents, nready, i, buf, sockVars>>

Slots == 1..(OpenMax - 1)
FreeSlots == {s \in Slots : client[s] < 0}
Stopped == pc = "failed"

Init ==
  /\ SocketsInit
  /\ pc = "poll"
  /\ client = [s \in Slots |-> -1]
  /\ revents = [s \in Slots |-> FALSE]   \* any value would do: see Garbage
  /\ maxi = 0
  /\ nready = 0 /\ i = 1 /\ buf = <<>>

(* The value of an entry's revents before poll first writes it. *)
Garbage(s) == IF s > maxi THEN BOOLEAN ELSE {revents[s]}

(* poll blocks until an entry is ready, then writes the revents of the      *)
(* first maxi + 1 entries (0 where fd is negative).                         *)
Poll ==
  /\ pc = "poll"
  /\ LET ready == {s \in 1..maxi : client[s] >= 0 /\ Readable(files[client[s]])}
     IN /\ ready # {} \/ queue # <<>>
        /\ revents' = [s \in Slots |-> IF s <= maxi THEN s \in ready ELSE revents[s]]
        /\ nready' = Cardinality(ready) + (IF queue # <<>> THEN 1 ELSE 0)
  /\ pc' = IF queue # <<>> THEN "accept" ELSE "scan"
  /\ i' = 1
  /\ UNCHANGED <<tableVars, buf, sockVars>>

(* Mutant: the pass goes on to the last entry. *)
HandledAll(next) ==
  /\ nready' = nready - 1
  /\ pc' = "scan" /\ i' = next

(* --nready <= 0 ends the pass. *)
Handled(next) ==
  /\ nready' = nready - 1
  /\ IF nready' <= 0 THEN pc' = "poll" /\ i' = 1
                     ELSE pc' = "scan" /\ i' = next

(* Mutant: the connection goes to the entry after the last one used. *)
AcceptAppends ==
  /\ pc = "accept"
  /\ \E fd \in FDs, s \in Slots :
       /\ SysAccept(fd)
       /\ s = IF maxi + 1 \in Slots THEN maxi + 1 ELSE maxi
       /\ client' = [client EXCEPT ![s] = fd]
       /\ \E g \in Garbage(s) : revents' = [revents EXCEPT ![s] = g]
       /\ maxi' = IF s > maxi THEN s ELSE maxi
  /\ Handled(1)
  /\ UNCHANGED buf

(* Accept blocks while the queue is empty; the connection goes to the first *)
(* free entry.                                                              *)
Accept ==
  /\ pc = "accept"
  /\ \E fd \in FDs, s \in Slots :
       /\ SysAccept(fd)
       /\ Lowest(FreeSlots, s)
       /\ client' = [client EXCEPT ![s] = fd]
       /\ \E g \in Garbage(s) : revents' = [revents EXCEPT ![s] = g]
       /\ maxi' = IF s > maxi THEN s ELSE maxi
  /\ Handled(1)
  /\ UNCHANGED buf

(* The wrapper Accept calls accept again for a connection that has gone,    *)
(* and may block there.                                                     *)
AcceptAgain ==
  /\ pc = "accept"
  /\ SysAcceptAborted
  /\ UNCHANGED <<pc, tableVars, revents, nready, i, buf>>

(* Any other error of accept is err_sys.  There is always an entry for a    *)
(* descriptor (EntriesMatchFiles), so err_quit("too many clients") has no   *)
(* action.                                                                  *)
AcceptFails ==
  /\ pc = "accept"
  /\ AcceptRunsOut
  /\ pc' = "failed"
  /\ UNCHANGED <<tableVars, revents, nready, i, buf, sockVars>>

(* The entries the client loop has yet to reach and will read from. *)
DueSlots == {s \in Slots : i <= s /\ s <= maxi /\ client[s] >= 0 /\ revents[s]}

(* read() of an entry blocks until its connection is readable. *)
ReadData(s) ==
  LET c == files[client[s]] IN
  /\ Pending(c)
  /\ \E n \in 1..(sentBy[c] - readFrom[c]) :
       /\ SysRead(c, n)
       /\ buf' = [k \in 1..n |-> <<c, readFrom[c] + k>>]
  /\ pc' = "write" /\ i' = s
  /\ UNCHANGED <<tableVars, nready>>

Reset(c) == broken[c] /\ c \notin lost

(* Mutants: ECONNRESET is an error like any other; maxi follows the entry. *)
ReadClosedResetFails(s) ==
  LET c == files[client[s]] IN
  \/ /\ Fin(c) /\ ~Pending(c) /\ ~broken[c]
     /\ SysClose(client[s])
     /\ client' = [client EXCEPT ![s] = -1]
     /\ Handled(s + 1)
     /\ UNCHANGED <<maxi, buf>>
  \/ /\ Reset(c)
     /\ pc' = "failed"
     /\ UNCHANGED <<tableVars, nready, i, buf, sockVars>>
ReadClosedShrinks(s) ==
  /\ LET c == files[client[s]] IN (Fin(c) /\ ~Pending(c)) \/ Reset(c)
  /\ SysClose(client[s])
  /\ client' = [client EXCEPT ![s] = -1]
  /\ maxi' = maxi - 1
  /\ Handled(s + 1)
  /\ UNCHANGED buf

(* A FIN, or ECONNRESET: the entry is freed. *)
ReadClosed(s) ==
  /\ LET c == files[client[s]] IN (Fin(c) /\ ~Pending(c)) \/ Reset(c)
  /\ SysClose(client[s])
  /\ client' = [client EXCEPT ![s] = -1]
  /\ Handled(s + 1)
  /\ UNCHANGED <<maxi, buf>>

(* Any other error of read(): err_sys. *)
ReadFails(s) ==
  /\ files[client[s]] \in lost
  /\ pc' = "failed"
  /\ UNCHANGED <<tableVars, nready, i, buf, sockVars>>

ScanClient ==
  /\ pc = "scan"
  /\ IF DueSlots = {}
       THEN pc' = "poll" /\ UNCHANGED <<tableVars, nready, i, buf, sockVars>>
       ELSE \E s \in DueSlots : /\ Lowest(DueSlots, s)
                                /\ ReadData(s) \/ ReadClosed(s) \/ ReadFails(s)
  /\ UNCHANGED revents

(* Writen blocks until the client's end has taken every byte; a write after *)
(* the connection broke fails (err_sys, or SIGPIPE).                        *)
Echo ==
  /\ pc = "write"
  /\ LET c == files[client[i]] IN
       \/ /\ ~broken[c]
          /\ \E n \in 1..Len(buf) :
               /\ SysWrite(c, SubSeq(buf, 1, n))
               /\ buf' = SubSeq(buf, n + 1, Len(buf))
          /\ IF buf' = <<>> THEN Handled(i + 1) ELSE UNCHANGED <<pc, i, nready>>
       \/ /\ broken[c]
          /\ pc' = "failed"
          /\ UNCHANGED <<buf, i, nready, sockVars>>
  /\ UNCHANGED <<tableVars, revents>>

Server == Poll \/ Accept \/ AcceptAgain \/ AcceptFails \/ ScanClient \/ Echo

serverVars == <<pc, tableVars, revents, nready, i, buf>>

Next ==
  \/ Server
  \/ \E c \in Clients : ClientStep(c) /\ UNCHANGED serverVars
  \/ Shortage /\ UNCHANGED serverVars

Fairness ==
  /\ WF_vars(Server)
  /\ \A c \in Clients : WF_vars(ClientRead(c) /\ UNCHANGED serverVars)

Spec == Init /\ [][Next]_vars /\ Fairness

-----------------------------------------------------------------------------
(* Properties. *)

TypeOK ==
  /\ pc \in {"poll", "accept", "scan", "write", "failed"}
  /\ client \in [Slots -> {-1} \cup FDs]
  /\ revents \in [Slots -> BOOLEAN]
  /\ maxi \in {0} \cup Slots
  /\ nready \in Nat
  /\ i \in 1..OpenMax
  /\ buf \in Seq(Clients \X (1..MaxSend))
  /\ files \in [FDs -> {"free", "std", "listen"} \cup Clients]

(* Each open connection is in exactly one entry that poll is shown; nothing *)
(* else is in an entry, and an entry is left for every descriptor accept    *)
(* may return ("too many clients" cannot happen).                           *)
EntriesMatchFiles ==
  /\ \A s \in Slots : client[s] >= 0 =>
       s <= maxi /\ files[client[s]] \in Clients /\ conn[files[client[s]]] = "open"
  /\ \A s, t \in Slots : client[s] = client[t] /\ client[s] >= 0 => s = t
  /\ \A fd \in FDs : files[fd] \in Clients => \E s \in Slots : client[s] = fd
  /\ FreeFds # {} => FreeSlots # {}

(* The loop is about to read from entry s and the connection has nothing:   *)
(* the server sleeps in read() and serves nobody.                           *)
BlockedOn(s) == pc = "scan" /\ Lowest(DueSlots, s) /\ ~Readable(files[client[s]])

(* "check all clients for data" (main.cpp:627) reads only from connections  *)
(* that poll reported, so read() never blocks, although the newest entry    *)
(* may be looked at before poll has ever written its revents: the entries   *)
(* nready counts all come before it.                                        *)
ReadsOnlyReady == \A s \in Slots : ~BlockedOn(s)

(* A reset found by read() costs its own connection only; the server fails  *)
(* when it writes to a broken connection, when one is lost otherwise, or    *)
(* when it has no descriptor or memory left.                                *)
ResetIsContained ==
  pc = "failed" => \/ buf # <<>> /\ broken[files[client[i]]]
                   \/ \E c \in lost : conn[c] = "open"
                   \/ AcceptRunsOut
=============================================================================
