-------------------------- MODULE PollServerProofs --------------------------
(***************************************************************************)
(* Safety of the poll echo server for any set of clients, any size of the  *)
(* descriptor table and of client[], any window and any number of bytes.   *)
(***************************************************************************)
EXTENDS PollServer, FiniteSetTheorems, FunctionTheorems, SequenceTheorems, TLAPS

-----------------------------------------------------------------------------
(* The inductive invariant. *)

SockType ==
  /\ files \in [FDs -> {"free", "std", "listen"} \cup Clients]
  /\ queue \in Seq(Clients)
  /\ conn \in [Clients -> {"none", "queued", "aborted", "open", "closed"}]
  /\ peer \in [Clients -> {"none", "open", "half", "closed"}]
  /\ broken \in [Clients -> BOOLEAN] /\ lost \subseteq Clients /\ short \in BOOLEAN
  /\ sentBy \in [Clients -> 0..MaxSend]
  /\ readFrom \in [Clients -> 0..MaxSend]

(* A descriptor above the listening one is free or open on a connection     *)
(* that no other has; what waits in the accept queue is in no descriptor.   *)
FilesInv ==
  /\ \A fd \in FDs : fd <= listenfd => files[fd] \in {"std", "listen"}
  /\ \A fd \in FDs : files[fd] \in Clients => conn[files[fd]] = "open"
  /\ \A fd, fe \in FDs : files[fd] \in Clients /\ files[fd] = files[fe] => fd = fe

QueueInv ==
  /\ \A k \in 1..Len(queue) : conn[queue[k]] \in {"queued", "aborted"}
  /\ \A j, k \in 1..Len(queue) : queue[j] = queue[k] => j = k

SockInv == FilesInv /\ QueueInv

Used == {s \in Slots : client[s] >= 0}

Table ==
  /\ client \in [Slots -> {-1} \cup FDs] /\ maxi \in {0} \cup Slots
  /\ \A s \in Used : s <= maxi /\ files[client[s]] \in Clients
  /\ \A s, t \in Used : client[s] = client[t] => s = t
  /\ \A fd \in FDs : files[fd] \in Clients => \E s \in Used : client[s] = fd

PassType ==
  /\ pc \in {"poll", "accept", "scan", "write", "failed"}
  /\ revents \in [Slots -> BOOLEAN] /\ nready \in Nat /\ i \in 1..OpenMax
  /\ buf \in Seq(Clients \X (1..MaxSend))
  /\ pc = "write" => buf # <<>>
  /\ buf # <<>> => pc \in {"write", "failed"} /\ i \in Used

(* What poll reported of the connections may be read without waiting.       *)
AcceptInv ==
  pc = "accept" =>
    /\ i = 1 /\ nready = Cardinality(DueSlots) + 1
    /\ \A s \in DueSlots : Readable(files[client[s]])
    /\ \A s \in Slots \ Used : s <= maxi => ~revents[s]

(* The entries due are those nready counts, which may be read without       *)
(* waiting, and at most one more: the connection just accepted, if it is in *)
(* the last entry, where revents may hold anything.  The loop is in Writen  *)
(* for one of the former.                                                   *)
Reported(fresh) ==
  /\ nready = Cardinality(DueSlots \ fresh) /\ nready >= 1
  /\ \A s \in DueSlots \ fresh : (pc = "write" /\ s = i) \/ Readable(files[client[s]])
  /\ pc = "write" => i \in DueSlots \ fresh

ScanInv == pc \in {"scan", "write"} => \E fresh \in {{}, {maxi}} : Reported(fresh)

IInv == SockType /\ SockInv /\ Table /\ PassType /\ AcceptInv /\ ScanInv /\ ResetIsContained

-----------------------------------------------------------------------------
(* Without its k-th element a queue holds the others, in order.             *)
LEMMA QueueWithout ==
  ASSUME NEW s \in Seq(Clients), NEW k \in 1..Len(s), NEW t,
         t = SubSeq(s, 1, k - 1) \o SubSeq(s, k + 1, Len(s))
  PROVE  /\ t \in Seq(Clients) /\ Len(t) = Len(s) - 1
         /\ \A j \in 1..Len(t) : t[j] = s[IF j < k THEN j ELSE j + 1]
<1> DEFINE u == SubSeq(s, 1, k - 1)
           v == SubSeq(s, k + 1, Len(s))
           n == Len(s)
<1>1. n \in Nat /\ \A j \in 1..n : s[j] \in Clients
  BY ElementOfSeq, LenProperties
<1>2. u \in Seq(Clients) /\ Len(u) = k - 1 /\ \A j \in 1..(k - 1) : u[j] = s[j]
  <2>1. \A j \in 1..(k - 1) : s[j] \in Clients
    BY <1>1
  <2>2. /\ u \in Seq(Clients) /\ Len(u) = IF 1 <= k - 1 THEN (k - 1) - 1 + 1 ELSE 0
        /\ \A j \in 1..((k - 1) - 1 + 1) : u[j] = s[1 + j - 1]
    BY <2>1, SubSeqProperties
  <2> HIDE DEF u
  <2> QED
    BY <2>2
<1>3. v \in Seq(Clients) /\ Len(v) = n - k /\ \A j \in 1..(n - k) : v[j] = s[k + j]
  <2>1. \A j \in (k + 1)..n : s[j] \in Clients
    BY <1>1
  <2>2. /\ v \in Seq(Clients) /\ Len(v) = IF k + 1 <= n THEN n - (k + 1) + 1 ELSE 0
        /\ \A j \in 1..(n - (k + 1) + 1) : v[j] = s[(k + 1) + j - 1]
    BY <1>1, <2>1, SubSeqProperties
  <2> HIDE DEF v
  <2>3. n - (k + 1) + 1 = n - k /\ (k + 1 <= n \/ n - k = 0)
        /\ \A j \in 1..(n - k) : (k + 1) + j - 1 = k + j
    BY <1>1
  <2> QED
    BY <2>2, <2>3
<1> HIDE DEF u, v, n
<1>4. t = u \o v
  BY DEF u, v, n
<1>5. /\ t \in Seq(Clients) /\ Len(t) = (k - 1) + (n - k)
      /\ \A j \in 1..((k - 1) + (n - k)) : t[j] = IF j <= k - 1 THEN u[j] ELSE v[j - (k - 1)]
  <2>1. t \in Seq(Clients)
    BY <1>2, <1>3, <1>4, ConcatProperties
  <2>2. Len(t) = Len(u) + Len(v)
    BY <1>2, <1>3, <1>4, ConcatProperties
  <2>3. \A j \in 1..(Len(u) + Len(v)) : (u \o v)[j] = IF j <= Len(u) THEN u[j] ELSE v[j - Len(u)]
    BY <1>2, <1>3, ConcatProperties
  <2>4. \A j \in 1..(Len(u) + Len(v)) : t[j] = IF j <= Len(u) THEN u[j] ELSE v[j - Len(u)]
    BY <1>4, <2>3
  <2> QED
    BY <1>2, <1>3, <2>1, <2>2, <2>4
<1>6. ASSUME NEW j \in 1..(n - 1) PROVE t[j] = s[IF j < k THEN j ELSE j + 1]
  <2>1. k \in 1..n /\ (k - 1) + (n - k) = n - 1
    BY <1>1 DEF n
  <2>2. CASE j < k
    <3>1. j \in 1..(k - 1) /\ j \in 1..((k - 1) + (n - k)) /\ j <= k - 1
      BY <1>1, <2>1, <2>2
    <3>2. t[j] = u[j]
      BY <1>5, <3>1
    <3> QED
      BY <1>2, <2>2, <3>1, <3>2
  <2>3. CASE ~ (j < k)
    <3>1. j - (k - 1) \in 1..(n - k) /\ k + (j - (k - 1)) = j + 1 /\ ~ (j <= k - 1)
      BY <1>1, <2>1, <2>3
    <3>2. t[j] = v[j - (k - 1)]
      <4>1. j \in 1..((k - 1) + (n - k))
        BY <1>1, <2>1
      <4> QED
        BY <1>5, <3>1, <4>1
    <3> QED
      BY <1>3, <2>3, <3>1, <3>2
  <2> QED
    BY <2>2, <2>3
<1>7. Len(t) = n - 1
  <2>1. n \in Nat /\ k \in Int
    BY <1>1
  <2>2. (k - 1) + (n - k) = n - 1
    BY <2>1
  <2> QED
    BY <1>5, <2>2
<1> QED
  BY <1>5, <1>6, <1>7 DEF n

-----------------------------------------------------------------------------
(* What the clients do to the sockets, and what each system call does.      *)

(* After a step of a client or of the system: no descriptor has changed, an *)
(* open connection is still open, and one that could be read without        *)
(* waiting, is broken or lost is so still.                                  *)
ClientFrame ==
  /\ files' = files /\ (short => short') /\ lost \subseteq lost'
  /\ \A d \in Clients : conn[d] = "open" => conn'[d] = "open"
  /\ \A d \in Clients : conn[d] = "open" /\ Readable(d) => Readable(d)'
  /\ \A d \in Clients : broken[d] => broken'[d]

(* A connection request joins the end of the queue.                         *)
LEMMA ConnectKeeps ==
  ASSUME SockType, SockInv, NEW c \in Clients, ClientConnect(c)
  PROVE  SockType' /\ SockInv' /\ ClientFrame
<1> USE DEF ClientConnect
<1>1. SockType'
  <2>1. queue' \in Seq(Clients)
    BY AppendProperties DEF SockType
  <2> QED
    BY <2>1 DEF SockType
<1>2. FilesInv'
  BY DEF SockType, SockInv, FilesInv
<1>3. /\ Len(queue') = Len(queue) + 1 /\ Len(queue) \in Nat
      /\ \A k \in 1..Len(queue) : queue'[k] = queue[k] /\ queue[k] \in Clients
      /\ queue'[Len(queue) + 1] = c
  BY AppendProperties, LenProperties, ElementOfSeq DEF SockType
<1>4. \A k \in 1..Len(queue) : queue[k] # c /\ conn'[queue[k]] \in {"queued", "aborted"}
  BY <1>3 DEF SockType, SockInv, QueueInv
<1>5. QueueInv'
  <2>1. conn'[c] = "queued"
    BY DEF SockType
  <2>2. \A k \in 1..Len(queue') : k \in 1..Len(queue) \/ k = Len(queue) + 1
    BY <1>3
  <2>3. \A k \in 1..Len(queue') : conn'[queue'[k]] \in {"queued", "aborted"}
    BY <1>3, <1>4, <2>1, <2>2
  <2>4. ASSUME NEW j \in 1..Len(queue'), NEW k \in 1..Len(queue'), queue'[j] = queue'[k]
        PROVE  j = k
    BY <1>3, <1>4, <2>2, <2>4 DEF SockInv, QueueInv
  <2> QED
    BY <2>3, <2>4 DEF QueueInv
<1>6. ClientFrame
  <2>1. ASSUME NEW d \in Clients, conn[d] = "open", Fin(d) PROVE Fin(d)'
    BY <2>1 DEF Fin, SockType
  <2>2. \A d \in Clients : conn[d] = "open" => conn'[d] = "open"
    BY DEF SockType
  <2> QED
    BY <2>1, <2>2 DEF ClientFrame, Readable, Pending
<1> QED
  BY <1>1, <1>2, <1>5, <1>6 DEF SockInv

(* A client sends a byte.                                                   *)
LEMMA SendKeeps ==
  ASSUME SockType, SockInv, NEW c \in Clients, ClientSend(c)
  PROVE  SockType' /\ SockInv' /\ ClientFrame
<1> USE DEF ClientSend
<1>1. sentBy[c] \in Nat /\ sentBy[c] + 1 \in 0..MaxSend
  BY BoundsAssumption DEF SockType
<1>2. SockType'
  BY <1>1 DEF SockType
<1>3. FilesInv' /\ QueueInv'
  BY DEF SockInv, FilesInv, QueueInv
<1>4. ASSUME NEW d \in Clients, Pending(d) PROVE Pending(d)'
  BY <1>1, <1>4, BoundsAssumption DEF Pending, SockType
<1>5. ClientFrame
  BY <1>4 DEF ClientFrame, Readable, Fin
<1> QED
  BY <1>2, <1>3, <1>5 DEF SockInv

(* A client reads, half-closes or closes, or its connection breaks.         *)
LEMMA OthersKeep ==
  ASSUME SockType, SockInv, NEW c \in Clients,
         ClientRead(c) \/ ClientFin(c) \/ LateRst(c) \/ ConnectionLost(c)
  PROVE  SockType' /\ SockInv' /\ ClientFrame
<1>1. SockType'
  BY DEF SockType, ClientRead, ClientFin, LateRst, ConnectionLost
<1>2. FilesInv' /\ QueueInv'
  BY DEF SockInv, FilesInv, QueueInv, ClientRead, ClientFin, LateRst, ConnectionLost
<1>3. ASSUME NEW d \in Clients PROVE (Fin(d) => Fin(d)') /\ (broken[d] => broken'[d])
  BY DEF SockType, Fin, ClientRead, ClientFin, LateRst, ConnectionLost
<1>4. UNCHANGED <<files, conn, short, sentBy, readFrom>> /\ lost \subseteq lost'
  BY DEF ClientRead, ClientFin, LateRst, ConnectionLost
<1>5. ClientFrame
  BY <1>3, <1>4 DEF ClientFrame, Readable, Pending
<1> QED
  BY <1>1, <1>2, <1>5 DEF SockInv

(* A client resets its connection, which may take it from the queue, or     *)
(* leave it there to be reported.                                           *)
LEMMA AbortKeeps ==
  ASSUME SockType, SockInv, NEW c \in Clients, ClientAbort(c)
  PROVE  SockType' /\ SockInv' /\ ClientFrame
<1>1. /\ files' = files /\ sentBy' = sentBy /\ readFrom' = readFrom
      /\ lost' = lost /\ short' = short
      /\ peer' = [peer EXCEPT ![c] = "closed"] /\ broken' = [broken EXCEPT ![c] = TRUE]
  BY DEF ClientAbort
<1>2. \A d \in Clients : (Fin(d) => Fin(d)') /\ (broken[d] => broken'[d])
  BY <1>1 DEF SockType, Fin
<1>3. (\A d \in Clients : conn[d] = "open" => conn'[d] = "open") => ClientFrame
  BY <1>1, <1>2 DEF ClientFrame, Readable, Pending
<1>0. \/ /\ conn[c] = "queued" /\ conn' = [conn EXCEPT ![c] = "aborted"]
         /\ \E k \in DOMAIN queue :
              queue[k] = c /\ queue' = SubSeq(queue, 1, k - 1) \o SubSeq(queue, k + 1, Len(queue))
      \/ conn[c] = "queued" /\ conn' = [conn EXCEPT ![c] = "aborted"] /\ queue' = queue
      \/ UNCHANGED <<queue, conn>>
  BY DEF ClientAbort
<1>4. CASE /\ conn[c] = "queued" /\ conn' = [conn EXCEPT ![c] = "aborted"]
           /\ \E k \in DOMAIN queue :
                queue[k] = c /\ queue' = SubSeq(queue, 1, k - 1) \o SubSeq(queue, k + 1, Len(queue))
  <2>1. conn' = [conn EXCEPT ![c] = "aborted"]
    BY <1>4
  <2>2. PICK k \in 1..Len(queue) :
          /\ queue[k] = c
          /\ queue' = SubSeq(queue, 1, k - 1) \o SubSeq(queue, k + 1, Len(queue))
    <3>1. DOMAIN queue = 1..Len(queue)
      BY LenProperties DEF SockType
    <3>2. \E k \in DOMAIN queue :
            queue[k] = c /\ queue' = SubSeq(queue, 1, k - 1) \o SubSeq(queue, k + 1, Len(queue))
      BY <1>4
    <3> HIDE DEF SockType
    <3> QED
      BY ONLY <3>1, <3>2, Zenon
  <2>3. /\ queue' \in Seq(Clients) /\ Len(queue') = Len(queue) - 1
        /\ \A j \in 1..Len(queue') : queue'[j] = queue[IF j < k THEN j ELSE j + 1]
    <3>1. queue \in Seq(Clients) /\ k \in 1..Len(queue)
          /\ queue' = SubSeq(queue, 1, k - 1) \o SubSeq(queue, k + 1, Len(queue))
      BY <2>2 DEF SockType
    <3> QED
      BY ONLY <3>1, QueueWithout, Zenon
  <2>4. SockType'
    BY <1>1, <2>1, <2>3 DEF SockType
  <2>5. FilesInv'
    BY <1>1, <1>4, <2>1 DEF SockType, SockInv, FilesInv
  <2>6. QueueInv'
    <3>1. Len(queue) \in Nat
      BY LenProperties DEF SockType
    <3> DEFINE f(j) == IF j < k THEN j ELSE j + 1
    <3>2. \A j \in 1..Len(queue') : f(j) \in 1..Len(queue) /\ f(j) # k /\ queue'[j] = queue[f(j)]
      BY <2>3, <3>1
    <3>3. \A j, l \in 1..Len(queue') : f(j) = f(l) => j = l
      BY <2>3, <3>1
    <3> HIDE DEF f
    <3>4. \A j \in 1..Len(queue) :
            queue[j] \in Clients /\ conn[queue[j]] \in {"queued", "aborted"}
      BY ElementOfSeq DEF SockType, SockInv, QueueInv
    <3>5. \A j, l \in 1..Len(queue) : queue[j] = queue[l] => j = l
      BY DEF SockInv, QueueInv
    <3>6. ASSUME NEW j \in 1..Len(queue') PROVE conn'[queue'[j]] \in {"queued", "aborted"}
      <4>1. queue'[j] \in Clients /\ conn[queue'[j]] \in {"queued", "aborted"}
        BY <3>2, <3>4
      <4>2. queue'[j] # c
        BY <2>2, <3>2, <3>5
      <4> QED
        BY <2>1, <4>1, <4>2 DEF SockType
    <3>7. ASSUME NEW j \in 1..Len(queue'), NEW l \in 1..Len(queue'), queue'[j] = queue'[l]
          PROVE  j = l
      BY <3>2, <3>3, <3>5, <3>7
    <3> QED
      BY <3>6, <3>7 DEF QueueInv
  <2>7. \A d \in Clients : conn[d] = "open" => conn'[d] = "open"
    BY <1>4, <2>1 DEF SockType
  <2> QED
    BY <1>3, <2>4, <2>5, <2>6, <2>7 DEF SockInv
<1>5. CASE UNCHANGED <<queue, conn>>
  <2>1. queue' = queue /\ conn' = conn
    BY <1>5
  <2>2. SockType'
    BY <1>1, <2>1 DEF SockType
  <2>3. FilesInv' /\ QueueInv'
    BY <1>1, <2>1 DEF SockInv, FilesInv, QueueInv
  <2> QED
    BY <1>3, <2>1, <2>2, <2>3 DEF SockInv
<1>6. CASE conn[c] = "queued" /\ conn' = [conn EXCEPT ![c] = "aborted"] /\ queue' = queue
  <2>1. SockType'
    BY <1>1, <1>6 DEF SockType
  <2>2. FilesInv'
    BY <1>1, <1>6 DEF SockType, SockInv, FilesInv
  <2>3. QueueInv'
    <3>1. \A k \in 1..Len(queue) : queue[k] \in Clients
      BY ElementOfSeq DEF SockType
    <3> QED
      BY <1>6, <3>1 DEF SockType, SockInv, QueueInv
  <2>4. \A d \in Clients : conn[d] = "open" => conn'[d] = "open"
    BY <1>6 DEF SockType
  <2> QED
    BY <1>3, <2>1, <2>2, <2>3, <2>4 DEF SockInv
<1> QED
  BY <1>0, <1>4, <1>5, <1>6

(* What any step of a client leaves true of the sockets.                    *)
LEMMA ClientStepKeeps ==
  ASSUME SockType, SockInv, NEW c \in Clients, ClientStep(c)
  PROVE  SockType' /\ SockInv' /\ ClientFrame
BY ConnectKeeps, SendKeeps, OthersKeep, AbortKeeps DEF ClientStep

(* The system runs short.                                                   *)
LEMMA ShortageKeeps ==
  ASSUME SockType, SockInv, Shortage
  PROVE  SockType' /\ SockInv' /\ ClientFrame
<1>1. SockType' /\ ClientFrame
  BY DEF Shortage, SockType, ClientFrame, Readable, Pending, Fin
<1>2. SockInv'
  BY DEF Shortage, SockInv, FilesInv, QueueInv
<1> QED
  BY <1>1, <1>2

(* What is left of a queue whose head is taken is still in order.           *)
LEMMA TailQueue ==
  ASSUME SockType, SockInv, queue # <<>>
  PROVE  /\ Tail(queue) \in Seq(Clients) /\ Head(queue) \in Clients
         /\ \A k \in 1..Len(Tail(queue)) :
              /\ Tail(queue)[k] \in Clients /\ Tail(queue)[k] # Head(queue)
              /\ conn[Tail(queue)[k]] \in {"queued", "aborted"}
         /\ \A j, k \in 1..Len(Tail(queue)) : Tail(queue)[j] = Tail(queue)[k] => j = k
         /\ conn[Head(queue)] \in {"queued", "aborted"}
<1>1. /\ Len(queue) \in Nat \ {0} /\ Head(queue) = queue[1] /\ Head(queue) \in Clients
      /\ Tail(queue) \in Seq(Clients) /\ Len(Tail(queue)) = Len(queue) - 1
      /\ \A k \in 1..Len(Tail(queue)) : Tail(queue)[k] = queue[k + 1]
  BY HeadTailProperties, LenProperties, EmptySeq DEF SockType
<1>2. \A k \in 1..Len(Tail(queue)) : k + 1 \in 1..Len(queue) /\ k + 1 # 1
  BY <1>1
<1>3. \A k \in 1..Len(queue) : queue[k] \in Clients /\ conn[queue[k]] \in {"queued", "aborted"}
  BY ElementOfSeq DEF SockType, SockInv, QueueInv
<1>4. \A j, k \in 1..Len(queue) : queue[j] = queue[k] => j = k
  BY DEF SockInv, QueueInv
<1>5. 1 \in 1..Len(queue)
  BY <1>1
<1>6. ASSUME NEW j \in 1..Len(Tail(queue)), NEW k \in 1..Len(Tail(queue)),
             Tail(queue)[j] = Tail(queue)[k]
      PROVE  j = k
  <2>1. j + 1 = k + 1
    BY <1>1, <1>2, <1>4, <1>6
  <2> QED
    BY <1>1, <2>1
<1>7. ASSUME NEW k \in 1..Len(Tail(queue))
      PROVE  /\ Tail(queue)[k] \in Clients /\ Tail(queue)[k] # Head(queue)
             /\ conn[Tail(queue)[k]] \in {"queued", "aborted"}
  BY <1>1, <1>2, <1>3, <1>4, <1>5
<1> QED
  BY <1>1, <1>3, <1>5, <1>6, <1>7

(* accept() drops a connection that has gone and returns an error.          *)
LEMMA SysAcceptAbortedKeeps ==
  ASSUME SockType, SockInv, SysAcceptAborted
  PROVE  /\ SockType' /\ SockInv'
         /\ \E c \in Clients : conn[c] = "aborted"
         /\ UNCHANGED <<files, conn, peer, broken, lost, short, sentBy, readFrom>>
<1>1. /\ queue # <<>> /\ queue' = Tail(queue) /\ conn[Head(queue)] = "aborted"
      /\ UNCHANGED <<files, conn, peer, broken, lost, short, sentBy, readFrom, echoed, consumed>>
  BY DEF SysAcceptAborted
<1>2. SockType'
  BY <1>1, TailQueue DEF SockType
<1>3. FilesInv'
  BY <1>1 DEF SockInv, FilesInv
<1>4. QueueInv'
  BY <1>1, TailQueue DEF QueueInv
<1> QED
  BY <1>1, <1>2, <1>3, <1>4, TailQueue DEF SockInv

(* accept() moves the head of the queue to the lowest free descriptor.      *)
LEMMA SysAcceptKeeps ==
  ASSUME SockType, SockInv, NEW fd \in FDs, SysAccept(fd)
  PROVE  /\ SockType' /\ SockInv'
         /\ fd > listenfd /\ files[fd] = "free"
         /\ Head(queue) \in Clients /\ conn[Head(queue)] = "queued"
<1>1. fd > listenfd /\ files[fd] = "free"
  BY DEF SysAccept, Lowest, FreeFds, SockInv, FilesInv, FDs, listenfd
<1>2. /\ queue # <<>> /\ files' = [files EXCEPT ![fd] = Head(queue)]
      /\ conn' = [conn EXCEPT ![Head(queue)] = "open"] /\ queue' = Tail(queue)
      /\ UNCHANGED <<peer, broken, lost, short, sentBy, readFrom, echoed, consumed>>
  BY DEF SysAccept
<1>3. Head(queue) \in Clients /\ Tail(queue) \in Seq(Clients)
  BY <1>2, TailQueue
<1>4. conn[Head(queue)] = "queued"
  BY <1>2, TailQueue DEF SysAccept
<1>5. SockType'
  BY <1>2, <1>3 DEF SockType
<1>6. FilesInv'
  <2>1. \A fe \in FDs : files[fe] \in Clients => files[fe] # Head(queue)
    BY <1>4 DEF SockInv, FilesInv
  <2>2. \A fe \in FDs : files'[fe] = IF fe = fd THEN Head(queue) ELSE files[fe]
    BY <1>2 DEF SockType
  <2>3. \A fe \in FDs : files'[fe] \in Clients => conn'[files'[fe]] = "open"
    BY <1>2, <1>3, <2>1, <2>2 DEF SockType, SockInv, FilesInv
  <2>4. \A fe, ff \in FDs : files'[fe] \in Clients /\ files'[fe] = files'[ff] => fe = ff
    BY <1>3, <2>1, <2>2 DEF SockInv, FilesInv
  <2>5. \A fe \in FDs : fe <= listenfd => files'[fe] \in {"std", "listen"}
    BY <1>1, <2>2 DEF SockInv, FilesInv, FDs, listenfd
  <2> QED
    BY <2>3, <2>4, <2>5 DEF FilesInv
<1>7. QueueInv'
  <2>1. ASSUME NEW k \in 1..Len(Tail(queue))
        PROVE  conn'[Tail(queue)[k]] \in {"queued", "aborted"}
    BY <1>2, TailQueue DEF SockType
  <2> QED
    BY <1>2, <2>1, TailQueue DEF QueueInv
<1> QED
  BY <1>1, <1>3, <1>4, <1>5, <1>6, <1>7 DEF SockInv

(* read() takes what it returns from one connection only.                   *)
LEMMA SysReadKeeps ==
  ASSUME SockType, SockInv, NEW c \in Clients, NEW n, SysRead(c, n)
  PROVE  /\ SockType' /\ SockInv'
         /\ n \in Nat \ {0} /\ readFrom[c] \in Nat /\ readFrom[c] + n <= MaxSend
         /\ \A d \in Clients \ {c} : readFrom'[d] = readFrom[d]
         /\ UNCHANGED <<files, peer, broken, lost, short, sentBy>>
<1>1. sentBy[c] \in 0..MaxSend /\ readFrom[c] \in 0..MaxSend
  BY DEF SockType
<1>2. n \in Nat \ {0} /\ readFrom[c] + n <= sentBy[c] /\ readFrom[c] + n \in 0..MaxSend
  BY <1>1, BoundsAssumption DEF SysRead
<1>3. /\ readFrom' = [readFrom EXCEPT ![c] = @ + n]
      /\ UNCHANGED <<files, queue, conn, peer, broken, lost, short, sentBy>>
  BY DEF SysRead
<1>4. SockType'
  BY <1>2, <1>3 DEF SockType
<1>5. FilesInv' /\ QueueInv'
  BY <1>3 DEF SockInv, FilesInv, QueueInv
<1>6. \A d \in Clients \ {c} : readFrom'[d] = readFrom[d]
  BY <1>3 DEF SockType
<1> QED
  BY <1>1, <1>2, <1>3, <1>4, <1>5, <1>6, BoundsAssumption DEF SockInv

(* close() frees one descriptor and ends its connection.                    *)
LEMMA SysCloseKeeps ==
  ASSUME SockType, SockInv, NEW fd \in FDs, files[fd] \in Clients, SysClose(fd)
  PROVE  SockType' /\ SockInv'
<1>1. /\ conn' = [conn EXCEPT ![files[fd]] = "closed"] /\ files' = [files EXCEPT ![fd] = "free"]
      /\ UNCHANGED <<queue, peer, broken, lost, short, sentBy, readFrom>>
  BY DEF SysClose
<1>2. SockType'
  BY <1>1 DEF SockType
<1>3. FilesInv'
  <2>1. \A fe \in FDs : files'[fe] = IF fe = fd THEN "free" ELSE files[fe]
    BY <1>1 DEF SockType
  <2>2. fd > listenfd
    BY ClientsAssumption DEF SockInv, FilesInv, FDs, listenfd
  <2>3. "free" \notin Clients
    BY ClientsAssumption
  <2>4. \A fe \in FDs : fe # fd /\ files[fe] \in Clients => files[fe] # files[fd]
    BY DEF SockInv, FilesInv
  <2>5. ASSUME NEW fe \in FDs, files'[fe] \in Clients PROVE conn'[files'[fe]] = "open"
    BY <1>1, <2>1, <2>3, <2>4, <2>5 DEF SockType, SockInv, FilesInv
  <2>6. \A fe, ff \in FDs : files'[fe] \in Clients /\ files'[fe] = files'[ff] => fe = ff
    BY <2>1, <2>3 DEF SockInv, FilesInv
  <2>7. \A fe \in FDs : fe <= listenfd => files'[fe] \in {"std", "listen"}
    BY <2>1, <2>2 DEF SockInv, FilesInv, FDs, listenfd
  <2> QED
    BY <2>5, <2>6, <2>7 DEF FilesInv
<1>4. QueueInv'
  <2>1. \A k \in 1..Len(queue) :
          queue[k] \in Clients /\ conn[queue[k]] \in {"queued", "aborted"}
    BY ElementOfSeq DEF SockType, SockInv, QueueInv
  <2>2. conn[files[fd]] = "open"
    BY DEF SockInv, FilesInv
  <2>3. \A k \in 1..Len(queue) : conn'[queue[k]] \in {"queued", "aborted"}
    BY <1>1, <2>1, <2>2 DEF SockType
  <2> QED
    BY <1>1, <2>3 DEF SockInv, QueueInv
<1> QED
  BY <1>2, <1>3, <1>4 DEF SockInv

-----------------------------------------------------------------------------
(* client[] and maxi.                                                       *)

(* An entry in use holds the descriptor of an open connection, above        *)
(* listenfd.                                                                *)
LEMMA UsedAboveListen ==
  ASSUME SockType, SockInv, Table, NEW s \in Used
  PROVE  /\ s \in Slots /\ client[s] \in FDs /\ client[s] > listenfd
         /\ files[client[s]] \in Clients
<1>1. s \in Slots /\ client[s] \in FDs /\ files[client[s]] \in Clients
  BY DEF Used, Table
<1>2. files[client[s]] # "std" /\ files[client[s]] # "listen"
  BY <1>1, ClientsAssumption
<1>3. client[s] \in Int
  BY <1>1, FilesAssumption DEF FDs
<1> QED
  BY <1>1, <1>2, <1>3 DEF SockInv, FilesInv, listenfd

(* With every entry in use, OpenMax - 1 connections would have descriptors   *)
(* of their own among the NOFILE - 4 above the listening one.               *)
LEMMA SlotLeft ==
  ASSUME SockType, SockInv, Table
  PROVE  FreeSlots # {}
<1>1. SUFFICES ASSUME FreeSlots = {} PROVE FALSE
  OBVIOUS
<1> DEFINE T == 4..(NOFILE - 1)
<1>2. \A s \in Slots : s \in Used
  <2>1. \A s \in Slots : client[s] \in {-1} \cup FDs
    BY DEF Table
  <2>2. \A s \in Slots : client[s] \in Int
    BY <2>1, FilesAssumption DEF FDs
  <2> QED
    BY <1>1, <2>2 DEF FreeSlots, Used
<1>3. \A s \in Slots : client[s] \in T
  <2>1. \A s \in Slots : client[s] \in FDs /\ client[s] > listenfd
    BY <1>2, UsedAboveListen
  <2> QED
    BY <2>1, FilesAssumption DEF FDs, listenfd
<1>4. client \in [Slots -> T]
  BY <1>3 DEF Table
<1>5. IsFiniteSet(Slots) /\ Cardinality(Slots) = OpenMax - 1
  BY FS_Interval, OpenMaxAssumption, FilesAssumption DEF Slots
<1>6. IsFiniteSet(T) /\ Cardinality(T) = NOFILE - 4
  BY FS_Interval, FilesAssumption
<1>7. Cardinality(T) < Cardinality(Slots)
  BY <1>5, <1>6, OpenMaxAssumption, FilesAssumption
<1> HIDE DEF T
<1>8. \E s, u \in Slots : s # u /\ client[s] = client[u]
  BY <1>4, <1>5, <1>6, <1>7, FS_PigeonHole
<1> QED
  BY <1>2, <1>8 DEF Table

(* The table depends on nothing but itself and the open descriptors.        *)
LEMMA TableStays ==
  ASSUME Table, UNCHANGED <<tableVars, files>>
  PROVE  Table'
BY DEF Table, Used, tableVars, Slots, FDs

(* A new connection in the lowest free entry keeps the table in order.      *)
LEMMA TableAccept ==
  ASSUME SockType, SockInv, Table, NEW fd \in FDs, NEW s \in Slots,
         SysAccept(fd), Lowest(FreeSlots, s),
         client' = [client EXCEPT ![s] = fd],
         maxi' = IF s > maxi THEN s ELSE maxi
  PROVE  /\ Table' /\ s \notin Used
         /\ Used' = Used \cup {s}
         /\ \A t \in Used : client'[t] = client[t] /\ files'[client[t]] = files[client[t]]
<1>1. s \notin Used
  BY DEF Lowest, FreeSlots, Used, Table, Slots, FDs
<1>2. /\ fd > listenfd /\ files[fd] = "free" /\ Head(queue) \in Clients
      /\ files' = [files EXCEPT ![fd] = Head(queue)]
  BY SysAcceptKeeps DEF SysAccept
<1>3. \A t \in Used : client[t] \in FDs /\ client[t] # fd
  BY <1>2, UsedAboveListen, ClientsAssumption
<1>4. \A t \in Slots : client'[t] = IF t = s THEN fd ELSE client[t]
  BY DEF Table
<1>5. Used' = Used \cup {s}
  BY <1>4 DEF Used, Slots, FDs
<1>6. client' \in [Slots -> {-1} \cup FDs] /\ maxi' \in {0} \cup Slots
  BY DEF Table
<1>7. \A t \in Used : /\ client'[t] = client[t] /\ t <= maxi'
                      /\ files'[client[t]] = files[client[t]] /\ files[client[t]] \in Clients
  <2>1. ASSUME NEW t \in Used PROVE client'[t] = client[t]
    BY <1>1, <1>4 DEF Used
  <2>2. ASSUME NEW t \in Used PROVE t <= maxi'
    BY DEF Table, Slots, Used
  <2>3. ASSUME NEW t \in Used
        PROVE  files'[client[t]] = files[client[t]] /\ files[client[t]] \in Clients
    BY <1>2, <1>3 DEF Table, SockType
  <2> QED
    BY <2>1, <2>2, <2>3
<1>8. client'[s] = fd /\ s <= maxi' /\ files'[fd] \in Clients
  <2>1. client'[s] = fd /\ files'[fd] \in Clients
    BY <1>2, <1>4 DEF SockType
  <2>2. s <= maxi'
    BY DEF Table, Slots
  <2> QED
    BY <2>1, <2>2
<1>9. \A t, u \in Used' : client'[t] = client'[u] => t = u
  BY <1>3, <1>5, <1>7, <1>8 DEF Table
<1>10. \A fe \in FDs : files'[fe] \in Clients => \E t \in Used' : client'[t] = fe
  <2>1. ASSUME NEW fe \in FDs, files'[fe] \in Clients, fe # fd
        PROVE  \E t \in Used' : client'[t] = fe
    <3>1. files[fe] \in Clients
      BY <1>2, <2>1 DEF SockType
    <3> QED
      BY <1>5, <1>7, <3>1 DEF Table
  <2> QED
    BY <1>5, <1>8, <2>1
<1>11. Table'
  BY <1>5, <1>6, <1>7, <1>8, <1>9, <1>10 DEF Table, Slots, FDs
<1> QED
  BY <1>1, <1>5, <1>7, <1>11

(* Closing a descriptor and freeing its entry keeps the table in order.     *)
LEMMA TableClose ==
  ASSUME SockType, SockInv, Table, NEW s \in Used,
         SysClose(client[s]),
         client' = [client EXCEPT ![s] = -1],
         UNCHANGED maxi
  PROVE  /\ Table' /\ Used' = Used \ {s}
         /\ \A t \in Used' : client'[t] = client[t] /\ files'[client[t]] = files[client[t]]
<1>1. s \in Slots /\ client[s] \in FDs
  BY UsedAboveListen
<1>2. files' = [files EXCEPT ![client[s]] = "free"]
  BY DEF SysClose
<1>3. \A t \in Slots : client'[t] = IF t = s THEN -1 ELSE client[t]
  BY DEF Table
<1>4. Used' = Used \ {s} /\ \A t \in Used' : client'[t] = client[t]
  BY <1>3 DEF Used, Slots
<1>5. client' \in [Slots -> {-1} \cup FDs]
  BY DEF Table
<1>6. \A fe \in FDs : files'[fe] = IF fe = client[s] THEN "free" ELSE files[fe]
  BY <1>2 DEF SockType
<1>7. \A t \in Used' : client[t] # client[s]
  BY <1>4 DEF Table
<1>8. ASSUME NEW t \in Used'
      PROVE  /\ client'[t] = client[t] /\ t <= maxi'
             /\ files'[client[t]] = files[client[t]] /\ files[client[t]] \in Clients
  <2>1. t \in Used /\ client'[t] = client[t] /\ client[t] \in FDs
    BY <1>4, UsedAboveListen
  <2> QED
    BY <1>6, <1>7, <2>1 DEF Table
<1>9. \A t, u \in Used' : client'[t] = client'[u] => t = u
  BY <1>4 DEF Table
<1>10. ASSUME NEW fe \in FDs, files'[fe] \in Clients
       PROVE  \E t \in Used' : client'[t] = fe
  <2>1. fe # client[s] /\ files[fe] \in Clients
    BY <1>6, <1>10, ClientsAssumption
  <2> QED
    BY <1>4, <2>1 DEF Table
<1>11. Table'
  BY <1>5, <1>8, <1>9, <1>10 DEF Table, Slots, FDs
<1> QED
  BY <1>4, <1>8, <1>11

-----------------------------------------------------------------------------
(* The entries a pass has still to read from.                               *)

Due(j) == {s \in Used : j <= s /\ revents[s]}

(* The entries due, without the abbreviations of the model.                 *)
LEMMA DueSlotsAre ==
  ASSUME Table
  PROVE  DueSlots = Due(i)
BY DEF DueSlots, Due, Used, Table, Slots, FDs

(* There are finitely many entries due.                                     *)
LEMMA DueFinite ==
  ASSUME NEW F
  PROVE  IsFiniteSet(DueSlots \ F) /\ Cardinality(DueSlots \ F) \in Nat
<1>1. IsFiniteSet(Slots)
  BY FS_Interval, OpenMaxAssumption DEF Slots
<1>2. DueSlots \ F \in SUBSET Slots
  BY DEF DueSlots
<1> QED
  BY <1>1, <1>2, FS_Subset, FS_CardinalityType

(* The loop never comes to the entry that poll has not seen: it is the      *)
(* highest, and the pass ends with the last of those nready counts.         *)
LEMMA LowestIsReported ==
  ASSUME NEW fresh \in {{}, {maxi}}, Reported(fresh), maxi \in {0} \cup Slots,
         NEW s \in DueSlots, \A t \in DueSlots : s <= t
  PROVE  s \in DueSlots \ fresh
<1>1. SUFFICES ASSUME s = maxi, fresh = {maxi} PROVE FALSE
  OBVIOUS
<1>2. \A t \in DueSlots : t = maxi
  <2>1. \A t \in DueSlots : t <= maxi /\ t \in Int /\ maxi \in Int
    BY DEF DueSlots, Slots
  <2> QED
    BY <1>1, <2>1
<1>3. DueSlots \ fresh = {}
  BY <1>1, <1>2
<1>4. Cardinality(DueSlots \ fresh) = 0
  BY <1>3, FS_EmptySet
<1> QED
  BY <1>4 DEF Reported

(* After one of them has been handled the others are still due, still       *)
(* counted and still readable.                                              *)
LEMMA HandledKeeps ==
  ASSUME Table, PassType, Table', NEW fresh \in {{}, {maxi}}, Reported(fresh),
         NEW s \in DueSlots \ fresh, \A t \in DueSlots : s <= t,
         pc = "write" => s = i,
         Handled(s + 1), UNCHANGED <<revents, maxi>>,
         buf' = <<>>,
         \A t \in Used' : t \in Used,
         \A t \in Used \ {s} :
           t \in Used' /\ (Readable(files[client[t]]) => Readable(files[client[t]])')
  PROVE  PassType' /\ AcceptInv' /\ ScanInv' /\ ResetIsContained'
<1>1. nready' = nready - 1 /\ nready >= 1 /\ nready \in Nat /\ nready' \in Nat
  BY DEF Handled, Reported, PassType
<1>2. s \in Slots /\ s + 1 \in 1..OpenMax /\ 1 \in 1..OpenMax
  BY OpenMaxAssumption, FilesAssumption DEF DueSlots, Slots
<1>3. pc' \in {"poll", "scan"} /\ i' \in 1..OpenMax
  BY <1>2 DEF Handled
<1>4. PassType'
  BY <1>1, <1>3, EmptySeq DEF PassType, Slots
<1>5. AcceptInv' /\ ResetIsContained'
  BY <1>3 DEF AcceptInv, ResetIsContained
<1>6. ScanInv'
  <2>1. CASE pc' = "poll"
    BY <2>1 DEF ScanInv
  <2>2. CASE pc' = "scan"
    <3>1. i' = s + 1 /\ nready' >= 1
      BY <1>1, <2>2 DEF Handled
    <3>2. DueSlots' = DueSlots \ {s}
      <4>1. DueSlots = Due(i)
        BY DueSlotsAre
      <4>2. DueSlots' = {t \in Used' : s + 1 <= t /\ revents[t]}
        BY <3>1 DEF DueSlots, Used, Table, Slots, FDs
      <4>3. ASSUME NEW t \in DueSlots' PROVE t \in DueSlots \ {s}
        <5>1. t \in Used /\ revents[t] /\ s + 1 <= t
          BY <4>2
        <5>2. i <= s /\ s \in Int /\ t \in Int /\ i \in Int
          BY <1>2, <5>1 DEF DueSlots, Used, Slots, PassType
        <5> QED
          BY <4>1, <5>1, <5>2 DEF Due
      <4>4. ASSUME NEW t \in DueSlots \ {s} PROVE t \in DueSlots'
        <5>1. t \in Used /\ revents[t] /\ s <= t /\ t # s
          BY <4>1, <4>4 DEF Due
        <5>2. s + 1 <= t
          BY <1>2, <5>1 DEF Used, Slots
        <5> QED
          BY <4>2, <5>1, <5>2
      <4> QED
        BY <4>3, <4>4
    <3>3. DueSlots' \ fresh = (DueSlots \ fresh) \ {s}
      BY <3>2
    <3>4. Cardinality(DueSlots' \ fresh) = Cardinality(DueSlots \ fresh) - 1
      BY <3>3, DueFinite, FS_RemoveElement
    <3>5. nready' = Cardinality(DueSlots' \ fresh)
      BY <1>1, <3>4 DEF Reported
    <3>6. ASSUME NEW t \in DueSlots' \ fresh PROVE Readable(files[client[t]])'
      <4>1. t \in DueSlots \ fresh /\ t # s
        BY <3>3
      <4>2. Readable(files[client[t]])
        BY <4>1 DEF Reported
      <4>3. t \in Used \ {s}
        BY <4>1, DueSlotsAre DEF Due
      <4> QED
        BY <4>2, <4>3
    <3>7. Reported(fresh)'
      BY <2>2, <3>1, <3>5, <3>6 DEF Reported
    <3>8. fresh \in {{}, {maxi'}}
      OBVIOUS
    <3> QED
      BY <3>7, <3>8 DEF ScanInv
  <2> QED
    BY <1>3, <2>1, <2>2
<1> QED
  BY <1>4, <1>5, <1>6

-----------------------------------------------------------------------------
(* The invariant holds at the start and every action keeps it.              *)

(* The initial states.                                                      *)
LEMMA StartsInside ==
  ASSUME Init
  PROVE  IInv
<1> USE DEF Init
<1>1. SockType
  <2>1. files \in [FDs -> {"free", "std", "listen"} \cup Clients]
    BY DEF SocketsInit
  <2>2. queue \in Seq(Clients) /\ lost \subseteq Clients /\ short \in BOOLEAN
    BY EmptySeq DEF SocketsInit
  <2>3. /\ conn \in [Clients -> {"none", "queued", "aborted", "open", "closed"}]
        /\ peer \in [Clients -> {"none", "open", "half", "closed"}]
        /\ broken \in [Clients -> BOOLEAN]
    BY DEF SocketsInit
  <2>4. sentBy \in [Clients -> 0..MaxSend] /\ readFrom \in [Clients -> 0..MaxSend]
    BY BoundsAssumption DEF SocketsInit
  <2> QED
    BY <2>1, <2>2, <2>3, <2>4 DEF SockType
<1>2. \A fd \in FDs : files[fd] \notin Clients /\ (fd <= listenfd => files[fd] \in {"std", "listen"})
  <2>1. \A fd \in FDs : files[fd] = (IF fd < listenfd THEN "std"
                                     ELSE IF fd = listenfd THEN "listen" ELSE "free")
    BY DEF SocketsInit
  <2>2. \A fd \in FDs : fd <= listenfd => fd < listenfd \/ fd = listenfd
    BY DEF FDs, listenfd
  <2> QED
    BY <2>1, <2>2, ClientsAssumption
<1>3. SockInv
  <2>1. Len(queue) = 0
    BY EmptySeq DEF SocketsInit
  <2> QED
    BY <1>2, <2>1 DEF SockInv, FilesInv, QueueInv
<1>4. Used = {}
  BY DEF Used
<1>5. Table
  BY <1>2, <1>4 DEF Table
<1>6. PassType
  BY OpenMaxAssumption, FilesAssumption, EmptySeq DEF PassType
<1>7. AcceptInv /\ ScanInv /\ ResetIsContained
  BY DEF AcceptInv, ScanInv, ResetIsContained
<1> QED
  BY <1>1, <1>3, <1>5, <1>6, <1>7 DEF IInv

(* A step that touches no socket keeps what is said of them.                *)
LEMMA SocketsStay ==
  ASSUME SockType, SockInv, UNCHANGED sockVars
  PROVE  SockType' /\ SockInv'
BY DEF SockType, SockInv, FilesInv, QueueInv, sockVars

(* poll() writes the revents of every entry it is shown, and counts them.   *)
LEMMA PollKeeps ==
  ASSUME IInv, Poll
  PROVE  IInv'
<1> USE DEF IInv
<1> DEFINE ready == {s \in 1..maxi : client[s] >= 0 /\ Readable(files[client[s]])}
<1>1. /\ pc = "poll" /\ i' = 1 /\ UNCHANGED <<tableVars, buf, sockVars>>
      /\ ready # {} \/ queue # <<>>
      /\ revents' = [s \in Slots |-> IF s <= maxi THEN s \in ready ELSE revents[s]]
      /\ nready' = Cardinality(ready) + (IF queue # <<>> THEN 1 ELSE 0)
      /\ pc' = (IF queue # <<>> THEN "accept" ELSE "scan")
  BY DEF Poll
<1>2. SockType' /\ SockInv' /\ Table'
  BY <1>1, SocketsStay, TableStays DEF sockVars
<1>3. maxi \in Nat /\ 1..maxi \subseteq Slots
  BY OpenMaxAssumption, FilesAssumption DEF Table, Slots
<1>4. IsFiniteSet(ready) /\ Cardinality(ready) \in Nat
  <2>1. IsFiniteSet(1..maxi)
    BY <1>3, FS_Interval
  <2> QED
    BY <2>1, FS_Subset, FS_CardinalityType
<1>5. ready = {s \in Slots : s <= maxi /\ client[s] >= 0 /\ Readable(files[client[s]])}
  BY <1>3 DEF Slots
<1> HIDE DEF ready
<1>6. \A s \in Slots : s <= maxi => (revents'[s] <=> s \in ready)
  BY <1>1
<1>7. DueSlots' = ready
  BY <1>1, <1>5, <1>6 DEF DueSlots, Slots, tableVars
<1>8. \A s \in ready : Readable(files[client[s]])'
  BY <1>1, <1>5 DEF Readable, Pending, Fin, tableVars, sockVars
<1>9. PassType'
  <2>1. ASSUME NEW s \in Slots PROVE (IF s <= maxi THEN s \in ready ELSE revents[s]) \in BOOLEAN
    <3>1. revents[s] \in BOOLEAN
      BY DEF PassType
    <3>2. CASE s <= maxi
      <4>1. CASE s \in ready
        BY <3>2, <4>1
      <4>2. CASE s \notin ready
        BY <3>2, <4>2
      <4> QED
        BY <4>1, <4>2
    <3>3. CASE ~ (s <= maxi)
      BY <3>1, <3>3, Zenon
    <3> QED
      BY <3>2, <3>3
  <2>2. revents' \in [Slots -> BOOLEAN]
    BY <1>1, <2>1
  <2>3. nready' \in Nat
    BY <1>1, <1>4
  <2>4. i' \in 1..OpenMax
    BY <1>1, OpenMaxAssumption, FilesAssumption
  <2> QED
    BY <1>1, <2>2, <2>3, <2>4 DEF PassType, Slots
<1>10. AcceptInv'
  <2>1. ASSUME pc' = "accept" PROVE nready' = Cardinality(DueSlots') + 1
    BY <1>1, <1>7, <2>1
  <2>2. \A s \in Slots' \ Used' : s <= maxi' => ~revents'[s]
    BY <1>1, <1>5, <1>6 DEF Used, Slots, tableVars
  <2> QED
    BY <1>1, <1>7, <1>8, <2>1, <2>2 DEF AcceptInv
<1>11. ScanInv'
  <2>1. ASSUME pc' = "scan" PROVE Reported({})'
    <3>1. ready # {} /\ nready' = Cardinality(ready)
      BY <1>1, <1>4, <2>1
    <3>2. nready' >= 1
      BY <1>4, <3>1, FS_EmptySet
    <3>3. DueSlots' \ {} = ready
      BY <1>7
    <3> QED
      BY <1>8, <2>1, <3>1, <3>2, <3>3 DEF Reported
  <2> QED
    BY <1>1, <2>1 DEF ScanInv
<1>12. ResetIsContained'
  BY <1>1 DEF ResetIsContained
<1> QED
  BY <1>2, <1>9, <1>10, <1>11, <1>12

(* The new connection is due only in the last entry, with whatever its      *)
(* revents holds: elsewhere poll has written 0 there.                       *)
LEMMA AcceptKeeps ==
  ASSUME IInv, Accept
  PROVE  IInv'
<1> USE DEF IInv
<1>1. pc = "accept" /\ Handled(1) /\ buf' = buf
  BY DEF Accept
<1>2. PICK fd \in FDs, s \in Slots :
        /\ SysAccept(fd) /\ Lowest(FreeSlots, s)
        /\ client' = [client EXCEPT ![s] = fd]
        /\ \E g \in Garbage(s) : revents' = [revents EXCEPT ![s] = g]
        /\ maxi' = (IF s > maxi THEN s ELSE maxi)
  BY DEF Accept
<1> PICK g \in Garbage(s) : revents' = [revents EXCEPT ![s] = g]
  BY <1>2
<1>3. SockType' /\ SockInv'
  BY <1>2, SysAcceptKeeps
<1>4. /\ Table' /\ s \notin Used /\ Used' = Used \cup {s}
      /\ \A t \in Used : client'[t] = client[t] /\ files'[client[t]] = files[client[t]]
  BY <1>2, TableAccept
<1>5. /\ i = 1 /\ nready = Cardinality(DueSlots) + 1
      /\ \A t \in DueSlots : Readable(files[client[t]])
      /\ \A t \in Slots \ Used : t <= maxi => ~revents[t]
  BY <1>1 DEF AcceptInv
<1>6. g \in BOOLEAN /\ (s <= maxi => g = FALSE)
  <2>1. revents[s] \in BOOLEAN
    BY DEF PassType
  <2>2. s > maxi \/ s <= maxi
    BY DEF Table, Slots
  <2>3. s <= maxi => ~ (s > maxi)
    BY DEF Table, Slots
  <2>4. s <= maxi => revents[s] = FALSE
    BY <1>4, <1>5, <2>1
  <2> QED
    BY <2>1, <2>2, <2>3, <2>4 DEF Garbage
<1>7. revents' \in [Slots -> BOOLEAN] /\ \A t \in Slots : revents'[t] = IF t = s THEN g ELSE revents[t]
  BY <1>2, <1>6 DEF PassType
<1>8. Cardinality(DueSlots) \in Nat
  <2>1. DueSlots \ {} = DueSlots
    OBVIOUS
  <2> QED
    BY <2>1, DueFinite
<1>9. nready' = Cardinality(DueSlots) /\ nready' \in Nat
  BY <1>1, <1>5, <1>8 DEF Handled
<1>10. pc' \in {"poll", "scan"} /\ i' = 1 /\ (pc' = "scan" => nready' >= 1)
  BY <1>1, <1>8, <1>9 DEF Handled
<1>11. PassType'
  BY <1>1, <1>7, <1>9, <1>10, OpenMaxAssumption, FilesAssumption DEF PassType, Slots
<1>12. \A t \in Used : Readable(files[client[t]]) => Readable(files[client[t]])'
  BY <1>2, <1>4 DEF SysAccept, Readable, Pending, Fin
<1>13. ScanInv'
  <2>1. DueSlots = {t \in Used : 1 <= t /\ revents[t]}
    BY <1>5, DueSlotsAre DEF Due
  <2>2. DueSlots' = {t \in Used \cup {s} : 1 <= t /\ revents'[t]}
    BY <1>4, <1>10 DEF DueSlots, Used, Table, Slots, FDs
  <2>3. \A t \in Used : t \in Slots /\ t # s
    BY <1>4 DEF Used
  <2>4. \A t \in Used : revents'[t] = revents[t]
    BY <1>7, <2>3
  <2>5. PICK fresh \in {{}, {maxi'}} : DueSlots' \ fresh = DueSlots
    <3>1. CASE s > maxi
      <4>1. maxi' = s
        BY <1>2, <3>1
      <4>2. DueSlots' \ {s} = DueSlots
        BY <2>1, <2>2, <2>3, <2>4
      <4> QED
        BY <4>1, <4>2
    <3>2. CASE s <= maxi
      <4>1. ~revents'[s]
        BY <1>6, <1>7, <3>2
      <4>2. DueSlots' \ {} = DueSlots
        BY <2>1, <2>2, <2>4, <4>1
      <4> QED
        BY <4>2
    <3>3. s > maxi \/ s <= maxi
      BY DEF Table, Slots
    <3> QED
      BY <3>1, <3>2, <3>3
  <2>6. ASSUME pc' = "scan" PROVE Reported(fresh)'
    <3>1. \A t \in DueSlots : Readable(files[client[t]])'
      BY <1>5, <1>12, <2>1
    <3> QED
      BY <1>9, <1>10, <2>5, <2>6, <3>1 DEF Reported
  <2> QED
    BY <1>10, <2>5, <2>6 DEF ScanInv
<1>14. AcceptInv' /\ ResetIsContained'
  BY <1>10 DEF AcceptInv, ResetIsContained
<1> QED
  BY <1>3, <1>4, <1>11, <1>13, <1>14

(* accept() is called again: the sockets have one connection less.          *)
LEMMA AcceptAgainKeeps ==
  ASSUME IInv, AcceptAgain
  PROVE  IInv'
<1> USE DEF IInv
<1>1. SysAcceptAborted /\ UNCHANGED <<pc, client, maxi, revents, nready, i, buf>>
  BY DEF AcceptAgain, tableVars
<1>2. /\ SockType' /\ SockInv'
      /\ UNCHANGED <<files, conn, peer, broken, lost, short, sentBy, readFrom>>
  BY <1>1, SysAcceptAbortedKeeps
<1>3. Table'
  BY <1>1, <1>2, TableStays DEF tableVars
<1>4. DueSlots' = DueSlots /\ Used' = Used /\ FreeFds' = FreeFds
  BY <1>1, <1>2 DEF DueSlots, Used, Slots, FreeFds
<1>5. PassType'
  BY <1>1, <1>4 DEF PassType, Slots
<1>6. \A t \in DueSlots : Readable(files[client[t]]) => Readable(files[client[t]])'
  BY <1>1, <1>2 DEF Readable, Pending, Fin
<1>7. AcceptInv'
  BY <1>1, <1>4, <1>6 DEF AcceptInv, Slots
<1>8. pc' = "accept"
  BY <1>1 DEF AcceptAgain
<1>9. ScanInv' /\ ResetIsContained'
  BY <1>8 DEF ScanInv, ResetIsContained
<1> QED
  BY <1>2, <1>3, <1>5, <1>7, <1>9

(* accept() fails for want of a descriptor or memory: err_sys.              *)
LEMMA AcceptFailsKeeps ==
  ASSUME IInv, AcceptFails
  PROVE  IInv'
<1> USE DEF IInv
<1>1. /\ AcceptRunsOut /\ pc' = "failed"
      /\ UNCHANGED <<tableVars, revents, nready, i, buf, sockVars>>
  BY DEF AcceptFails
<1>2. SockType' /\ SockInv' /\ Table'
  BY <1>1, SocketsStay, TableStays DEF sockVars
<1>3. PassType'
  BY <1>1 DEF AcceptFails, PassType, Used, Slots, tableVars
<1>4. AcceptRunsOut'
  BY <1>1 DEF AcceptRunsOut, FreeFds, sockVars
<1>5. AcceptInv' /\ ScanInv' /\ ResetIsContained'
  BY <1>1, <1>4 DEF AcceptInv, ScanInv, ResetIsContained
<1> QED
  BY <1>2, <1>3, <1>5

(* Reading from the lowest entry due, which is one that poll reported.      *)
LEMMA ReadDataKeeps ==
  ASSUME IInv, pc = "scan", NEW s \in DueSlots, \A t \in DueSlots : s <= t,
         ReadData(s), UNCHANGED revents
  PROVE  IInv'
<1> USE DEF IInv
<1> DEFINE c == files[client[s]]
<1>1. s \in Used /\ s \in Slots /\ c \in Clients
  BY UsedAboveListen, DueSlotsAre DEF Due
<1>2. PICK n \in 1..(sentBy[c] - readFrom[c]) :
        SysRead(c, n) /\ buf' = [k \in 1..n |-> <<c, readFrom[c] + k>>]
  BY DEF ReadData
<1>3. pc' = "write" /\ i' = s /\ UNCHANGED <<tableVars, nready>>
  BY DEF ReadData
<1>4. /\ SockType' /\ SockInv'
      /\ n \in Nat \ {0} /\ readFrom[c] \in Nat /\ readFrom[c] + n <= MaxSend
      /\ \A d \in Clients \ {c} : readFrom'[d] = readFrom[d]
      /\ UNCHANGED <<files, peer, broken, lost, short, sentBy>>
  BY <1>1, <1>2, SysReadKeeps
<1>5. Table'
  BY <1>3, <1>4, TableStays
<1>6. buf' \in Seq(Clients \X (1..MaxSend)) /\ buf' # <<>>
  <2> HIDE DEF c
  <2>1. \A k \in 1..n : readFrom[c] + k \in 1..MaxSend
    BY <1>4, BoundsAssumption
  <2>2. \A k \in 1..n : <<c, readFrom[c] + k>> \in Clients \X (1..MaxSend)
    BY <1>1, <2>1
  <2>3. buf' \in Seq(Clients \X (1..MaxSend)) /\ Len(buf') = n
    BY <1>2, <1>4, <2>2
  <2> QED
    BY <1>4, <2>3, EmptySeq
<1>7. PassType'
  <2>1. i' \in 1..OpenMax
    BY <1>1, <1>3, OpenMaxAssumption DEF Slots
  <2>2. i' \in Used'
    BY <1>1, <1>3 DEF Used, Slots, tableVars
  <2> QED
    BY <1>3, <1>6, <2>1, <2>2 DEF PassType, Slots
<1>8. ScanInv'
  <2>1. PICK fresh \in {{}, {maxi}} : Reported(fresh)
    BY DEF ScanInv
  <2>2. s \in DueSlots \ fresh
    BY <2>1, LowestIsReported DEF Table
  <2>3. DueSlots' = DueSlots
    <3>1. DueSlots' = {t \in Slots : s <= t /\ t <= maxi /\ client[t] >= 0 /\ revents[t]}
      BY <1>3 DEF DueSlots, Slots, tableVars
    <3>2. \A t \in Slots : s <= t => i <= t
      BY <1>1 DEF DueSlots, Slots, PassType
    <3> QED
      BY <3>1, <3>2 DEF DueSlots
  <2>4. ASSUME NEW t \in DueSlots \ fresh, t # s PROVE Readable(files[client[t]])'
    <3>1. Readable(files[client[t]])
      BY <2>1, <2>4 DEF Reported
    <3>2. t \in Used
      BY DueSlotsAre DEF Due
    <3>3. files[client[t]] \in Clients /\ files[client[t]] # c
      BY <1>1, <2>4, <3>2, UsedAboveListen DEF Table, SockInv, FilesInv
    <3> QED
      BY <1>3, <1>4, <3>1, <3>3 DEF Readable, Pending, Fin, tableVars
  <2>5. Reported(fresh)'
    BY <1>3, <2>1, <2>2, <2>3, <2>4 DEF Reported
  <2>6. fresh \in {{}, {maxi'}}
    BY <1>3 DEF tableVars
  <2> QED
    BY <2>5, <2>6 DEF ScanInv
<1>9. AcceptInv' /\ ResetIsContained'
  BY <1>3 DEF AcceptInv, ResetIsContained
<1> QED
  BY <1>4, <1>5, <1>7, <1>8, <1>9

(* read() returns end of file or a reset: the entry is freed.               *)
LEMMA ReadClosedKeeps ==
  ASSUME IInv, pc = "scan", NEW s \in DueSlots, \A t \in DueSlots : s <= t,
         ReadClosed(s), UNCHANGED revents
  PROVE  IInv'
<1> USE DEF IInv
<1>1. s \in Used /\ client[s] \in FDs /\ files[client[s]] \in Clients
  BY UsedAboveListen, DueSlotsAre DEF Due
<1>2. /\ SysClose(client[s]) /\ Handled(s + 1)
      /\ client' = [client EXCEPT ![s] = -1] /\ UNCHANGED <<maxi, buf>>
  BY DEF ReadClosed
<1>3. SockType' /\ SockInv'
  BY <1>1, <1>2, SysCloseKeeps
<1>4. /\ Table' /\ Used' = Used \ {s}
      /\ \A t \in Used' : client'[t] = client[t] /\ files'[client[t]] = files[client[t]]
  BY <1>1, <1>2, TableClose
<1>5. PICK fresh \in {{}, {maxi}} : Reported(fresh)
  BY DEF ScanInv
<1>6. s \in DueSlots \ fresh
  BY <1>5, LowestIsReported DEF Table
<1>7. \A t \in Used \ {s} :
        t \in Used' /\ (Readable(files[client[t]]) => Readable(files[client[t]])')
  BY <1>2, <1>4 DEF SysClose, Readable, Pending, Fin
<1>8. buf' = <<>>
  BY <1>2 DEF PassType
<1>9. PassType' /\ AcceptInv' /\ ScanInv' /\ ResetIsContained'
  BY <1>2, <1>4, <1>5, <1>6, <1>7, <1>8, HandledKeeps
<1> QED
  BY <1>3, <1>4, <1>9

(* read() finds that the connection is lost: err_sys.                       *)
LEMMA ReadFailsKeeps ==
  ASSUME IInv, NEW s \in DueSlots, ReadFails(s), UNCHANGED revents
  PROVE  IInv'
<1> USE DEF IInv
<1> DEFINE c == files[client[s]]
<1>1. /\ c \in lost /\ pc' = "failed"
      /\ UNCHANGED <<tableVars, revents, nready, i, buf, sockVars>>
  BY DEF ReadFails
<1>2. SockType' /\ SockInv' /\ Table'
  BY <1>1, SocketsStay, TableStays DEF sockVars
<1>3. PassType'
  BY <1>1 DEF PassType, Used, Slots, tableVars
<1>4. conn[c] = "open"
  BY UsedAboveListen, DueSlotsAre DEF Due, SockInv, FilesInv
<1>5. lost' = lost /\ conn' = conn
  BY <1>1 DEF sockVars
<1>6. AcceptInv' /\ ScanInv' /\ ResetIsContained'
  BY <1>1, <1>4, <1>5 DEF AcceptInv, ScanInv, ResetIsContained
<1> QED
  BY <1>2, <1>3, <1>6

(* The next read of a pass, whatever it returns.                            *)
LEMMA ScanClientKeeps ==
  ASSUME IInv, ScanClient
  PROVE  IInv'
<1>1. pc = "scan" /\ UNCHANGED revents
  BY DEF ScanClient
<1>2. CASE DueSlots = {}
  <2>1. pc' = "poll" /\ UNCHANGED <<tableVars, nready, i, buf, sockVars>>
    BY <1>2 DEF ScanClient
  <2>2. SockType' /\ SockInv' /\ Table'
    BY <2>1, SocketsStay, TableStays DEF sockVars, IInv
  <2>3. PassType'
    BY <1>1, <2>1 DEF IInv, PassType, Slots
  <2>4. AcceptInv' /\ ScanInv' /\ ResetIsContained'
    BY <2>1 DEF AcceptInv, ScanInv, ResetIsContained
  <2> QED
    BY <2>2, <2>3, <2>4 DEF IInv
<1>3. CASE DueSlots # {}
  <2>1. PICK s \in DueSlots : /\ \A t \in DueSlots : s <= t
                              /\ ReadData(s) \/ ReadClosed(s) \/ ReadFails(s)
    BY <1>3 DEF ScanClient, Lowest
  <2>2. CASE ReadData(s)
    BY <1>1, <2>1, <2>2, ReadDataKeeps
  <2>3. CASE ReadClosed(s)
    BY <1>1, <2>1, <2>3, ReadClosedKeeps
  <2>4. CASE ReadFails(s)
    BY <1>1, <2>4, ReadFailsKeeps
  <2> QED
    BY <2>1, <2>2, <2>3, <2>4
<1> QED
  BY <1>2, <1>3

(* One part of a Writen, or its failure on a broken connection.             *)
LEMMA EchoKeeps ==
  ASSUME IInv, Echo
  PROVE  IInv'
<1> USE DEF IInv
<1> DEFINE c == files[client[i]]
<1>1. pc = "write" /\ UNCHANGED <<tableVars, revents>>
  BY DEF Echo
<1>2. UNCHANGED <<files, queue, conn, peer, broken, lost, short, sentBy, readFrom>>
  BY DEF Echo, SysWrite, sockVars
<1>3. SockType' /\ SockInv' /\ Table'
  <2>1. SockType' /\ SockInv'
    BY <1>2 DEF SockType, SockInv, FilesInv, QueueInv
  <2> QED
    BY <1>1, <1>2, <2>1, TableStays
<1>4. PICK fresh \in {{}, {maxi}} : Reported(fresh)
  BY <1>1 DEF ScanInv
<1>5. i \in DueSlots \ fresh /\ \A t \in DueSlots : i <= t
  BY <1>1, <1>4 DEF Reported, DueSlots
<1>6. CASE broken[c]
  <2>1. pc' = "failed" /\ UNCHANGED <<buf, i, nready>>
    BY <1>6 DEF Echo
  <2>2. PassType'
    BY <1>1, <2>1 DEF PassType, Used, Slots, tableVars
  <2>3. ResetIsContained'
    BY <1>1, <1>2, <1>6, <2>1 DEF PassType, ResetIsContained, tableVars
  <2> QED
    BY <1>3, <2>1, <2>2, <2>3 DEF AcceptInv, ScanInv
<1>7. CASE ~broken[c]
  <2>1. PICK n \in 1..Len(buf) : buf' = SubSeq(buf, n + 1, Len(buf))
    BY <1>7 DEF Echo
  <2>2. IF buf' = <<>> THEN Handled(i + 1) ELSE UNCHANGED <<pc, i, nready>>
    BY <1>7 DEF Echo
  <2>3. buf' \in Seq(Clients \X (1..MaxSend))
    <3>1. buf \in Seq(Clients \X (1..MaxSend)) /\ Len(buf) \in Nat
      BY LenProperties DEF PassType
    <3>2. \A k \in (n + 1)..Len(buf) : buf[k] \in Clients \X (1..MaxSend)
      BY <3>1, ElementOfSeq
    <3> QED
      BY <2>1, <3>1, <3>2, SubSeqProperties
  <2>4. Used' = Used
    BY <1>1 DEF Used, Slots, tableVars
  <2>5. \A t \in Used : Readable(files[client[t]]) => Readable(files[client[t]])'
    BY <1>1, <1>2 DEF Readable, Pending, Fin, tableVars
  <2>6. CASE buf' = <<>>
    <3>1. Handled(i + 1)
      BY <2>2, <2>6
    <3>2. \A t \in Used \ {i} :
            t \in Used' /\ (Readable(files[client[t]]) => Readable(files[client[t]])')
      BY <2>4, <2>5
    <3>3. PassType' /\ AcceptInv' /\ ScanInv' /\ ResetIsContained'
      BY <1>1, <1>3, <1>4, <1>5, <2>4, <2>6, <3>1, <3>2, HandledKeeps DEF tableVars
    <3> QED
      BY <1>3, <3>3
  <2>7. CASE buf' # <<>>
    <3>1. UNCHANGED <<pc, i, nready>>
      BY <2>2, <2>7
    <3>2. PassType'
      BY <1>1, <2>3, <2>4, <2>7, <3>1 DEF PassType, Slots
    <3>3. DueSlots' = DueSlots
      BY <1>1, <3>1 DEF DueSlots, Slots, tableVars
    <3>4. \A t \in DueSlots : t \in Used
      BY DueSlotsAre DEF Due
    <3>5. Reported(fresh)'
      BY <1>4, <2>5, <3>1, <3>3, <3>4 DEF Reported
    <3>6. fresh \in {{}, {maxi'}}
      BY <1>1 DEF tableVars
    <3>7. AcceptInv' /\ ScanInv' /\ ResetIsContained'
      BY <1>1, <3>1, <3>5, <3>6 DEF AcceptInv, ScanInv, ResetIsContained
    <3> QED
      BY <1>3, <3>2, <3>7
  <2> QED
    BY <2>6, <2>7
<1> QED
  BY <1>6, <1>7

(* A step of a client or of the system, with the server where it is.        *)
LEMMA ClientKeeps ==
  ASSUME IInv, Shortage \/ \E c \in Clients : ClientStep(c), UNCHANGED serverVars
  PROVE  IInv'
<1> USE DEF IInv
<1>1. SockType' /\ SockInv' /\ ClientFrame
  BY ClientStepKeeps, ShortageKeeps
<1>2. UNCHANGED <<pc, client, maxi, revents, nready, i, buf>> /\ files' = files
  BY <1>1 DEF serverVars, tableVars, ClientFrame
<1>3. Table'
  BY <1>2, TableStays DEF tableVars
<1>4. DueSlots' = DueSlots /\ Used' = Used
  BY <1>2 DEF DueSlots, Used, Slots
<1>5. PassType'
  BY <1>2, <1>4 DEF PassType, Slots
<1>6. ASSUME NEW t \in Used, Readable(files[client[t]]) PROVE Readable(files[client[t]])'
  <2>1. files[client[t]] \in Clients /\ conn[files[client[t]]] = "open"
    BY UsedAboveListen DEF SockInv, FilesInv
  <2>2. files'[client'[t]] = files[client[t]]
    BY <1>2
  <2>3. Readable(files[client[t]])' <=> (Pending(files[client[t]])' \/ Fin(files[client[t]])' \/ broken'[files'[client'[t]]])
    BY DEF Readable
  <2> DEFINE d == files[client[t]]
  <2>4. sentBy'[d] > readFrom'[d] \/ peer'[d] \in {"half", "closed"} \/ broken'[d]
    BY <1>1, <1>6, <2>1 DEF ClientFrame, Readable, Pending, Fin, SockType
  <2> QED
    BY <1>1, <2>1, <2>2, <2>4 DEF Readable, Pending, Fin, SockType
<1>7. AcceptInv'
  <2>1. \A t \in DueSlots : t \in Used
    BY DueSlotsAre DEF Due
  <2> QED
    BY <1>2, <1>4, <1>6, <2>1 DEF AcceptInv, Slots
<1>8. ScanInv'
  <2>1. ASSUME NEW fresh \in {{}, {maxi}}, Reported(fresh) PROVE Reported(fresh)'
    <3>1. \A t \in DueSlots : t \in Used
      BY DueSlotsAre DEF Due
    <3> QED
      BY <1>2, <1>4, <1>6, <2>1, <3>1 DEF Reported
  <2> QED
    BY <1>2, <2>1 DEF ScanInv
<1>9. ResetIsContained'
  <2>1. CASE AcceptRunsOut
    <3>1. AcceptRunsOut'
      BY <1>1, <1>2, <2>1 DEF AcceptRunsOut, FreeFds, ClientFrame
    <3> QED
      BY <3>1 DEF ResetIsContained
  <2>2. CASE buf # <<>> /\ broken[files[client[i]]]
    <3>1. files[client[i]] \in Clients
      BY <2>2, UsedAboveListen DEF PassType
    <3>2. broken'[files[client[i]]]
      BY <1>1, <2>2, <3>1 DEF ClientFrame
    <3> QED
      BY <1>2, <2>2, <3>2 DEF ResetIsContained
  <2>3. CASE \E d \in lost : conn[d] = "open"
    <3>1. \E d \in lost' : conn'[d] = "open"
      BY <1>1, <2>3 DEF ClientFrame, SockType
    <3> QED
      BY <3>1 DEF ResetIsContained
  <2>4. CASE pc # "failed"
    BY <1>2, <2>4 DEF ResetIsContained
  <2> QED
    BY <2>1, <2>2, <2>3, <2>4 DEF ResetIsContained
<1> QED
  BY <1>1, <1>3, <1>5, <1>7, <1>8, <1>9

(* Steps that change nothing.                                               *)
LEMMA StutterKeeps ==
  ASSUME IInv, UNCHANGED vars
  PROVE  IInv'
<1> USE DEF IInv
<1>1. UNCHANGED <<pc, client, maxi, revents, nready, i, buf>> /\ UNCHANGED <<tableVars, sockVars>>
  BY DEF vars, tableVars
<1>2. SockType' /\ SockInv' /\ Table'
  BY <1>1, SocketsStay, TableStays DEF sockVars
<1>3. DueSlots' = DueSlots /\ Used' = Used /\ FreeFds' = FreeFds
  BY <1>1 DEF DueSlots, Used, Slots, FreeFds, sockVars
<1>4. PassType'
  BY <1>1, <1>3 DEF PassType, Slots
<1>5. \A t \in DueSlots : Readable(files[client[t]]) => Readable(files[client[t]])'
  BY <1>1 DEF Readable, Pending, Fin, sockVars
<1>6. AcceptInv' /\ ResetIsContained'
  BY <1>1, <1>3, <1>5 DEF AcceptInv, ResetIsContained, AcceptRunsOut, Slots, sockVars
<1>7. \A fresh : Reported(fresh) => Reported(fresh)'
  BY <1>1, <1>3, <1>5 DEF Reported
<1>8. ScanInv'
  BY <1>1, <1>7 DEF ScanInv
<1> QED
  BY <1>2, <1>4, <1>6, <1>8

(* The invariant, from the initial states and the steps above.              *)
LEMMA AlwaysInside == Spec => []IInv
<1>1. Init => IInv
  BY StartsInside
<1>2. IInv /\ [Next]_vars => IInv'
  BY PollKeeps, AcceptKeeps, AcceptAgainKeeps, AcceptFailsKeeps, ScanClientKeeps, EchoKeeps, ClientKeeps,
     StutterKeeps DEF Next, Server
<1> QED
  BY <1>1, <1>2, PTL DEF Spec

-----------------------------------------------------------------------------
(* The theorems. *)

(* Every variable of the server keeps its type; in particular i never       *)
(* passes the end of client[].                                              *)
THEOREM TypeCorrect == Spec => []TypeOK
<1>1. IInv => TypeOK
  BY DEF IInv, TypeOK, SockType, Table, PassType
<1> QED
  BY <1>1, AlwaysInside, PTL

(* Each open connection is in one entry poll is shown, nothing else is, and *)
(* err_quit("too many clients") cannot be reached.                          *)
THEOREM EntriesAlwaysMatch == Spec => []EntriesMatchFiles
<1>1. IInv => EntriesMatchFiles
  <2> SUFFICES ASSUME IInv PROVE EntriesMatchFiles
    OBVIOUS
  <2> USE DEF IInv
  <2>1. ASSUME NEW s \in Slots, client[s] >= 0
        PROVE  s <= maxi /\ files[client[s]] \in Clients /\ conn[files[client[s]]] = "open"
    <3>1. s \in Used
      BY <2>1 DEF Used
    <3> QED
      BY <3>1, UsedAboveListen DEF Table, SockInv, FilesInv
  <2>2. \A s, t \in Slots : client[s] = client[t] /\ client[s] >= 0 => s = t
    BY DEF Table, Used
  <2>3. \A fd \in FDs : files[fd] \in Clients => \E s \in Slots : client[s] = fd
    BY DEF Table, Used
  <2>4. FreeSlots # {}
    BY SlotLeft
  <2> QED
    BY <2>1, <2>2, <2>3, <2>4 DEF EntriesMatchFiles
<1> QED
  BY <1>1, AlwaysInside, PTL

(* read() never blocks, although main never clears client[] and may look at *)
(* an entry poll has not written: nready sends it back to poll before.      *)
THEOREM AlwaysReadsReady == Spec => []ReadsOnlyReady
<1>1. IInv => ReadsOnlyReady
  <2> SUFFICES ASSUME IInv, NEW s \in Slots, BlockedOn(s) PROVE FALSE
    BY DEF ReadsOnlyReady
  <2> USE DEF IInv
  <2>1. pc = "scan" /\ s \in DueSlots /\ (\A t \in DueSlots : s <= t) /\ ~Readable(files[client[s]])
    BY DEF BlockedOn, Lowest
  <2>2. PICK fresh \in {{}, {maxi}} : Reported(fresh)
    BY <2>1 DEF ScanInv
  <2>3. s \in DueSlots \ fresh
    BY <2>1, <2>2, LowestIsReported DEF Table
  <2> QED
    BY <2>1, <2>2, <2>3 DEF Reported
<1> QED
  BY <1>1, AlwaysInside, PTL

(* A reset that read() reports closes one connection; the server ends for a *)
(* write to a broken connection, for one that is lost otherwise, and for    *)
(* want of descriptors or memory.                                           *)
THEOREM ResetsContained == Spec => []ResetIsContained
<1>1. IInv => ResetIsContained
  BY DEF IInv
<1> QED
  BY <1>1, AlwaysInside, PTL
=============================================================================
