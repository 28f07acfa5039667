------------------------- MODULE SelectServerProofs -------------------------
(***************************************************************************)
(* Safety of the select echo servers for any set of clients, any size of   *)
(* the descriptor table and of client[], any window and any number of      *)
(* bytes, whichever of the three programs is considered.                   *)
(***************************************************************************)
EXTENDS SelectServer, FiniteSetTheorems, FunctionTheorems, SequenceTheorems, TLAPS

Bytes == Clients \X (1..MaxSend)

(* The bytes of c after its first a, n of them. *)
Run(c, a, n) == [k \in 1..n |-> <<c, a + k>>]

-----------------------------------------------------------------------------
(* The inductive invariant. *)

SockType ==
  /\ files \in [FDs -> {"free", "std", "listen"} \cup Clients]
  /\ queue \in Seq(Clients)
  /\ conn \in [Clients -> {"none", "queued", "aborted", "open", "closed"}]
  /\ peer \in [Clients -> {"none", "open", "half", "closed"}]
  /\ broken \in [Clients -> BOOLEAN] /\ lost \subseteq Clients /\ short \in BOOLEAN
  /\ sentBy \in [Clients -> 0..MaxSend]
  /\ readFrom \in [Clients -> 0..MaxSend]
  /\ echoed \in [Clients -> Seq(Bytes)]
  /\ consumed \in [Clients -> Nat]

(* A descriptor above the listening one is free or open on a connection     *)
(* that no other has; what waits in the accept queue, whether it has been   *)
(* reset or not, is in no descriptor.                                       *)
FilesInv ==
  /\ \A fd \in FDs : /\ fd < listenfd => files[fd] = "std"
                     /\ fd = listenfd => files[fd] = "listen"
                     /\ fd > listenfd => files[fd] = "free" \/ files[fd] \in Clients
  /\ \A fd \in FDs : files[fd] \in Clients => conn[files[fd]] = "open"
  /\ \A fd, fe \in FDs : files[fd] \in Clients /\ files[fd] = files[fe] => fd = fe

QueueInv ==
  /\ \A k \in 1..Len(queue) : conn[queue[k]] \in {"queued", "aborted"}
  /\ \A j, k \in 1..Len(queue) : queue[j] = queue[k] => j = k

CountInv ==
  \A c \in Clients : readFrom[c] <= sentBy[c] /\ consumed[c] <= Len(echoed[c])

SockInv == FilesInv /\ QueueInv /\ CountInv

Used == {s \in Slots : client[s] >= 0}

Table ==
  /\ client \in [Slots -> {-1} \cup FDs]
  /\ maxi \in {-1} \cup Slots /\ maxfd \in FDs /\ listenfd <= maxfd
  /\ \A s \in Used : client[s] <= maxfd /\ s <= maxi /\ files[client[s]] \in Clients
  /\ \A s, t \in Used : client[s] = client[t] => s = t
  /\ \A fd \in FDs : files[fd] \in Clients => \E s \in Used : client[s] = fd

(* The descriptors the server means to ask select about, and those it does. *)
Held == {listenfd} \cup {client[s] : s \in Used}

Asks ==
  /\ Held \subseteq allset
  /\ \A fd \in allset : fd \in Held \/ StrayBitSet(fd)

(* A pass of the loop handles each descriptor select reported once.         *)
Pass ==
  /\ pc \in {"select", "accept", "scan", "write", "exited", "failed"}
  /\ rset \subseteq FDs /\ nready \in Nat /\ i \in 0..FD_SETSIZE
  /\ pc = "accept" => /\ rset \subseteq Held /\ listenfd \in rset /\ i = 0
                      /\ nready = Cardinality(rset)
                      /\ queue # <<>> \/ \E c \in Clients : conn[c] = "aborted"
  /\ pc \in {"scan", "write"} => nready = Cardinality(DueSlots) /\ nready >= 1
  /\ pc = "write" => i \in DueSlots

(* Every byte read has been echoed or is in buf, in order.                  *)
Data ==
  /\ buf \in Seq(Bytes)
  /\ pc = "write" => buf # <<>>
  /\ buf # <<>> => pc \in {"write", "exited", "failed"} /\ i \in Used
  /\ pc = "exited" /\ SigintBlocked => buf = <<>>
  /\ buf # <<>> => LET c == files[client[i]] IN buf = Run(c, Len(echoed[c]), Len(buf))
  /\ \A c \in Clients :
       /\ echoed[c] = Run(c, 0, Len(echoed[c]))
       /\ readFrom[c] = Len(echoed[c]) + IF buf # <<>> /\ files[client[i]] = c THEN Len(buf) ELSE 0

IInv == SockType /\ SockInv /\ Table /\ Asks /\ Pass /\ Data /\ FailureExplained

-----------------------------------------------------------------------------
(* Runs of a client's bytes, and what removing one client leaves of a queue. *)

(* A run has the length asked for, and its elements are bytes of c.         *)
LEMMA RunType ==
  ASSUME NEW c \in Clients, NEW a \in Nat, NEW n \in Nat
  PROVE  /\ Len(Run(c, a, n)) = n /\ DOMAIN Run(c, a, n) = 1..n
         /\ \A k \in 1..n : Run(c, a, n)[k] = <<c, a + k>>
         /\ Run(c, a, n) \in Seq(Clients \X Nat)
         /\ a + n <= MaxSend => Run(c, a, n) \in Seq(Bytes)
         /\ n = 0 <=> Run(c, a, n) = <<>>
<1>1. Len(Run(c, a, n)) = n /\ DOMAIN Run(c, a, n) = 1..n
      /\ \A k \in 1..n : Run(c, a, n)[k] = <<c, a + k>>
  BY DEF Run
<1>2. Run(c, a, n) \in Seq(Clients \X Nat)
  <2>1. \A k \in 1..n : <<c, a + k>> \in Clients \X Nat
    OBVIOUS
  <2> QED
    BY <2>1 DEF Run
<1>3. a + n <= MaxSend => Run(c, a, n) \in Seq(Bytes)
  <2>1. ASSUME a + n <= MaxSend, NEW k \in 1..n PROVE <<c, a + k>> \in Bytes
    <3>1. a + k \in 1..MaxSend
      BY <2>1, BoundsAssumption
    <3> QED
      BY <3>1 DEF Bytes
  <2> QED
    BY <2>1 DEF Run
<1>4. n = 0 <=> Run(c, a, n) = <<>>
  BY <1>1, <1>2, EmptySeq
<1> QED
  BY <1>1, <1>2, <1>3, <1>4

(* The first a bytes and the next n are the first a + n.                    *)
LEMMA RunConcat ==
  ASSUME NEW c \in Clients, NEW a \in Nat, NEW n \in Nat
  PROVE  Run(c, 0, a) \o Run(c, a, n) = Run(c, 0, a + n)
<1> DEFINE S == Clients \X Nat
           u == Run(c, 0, a)
           v == Run(c, a, n)
           w == Run(c, 0, a + n)
<1>0. 0 \in Nat /\ a + n \in Nat
  OBVIOUS
<1>1. u \in Seq(S) /\ v \in Seq(S) /\ w \in Seq(S) /\ Len(u) = a /\ Len(v) = n /\ Len(w) = a + n
  <2>1. u \in Seq(S) /\ Len(u) = a
    BY <1>0, RunType
  <2>2. v \in Seq(S) /\ Len(v) = n
    BY RunType
  <2>3. w \in Seq(S) /\ Len(w) = a + n
    <3> HIDE DEF u, v
    <3> QED
      BY <1>0, RunType
  <2> QED
    BY <2>1, <2>2, <2>3
<1>2. \A k \in 1..a : u[k] = <<c, k>>
  BY DEF Run
<1>3. \A k \in 1..n : v[k] = <<c, a + k>>
  BY DEF Run
<1>4. \A k \in 1..(a + n) : w[k] = <<c, k>>
  BY DEF Run
<1> HIDE DEF u, v, w, S
<1>5. u \o v \in Seq(S) /\ Len(u \o v) = a + n
  BY <1>1, ConcatProperties
<1>6. ASSUME NEW k \in 1..(a + n) PROVE (u \o v)[k] = w[k]
  <2>1. (u \o v)[k] = IF k <= a THEN u[k] ELSE v[k - a]
    BY <1>1, ConcatProperties
  <2>2. CASE k <= a
    BY <1>2, <1>4, <2>1, <2>2
  <2>3. CASE ~ (k <= a)
    <3>1. k - a \in 1..n /\ a + (k - a) = k
      BY <2>3
    <3> QED
      BY <1>3, <1>4, <2>1, <2>3, <3>1
  <2> QED
    BY <2>2, <2>3
<1>7. u \o v = w
  BY <1>1, <1>5, <1>6, SeqEqual
<1> QED
  BY <1>7 DEF u, v, w

(* A write splits what Writen holds into what was taken and the rest.       *)
LEMMA RunParts ==
  ASSUME NEW c \in Clients, NEW a \in Nat, NEW n \in Nat, NEW m \in 1..n
  PROVE  /\ SubSeq(Run(c, a, n), 1, m) = Run(c, a, m)
         /\ SubSeq(Run(c, a, n), m + 1, n) = Run(c, a + m, n - m)
<1> DEFINE S == Clients \X Nat
           r == Run(c, a, n)
<1>0. m \in Nat /\ m <= n
  OBVIOUS
<1>1. r \in Seq(S) /\ \A k \in 1..n : r[k] = <<c, a + k>> /\ r[k] \in S
  <2>1. r \in Seq(S) /\ \A k \in 1..n : r[k] = <<c, a + k>>
    BY RunType
  <2>2. \A k \in 1..n : <<c, a + k>> \in S
    OBVIOUS
  <2> HIDE DEF r, S
  <2> QED
    BY <2>1, <2>2
<1>2. SubSeq(r, 1, m) = Run(c, a, m)
  <2>1. SubSeq(r, 1, m) \in Seq(S) /\ Len(SubSeq(r, 1, m)) = m
        /\ \A k \in 1..m : SubSeq(r, 1, m)[k] = r[k]
    <3> HIDE DEF r, S
    <3>1. \A k \in 1..m : r[k] \in S
      BY <1>1
    <3>2. /\ SubSeq(r, 1, m) \in Seq(S) /\ Len(SubSeq(r, 1, m)) = IF 1 <= m THEN m - 1 + 1 ELSE 0
          /\ \A k \in 1..(m - 1 + 1) : SubSeq(r, 1, m)[k] = r[1 + k - 1]
      BY <1>0, <3>1, SubSeqProperties
    <3> QED
      BY <3>2
  <2>2. Run(c, a, m) \in Seq(S) /\ Len(Run(c, a, m)) = m
        /\ \A k \in 1..m : Run(c, a, m)[k] = <<c, a + k>>
    BY <1>0, RunType
  <2> HIDE DEF r, S
  <2>3. ASSUME NEW k \in 1..m PROVE SubSeq(r, 1, m)[k] = Run(c, a, m)[k]
    <3>1. k \in 1..n
      OBVIOUS
    <3> QED
      BY <1>1, <2>1, <2>2, <3>1
  <2> QED
    BY <1>0, <2>1, <2>2, <2>3, SeqEqual
<1>3. SubSeq(r, m + 1, n) = Run(c, a + m, n - m)
  <2> DEFINE t == SubSeq(r, m + 1, n)
             q == Run(c, a + m, n - m)
  <2>1. t \in Seq(S) /\ Len(t) = n - m /\ \A k \in 1..(n - m) : t[k] = r[m + k]
    <3>1. \A k \in (m + 1)..n : r[k] \in S
      BY <1>1
    <3> HIDE DEF r, S
    <3>2. /\ t \in Seq(S) /\ Len(t) = IF m + 1 <= n THEN n - (m + 1) + 1 ELSE 0
          /\ \A k \in 1..(n - (m + 1) + 1) : t[k] = r[(m + 1) + k - 1]
      BY <3>1, SubSeqProperties
    <3> HIDE DEF t
    <3>3. n - (m + 1) + 1 = n - m /\ (m + 1 <= n \/ n - m = 0)
      OBVIOUS
    <3>4. \A k \in 1..(n - m) : (m + 1) + k - 1 = m + k
      OBVIOUS
    <3> QED
      BY <3>2, <3>3, <3>4
  <2>2. q \in Seq(S) /\ Len(q) = n - m /\ \A k \in 1..(n - m) : q[k] = <<c, (a + m) + k>>
    <3>1. a + m \in Nat /\ n - m \in Nat
      OBVIOUS
    <3> QED
      BY <3>1, RunType
  <2> HIDE DEF r, S, t, q
  <2>3. \A k \in 1..(n - m) : m + k \in 1..n /\ a + (m + k) = (a + m) + k
    OBVIOUS
  <2>4. \A k \in 1..(n - m) : t[k] = q[k]
    BY <1>1, <2>1, <2>2, <2>3
  <2>5. t = q
    BY <2>1, <2>2, <2>4, SeqEqual
  <2> QED
    BY <2>5 DEF t, q
<1> QED
  BY <1>2, <1>3

(* Without its k-th element a queue holds the others, in order.             *)
LEMMA QueueWithout ==
  ASSUME NEW s \in Seq(Clients), NEW k \in 1..Len(s), NEW t,
         t = SubSeq(s, 1, k - 1) \o SubSeq(s, k + 1, Len(s))
  PROVE  /\ t \in Seq(Clients) /\ Len(t) = Len(s) - 1
         /\ \A j \in 1..Len(t) : t[j] = s[IF j < k THEN j ELSE j + 1]
<1> DEFINE u == SubSeq(s, 1, k - 1)
           v == SubSeq(s, k + 1, Len(s))
           n == Len(s)
<1>1. n \in Nat /\ \A j \in 1..n : s[j] \in Clients
  BY ElementOfSeq, LenProperties
<1>2. u \in Seq(Clients) /\ Len(u) = k - 1 /\ \A j \in 1..(k - 1) : u[j] = s[j]
  <2>1. \A j \in 1..(k - 1) : s[j] \in Clients
    BY <1>1
  <2>2. /\ u \in Seq(Clients) /\ Len(u) = IF 1 <= k - 1 THEN (k - 1) - 1 + 1 ELSE 0
        /\ \A j \in 1..((k - 1) - 1 + 1) : u[j] = s[1 + j - 1]
    BY <2>1, SubSeqProperties
  <2> HIDE DEF u
  <2> QED
    BY <2>2
<1>3. v \in Seq(Clients) /\ Len(v) = n - k /\ \A j \in 1..(n - k) : v[j] = s[k + j]
  <2>1. \A j \in (k + 1)..n : s[j] \in Clients
    BY <1>1
  <2>2. /\ v \in Seq(Clients) /\ Len(v) = IF k + 1 <= n THEN n - (k + 1) + 1 ELSE 0
        /\ \A j \in 1..(n - (k + 1) + 1) : v[j] = s[(k + 1) + j - 1]
    BY <1>1, <2>1, SubSeqProperties
  <2> HIDE DEF v
  <2>3. n - (k + 1) + 1 = n - k /\ (k + 1 <= n \/ n - k = 0)
        /\ \A j \in 1..(n - k) : (k + 1) + j - 1 = k + j
    BY <1>1
  <2> QED
    BY <2>2, <2>3
<1> HIDE DEF u, v, n
<1>4. t = u \o v
  BY DEF u, v, n
<1>5. /\ t \in Seq(Clients) /\ Len(t) = (k - 1) + (n - k)
      /\ \A j \in 1..((k - 1) + (n - k)) : t[j] = IF j <= k - 1 THEN u[j] ELSE v[j - (k - 1)]
  <2>1. t \in Seq(Clients)
    BY <1>2, <1>3, <1>4, ConcatProperties
  <2>2. Len(t) = Len(u) + Len(v)
    BY <1>2, <1>3, <1>4, ConcatProperties
  <2>3. \A j \in 1..(Len(u) + Len(v)) : (u \o v)[j] = IF j <= Len(u) THEN u[j] ELSE v[j - Len(u)]
    BY <1>2, <1>3, ConcatProperties
  <2>4. \A j \in 1..(Len(u) + Len(v)) : t[j] = IF j <= Len(u) THEN u[j] ELSE v[j - Len(u)]
    BY <1>4, <2>3
  <2> QED
    BY <1>2, <1>3, <2>1, <2>2, <2>4
<1>6. ASSUME NEW j \in 1..(n - 1) PROVE t[j] = s[IF j < k THEN j ELSE j + 1]
  <2>1. k \in 1..n /\ (k - 1) + (n - k) = n - 1
    BY <1>1 DEF n
  <2>2. CASE j < k
    <3>1. j \in 1..(k - 1) /\ j \in 1..((k - 1) + (n - k)) /\ j <= k - 1
      BY <1>1, <2>1, <2>2
    <3>2. t[j] = u[j]
      BY <1>5, <3>1
    <3> QED
      BY <1>2, <2>2, <3>1, <3>2
  <2>3. CASE ~ (j < k)
    <3>1. j - (k - 1) \in 1..(n - k) /\ k + (j - (k - 1)) = j + 1 /\ ~ (j <= k - 1)
      BY <1>1, <2>1, <2>3
    <3>2. t[j] = v[j - (k - 1)]
      <4>1. j \in 1..((k - 1) + (n - k))
        BY <1>1, <2>1
      <4> QED
        BY <1>5, <3>1, <4>1
    <3> QED
      BY <1>3, <2>3, <3>1, <3>2
  <2> QED
    BY <2>2, <2>3
<1>7. Len(t) = n - 1
  <2>1. n \in Nat /\ k \in Int
    BY <1>1
  <2>2. (k - 1) + (n - k) = n - 1
    BY <2>1
  <2> QED
    BY <1>5, <2>2
<1> QED
  BY <1>5, <1>6, <1>7 DEF n

-----------------------------------------------------------------------------
(* What the clients do to the sockets, and what each system call does.      *)

(* The marks of files that are no connection are no clients.                *)
LEMMA StringsApart ==
  ASSUME NEW x \in Clients
  PROVE  x # "free" /\ x # "std" /\ x # "listen"
BY ClientsAssumption

(* The sockets after a step of a client or of the system: no descriptor,    *)
(* nothing read or written by the server has changed, and a broken, open or *)
(* aborted connection stays what it is.                                     *)
ClientFrame ==
  /\ files' = files /\ readFrom' = readFrom /\ echoed' = echoed
  /\ short => short'
  /\ \A d \in Clients : /\ broken[d] => broken'[d]
                        /\ conn[d] \in {"open", "aborted"} => conn'[d] = conn[d]
  /\ queue # <<>> => queue' # <<>> \/ \E d \in Clients : conn'[d] = "aborted"

(* A connection request joins the end of the queue.                         *)
LEMMA ConnectKeeps ==
  ASSUME SockType, SockInv, NEW c \in Clients, ClientConnect(c)
  PROVE  SockType' /\ SockInv' /\ ClientFrame
<1> USE DEF ClientConnect
<1>1. SockType'
  <2>1. queue' \in Seq(Clients)
    BY AppendProperties DEF SockType
  <2> QED
    BY <2>1 DEF SockType
<1>2. FilesInv'
  BY DEF SockType, SockInv, FilesInv
<1>3. /\ Len(queue') = Len(queue) + 1 /\ Len(queue) \in Nat
      /\ \A k \in 1..Len(queue) : queue'[k] = queue[k] /\ queue[k] \in Clients
      /\ queue'[Len(queue) + 1] = c
  BY AppendProperties, LenProperties, ElementOfSeq DEF SockType
<1>4. \A k \in 1..Len(queue) : queue[k] # c /\ conn'[queue[k]] \in {"queued", "aborted"}
  BY <1>3 DEF SockType, SockInv, QueueInv
<1>5. QueueInv'
  <2>1. conn'[c] = "queued"
    BY DEF SockType
  <2>2. \A k \in 1..Len(queue') : k \in 1..Len(queue) \/ k = Len(queue) + 1
    BY <1>3
  <2>3. \A k \in 1..Len(queue') : conn'[queue'[k]] \in {"queued", "aborted"}
    BY <1>3, <1>4, <2>1, <2>2
  <2>4. ASSUME NEW j \in 1..Len(queue'), NEW k \in 1..Len(queue'), queue'[j] = queue'[k]
        PROVE  j = k
    BY <1>3, <1>4, <2>2, <2>4 DEF SockInv, QueueInv
  <2> QED
    BY <2>3, <2>4 DEF QueueInv
<1>6. CountInv'
  BY DEF SockInv, CountInv
<1>7. ClientFrame
  <2>1. queue' # <<>>
    BY <1>3, EmptySeq
  <2>2. \A d \in Clients : conn[d] \in {"open", "aborted"} => conn'[d] = conn[d]
    BY DEF SockType
  <2> QED
    BY <2>1, <2>2 DEF ClientFrame
<1> QED
  BY <1>1, <1>2, <1>5, <1>6 , <1>7 DEF SockInv

(* A client sends a byte.                                                   *)
LEMMA SendKeeps ==
  ASSUME SockType, SockInv, NEW c \in Clients, ClientSend(c)
  PROVE  SockType' /\ SockInv' /\ ClientFrame
<1> USE DEF ClientSend
<1>1. sentBy[c] \in Nat /\ sentBy[c] + 1 \in 0..MaxSend
  BY BoundsAssumption DEF SockType
<1>2. SockType'
  BY <1>1 DEF SockType
<1>3. CountInv'
  <2>1. ASSUME NEW d \in Clients PROVE readFrom'[d] <= sentBy'[d]
    BY <1>1, BoundsAssumption DEF SockType, SockInv, CountInv
  <2> QED
    BY <2>1 DEF SockInv, CountInv
<1>4. FilesInv' /\ QueueInv' /\ ClientFrame
  BY DEF SockInv, FilesInv, QueueInv, ClientFrame
<1> QED
  BY <1>2, <1>3, <1>4 DEF SockInv

(* A client reads a byte of its echo.                                       *)
LEMMA ReadKeeps ==
  ASSUME SockType, SockInv, NEW c \in Clients, ClientRead(c)
  PROVE  SockType' /\ SockInv' /\ ClientFrame
<1> USE DEF ClientRead
<1>1. consumed[c] \in Nat /\ Len(echoed[c]) \in Nat
  BY LenProperties DEF SockType
<1>2. SockType'
  BY <1>1 DEF SockType
<1>3. CountInv'
  <2>1. ASSUME NEW d \in Clients PROVE consumed'[d] <= Len(echoed'[d])
    BY <1>1 DEF SockType, SockInv, CountInv
  <2> QED
    BY <2>1 DEF SockInv, CountInv
<1>4. FilesInv' /\ QueueInv' /\ ClientFrame
  BY DEF SockInv, FilesInv, QueueInv, ClientFrame
<1> QED
  BY <1>2, <1>3, <1>4 DEF SockInv

(* A client half-closes or closes, or its connection breaks.                *)
LEMMA FinAndRstKeep ==
  ASSUME SockType, SockInv, NEW c \in Clients,
         ClientFin(c) \/ LateRst(c) \/ ConnectionLost(c)
  PROVE  SockType' /\ SockInv' /\ ClientFrame
<1>1. SockType'
  BY DEF SockType, ClientFin, LateRst, ConnectionLost
<1>2. FilesInv' /\ QueueInv' /\ CountInv'
  BY DEF SockInv, FilesInv, QueueInv, CountInv, ClientFin, LateRst, ConnectionLost
<1>3. ClientFrame
  BY DEF SockType, ClientFrame, ClientFin, LateRst, ConnectionLost
<1> QED
  BY <1>1, <1>2, <1>3 DEF SockInv

(* A client resets its connection, which may take it from the queue, or     *)
(* leave it there to be reported.                                           *)
LEMMA AbortKeeps ==
  ASSUME SockType, SockInv, NEW c \in Clients, ClientAbort(c)
  PROVE  SockType' /\ SockInv' /\ ClientFrame
<1>1. /\ files' = files /\ sentBy' = sentBy /\ readFrom' = readFrom
      /\ echoed' = echoed /\ consumed' = consumed /\ lost' = lost /\ short' = short
      /\ peer' = [peer EXCEPT ![c] = "closed"] /\ broken' = [broken EXCEPT ![c] = TRUE]
  BY DEF ClientAbort
<1>2. CountInv'
  BY <1>1 DEF SockInv, CountInv
<1>3. \A d \in Clients : broken[d] => broken'[d]
  BY <1>1 DEF SockType
<1>0. \/ /\ conn[c] = "queued" /\ conn' = [conn EXCEPT ![c] = "aborted"]
         /\ \E k \in DOMAIN queue :
              queue[k] = c /\ queue' = SubSeq(queue, 1, k - 1) \o SubSeq(queue, k + 1, Len(queue))
      \/ conn[c] = "queued" /\ conn' = [conn EXCEPT ![c] = "aborted"] /\ queue' = queue
      \/ UNCHANGED <<queue, conn>>
  BY DEF ClientAbort
<1>4. CASE /\ conn[c] = "queued" /\ conn' = [conn EXCEPT ![c] = "aborted"]
           /\ \E k \in DOMAIN queue :
                queue[k] = c /\ queue' = SubSeq(queue, 1, k - 1) \o SubSeq(queue, k + 1, Len(queue))
  <2>1. conn' = [conn EXCEPT ![c] = "aborted"]
    BY <1>4
  <2>2. PICK k \in 1..Len(queue) :
          /\ queue[k] = c
          /\ queue' = SubSeq(queue, 1, k - 1) \o SubSeq(queue, k + 1, Len(queue))
    <3>1. DOMAIN queue = 1..Len(queue)
      BY LenProperties DEF SockType
    <3>2. \E k \in DOMAIN queue :
            queue[k] = c /\ queue' = SubSeq(queue, 1, k - 1) \o SubSeq(queue, k + 1, Len(queue))
      BY <1>4
    <3> HIDE DEF SockType
    <3> QED
      BY ONLY <3>1, <3>2, Zenon
  <2>3. /\ queue' \in Seq(Clients) /\ Len(queue') = Len(queue) - 1
        /\ \A j \in 1..Len(queue') : queue'[j] = queue[IF j < k THEN j ELSE j + 1]
    <3>1. queue \in Seq(Clients) /\ k \in 1..Len(queue)
          /\ queue' = SubSeq(queue, 1, k - 1) \o SubSeq(queue, k + 1, Len(queue))
      BY <2>2 DEF SockType
    <3> QED
      BY ONLY <3>1, QueueWithout, Zenon
  <2>4. SockType'
    BY <1>1, <2>1, <2>3 DEF SockType
  <2>5. FilesInv'
    BY <1>1, <1>4, <2>1 DEF SockType, SockInv, FilesInv
  <2>6. QueueInv'
    <3>1. Len(queue) \in Nat
      BY LenProperties DEF SockType
    <3> DEFINE f(j) == IF j < k THEN j ELSE j + 1
    <3>2. \A j \in 1..Len(queue') : f(j) \in 1..Len(queue) /\ f(j) # k /\ queue'[j] = queue[f(j)]
      BY <2>3, <3>1
    <3>3. \A j, l \in 1..Len(queue') : f(j) = f(l) => j = l
      BY <2>3, <3>1
    <3> HIDE DEF f
    <3>4. \A j \in 1..Len(queue) :
            queue[j] \in Clients /\ conn[queue[j]] \in {"queued", "aborted"}
      BY ElementOfSeq DEF SockType, SockInv, QueueInv
    <3>5. \A j, l \in 1..Len(queue) : queue[j] = queue[l] => j = l
      BY DEF SockInv, QueueInv
    <3>6. ASSUME NEW j \in 1..Len(queue') PROVE conn'[queue'[j]] \in {"queued", "aborted"}
      <4>1. queue'[j] \in Clients /\ conn[queue'[j]] \in {"queued", "aborted"}
        BY <3>2, <3>4
      <4>2. queue'[j] # c
        BY <2>2, <3>2, <3>5
      <4> QED
        BY <2>1, <4>1, <4>2 DEF SockType
    <3>7. ASSUME NEW j \in 1..Len(queue'), NEW l \in 1..Len(queue'), queue'[j] = queue'[l]
          PROVE  j = l
      BY <3>2, <3>3, <3>5, <3>7
    <3> QED
      BY <3>6, <3>7 DEF QueueInv
  <2>7. conn'[c] = "aborted"
        /\ \A d \in Clients : conn[d] \in {"open", "aborted"} => conn'[d] = conn[d]
    BY <1>4, <2>1 DEF SockType
  <2> QED
    BY <1>1, <1>2, <1>3, <2>4, <2>5, <2>6, <2>7 DEF SockInv, ClientFrame
<1>5. CASE UNCHANGED <<queue, conn>>
  <2>1. queue' = queue /\ conn' = conn
    BY <1>5
  <2>2. SockType'
    BY <1>1, <2>1 DEF SockType
  <2>3. FilesInv' /\ QueueInv'
    BY <1>1, <2>1 DEF SockInv, FilesInv, QueueInv
  <2> QED
    BY <1>1, <1>2, <1>3, <2>1, <2>2, <2>3 DEF SockInv, ClientFrame
<1>6. CASE conn[c] = "queued" /\ conn' = [conn EXCEPT ![c] = "aborted"] /\ queue' = queue
  <2>1. SockType'
    BY <1>1, <1>6 DEF SockType
  <2>2. FilesInv'
    BY <1>1, <1>6 DEF SockType, SockInv, FilesInv
  <2>3. QueueInv'
    <3>1. \A k \in 1..Len(queue) : queue[k] \in Clients
      BY ElementOfSeq DEF SockType
    <3> QED
      BY <1>6, <3>1 DEF SockType, SockInv, QueueInv
  <2>4. \A d \in Clients : conn[d] \in {"open", "aborted"} => conn'[d] = conn[d]
    BY <1>6 DEF SockType
  <2> QED
    BY <1>1, <1>2, <1>3, <1>6, <2>1, <2>2, <2>3, <2>4 DEF SockInv, ClientFrame
<1> QED
  BY <1>0, <1>4, <1>5, <1>6

(* What any step of a client leaves true of the sockets.                    *)
LEMMA ClientStepKeeps ==
  ASSUME SockType, SockInv, NEW c \in Clients, ClientStep(c)
  PROVE  SockType' /\ SockInv' /\ ClientFrame
BY ConnectKeeps, SendKeeps, ReadKeeps, FinAndRstKeep, AbortKeeps DEF ClientStep

(* The system runs short.                                                   *)
LEMMA ShortageKeeps ==
  ASSUME SockType, SockInv, Shortage
  PROVE  SockType' /\ SockInv' /\ ClientFrame
<1>1. SockType' /\ ClientFrame
  BY DEF Shortage, SockType, ClientFrame
<1>2. SockInv'
  BY DEF Shortage, SockInv, FilesInv, QueueInv, CountInv
<1> QED
  BY <1>1, <1>2

(* What is left of a queue whose head is taken is still in order.           *)
LEMMA TailQueue ==
  ASSUME SockType, SockInv, queue # <<>>
  PROVE  /\ Tail(queue) \in Seq(Clients) /\ Head(queue) \in Clients
         /\ \A k \in 1..Len(Tail(queue)) :
              /\ Tail(queue)[k] \in Clients /\ Tail(queue)[k] # Head(queue)
              /\ conn[Tail(queue)[k]] \in {"queued", "aborted"}
         /\ \A j, k \in 1..Len(Tail(queue)) : Tail(queue)[j] = Tail(queue)[k] => j = k
         /\ conn[Head(queue)] \in {"queued", "aborted"}
<1>1. /\ Len(queue) \in Nat \ {0} /\ Head(queue) = queue[1] /\ Head(queue) \in Clients
      /\ Tail(queue) \in Seq(Clients) /\ Len(Tail(queue)) = Len(queue) - 1
      /\ \A k \in 1..Len(Tail(queue)) : Tail(queue)[k] = queue[k + 1]
  BY HeadTailProperties, LenProperties, EmptySeq DEF SockType
<1>2. \A k \in 1..Len(Tail(queue)) : k + 1 \in 1..Len(queue) /\ k + 1 # 1
  BY <1>1
<1>3. \A k \in 1..Len(queue) : queue[k] \in Clients /\ conn[queue[k]] \in {"queued", "aborted"}
  BY ElementOfSeq DEF SockType, SockInv, QueueInv
<1>4. \A j, k \in 1..Len(queue) : queue[j] = queue[k] => j = k
  BY DEF SockInv, QueueInv
<1>5. 1 \in 1..Len(queue)
  BY <1>1
<1>6. ASSUME NEW j \in 1..Len(Tail(queue)), NEW k \in 1..Len(Tail(queue)),
             Tail(queue)[j] = Tail(queue)[k]
      PROVE  j = k
  <2>1. j + 1 = k + 1
    BY <1>1, <1>2, <1>4, <1>6
  <2> QED
    BY <1>1, <2>1
<1>7. ASSUME NEW k \in 1..Len(Tail(queue))
      PROVE  /\ Tail(queue)[k] \in Clients /\ Tail(queue)[k] # Head(queue)
             /\ conn[Tail(queue)[k]] \in {"queued", "aborted"}
  BY <1>1, <1>2, <1>3, <1>4, <1>5
<1> QED
  BY <1>1, <1>3, <1>5, <1>6, <1>7

(* accept() drops a connection that has gone and returns an error.          *)
LEMMA SysAcceptAbortedKeeps ==
  ASSUME SockType, SockInv, SysAcceptAborted
  PROVE  /\ SockType' /\ SockInv'
         /\ \E c \in Clients : conn[c] = "aborted"
         /\ UNCHANGED <<files, conn, broken, short, readFrom, echoed>>
<1>1. /\ queue # <<>> /\ queue' = Tail(queue) /\ conn[Head(queue)] = "aborted"
      /\ UNCHANGED <<files, conn, peer, broken, lost, short, sentBy, readFrom, echoed, consumed>>
  BY DEF SysAcceptAborted
<1>2. SockType'
  BY <1>1, TailQueue DEF SockType
<1>3. FilesInv' /\ CountInv'
  BY <1>1 DEF SockInv, FilesInv, CountInv
<1>4. QueueInv'
  BY <1>1, TailQueue DEF QueueInv
<1> QED
  BY <1>1, <1>2, <1>3, <1>4, TailQueue DEF SockInv

(* accept() moves the head of the queue to the lowest free descriptor.      *)
LEMMA SysAcceptKeeps ==
  ASSUME SockType, SockInv, NEW fd \in FDs, SysAccept(fd)
  PROVE  /\ SockType' /\ SockInv'
         /\ fd > listenfd /\ files[fd] = "free"
         /\ Head(queue) \in Clients /\ conn[Head(queue)] = "queued"
<1>1. fd > listenfd /\ files[fd] = "free"
  BY DEF SysAccept, Lowest, FreeFds, SockInv, FilesInv, FDs, listenfd
<1>2. /\ queue # <<>> /\ files' = [files EXCEPT ![fd] = Head(queue)]
      /\ conn' = [conn EXCEPT ![Head(queue)] = "open"] /\ queue' = Tail(queue)
      /\ UNCHANGED <<peer, broken, lost, short, sentBy, readFrom, echoed, consumed>>
  BY DEF SysAccept
<1>3. Head(queue) \in Clients /\ Tail(queue) \in Seq(Clients)
  BY <1>2, TailQueue
<1>4. conn[Head(queue)] = "queued"
  BY <1>2, TailQueue DEF SysAccept
<1>5. SockType'
  BY <1>2, <1>3 DEF SockType
<1>6. FilesInv'
  <2>1. \A fe \in FDs : files[fe] \in Clients => files[fe] # Head(queue)
    BY <1>4 DEF SockInv, FilesInv
  <2>2. \A fe \in FDs : files'[fe] = IF fe = fd THEN Head(queue) ELSE files[fe]
    BY <1>2 DEF SockType
  <2>3. \A fe \in FDs : files'[fe] \in Clients => conn'[files'[fe]] = "open"
    BY <1>2, <1>3, <2>1, <2>2 DEF SockType, SockInv, FilesInv
  <2>4. \A fe, ff \in FDs : files'[fe] \in Clients /\ files'[fe] = files'[ff] => fe = ff
    BY <1>3, <2>1, <2>2 DEF SockInv, FilesInv
  <2>5. \A fe \in FDs : /\ fe < listenfd => files'[fe] = "std"
                        /\ fe = listenfd => files'[fe] = "listen"
                        /\ fe > listenfd => files'[fe] = "free" \/ files'[fe] \in Clients
    BY <1>1, <1>3, <2>2 DEF SockInv, FilesInv, FDs, listenfd
  <2> QED
    BY <2>3, <2>4, <2>5 DEF FilesInv
<1>7. QueueInv'
  <2>1. ASSUME NEW k \in 1..Len(Tail(queue))
        PROVE  conn'[Tail(queue)[k]] \in {"queued", "aborted"}
    BY <1>2, TailQueue DEF SockType
  <2> QED
    BY <1>2, <2>1, TailQueue DEF QueueInv
<1>8. CountInv'
  BY <1>2 DEF SockInv, CountInv
<1> QED
  BY <1>1, <1>3, <1>4, <1>5, <1>6, <1>7, <1>8 DEF SockInv

(* read() takes what it returns from one connection only.                   *)
LEMMA SysReadKeeps ==
  ASSUME SockType, SockInv, NEW c \in Clients, NEW n, SysRead(c, n)
  PROVE  /\ SockType' /\ SockInv'
         /\ n \in Nat \ {0} /\ readFrom[c] \in Nat /\ readFrom[c] + n <= MaxSend
         /\ readFrom' = [readFrom EXCEPT ![c] = @ + n]
         /\ UNCHANGED <<files, queue, conn, peer, broken, lost, short, sentBy, echoed, consumed>>
<1>1. sentBy[c] \in 0..MaxSend /\ readFrom[c] \in 0..MaxSend
  BY DEF SockType
<1>2. n \in Nat \ {0} /\ readFrom[c] + n <= sentBy[c] /\ readFrom[c] + n \in 0..MaxSend
  BY <1>1, BoundsAssumption DEF SysRead
<1>3. /\ readFrom' = [readFrom EXCEPT ![c] = @ + n]
      /\ UNCHANGED <<files, queue, conn, peer, broken, lost, short, sentBy, echoed, consumed>>
  BY DEF SysRead
<1>4. SockType'
  BY <1>2, <1>3 DEF SockType
<1>5. CountInv'
  <2>1. ASSUME NEW d \in Clients PROVE readFrom'[d] <= sentBy[d]
    BY <1>2, <1>3 DEF SockType, SockInv, CountInv
  <2> QED
    BY <1>3, <2>1 DEF SockInv, CountInv
<1>6. FilesInv' /\ QueueInv'
  BY <1>3 DEF SockInv, FilesInv, QueueInv
<1> QED
  BY <1>1, <1>2, <1>3, <1>4, <1>5, <1>6, BoundsAssumption DEF SockInv

(* write() puts its bytes behind those already sent to one connection.      *)
LEMMA SysWriteKeeps ==
  ASSUME SockType, SockInv, NEW c \in Clients, NEW bytes \in Seq(Bytes), SysWrite(c, bytes)
  PROVE  /\ SockType' /\ SockInv'
         /\ echoed' = [echoed EXCEPT ![c] = @ \o bytes]
         /\ UNCHANGED <<files, queue, conn, peer, broken, lost, short, sentBy, readFrom, consumed>>
<1>1. /\ echoed' = [echoed EXCEPT ![c] = @ \o bytes]
      /\ UNCHANGED <<files, queue, conn, peer, broken, lost, short, sentBy, readFrom, consumed>>
  BY DEF SysWrite
<1>2. echoed[c] \in Seq(Bytes)
  BY DEF SockType
<1>3. echoed[c] \o bytes \in Seq(Bytes) /\ Len(echoed[c] \o bytes) = Len(echoed[c]) + Len(bytes)
  BY <1>2, ConcatProperties
<1>4. SockType'
  BY <1>1, <1>3 DEF SockType
<1>5. CountInv'
  <2>1. Len(bytes) \in Nat /\ Len(echoed[c]) \in Nat /\ consumed[c] \in Nat
    BY <1>2, LenProperties DEF SockType
  <2>2. consumed[c] <= Len(echoed[c] \o bytes)
    BY <1>3, <2>1 DEF SockInv, CountInv
  <2>3. ASSUME NEW d \in Clients PROVE consumed[d] <= Len(echoed'[d])
    BY <1>1, <2>2 DEF SockType, SockInv, CountInv
  <2> QED
    BY <1>1, <2>3 DEF SockInv, CountInv
<1>6. FilesInv' /\ QueueInv'
  BY <1>1 DEF SockInv, FilesInv, QueueInv
<1> QED
  BY <1>1, <1>4, <1>5, <1>6 DEF SockInv

(* close() frees one descriptor and ends its connection.                    *)
LEMMA SysCloseKeeps ==
  ASSUME SockType, SockInv, NEW fd \in FDs, files[fd] \in Clients, SysClose(fd)
  PROVE  SockType' /\ SockInv'
<1>1. /\ conn' = [conn EXCEPT ![files[fd]] = "closed"] /\ files' = [files EXCEPT ![fd] = "free"]
      /\ UNCHANGED <<queue, peer, broken, lost, short, sentBy, readFrom, echoed, consumed>>
  BY DEF SysClose
<1>2. SockType'
  BY <1>1 DEF SockType
<1>3. FilesInv'
  <2>1. \A fe \in FDs : files'[fe] = IF fe = fd THEN "free" ELSE files[fe]
    BY <1>1 DEF SockType
  <2>2. fd > listenfd
    BY ClientsAssumption DEF SockInv, FilesInv, FDs, listenfd
  <2>3. "free" \notin Clients
    BY ClientsAssumption
  <2>4. \A fe \in FDs : fe # fd /\ files[fe] \in Clients => files[fe] # files[fd]
    BY DEF SockInv, FilesInv
  <2>5. ASSUME NEW fe \in FDs, files'[fe] \in Clients PROVE conn'[files'[fe]] = "open"
    BY <1>1, <2>1, <2>3, <2>4, <2>5 DEF SockType, SockInv, FilesInv
  <2>6. \A fe, ff \in FDs : files'[fe] \in Clients /\ files'[fe] = files'[ff] => fe = ff
    BY <2>1, <2>3 DEF SockInv, FilesInv
  <2>7. \A fe \in FDs : /\ fe < listenfd => files'[fe] = "std"
                        /\ fe = listenfd => files'[fe] = "listen"
                        /\ fe > listenfd => files'[fe] = "free" \/ files'[fe] \in Clients
    BY <2>1, <2>2 DEF SockInv, FilesInv, FDs, listenfd
  <2> QED
    BY <2>5, <2>6, <2>7 DEF FilesInv
<1>4. QueueInv'
  <2>1. \A k \in 1..Len(queue) :
          queue[k] \in Clients /\ conn[queue[k]] \in {"queued", "aborted"}
    BY ElementOfSeq DEF SockType, SockInv, QueueInv
  <2>2. conn[files[fd]] = "open"
    BY DEF SockInv, FilesInv
  <2>3. \A k \in 1..Len(queue) : conn'[queue[k]] \in {"queued", "aborted"}
    BY <1>1, <2>1, <2>2 DEF SockType
  <2> QED
    BY <1>1, <2>3 DEF SockInv, QueueInv
<1>5. CountInv'
  BY <1>1 DEF SockInv, CountInv
<1> QED
  BY <1>2, <1>3, <1>4, <1>5 DEF SockInv

-----------------------------------------------------------------------------
(* client[], allset, maxi and maxfd.                                        *)

(* An entry in use holds the descriptor of an open connection, above        *)
(* listenfd.                                                                *)
LEMMA UsedAboveListen ==
  ASSUME SockType, SockInv, Table, NEW s \in Used
  PROVE  /\ s \in Slots /\ client[s] \in FDs /\ client[s] > listenfd
         /\ files[client[s]] \in Clients
<1>1. s \in Slots /\ client[s] \in FDs /\ files[client[s]] \in Clients
  BY DEF Used, Table
<1>2. files[client[s]] # "std" /\ files[client[s]] # "listen"
  BY <1>1, ClientsAssumption
<1>3. client[s] \in Int
  BY <1>1, FilesAssumption DEF FDs
<1> QED
  BY <1>1, <1>2, <1>3 DEF SockInv, FilesInv, listenfd

(* With every entry in use, FD_SETSIZE connections would have descriptors   *)
(* of their own among the NOFILE - 4 above the listening one.               *)
LEMMA SlotLeft ==
  ASSUME SockType, SockInv, Table
  PROVE  FreeSlots # {}
<1>1. SUFFICES ASSUME FreeSlots = {} PROVE FALSE
  OBVIOUS
<1> DEFINE T == 4..(NOFILE - 1)
<1>2. \A s \in Slots : s \in Used
  <2>1. \A s \in Slots : client[s] \in {-1} \cup FDs
    BY DEF Table
  <2>2. \A s \in Slots : client[s] \in Int
    BY <2>1, FilesAssumption DEF FDs
  <2> QED
    BY <1>1, <2>2 DEF FreeSlots, Used
<1>3. \A s \in Slots : client[s] \in T
  <2>1. \A s \in Slots : client[s] \in FDs /\ client[s] > listenfd
    BY <1>2, UsedAboveListen
  <2> QED
    BY <2>1, FilesAssumption DEF FDs, listenfd
<1>4. client \in [Slots -> T]
  BY <1>3 DEF Table
<1>5. IsFiniteSet(Slots) /\ Cardinality(Slots) = FD_SETSIZE
  BY FS_Interval, SetSizeAssumption, FilesAssumption DEF Slots
<1>6. IsFiniteSet(T) /\ Cardinality(T) = NOFILE - 4
  BY FS_Interval, FilesAssumption
<1>7. Cardinality(T) < Cardinality(Slots)
  BY <1>5, <1>6, SetSizeAssumption, FilesAssumption
<1> HIDE DEF T
<1>8. \E s, u \in Slots : s # u /\ client[s] = client[u]
  BY <1>4, <1>5, <1>6, <1>7, FS_PigeonHole
<1> QED
  BY <1>2, <1>8 DEF Table

(* The table depends on nothing but itself and the open descriptors.        *)
LEMMA TableStays ==
  ASSUME Table, UNCHANGED <<tableVars, files>>
  PROVE  Table'
BY DEF Table, Used, tableVars, Slots, FDs, listenfd

(* maxi may rise to any entry without disturbing the rest.                  *)
LEMMA TableHigherMaxi ==
  ASSUME Table, UNCHANGED <<client, maxfd, files>>, NEW s \in Slots,
         maxi' = IF s > maxi THEN s ELSE maxi
  PROVE  Table'
<1>1. maxi' \in {-1} \cup Slots
  BY DEF Table
<1>2. \A t \in Used : t <= maxi'
  BY DEF Table, Used, Slots
<1>3. Used' = Used
  BY DEF Used, Slots
<1> QED
  BY <1>1, <1>2, <1>3 DEF Table

(* A new connection in the lowest free entry keeps the table in order.      *)
LEMMA TableAccept ==
  ASSUME SockType, SockInv, Table, NEW fd \in FDs, NEW s \in Slots,
         SysAccept(fd), Lowest(FreeSlots, s),
         client' = [client EXCEPT ![s] = fd],
         maxfd' = IF fd > maxfd THEN fd ELSE maxfd,
         maxi' = IF s > maxi THEN s ELSE maxi
  PROVE  /\ Table' /\ fd \notin Held /\ s \notin Used
         /\ Used' = Used \cup {s}
         /\ \A t \in Used : client'[t] = client[t]
         /\ client'[s] = fd
<1>1. s \notin Used
  BY DEF Lowest, FreeSlots, Used, Table, Slots, FDs
<1>2. /\ fd > listenfd /\ files[fd] = "free" /\ Head(queue) \in Clients
      /\ files' = [files EXCEPT ![fd] = Head(queue)]
  BY SysAcceptKeeps DEF SysAccept
<1>3. \A t \in Used : client[t] \in FDs /\ client[t] # fd
  BY <1>2, UsedAboveListen, ClientsAssumption
<1>4. fd \notin Held
  BY <1>2, <1>3 DEF Held, listenfd, FDs
<1>5. \A t \in Slots : client'[t] = IF t = s THEN fd ELSE client[t]
  BY DEF Table
<1>6. Used' = Used \cup {s}
  BY <1>5 DEF Used, Slots, FDs
<1>7. client' \in [Slots -> {-1} \cup FDs] /\ maxi' \in {-1} \cup Slots /\ maxfd' \in FDs
      /\ listenfd <= maxfd'
  BY DEF Table, FDs, listenfd
<1>8. \A t \in Used : client'[t] = client[t] /\ client[t] <= maxfd'
                      /\ t <= maxi' /\ files'[client[t]] \in Clients
  <2>1. ASSUME NEW t \in Used PROVE client'[t] = client[t]
    BY <1>1, <1>5 DEF Used
  <2>2. ASSUME NEW t \in Used PROVE client[t] <= maxfd'
    BY <1>3 DEF Table, FDs
  <2>3. ASSUME NEW t \in Used PROVE t <= maxi'
    BY DEF Table, Slots, Used
  <2>4. ASSUME NEW t \in Used PROVE files'[client[t]] \in Clients
    BY <1>2, <1>3 DEF Table, SockType
  <2> QED
    BY <2>1, <2>2, <2>3, <2>4
<1>9. client'[s] = fd /\ fd <= maxfd' /\ s <= maxi' /\ files'[fd] \in Clients
  <2>1. client'[s] = fd /\ files'[fd] \in Clients
    BY <1>2, <1>5 DEF SockType
  <2>2. fd <= maxfd' /\ s <= maxi'
    BY DEF Table, FDs, Slots
  <2> QED
    BY <2>1, <2>2
<1>10. \A t, u \in Used' : client'[t] = client'[u] => t = u
  BY <1>3, <1>6, <1>8, <1>9 DEF Table
<1>11. \A fe \in FDs : files'[fe] \in Clients => \E t \in Used' : client'[t] = fe
  <2>1. ASSUME NEW fe \in FDs, files'[fe] \in Clients, fe # fd
        PROVE  \E t \in Used' : client'[t] = fe
    <3>1. files[fe] \in Clients
      BY <1>2, <2>1 DEF SockType
    <3> QED
      BY <1>6, <1>8, <3>1 DEF Table
  <2> QED
    BY <1>6, <1>9, <2>1
<1>13. \A t \in Used' : client'[t] <= maxfd' /\ t <= maxi' /\ files'[client'[t]] \in Clients
  BY <1>6, <1>8, <1>9
<1>14. Table'
  BY <1>7, <1>10, <1>11, <1>13 DEF Table, Slots, FDs, listenfd
<1> QED
  BY <1>1, <1>4, <1>6, <1>8, <1>9, <1>14

(* Closing a descriptor and freeing its entry keeps the table in order.     *)
LEMMA TableClose ==
  ASSUME SockType, SockInv, Table, NEW s \in Used,
         SysClose(client[s]),
         client' = [client EXCEPT ![s] = -1],
         UNCHANGED <<maxi, maxfd>>
  PROVE  /\ Table' /\ Used' = Used \ {s}
         /\ \A t \in Used' : client'[t] = client[t]
<1>1. s \in Slots /\ client[s] \in FDs /\ client[s] > listenfd
  BY UsedAboveListen
<1>2. files' = [files EXCEPT ![client[s]] = "free"]
  BY DEF SysClose
<1>3. \A t \in Slots : client'[t] = IF t = s THEN -1 ELSE client[t]
  BY DEF Table
<1>4. Used' = Used \ {s} /\ \A t \in Used' : client'[t] = client[t]
  BY <1>3 DEF Used, Slots
<1>5. client' \in [Slots -> {-1} \cup FDs]
  BY DEF Table
<1>6. \A t \in Used' : client[t] # client[s]
  BY <1>4 DEF Table
<1>7. \A fe \in FDs : files'[fe] = IF fe = client[s] THEN "free" ELSE files[fe]
  BY <1>2 DEF SockType
<1>8. \A t \in Used' : client'[t] <= maxfd' /\ t <= maxi' /\ files'[client'[t]] \in Clients
  <2>1. ASSUME NEW t \in Used' PROVE t \in Used /\ client'[t] = client[t] /\ client[t] \in FDs
    BY <1>4, UsedAboveListen
  <2> QED
    BY <1>6, <1>7, <2>1 DEF Table
<1>9. \A t, u \in Used' : client'[t] = client'[u] => t = u
  BY <1>4 DEF Table
<1>10. \A fe \in FDs : files'[fe] \in Clients => \E t \in Used' : client'[t] = fe
  <2>1. ASSUME NEW fe \in FDs, files'[fe] \in Clients
        PROVE  \E t \in Used' : client'[t] = fe
    <3>1. fe # client[s] /\ files[fe] \in Clients
      BY <1>7, <2>1, ClientsAssumption
    <3> QED
      BY <1>4, <3>1 DEF Table
  <2> QED
    BY <2>1
<1>12. Table'
  BY <1>5, <1>8, <1>9, <1>10 DEF Table, Slots, FDs, listenfd
<1> QED
  BY <1>4, <1>12

-----------------------------------------------------------------------------
(* What select is asked about.                                              *)

(* What excuses a stray bit stays true.                                     *)
LEMMA StrayStays ==
  ASSUME short => short', \A c \in Clients : conn[c] = "aborted" => conn'[c] = "aborted",
         NEW fd, StrayBitSet(fd)
  PROVE  StrayBitSet(fd)'
BY DEF StrayBitSet

(* A step that leaves the entries and allset alone.                         *)
LEMMA AsksStays ==
  ASSUME Asks, UNCHANGED <<client, allset>>,
         short => short', \A c \in Clients : conn[c] = "aborted" => conn'[c] = "aborted"
  PROVE  Asks'
<1>1. Held' = Held
  BY DEF Held, Used, Slots, listenfd
<1> QED
  BY <1>1, StrayStays DEF Asks

(* A descriptor accepted is asked about.                                    *)
LEMMA AsksAccept ==
  ASSUME Asks, SockType, SockInv, NEW fd \in FDs, NEW s, s \notin Used, SysAccept(fd),
         Used' = Used \cup {s}, \A t \in Used : client'[t] = client[t],
         client'[s] = fd, allset' = allset \cup {fd}
  PROVE  Asks'
<1>1. Held' = Held \cup {fd}
  BY DEF Held, listenfd
<1>2. short' = short /\ \A c \in Clients : conn[c] = "aborted" => conn'[c] = "aborted"
  BY SysAcceptKeeps DEF SysAccept, SockType
<1>3. \A fe \in allset : StrayBitSet(fe) => StrayBitSet(fe)'
  BY <1>2, StrayStays
<1> QED
  BY <1>1, <1>3 DEF Asks

(* A descriptor closed is no longer asked about.                            *)
LEMMA AsksClose ==
  ASSUME Asks, SockType, SockInv, Table, NEW s \in Used, SysClose(client[s]),
         Used' = Used \ {s}, \A t \in Used' : client'[t] = client[t],
         allset' = allset \ {client[s]}
  PROVE  Asks'
<1>1. client[s] \in FDs /\ client[s] # listenfd /\ files[client[s]] \in Clients
      /\ conn[files[client[s]]] = "open"
  BY UsedAboveListen DEF SockInv, FilesInv, listenfd, FDs
<1>2. \A t \in Used' : client[t] # client[s]
  BY DEF Table
<1>3. Held' = Held \ {client[s]}
  BY <1>1, <1>2 DEF Held, listenfd
<1>4. short' = short /\ \A c \in Clients : conn[c] = "aborted" => conn'[c] = "aborted"
  BY <1>1 DEF SysClose, SockType
<1>5. \A fe \in allset : StrayBitSet(fe) => StrayBitSet(fe)'
  BY <1>4, StrayStays
<1> QED
  BY <1>3, <1>5 DEF Asks

(* A descriptor that is asked about and not open is a stray bit.            *)
LEMMA ClosedIsStray ==
  ASSUME SockType, SockInv, Table, Asks, NEW fd \in allset, fd \in FreeFds
  PROVE  ~AcceptChecked /\ (short \/ \E c \in Clients : conn[c] = "aborted")
<1>1. fd \in FDs /\ files[fd] = "free" /\ "free" \notin Clients
  BY ClientsAssumption DEF FreeFds
<1>2. files[listenfd] = "listen"
  BY FilesAssumption DEF SockInv, FilesInv, FDs, listenfd
<1>3. fd # listenfd
  BY <1>1, <1>2
<1>4. \A s \in Used : client[s] # fd
  BY <1>1, UsedAboveListen
<1>5. StrayBitSet(fd)
  BY <1>3, <1>4 DEF Asks, Held
<1> QED
  BY <1>1, <1>5 DEF StrayBitSet

-----------------------------------------------------------------------------
(* The entries a pass has still to read from.                               *)

Due(j, R) == {s \in Used : j <= s /\ client[s] \in R}

(* The entries due, without the abbreviations of the model.                 *)
LEMMA DueSlotsAre ==
  ASSUME Table
  PROVE  DueSlots = Due(i, rset)
BY DEF DueSlots, Due, Used, Table, Slots, FDs

(* There are finitely many entries due.                                     *)
LEMMA DueFinite ==
  ASSUME Table, NEW j, NEW R
  PROVE  IsFiniteSet(Due(j, R)) /\ Cardinality(Due(j, R)) \in Nat
<1>1. IsFiniteSet(Slots)
  BY FS_Interval, SetSizeAssumption DEF Slots
<1>2. Due(j, R) \in SUBSET Slots
  BY DEF Due, Used
<1> QED
  BY <1>1, <1>2, FS_Subset, FS_CardinalityType

(* At the start of a pass there is one entry for each descriptor reported,  *)
(* the listening one apart.                                                 *)
LEMMA DueAtStart ==
  ASSUME SockType, SockInv, Table, NEW R \in SUBSET Held
  PROVE  /\ IsFiniteSet(R) /\ Cardinality(R) \in Nat
         /\ Cardinality(Due(0, R)) = Cardinality(R \ {listenfd})
<1> DEFINE D == Due(0, R)
           T == R \ {listenfd}
           f == [s \in D |-> client[s]]
<1>1. \A s \in Used : s \in Slots /\ client[s] \in FDs /\ client[s] # listenfd
  BY UsedAboveListen DEF listenfd, FDs
<1>2. \A s \in D : s \in Used /\ client[s] \in T
  BY <1>1 DEF Due
<1>3. \A fd \in T : \E s \in D : client[s] = fd
  <2>1. ASSUME NEW fd \in T PROVE \E s \in D : client[s] = fd
    <3>1. PICK s \in Used : client[s] = fd
      BY DEF Held
    <3>2. 0 <= s
      BY DEF Used, Slots
    <3> QED
      BY <3>1, <3>2 DEF Due
  <2> QED
    BY <2>1
<1>4. \A s, t \in D : client[s] = client[t] => s = t
  BY <1>2 DEF Table
<1> HIDE DEF D, T
<1>5. f \in [D -> T] /\ (\A s, t \in D : f[s] = f[t] => s = t) /\ (\A fd \in T : \E s \in D : f[s] = fd)
  BY <1>2, <1>3, <1>4
<1> HIDE DEF f
<1>6. ExistsBijection(D, T)
  <2>1. f \in Bijection(D, T)
    BY <1>5, Fun_IsBij
  <2> QED
    BY <2>1 DEF ExistsBijection
<1>7. IsFiniteSet(D)
  BY DueFinite DEF D
<1>8. IsFiniteSet(T) /\ Cardinality(T) = Cardinality(D)
  BY <1>6, <1>7, FS_Bijection
<1>9. IsFiniteSet(R)
  <2>1. R \in SUBSET FDs
    BY <1>1, FilesAssumption DEF Held, FDs, listenfd
  <2>2. IsFiniteSet(FDs)
    BY FS_Interval, FilesAssumption DEF FDs
  <2> QED
    BY <2>1, <2>2, FS_Subset
<1>10. Cardinality(R) \in Nat
  BY <1>9, FS_CardinalityType
<1> QED
  BY <1>8, <1>9, <1>10 DEF D, T

(* Once the lowest entry due has been handled it is the only one to go.     *)
LEMMA DueAfter ==
  ASSUME Table, i \in 0..FD_SETSIZE, NEW s \in DueSlots, \A t \in DueSlots : s <= t
  PROVE  /\ Cardinality(Due(s + 1, rset)) = Cardinality(DueSlots) - 1
         /\ Due(s + 1, rset) = DueSlots \ {s}
         /\ s + 1 \in 0..FD_SETSIZE
<1>1. DueSlots = Due(i, rset) /\ IsFiniteSet(DueSlots)
  BY DueSlotsAre, DueFinite
<1>2. s \in Slots /\ s + 1 \in 0..FD_SETSIZE
  BY SetSizeAssumption DEF DueSlots, Slots
<1>3. Due(s + 1, rset) = DueSlots \ {s}
  <2>1. ASSUME NEW t \in Due(s + 1, rset) PROVE t \in DueSlots \ {s}
    BY <1>2, SetSizeAssumption DEF DueSlots, Due, Used, Table, Slots, FDs
  <2>2. ASSUME NEW t \in DueSlots \ {s} PROVE t \in Due(s + 1, rset)
    <3>1. t \in Due(i, rset) /\ s <= t /\ t # s
      BY <1>1, <2>2
    <3> QED
      BY <1>2, <3>1 DEF Due, Used, Slots
  <2> QED
    BY <2>1, <2>2
<1>4. Cardinality(DueSlots \ {s}) = Cardinality(DueSlots) - 1
  BY <1>1, FS_RemoveElement
<1> QED
  BY <1>2, <1>3, <1>4

(* The pass after a descriptor has been handled: nready counted it too.     *)
LEMMA HandledKeepsPass ==
  ASSUME Table', rset \subseteq FDs, UNCHANGED rset, NEW j \in 0..FD_SETSIZE,
         nready \in Nat, nready >= 1, Handled(j),
         nready - 1 = Cardinality(Due(j, rset)')
  PROVE  Pass'
<1>1. nready' = nready - 1 /\ nready' \in Nat
  BY DEF Handled
<1>2. 0 \in 0..FD_SETSIZE
  BY SetSizeAssumption
<1>3. CASE nready' <= 0
  <2>1. pc' = "select" /\ i' = 0
    BY <1>3 DEF Handled
  <2> QED
    BY <1>1, <1>2, <2>1 DEF Pass
<1>4. CASE ~ (nready' <= 0)
  <2>1. pc' = "scan" /\ i' = j
    BY <1>4 DEF Handled
  <2>2. DueSlots' = Due(i, rset)'
    BY DEF DueSlots, Due, Used, Table, Slots, FDs
  <2>3. Due(i, rset)' = Due(j, rset)'
    BY <2>1 DEF Due
  <2>4. nready' = Cardinality(DueSlots')
    BY <1>1, <2>2, <2>3
  <2>5. nready' >= 1
    BY <1>1, <1>4
  <2>6. Pass'
    BY <1>1, <1>2, <2>1, <2>4, <2>5 DEF Pass
  <2> QED
    BY <2>6
<1> QED
  BY <1>3, <1>4

-----------------------------------------------------------------------------
(* What has been read and not yet written back.                             *)

(* A step that leaves both halves of the echo and the table alone.          *)
LEMMA DataStays ==
  ASSUME Data, UNCHANGED <<buf, i, client, files, readFrom, echoed>>,
         pc' = pc \/ pc' = "failed" \/ (pc' = "exited" /\ (SigintBlocked => buf = <<>>))
  PROVE  Data'
<1>1. Used' = Used
  BY DEF Used, Slots
<1>2. (buf' # <<>> => pc' \in {"write", "exited", "failed"} /\ i' \in Used')
      /\ (pc' = "write" => buf' # <<>>)
      /\ (pc' = "exited" /\ SigintBlocked => buf' = <<>>)
  BY <1>1 DEF Data
<1> QED
  BY <1>2 DEF Data

(* Between two reads the table may change: nothing is held.                 *)
LEMMA DataIdle ==
  ASSUME Data, buf = <<>>, UNCHANGED <<buf, readFrom, echoed>>, pc' # "write"
  PROVE  Data'
BY DEF Data

(* Bytes just read follow those echoed.                                     *)
LEMMA DataRead ==
  ASSUME SockType, SockInv, Table, Data, pc = "scan", NEW s \in Used,
         NEW n \in 1..(sentBy[files[client[s]]] - readFrom[files[client[s]]]),
         SysRead(files[client[s]], n),
         buf' = [k \in 1..n |-> <<files[client[s]], readFrom[files[client[s]]] + k>>],
         pc' = "write", i' = s, UNCHANGED client
  PROVE  Data'
<1> DEFINE c == files[client[s]]
           a == Len(echoed[c])
<1>1. buf = <<>>
  BY DEF Data
<1>2. c \in Clients
  BY UsedAboveListen
<1>3. /\ n \in Nat \ {0} /\ readFrom[c] \in Nat /\ readFrom[c] + n <= MaxSend
      /\ readFrom' = [readFrom EXCEPT ![c] = @ + n]
      /\ UNCHANGED <<files, echoed>>
  BY <1>2, SysReadKeeps
<1>4. readFrom[c] = a /\ a \in Nat
  BY <1>1, <1>2, <1>3 DEF Data
<1>5. buf' = Run(c, a, n)
  BY <1>4 DEF Run
<1>6. buf' \in Seq(Bytes) /\ buf' # <<>> /\ Len(buf') = n
  <2>1. a + n <= MaxSend
    BY <1>3, <1>4
  <2> HIDE DEF c, a
  <2>2. Run(c, a, n) \in Seq(Bytes) /\ Len(Run(c, a, n)) = n
    BY <1>2, <1>3, <1>4, <2>1, RunType
  <2>3. Run(c, a, n) # <<>>
    BY <1>2, <1>3, <1>4, RunType
  <2> QED
    BY <1>5, <2>2, <2>3
<1>7. files'[client'[i']] = c /\ i' \in Used'
  BY <1>3 DEF Used, Slots
<1>8. ASSUME NEW d \in Clients
      PROVE  /\ echoed'[d] = Run(d, 0, Len(echoed'[d]))
             /\ readFrom'[d] = Len(echoed'[d])
                  + IF buf' # <<>> /\ files'[client'[i']] = d THEN Len(buf') ELSE 0
  <2>1. echoed'[d] = Run(d, 0, Len(echoed'[d]))
    BY <1>3 DEF Data
  <2>2. readFrom[d] = Len(echoed[d]) + 0
    BY <1>1 DEF Data
  <2>3. CASE d = c
    BY <1>3, <1>4, <1>6, <1>7, <2>1, <2>3 DEF SockType
  <2>4. CASE d # c
    BY <1>3, <1>7, <2>1, <2>2, <2>4 DEF SockType
  <2> QED
    BY <2>3, <2>4
<1>9. buf' = Run(files'[client'[i']], Len(echoed'[files'[client'[i']]]), Len(buf'))
  BY <1>3, <1>5, <1>6, <1>7
<1> HIDE DEF c, a
<1> QED
  BY <1>6, <1>7, <1>8, <1>9 DEF Data

(* A part written moves from buf to what the client was sent.               *)
LEMMA DataEcho ==
  ASSUME SockType, SockInv, Table, Data, pc = "write", i \in Used,
         NEW n \in 1..Len(buf),
         SysWrite(files[client[i]], SubSeq(buf, 1, n)),
         buf' = SubSeq(buf, n + 1, Len(buf)),
         UNCHANGED client,
         buf' # <<>> => pc' = pc /\ i' = i,
         buf' = <<>> => pc' # "write"
  PROVE  SockType' /\ SockInv' /\ Data' /\ UNCHANGED <<files, queue, conn, broken, short>>
<1> DEFINE c == files[client[i]]
           a == Len(echoed[c])
           m == Len(buf)
<1>1. c \in Clients
  BY UsedAboveListen
<1>2. buf # <<>> /\ m \in Nat /\ buf \in Seq(Bytes)
  BY LenProperties DEF Data
<1>3. a \in Nat /\ echoed[c] = Run(c, 0, a) /\ readFrom[c] = a + m /\ buf = Run(c, a, m)
  <2>1. a \in Nat
    BY <1>1, LenProperties DEF SockType
  <2> QED
    BY <1>1, <1>2, <2>1 DEF Data
<1>4. a + m <= MaxSend
  BY <1>1, <1>3 DEF SockType
<1>5. SubSeq(buf, 1, n) = Run(c, a, n) /\ buf' = Run(c, a + n, m - n)
  <2> HIDE DEF c, a, m
  <2>1. n \in 1..m
    BY DEF m
  <2>2. buf' = SubSeq(buf, n + 1, m)
    BY DEF m
  <2> QED
    BY <1>1, <1>2, <1>3, <2>1, <2>2, RunParts
<1>6. n \in Nat /\ a + n \in Nat /\ m - n \in Nat /\ a + n <= MaxSend /\ (a + n) + (m - n) = a + m
  <2>1. a \in Nat /\ m \in Nat /\ n \in 1..m
    BY <1>2, <1>3
  <2> HIDE DEF c, a, m
  <2> QED
    BY ONLY <1>4, <2>1, BoundsAssumption
<1>7. SubSeq(buf, 1, n) \in Seq(Bytes)
  <2> HIDE DEF c, a, m
  <2>1. Run(c, a, n) \in Seq(Bytes)
    BY <1>1, <1>3, <1>6, RunType
  <2> QED
    BY <1>5, <2>1
<1>8. buf' \in Seq(Bytes) /\ Len(buf') = m - n
  <2> HIDE DEF c, a, m
  <2>1. (a + n) + (m - n) <= MaxSend
    BY <1>4, <1>6
  <2>2. Run(c, a + n, m - n) \in Seq(Bytes)
    BY <1>1, <1>6, <2>1, RunType
  <2>3. Len(Run(c, a + n, m - n)) = m - n
    BY <1>1, <1>6, RunType
  <2> QED
    BY <1>5, <2>2, <2>3
<1>9. /\ SockType' /\ SockInv'
      /\ echoed' = [echoed EXCEPT ![c] = @ \o SubSeq(buf, 1, n)]
      /\ UNCHANGED <<files, queue, conn, broken, short, readFrom>>
  BY <1>1, <1>7, SysWriteKeeps
<1>10. echoed'[c] = Run(c, 0, a + n) /\ Len(echoed'[c]) = a + n
  <2>1. echoed'[c] = echoed[c] \o SubSeq(buf, 1, n)
    BY <1>1, <1>9 DEF SockType
  <2> HIDE DEF c, a, m
  <2>2. echoed'[c] = Run(c, 0, a + n)
    BY <1>1, <1>3, <1>5, <1>6, <2>1, RunConcat
  <2>3. 0 \in Nat
    OBVIOUS
  <2> QED
    BY <1>1, <1>6, <2>2, <2>3, RunType
<1>11. ASSUME NEW d \in Clients
       PROVE  /\ echoed'[d] = Run(d, 0, Len(echoed'[d]))
              /\ readFrom'[d] = Len(echoed'[d])
                   + IF buf' # <<>> /\ files'[client'[i']] = d THEN Len(buf') ELSE 0
  <2>1. CASE d # c
    <3>1. echoed'[d] = echoed[d] /\ readFrom'[d] = readFrom[d]
      BY <1>9, <2>1 DEF SockType
    <3>2. echoed[d] = Run(d, 0, Len(echoed[d])) /\ readFrom[d] = Len(echoed[d]) + 0
      BY <2>1 DEF Data
    <3>3. buf' # <<>> => files'[client'[i']] # d
      BY <1>9, <2>1
    <3> QED
      BY <3>1, <3>2, <3>3
  <2>2. CASE d = c
    <3>1. echoed'[d] = Run(d, 0, Len(echoed'[d])) /\ Len(echoed'[d]) = a + n /\ readFrom'[d] = a + m
      BY <1>3, <1>9, <1>10, <2>2
    <3>2. CASE buf' = <<>>
      <4>1. m - n = 0
        BY <1>8, <3>2, EmptySeq
      <4> QED
        BY <1>2, <1>3, <1>6, <3>1, <3>2, <4>1
    <3>3. CASE buf' # <<>>
      <4>1. files'[client'[i']] = d
        BY <1>9, <2>2, <3>3
      <4> QED
        BY <1>2, <1>3, <1>6, <1>8, <3>1, <3>3, <4>1
    <3> QED
      BY <3>2, <3>3
  <2> QED
    BY <2>1, <2>2
<1>12. buf' # <<>> => /\ pc' = "write" /\ i' \in Used'
                      /\ buf' = Run(files'[client'[i']], Len(echoed'[files'[client'[i']]]), Len(buf'))
  <2>1. ASSUME buf' # <<>> PROVE files'[client'[i']] = c /\ pc' = "write" /\ i' \in Used'
    BY <1>9, <2>1 DEF Used, Slots
  <2> QED
    BY <1>5, <1>8, <1>10, <2>1
<1>13. Data'
  <2> HIDE DEF c, a, m
  <2> QED
    BY <1>8, <1>11, <1>12 DEF Data
<1> QED
  BY <1>9, <1>13

-----------------------------------------------------------------------------
(* The invariant holds at the start and every action keeps it.              *)

(* The initial states.                                                      *)
LEMMA StartsInside ==
  ASSUME Init
  PROVE  IInv
<1> USE DEF Init
<1>1. SockType
  <2>1. files \in [FDs -> {"free", "std", "listen"} \cup Clients]
    BY DEF SocketsInit
  <2>2. queue \in Seq(Clients) /\ lost \subseteq Clients /\ short \in BOOLEAN
    BY EmptySeq DEF SocketsInit
  <2>3. /\ conn \in [Clients -> {"none", "queued", "aborted", "open", "closed"}]
        /\ peer \in [Clients -> {"none", "open", "half", "closed"}]
        /\ broken \in [Clients -> BOOLEAN]
    BY DEF SocketsInit
  <2>4. /\ sentBy \in [Clients -> 0..MaxSend] /\ readFrom \in [Clients -> 0..MaxSend]
        /\ consumed \in [Clients -> Nat]
    BY BoundsAssumption DEF SocketsInit
  <2>5. echoed \in [Clients -> Seq(Bytes)]
    BY EmptySeq DEF SocketsInit
  <2> QED
    BY <2>1, <2>2, <2>3, <2>4, <2>5 DEF SockType
<1>2. Len(queue) = 0 /\ queue = <<>>
  BY EmptySeq DEF SocketsInit
<1>3. \A fd \in FDs : files[fd] \notin Clients
  BY ClientsAssumption DEF SocketsInit
<1>4. FilesInv
  <2>1. \A fd \in FDs : files[fd] = (IF fd < listenfd THEN "std"
                                     ELSE IF fd = listenfd THEN "listen" ELSE "free")
    BY DEF SocketsInit
  <2>2. \A fd \in FDs : fd > listenfd => ~ (fd < listenfd) /\ fd # listenfd
    BY DEF FDs, listenfd
  <2>3. \A fd \in FDs : fd = listenfd => ~ (fd < listenfd)
    BY DEF FDs, listenfd
  <2> QED
    BY <1>3, <2>1, <2>2, <2>3 DEF FilesInv
<1>5. QueueInv
  BY <1>2 DEF QueueInv
<1>6. \A c \in Clients : echoed[c] = <<>> /\ Len(echoed[c]) = 0 /\ readFrom[c] = 0
                         /\ consumed[c] = 0 /\ sentBy[c] = 0
  BY EmptySeq DEF SocketsInit
<1>7. CountInv
  BY <1>6 DEF CountInv
<1>8. Used = {}
  BY DEF Used
<1>9. Table
  BY <1>3, <1>8, FilesAssumption DEF Table, listenfd, FDs
<1>13. Asks
  BY <1>8 DEF Asks, Held
<1>10. Pass
  BY SetSizeAssumption DEF Pass
<1>11. Data
  <2>1. \A c \in Clients : Run(c, 0, 0) = <<>>
    BY RunType
  <2>2. \A c \in Clients : echoed[c] = Run(c, 0, Len(echoed[c])) /\ readFrom[c] = Len(echoed[c]) + 0
    BY <1>6, <2>1
  <2>3. buf = <<>> /\ buf \in Seq(Bytes) /\ pc = "select"
    BY EmptySeq
  <2> QED
    BY <2>2, <2>3 DEF Data
<1>12. FailureExplained
  BY DEF FailureExplained
<1> QED
  BY <1>1, <1>4, <1>5, <1>7, <1>9, <1>10, <1>11, <1>12, <1>13 DEF IInv, SockInv

(* A step that touches no socket keeps what is said of them.                *)
LEMMA SocketsStay ==
  ASSUME SockType, SockInv, UNCHANGED sockVars
  PROVE  SockType' /\ SockInv'
BY DEF SockType, SockInv, FilesInv, QueueInv, CountInv, sockVars

(* select() reports some descriptors of allset, and counts them.            *)
LEMMA SelectKeeps ==
  ASSUME IInv, Select
  PROVE  IInv'
<1> USE DEF IInv
<1>1. /\ pc = "select" /\ i' = 0 /\ nready' = Cardinality(rset') /\ rset' # {}
      /\ \A fd \in rset' : fd \in FDs /\ ReadyFd(fd)
      /\ pc' = (IF listenfd \in rset' THEN "accept" ELSE "scan")
      /\ UNCHANGED <<tableVars, buf, sockVars>>
  BY DEF Select
<1>2. SockType' /\ SockInv' /\ Table' /\ Asks'
  BY <1>1, SocketsStay, TableStays, AsksStays DEF sockVars, tableVars
<1>8. rset' \in SUBSET Held /\ rset' \subseteq FDs
  <2>1. ASSUME NEW fd \in rset' PROVE fd \in Held
    <3>1. CASE files[fd] = "listen"
      BY <1>1, <3>1, ClientsAssumption DEF SockInv, FilesInv, FDs, listenfd, Held
    <3>2. CASE files[fd] \in Clients
      BY <1>1, <3>2 DEF Table, Held
    <3> QED
      BY <1>1, <3>1, <3>2 DEF ReadyFd
  <2> QED
    BY <1>1, <2>1
<1>9. Held' = Held
  BY <1>1 DEF Held, Used, Slots, listenfd, tableVars
<1>3. buf = <<>>
  BY <1>1 DEF Data
<1>4. Data'
  BY <1>1, <1>3, DataIdle DEF sockVars
<1>5. IsFiniteSet(rset') /\ nready' \in Nat
      /\ Cardinality(Due(0, rset')) = Cardinality(rset' \ {listenfd})
  BY <1>1, <1>8, DueAtStart
<1>6. Pass'
  <2>0. 0 \in 0..FD_SETSIZE /\ rset' \subseteq FDs /\ rset' \subseteq Held'
    BY <1>8, <1>9, SetSizeAssumption
  <2>1. CASE listenfd \in rset'
    <3>1. ReadyFd(listenfd) /\ files[listenfd] = "listen"
      BY <1>1, <2>1 DEF SockInv, FilesInv
    <3>2. queue # <<>>
      BY <3>1, ClientsAssumption DEF ReadyFd
    <3>3. pc' = "accept" /\ queue' # <<>>
      BY <1>1, <2>1, <3>2 DEF sockVars
    <3> QED
      BY <1>1, <1>5, <2>0, <2>1, <3>3 DEF Pass
  <2>2. CASE listenfd \notin rset'
    <3>1. pc' = "scan"
      BY <1>1, <2>2
    <3>2. rset' \ {listenfd} = rset'
      BY <2>2
    <3>3. DueSlots' = Due(0, rset')
      BY <1>1, <1>2 DEF DueSlots, Due, Used, Table, Slots, FDs, tableVars
    <3>4. nready' = Cardinality(DueSlots')
      BY <1>1, <1>5, <3>2, <3>3
    <3>5. nready' >= 1
      BY <1>1, <1>5, FS_EmptySet
    <3> QED
      BY <1>1, <1>5, <2>0, <3>1, <3>4, <3>5 DEF Pass
  <2> QED
    BY <2>1, <2>2
<1>7. FailureExplained'
  BY <1>1 DEF FailureExplained
<1> QED
  BY <1>2, <1>4, <1>6, <1>7

(* select() fails for a stray bit: err_sys.                                 *)
LEMMA SelectFailsKeeps ==
  ASSUME IInv, SelectFails
  PROVE  IInv'
<1> USE DEF IInv
<1>1. pc = "select" /\ AsksClosed /\ pc' = "failed" /\ UNCHANGED <<tableVars, passVars, sockVars>>
  BY DEF SelectFails
<1>2. SockType' /\ SockInv' /\ Table' /\ Asks'
  BY <1>1, SocketsStay, TableStays, AsksStays DEF sockVars, tableVars
<1>3. Pass'
  BY <1>1 DEF Pass, passVars
<1>4. Data'
  BY <1>1, DataStays DEF passVars, sockVars, tableVars
<1>5. ~AcceptChecked /\ (short \/ \E c \in Clients : conn[c] = "aborted")
  BY <1>1, ClosedIsStray DEF AsksClosed
<1>6. FailureExplained'
  BY <1>1, <1>5 DEF FailureExplained, AcceptRunsOut, sockVars
<1> QED
  BY <1>2, <1>3, <1>4, <1>6

(* Handled never leads to "failed", "write" or "exited".                    *)
LEMMA HandledContinues ==
  ASSUME NEW j, Handled(j)
  PROVE  pc' \in {"select", "scan"} /\ FailureExplained'
BY DEF Handled, FailureExplained

(* A connection is accepted.                                                *)
LEMMA AcceptKeeps ==
  ASSUME IInv, Accept
  PROVE  IInv'
<1> USE DEF IInv
<1>1. pc = "accept" /\ Handled(0) /\ UNCHANGED <<rset, buf>>
  BY DEF Accept
<1>2. PICK fd \in FDs, s \in Slots :
        /\ SysAccept(fd) /\ Lowest(FreeSlots, s)
        /\ client' = [client EXCEPT ![s] = fd]
        /\ allset' = allset \cup {fd}
        /\ maxfd' = (IF fd > maxfd THEN fd ELSE maxfd)
        /\ maxi' = (IF s > maxi THEN s ELSE maxi)
  BY DEF Accept
<1>3. SockType' /\ SockInv'
  BY <1>2, SysAcceptKeeps
<1>4. /\ Table' /\ fd \notin Held /\ s \notin Used
      /\ Used' = Used \cup {s}
      /\ \A t \in Used : client'[t] = client[t]
      /\ client'[s] = fd
  BY <1>2, TableAccept
<1>9. Asks'
  BY <1>2, <1>4, AsksAccept
<1>5. buf = <<>>
  BY <1>1 DEF Data
<1>6. Data'
  BY <1>1, <1>2, <1>5, DataIdle, HandledContinues DEF SysAccept
<1>7. Pass'
  <2>1. /\ rset \in SUBSET Held /\ listenfd \in rset /\ nready = Cardinality(rset)
        /\ nready \in Nat /\ rset \subseteq FDs
    BY <1>1 DEF Pass
  <2>2. IsFiniteSet(rset) /\ Cardinality(Due(0, rset)) = Cardinality(rset \ {listenfd})
    BY <2>1, DueAtStart
  <2>3. nready >= 1 /\ Cardinality(rset \ {listenfd}) = nready - 1
    <3>1. Cardinality(rset \ {listenfd}) = nready - 1
      BY <2>1, <2>2, FS_RemoveElement
    <3>2. nready # 0
      BY <2>1, <2>2, FS_EmptySet
    <3> QED
      BY <2>1, <3>1, <3>2
  <2>4. Due(0, rset)' = Due(0, rset)
    <3>1. fd \notin rset
      BY <1>4, <2>1
    <3> QED
      BY <1>1, <1>4, <3>1 DEF Due
  <2>5. 0 \in 0..FD_SETSIZE
    BY SetSizeAssumption
  <2> QED
    BY <1>1, <1>4, <2>1, <2>2, <2>3, <2>4, <2>5, HandledKeepsPass
<1>8. FailureExplained'
  BY <1>1, HandledContinues
<1> QED
  BY <1>3, <1>4, <1>6, <1>7, <1>8, <1>9

(* The wrapper drops a connection that has gone, and calls accept again.    *)
LEMMA AcceptAgainKeeps ==
  ASSUME IInv, AcceptAgain
  PROVE  IInv'
<1> USE DEF IInv
<1>1. pc = "accept" /\ SysAcceptAborted /\ UNCHANGED <<pc, tableVars, passVars>>
  BY DEF AcceptAgain
<1>2. /\ SockType' /\ SockInv' /\ (\E c \in Clients : conn[c] = "aborted")
      /\ UNCHANGED <<files, conn, broken, short, readFrom, echoed>>
  BY <1>1, SysAcceptAbortedKeeps
<1>3. Table' /\ Asks' /\ Held' = Held
  BY <1>1, <1>2, TableStays, AsksStays DEF tableVars, Held, Used, Slots, listenfd
<1>4. Data'
  BY <1>1, <1>2, DataStays DEF passVars, tableVars
<1>5. Pass'
  BY <1>1, <1>2, <1>3 DEF Pass, passVars
<1>6. FailureExplained'
  BY <1>1 DEF FailureExplained
<1> QED
  BY <1>2, <1>3, <1>4, <1>5, <1>6

(* accept() fails for want of a descriptor or of memory: err_sys.           *)
LEMMA AcceptFailsKeeps ==
  ASSUME IInv, AcceptFails
  PROVE  IInv'
<1> USE DEF IInv
<1>1. pc = "accept" /\ AcceptRunsOut /\ pc' = "failed"
      /\ UNCHANGED <<tableVars, passVars, sockVars>>
  BY DEF AcceptFails
<1>2. SockType' /\ SockInv' /\ Table' /\ Asks'
  BY <1>1, SocketsStay, TableStays, AsksStays DEF sockVars, tableVars
<1>3. Pass'
  BY <1>1 DEF Pass, passVars
<1>4. Data'
  BY <1>1, DataStays DEF passVars, sockVars, tableVars
<1>5. FailureExplained'
  BY <1>1 DEF FailureExplained, AcceptRunsOut, FreeFds, sockVars
<1> QED
  BY <1>2, <1>3, <1>4, <1>5

(* An accept() that fails unchecked fills no entry, but the pass counts it. *)
LEMMA AcceptFailsUnseenKeeps ==
  ASSUME IInv, AcceptFailsUnseen
  PROVE  IInv'
<1> USE DEF IInv
<1>1. pc = "accept" /\ ~AcceptChecked /\ UNCHANGED <<client, maxfd, rset, buf>>
  BY DEF AcceptFailsUnseen
<1>2. /\ SockType' /\ SockInv' /\ UNCHANGED <<files, conn, broken, short, readFrom, echoed>>
      /\ AcceptRunsOut \/ \E c \in Clients : conn[c] = "aborted"
  <2>1. CASE AcceptRunsOut /\ UNCHANGED sockVars
    BY <2>1, SocketsStay DEF sockVars
  <2>2. CASE SysAcceptAborted
    BY <2>2, SysAcceptAbortedKeeps
  <2> QED
    BY <2>1, <2>2 DEF AcceptFailsUnseen
<1>3. buf = <<>>
  BY <1>1 DEF Data
<1>4. Used' = Used /\ Held' = Held
  BY <1>1 DEF Used, Held, Slots, listenfd
<1>5. CASE pc' = "failed" /\ UNCHANGED <<allset, maxi, nready, i>>
  <2>1. Table' /\ Asks'
    BY <1>1, <1>2, <1>5, TableStays, AsksStays DEF tableVars
  <2>2. Data'
    BY <1>1, <1>3, <1>2, <1>5, DataIdle
  <2>3. Pass'
    BY <1>1, <1>5 DEF Pass
  <2>4. FailureExplained'
    BY <1>1, <1>2 DEF FailureExplained, AcceptRunsOut, FreeFds
  <2> QED
    BY <1>2, <2>1, <2>2, <2>3, <2>4
<1>6. CASE /\ allset' \in {allset, allset \cup {StrayBit}}
           /\ \E s \in Slots : Lowest(FreeSlots, s) /\ maxi' = IF s > maxi THEN s ELSE maxi
           /\ Handled(0)
  <2>1. /\ pc = "accept" /\ Handled(0) /\ UNCHANGED <<client, maxfd, rset, buf>>
   BY <1>1, <1>6
  <2>2. Asks'
   <3>1. StrayBit \in Held \/ StrayBitSet(StrayBit)
     <4>1. CASE StrayBit \in FDs /\ FreeFds = {}
       <5>1. files[StrayBit] \in Clients
         BY <4>1, StrayBitAssumption DEF SockInv, FilesInv, FreeFds
       <5> QED
         BY <4>1, <5>1 DEF Table, Held
     <4>2. CASE StrayBit \notin FDs \/ FreeFds # {}
       BY <1>1, <1>2, <4>2 DEF StrayBitSet, AcceptRunsOut
     <4> QED
       BY <4>1, <4>2
   <3>2. \A fd : StrayBitSet(fd) => StrayBitSet(fd)'
     BY <1>2, StrayStays
   <3> QED
     BY <1>4, <1>6, <3>1, <3>2 DEF Asks
  <2>3. Table'
   BY <1>1, <1>2, <1>6, TableHigherMaxi
  <2>4. Data'
   BY <1>3, <1>2, <2>1, DataIdle, HandledContinues
  <2>5. Pass'
   <3>1. /\ rset \in SUBSET Held /\ listenfd \in rset /\ nready = Cardinality(rset)
         /\ nready \in Nat /\ rset \subseteq FDs
     BY <1>1 DEF Pass
   <3>2. IsFiniteSet(rset) /\ Cardinality(Due(0, rset)) = Cardinality(rset \ {listenfd})
     BY <3>1, DueAtStart
   <3>3. nready >= 1 /\ Cardinality(rset \ {listenfd}) = nready - 1
     <4>1. Cardinality(rset \ {listenfd}) = nready - 1
       BY <3>1, <3>2, FS_RemoveElement
     <4>2. nready # 0
       BY <3>1, <3>2, FS_EmptySet
     <4> QED
       BY <3>1, <4>1, <4>2
   <3>4. Due(0, rset)' = Due(0, rset)
     BY <1>1 DEF Due, Used, Slots
   <3>5. 0 \in 0..FD_SETSIZE
     BY SetSizeAssumption
   <3> QED
     BY <2>1, <2>3, <3>1, <3>2, <3>3, <3>4, <3>5, HandledKeepsPass
  <2>6. FailureExplained'
   BY <2>1, HandledContinues
  <2> QED
   BY <1>2, <2>2, <2>3, <2>4, <2>5, <2>6
<1> QED
  BY <1>5, <1>6 DEF AcceptFailsUnseen

(* Reading from the lowest entry due.                                       *)
LEMMA ReadDataKeeps ==
  ASSUME IInv, pc = "scan", NEW s \in DueSlots, \A t \in DueSlots : s <= t,
         ReadData(s), UNCHANGED rset
  PROVE  IInv'
<1> USE DEF IInv
<1> DEFINE c == files[client[s]]
<1>1. s \in Used /\ s \in Slots /\ c \in Clients
  BY UsedAboveListen DEF DueSlots, Used
<1>2. PICK n \in 1..(sentBy[c] - readFrom[c]) :
        SysRead(c, n) /\ buf' = [k \in 1..n |-> <<c, readFrom[c] + k>>]
  BY DEF ReadData
<1>3. pc' = "write" /\ i' = s /\ UNCHANGED <<tableVars, nready>>
  BY DEF ReadData
<1>4. /\ SockType' /\ SockInv'
      /\ UNCHANGED <<files, queue, conn, peer, broken, lost, short, sentBy, echoed, consumed>>
  BY <1>1, <1>2, SysReadKeeps
<1>5. Table' /\ Asks'
  BY <1>3, <1>4, TableStays, AsksStays DEF tableVars
<1>6. Data'
  BY <1>1, <1>2, <1>3, DataRead DEF tableVars
<1>7. Pass'
  <2>1. DueSlots' = DueSlots
    <3>1. DueSlots' = {t \in Slots : s <= t /\ t <= maxi /\ client[t] >= 0 /\ client[t] \in rset}
      BY <1>3 DEF DueSlots, Slots, tableVars
    <3>2. \A t \in Slots : s <= t => i <= t
      BY <1>1, SetSizeAssumption DEF DueSlots, Slots, Pass
    <3> QED
      BY <3>1, <3>2 DEF DueSlots
  <2>2. nready' = Cardinality(DueSlots') /\ nready' >= 1 /\ nready' \in Nat /\ rset' \subseteq FDs
    BY <1>3, <2>1 DEF Pass
  <2>3. i' \in 0..FD_SETSIZE
    BY <1>1, <1>3, SetSizeAssumption DEF Slots
  <2> QED
    BY <1>3, <2>1, <2>2, <2>3 DEF Pass
<1>8. FailureExplained'
  BY <1>3 DEF FailureExplained
<1> QED
  BY <1>4, <1>5, <1>6, <1>7, <1>8

(* read() returns end of file: the entry is freed.                          *)
LEMMA ReadEofKeeps ==
  ASSUME IInv, pc = "scan", NEW s \in DueSlots, \A t \in DueSlots : s <= t,
         ReadEof(s), UNCHANGED rset
  PROVE  IInv'
<1> USE DEF IInv
<1>1. s \in Used /\ client[s] \in FDs /\ files[client[s]] \in Clients
  BY UsedAboveListen DEF DueSlots, Used
<1>2. /\ SysClose(client[s]) /\ Handled(s + 1)
      /\ allset' = allset \ {client[s]} /\ client' = [client EXCEPT ![s] = -1]
      /\ UNCHANGED <<maxi, maxfd>> /\ buf' = buf
  BY DEF ReadEof
<1>3. SockType' /\ SockInv'
  BY <1>1, <1>2, SysCloseKeeps
<1>4. Table' /\ Used' = Used \ {s} /\ \A t \in Used' : client'[t] = client[t]
  BY <1>1, <1>2, TableClose
<1>8. Asks'
  BY <1>1, <1>2, <1>4, AsksClose
<1>5. Data'
  <2>1. buf = <<>>
    BY DEF Data
  <2>2. UNCHANGED <<readFrom, echoed>>
    BY <1>2 DEF SysClose
  <2> QED
    BY <1>2, <2>1, <2>2, DataIdle, HandledContinues
<1>6. Pass'
  <2>1. nready \in Nat /\ nready >= 1 /\ nready = Cardinality(DueSlots) /\ rset \subseteq FDs
    BY DEF Pass
  <2>2. /\ Cardinality(Due(s + 1, rset)) = Cardinality(DueSlots) - 1
        /\ s + 1 \in 0..FD_SETSIZE
    BY DueAfter DEF Pass
  <2>3. Due(s + 1, rset)' = Due(s + 1, rset)
    <3>1. ~ (s + 1 <= s)
      BY <1>1 DEF Used, Slots
    <3> QED
      BY <1>4, <3>1 DEF Due
  <2> QED
    BY <1>2, <1>4, <2>1, <2>2, <2>3, HandledKeepsPass
<1>7. FailureExplained'
  BY <1>2, HandledContinues
<1> QED
  BY <1>3, <1>4, <1>5, <1>6, <1>7, <1>8

(* read() reports that the connection broke: err_sys.                       *)
LEMMA ReadErrorKeeps ==
  ASSUME IInv, pc = "scan", NEW s \in DueSlots, ReadError(s), UNCHANGED rset
  PROVE  IInv'
<1> USE DEF IInv
<1>1. s \in Used /\ client[s] \in FDs /\ files[client[s]] \in Clients
  BY UsedAboveListen DEF DueSlots, Used
<1>2. /\ broken[files[client[s]]] /\ pc' = "failed"
      /\ UNCHANGED <<tableVars, nready, i, buf, sockVars>>
  BY DEF ReadError
<1>3. SockType' /\ SockInv' /\ Table' /\ Asks'
  BY <1>2, SocketsStay, TableStays, AsksStays DEF sockVars, tableVars
<1>4. Data'
  BY <1>2, DataStays DEF sockVars, tableVars
<1>5. Pass'
  BY <1>2 DEF Pass
<1>6. FailureExplained'
  <2>1. conn[files[client[s]]] = "open"
    BY <1>1 DEF SockInv, FilesInv
  <2> QED
    BY <1>1, <1>2, <2>1 DEF FailureExplained, sockVars
<1> QED
  BY <1>3, <1>4, <1>5, <1>6

(* The next read of a pass, whatever it returns.                            *)
LEMMA ScanClientKeeps ==
  ASSUME IInv, ScanClient
  PROVE  IInv'
<1>1. pc = "scan" /\ UNCHANGED rset
  BY DEF ScanClient
<1>2. CASE DueSlots = {}
  <2>1. pc' = "select" /\ UNCHANGED <<tableVars, nready, i, buf, sockVars>>
    BY <1>2 DEF ScanClient
  <2>2. SockType' /\ SockInv' /\ Table' /\ Asks'
    BY <2>1, SocketsStay, TableStays, AsksStays DEF sockVars, tableVars, IInv
  <2>3. Data'
    BY <1>1, <2>1, DataIdle DEF IInv, Data, sockVars
  <2>4. Pass' /\ FailureExplained'
    BY <1>1, <2>1 DEF IInv, Pass, FailureExplained
  <2> QED
    BY <2>2, <2>3, <2>4 DEF IInv
<1>3. CASE DueSlots # {}
  <2>1. PICK s \in DueSlots : /\ \A t \in DueSlots : s <= t
                              /\ ReadData(s) \/ ReadEof(s) \/ ReadError(s)
    BY <1>3 DEF ScanClient, Lowest
  <2> QED
    BY <1>1, <2>1, ReadDataKeeps, ReadEofKeeps, ReadErrorKeeps
<1> QED
  BY <1>2, <1>3

(* One part of a Writen, or its failure on a broken connection.             *)
LEMMA EchoKeeps ==
  ASSUME IInv, Echo
  PROVE  IInv'
<1> USE DEF IInv
<1> DEFINE c == files[client[i]]
<1>1. pc = "write" /\ UNCHANGED <<tableVars, rset>>
  BY DEF Echo
<1>2. i \in DueSlots /\ i \in Used /\ c \in Clients
  BY <1>1, UsedAboveListen DEF Pass, DueSlots, Used
<1>3. CASE broken[c]
  <2>1. pc' = "failed" /\ UNCHANGED <<buf, i, nready, sockVars>>
    BY <1>3 DEF Echo
  <2>2. SockType' /\ SockInv' /\ Table' /\ Asks'
    BY <1>1, <2>1, SocketsStay, TableStays, AsksStays DEF sockVars, tableVars
  <2>3. Data'
    BY <1>1, <2>1, DataStays DEF sockVars, tableVars
  <2>4. Pass'
    BY <1>1, <2>1 DEF Pass
  <2>5. FailureExplained'
    <3>1. conn[c] = "open"
      BY <1>2, UsedAboveListen DEF SockInv, FilesInv
    <3> QED
      BY <1>2, <1>3, <2>1, <3>1 DEF FailureExplained, sockVars
  <2> QED
    BY <2>2, <2>3, <2>4, <2>5
<1>4. CASE ~ broken[c]
  <2>1. PICK n \in 1..Len(buf) :
          /\ SysWrite(c, SubSeq(buf, 1, n))
          /\ buf' = SubSeq(buf, n + 1, Len(buf))
    BY <1>4 DEF Echo
  <2>2. IF buf' = <<>> THEN Handled(i + 1) ELSE UNCHANGED <<pc, i, nready>>
    BY <1>4 DEF Echo
  <2>3. buf' = <<>> => pc' # "write"
    BY <2>2, HandledContinues
  <2>4. SockType' /\ SockInv' /\ Data' /\ UNCHANGED <<files, queue, conn, broken, short>>
    BY <1>1, <1>2, <2>1, <2>2, <2>3, DataEcho DEF tableVars
  <2>5. Table' /\ Asks'
    BY <1>1, <2>4, TableStays, AsksStays DEF tableVars
  <2>6. CASE buf' = <<>>
    <3>1. Handled(i + 1)
      BY <2>2, <2>6
    <3>2. /\ nready \in Nat /\ nready >= 1 /\ nready = Cardinality(DueSlots)
          /\ rset \subseteq FDs /\ i \in 0..FD_SETSIZE
      BY <1>1 DEF Pass
    <3>3. \A t \in DueSlots : i <= t
      BY DEF DueSlots
    <3>4. /\ Cardinality(Due(i + 1, rset)) = Cardinality(DueSlots) - 1
          /\ i + 1 \in 0..FD_SETSIZE
      BY <1>2, <3>2, <3>3, DueAfter
    <3>5. Pass'
      <4>1. nready' = nready - 1 /\ nready' \in Nat
        BY <3>1, <3>2 DEF Handled
      <4>2. CASE nready' <= 0
        <5>1. pc' = "select" /\ i' \in 0..FD_SETSIZE
          BY <3>1, <4>2, SetSizeAssumption DEF Handled
        <5> QED
          BY <1>1, <3>2, <4>1, <5>1 DEF Pass
      <4>3. CASE ~ (nready' <= 0)
        <5>1. pc' = "scan" /\ i' = i + 1
          BY <3>1, <4>3 DEF Handled
        <5>2. DueSlots' = Due(i + 1, rset)
          BY <1>1, <2>5, <5>1 DEF DueSlots, Due, Used, Table, Slots, FDs, tableVars
        <5> QED
          BY <1>1, <3>2, <3>4, <4>1, <4>3, <5>1, <5>2 DEF Pass
      <4> QED
        BY <4>2, <4>3
    <3>6. FailureExplained'
      BY <3>1, HandledContinues
    <3> QED
      BY <2>4, <2>5, <3>5, <3>6
  <2>7. CASE buf' # <<>>
    <3>1. UNCHANGED <<pc, i, nready>>
      BY <2>2, <2>7
    <3>2. DueSlots' = DueSlots
      BY <1>1, <3>1 DEF DueSlots, Slots, tableVars
    <3>3. Pass' /\ FailureExplained'
      BY <1>1, <3>1, <3>2 DEF Pass, FailureExplained
    <3> QED
      BY <2>4, <2>5, <3>3
  <2> QED
    BY <2>6, <2>7
<1> QED
  BY <1>3, <1>4

(* The handler ends the process.                                            *)
LEMMA SigintKeeps ==
  ASSUME IInv, Sigint
  PROVE  IInv'
<1> USE DEF IInv
<1>1. /\ pc' = "exited" /\ UNCHANGED <<tableVars, passVars, sockVars>>
      /\ SigintBlocked => pc = "select"
  BY DEF Sigint
<1>2. SigintBlocked => buf = <<>>
  BY <1>1 DEF Data
<1>3. SockType' /\ SockInv' /\ Table' /\ Asks'
  BY <1>1, SocketsStay, TableStays, AsksStays DEF sockVars, tableVars
<1>4. Data'
  BY <1>1, <1>2, DataStays DEF sockVars, tableVars, passVars
<1>5. Pass' /\ FailureExplained'
  BY <1>1 DEF Pass, FailureExplained, passVars
<1> QED
  BY <1>3, <1>4, <1>5

(* A step of a client or of the system, with the server where it is.        *)
LEMMA ClientKeeps ==
  ASSUME IInv, (\E c \in Clients : ClientStep(c)) \/ Shortage,
         UNCHANGED <<pc, tableVars, passVars>>
  PROVE  IInv'
<1> USE DEF IInv
<1>1. SockType' /\ SockInv' /\ ClientFrame
  BY ClientStepKeeps, ShortageKeeps
<1>2. Table' /\ Asks' /\ Held' = Held
  BY <1>1, TableStays, AsksStays DEF ClientFrame, tableVars, Held, Used, Slots, listenfd
<1>3. Data'
  BY <1>1, DataStays DEF ClientFrame, tableVars, passVars
<1>4. Pass'
  <2>1. DueSlots' = DueSlots
    BY DEF DueSlots, Slots, tableVars, passVars
  <2>2. pc' = "accept" => /\ rset' \subseteq Held' /\ listenfd \in rset' /\ i' = 0
                          /\ nready' = Cardinality(rset')
    BY <1>2 DEF Pass, tableVars, passVars
  <2>3. pc' = "accept" => queue' # <<>> \/ \E d \in Clients : conn'[d] = "aborted"
    BY <1>1 DEF Pass, ClientFrame
  <2> QED
    BY <2>1, <2>2, <2>3 DEF Pass, passVars
<1>5. FailureExplained'
  <2>1. CASE pc # "failed"
    BY <2>1 DEF FailureExplained
  <2>2. CASE AcceptRunsOut
    BY <1>1, <2>2 DEF FailureExplained, ClientFrame, AcceptRunsOut, FreeFds
  <2>4. CASE ~AcceptChecked /\ \E c \in Clients : conn[c] = "aborted"
    BY <1>1, <2>4 DEF FailureExplained, ClientFrame
  <2>3. ASSUME NEW d \in Clients, broken[d], conn[d] = "open"
        PROVE  FailureExplained'
    <3>1. broken'[d] /\ conn'[d] = "open"
      BY <1>1, <2>3 DEF ClientFrame
    <3> QED
      BY <3>1 DEF FailureExplained
  <2> QED
    BY <2>1, <2>2, <2>3, <2>4 DEF FailureExplained
<1> QED
  BY <1>1, <1>2, <1>3, <1>4, <1>5

(* Steps that change nothing.                                               *)
LEMMA StutterKeeps ==
  ASSUME IInv, UNCHANGED vars
  PROVE  IInv'
<1> USE DEF IInv, vars
<1>1. SockType' /\ SockInv' /\ Table' /\ Asks' /\ Held' = Held
  BY SocketsStay, TableStays, AsksStays DEF sockVars, tableVars, Held, Used, Slots, listenfd
<1>2. Data'
  BY DataStays DEF sockVars, tableVars, passVars
<1>3. DueSlots' = DueSlots
  BY DEF DueSlots, Slots, tableVars, passVars
<1>4. Pass' /\ FailureExplained'
  BY <1>1, <1>3 DEF Pass, FailureExplained, AcceptRunsOut, FreeFds, passVars, tableVars, sockVars
<1> QED
  BY <1>1, <1>2, <1>4

(* Every step, of the server, of a client or neither.                       *)
LEMMA StaysInside ==
  ASSUME IInv, [Next]_vars
  PROVE  IInv'
<1>1. ASSUME Server PROVE IInv'
  BY <1>1, SelectKeeps, SelectFailsKeeps, AcceptKeeps, AcceptAgainKeeps, AcceptFailsKeeps,
     AcceptFailsUnseenKeeps,
     ScanClientKeeps, EchoKeeps DEF Server
<1>2. ASSUME (\E c \in Clients : ClientStep(c)) \/ Shortage, UNCHANGED <<pc, tableVars, passVars>>
      PROVE  IInv'
  BY <1>2, ClientKeeps
<1> QED
  BY <1>1, <1>2, SigintKeeps, StutterKeeps DEF Next

(* The invariant, from the initial states and the steps above.              *)
LEMMA AlwaysInside == Spec => []IInv
<1>1. Init => IInv
  BY StartsInside
<1>2. IInv /\ [Next]_vars => IInv'
  BY StaysInside
<1> QED
  BY <1>1, <1>2, PTL DEF Spec

-----------------------------------------------------------------------------
(* The theorems. *)

(* Every variable keeps its type; in particular no client is sent more than *)
(* it sent, and no descriptor leaves the fd_set.                            *)
THEOREM TypeCorrect == Spec => []TypeOK
<1>1. IInv => TypeOK
  <2> SUFFICES ASSUME IInv PROVE TypeOK
    OBVIOUS
  <2> USE DEF IInv
  <2>1. allset \subseteq FDs \cup {StrayBit}
    <3>1. Held \subseteq FDs
      BY UsedAboveListen, FilesAssumption DEF Held, FDs, listenfd
    <3> QED
      BY <3>1 DEF Asks, StrayBitSet
  <2>2. ASSUME NEW c \in Clients PROVE consumed[c] \in 0..MaxSend
    <3>1. Len(echoed[c]) \in Nat /\ Len(buf) \in Nat
      BY LenProperties DEF SockType, Data
    <3>2. PICK n \in Nat : readFrom[c] = Len(echoed[c]) + n
      <4>1. CASE buf # <<>> /\ files[client[i]] = c
        BY <3>1, <4>1 DEF Data
      <4>2. CASE ~ (buf # <<>> /\ files[client[i]] = c)
        BY <4>2 DEF Data
      <4> QED
        BY <4>1, <4>2
    <3>3. consumed[c] \in Nat /\ consumed[c] <= Len(echoed[c]) /\ readFrom[c] \in 0..MaxSend
      BY DEF SockType, SockInv, CountInv
    <3> QED
      BY <3>1, <3>2, <3>3, BoundsAssumption
  <2>3. consumed \in [Clients -> 0..MaxSend]
    BY <2>2 DEF SockType
  <2> QED
    BY <2>1, <2>3 DEF TypeOK, SockType, Table, Pass, Data, Bytes
<1> QED
  BY <1>1, AlwaysInside, PTL

(* The table, allset and the open descriptors agree, and accept finds a     *)
(* free entry: err_quit("too many clients") cannot be reached.              *)
THEOREM TableAlwaysConsistent == Spec => []TableConsistent
<1>1. IInv => TableConsistent
  <2> SUFFICES ASSUME IInv PROVE TableConsistent
    OBVIOUS
  <2> USE DEF IInv
  <2>1. listenfd \in allset
    BY DEF Asks, Held
  <2>2. ASSUME NEW s \in Slots, client[s] >= 0
        PROVE  /\ client[s] \in allset /\ client[s] <= maxfd /\ s <= maxi
               /\ files[client[s]] \in Clients
               /\ conn[files[client[s]]] = "open"
    <3>1. s \in Used
      BY <2>2 DEF Used
    <3> QED
      BY <3>1, UsedAboveListen DEF Table, Asks, Held, SockInv, FilesInv
  <2>3. \A s, t \in Slots : client[s] = client[t] /\ client[s] >= 0 => s = t
    BY DEF Table, Used
  <2>4. \A fd \in FDs : files[fd] \in Clients => \E s \in Slots : client[s] = fd
    BY DEF Table, Used
  <2>5. \A fd \in allset :
          fd = listenfd \/ (\E s \in Slots : client[s] = fd) \/ StrayBitSet(fd)
    BY DEF Asks, Held, Used
  <2>6. FreeSlots # {}
    BY SlotLeft
  <2> QED
    BY <2>1, <2>2, <2>3, <2>4, <2>5, <2>6 DEF TableConsistent
<1> QED
  BY <1>1, AlwaysInside, PTL

(* nready counts the reported clients that a pass has still to handle.      *)
THEOREM NreadyAlwaysExact == Spec => []NreadyExact
<1>1. IInv => NreadyExact
  BY DEF IInv, Pass, NreadyExact
<1> QED
  BY <1>1, AlwaysInside, PTL

(* What is written to a connection, with what Writen still holds for it, is *)
(* what was read from that connection.                                      *)
THEOREM EchoesAlwaysOwn == Spec => []EchoesOwnBytes
<1>1. IInv => EchoesOwnBytes
  <2> SUFFICES ASSUME IInv, NEW c \in Clients
               PROVE  echoed[c] \o (IF buf # <<>> /\ files[client[i]] = c THEN buf ELSE <<>>)
                        = [k \in 1..readFrom[c] |-> <<c, k>>]
    BY DEF EchoesOwnBytes
  <2> USE DEF IInv
  <2> DEFINE a == Len(echoed[c])
             n == IF buf # <<>> /\ files[client[i]] = c THEN Len(buf) ELSE 0
  <2>1. a \in Nat /\ Len(buf) \in Nat
    BY LenProperties DEF SockType, Data
  <2>2. echoed[c] = Run(c, 0, a) /\ readFrom[c] = a + n /\ n \in Nat
    BY <2>1 DEF Data
  <2>3. (IF buf # <<>> /\ files[client[i]] = c THEN buf ELSE <<>>) = Run(c, a, n)
    <3>1. CASE buf # <<>> /\ files[client[i]] = c
      BY <3>1 DEF Data
    <3>2. CASE ~ (buf # <<>> /\ files[client[i]] = c)
      BY <2>1, <3>2, RunType
    <3> QED
      BY <3>1, <3>2
  <2>4. Run(c, 0, readFrom[c]) = [k \in 1..readFrom[c] |-> <<c, k>>]
    <3>1. readFrom[c] \in Nat
      BY DEF SockType
    <3> QED
      BY <3>1 DEF Run
  <2> HIDE DEF a, n
  <2> QED
    BY <2>1, <2>2, <2>3, <2>4, RunConcat
<1> QED
  BY <1>1, AlwaysInside, PTL

(* err_sys ends the server only over a broken connection it holds, or for   *)
(* want of descriptors or memory; the program that does not check accept    *)
(* also ends for a connection reset before accept, through FD_SET(-1).      *)
THEOREM FailuresExplained == Spec => []FailureExplained
<1>1. IInv => FailureExplained
  BY DEF IInv
<1> QED
  BY <1>1, AlwaysInside, PTL

(* accept blocks only when the connection select reported was reset before  *)
(* accept took it.                                                          *)
THEOREM StuckOnlyByAborts == Spec => []StuckOnlyByAbort
<1>1. IInv => StuckOnlyByAbort
  BY DEF IInv, Pass, StuckOnlyByAbort, StuckInAccept
<1> QED
  BY <1>1, AlwaysInside, PTL

(* server_2_pselect, which blocks SIGINT outside pselect, exits between two *)
(* passes with nothing read and not echoed.  server_2_select does not block *)
(* it, and this is false there.                                             *)
THEOREM CleanExits ==
  ASSUME SigintBlocked
  PROVE  Spec => []CleanExit
<1>1. IInv => CleanExit
  <2> SUFFICES ASSUME IInv, pc = "exited"
               PROVE  buf = <<>> /\ \A c \in Clients : Len(echoed[c]) = readFrom[c]
    BY DEF CleanExit
  <2>1. buf = <<>>
    BY SigintBlocked DEF IInv, Data
  <2>2. \A c \in Clients : Len(echoed[c]) \in Nat
    BY LenProperties DEF IInv, SockType
  <2> QED
    BY <2>1, <2>2 DEF IInv, Data
<1> QED
  BY <1>1, AlwaysInside, PTL
=============================================================================
