---------------------------- MODULE WorkerServer ----------------------------
(***************************************************************************)
(* The servers that give every connection a worker of its own: a child     *)
(* process (server_-1, server_0, server_01, server2_sum,                   *)
(* server_4_sock_owner, unix_domain_srv1, unix_domain_srv2_credentials) or *)
(* a thread (threads_srv1, threads_srv2_portable).                         *)
(*                                                                         *)
(*   "echo"   children that write back the bytes they read (the servers of *)
(*            Unix domain sockets);                                        *)
(*   "greet"  the same, after a line of their own (server_01);             *)
(*   "nul"    children that put a NUL behind the bytes in line[], and echo *)
(*            strlen(line) of them (server_-1);                            *)
(*   "string" the same, without that NUL (server_4_sock_owner): what       *)
(*            line[] held before may follow the bytes;                     *)
(*   "sum"    children that answer what they read with a line of their own *)
(*            (server_0, server2_sum);                                     *)
(*   "value"  echoing threads given their descriptor as the value of a     *)
(*            pointer;                                                     *)
(*   "heap"   echoing threads given a pointer to a Malloc'ed int they free.*)
(*                                                                         *)
(* A worker is named after the connection it was started for.  A process's *)
(* descriptor table is the set of connections it holds; a thread's table   *)
(* is main's.  A socket is closed when no process holds it.                *)
(***************************************************************************)
EXTENDS Naturals, Sequences, FiniteSets

CONSTANTS
  Clients,    \* each makes at most one connection
  Readers,    \* the clients that go on reading; the others read nothing
  Programs,   \* the kinds of server to consider
  MaxSend,    \* bound: units a client sends
  Brief,      \* bound: clients that send one unit only
  Window      \* units a connection holds that its client has not read

Strings  == {"nul", "string"}
Forking  == {"echo", "greet", "sum"} \cup Strings
Threaded == {"value", "heap"}
ASSUME WorkerAssumption ==
  /\ IsFiniteSet(Clients) /\ Clients \cap {"main", "nobody", "free", "raw"} = {}
  /\ Readers \subseteq Clients /\ Brief \subseteq Clients
  /\ Programs \subseteq Forking \cup Threaded
  /\ MaxSend \in Nat \ {0} /\ Window \in Nat \ {0}

VARIABLES
  program,
  mpc,        \* main: "malloc", "accept", "spawn", "close"; "ended"
  connfd,     \* main's connfd: the connection accepted last
  iptr,       \* "heap": the cell main has allocated
  heap,       \* of each cell: "free", "raw", or the connection stored in it
  handling,   \* main is in sig_chld
  chld,       \* a SIGCHLD is pending: one bit, however many children ended
  wpc,        \* of each worker: "none", "start", "read", "write", "close",
              \* "done"; a child ends as "zombie" and is then "reaped"
  arg,        \* what a worker was started with: a connection, or a cell
  sock,       \* the connection a worker serves
  buf,        \* what a worker is about to write
  line,       \* "nul", "string": line[], and the unit of the stack behind it
  holders,    \* of each connection: the processes with a descriptor for it
  listeners,  \* the processes with a descriptor for the listening socket
  conn,       \* "none", "queued", "accepted"
  sent, fin, rst,   \* units the client sent, and how it ended
  taken,      \* units of a connection the server has read
  got,        \* units the client was sent, in order
  interrupted \* the children that SIGINT ended

mainVars   == <<program, mpc, connfd, iptr>>
signalVars == <<handling, chld>>
workVars   == <<arg, sock, buf, line>>
tableVars  == <<holders, listeners>>
clientVars == <<conn, sent, fin, rst>>
vars == <<mainVars, heap, signalVars, wpc, workVars, tableVars, clientVars, taken, got,
          interrupted>>

Cells == 1..(Cardinality(Clients) + 1)
Nul   == <<"nul", 0>>
Junk  == <<"junk", 0>>     \* a byte of the stack that was never written
Own(c, k) == <<c, k>>      \* what client c sent; k = 0: a line of the server's to it
Units == (Clients \X (0..MaxSend)) \cup {Junk}
Nobody == "nobody"
IsForking == program \in Forking
Proc(c) == IF IsForking THEN c ELSE "main"
FirstStep == IF program = "heap" THEN "malloc" ELSE "accept"
MainRuns(label) == mpc = label /\ ~handling

(* line[] is not initialised: what it holds past its first byte, which the  *)
(* first read overwrites, is whatever the stack of main held at the fork,   *)
(* NULs or other bytes.                                                     *)
Init ==
  /\ program \in Programs
  /\ mpc = FirstStep /\ connfd = Nobody /\ iptr = 0
  /\ heap = [n \in Cells |-> "free"]
  /\ handling = FALSE /\ chld = FALSE
  /\ wpc = [c \in Clients |-> "none"]
  /\ arg = [c \in Clients |-> 0] /\ sock = [c \in Clients |-> Nobody]
  /\ buf = [c \in Clients |-> <<>>]
  /\ \E behind \in IF program = "string" THEN {Nul, Junk} ELSE {Nul} :
       line = [c \in Clients |-> [k \in 1..MaxSend + 1 |-> IF k = 1 THEN Nul ELSE behind]]
  /\ holders = [c \in Clients |-> {}] /\ listeners = {"main"}
  /\ conn = [c \in Clients |-> "none"]
  /\ sent = [c \in Clients |-> 0] /\ taken = [c \in Clients |-> 0]
  /\ fin = [c \in Clients |-> FALSE] /\ rst = [c \in Clients |-> FALSE]
  /\ got = [c \in Clients |-> <<>>]
  /\ interrupted = {}

-----------------------------------------------------------------------------
(* How a process ends: by exit(0), err_sys or a signal; the kernel closes   *)
(* its descriptors, and what it had in memory is gone.                      *)

Drop(p) ==
  /\ holders' = [d \in Clients |-> holders[d] \ {p}]
  /\ listeners' = listeners \ {p}

(* A child's end leaves a zombie and raises SIGCHLD in main; once main is   *)
(* gone init reaps it.                                                      *)
ChildEnds(c) ==
  /\ Drop(c)
  /\ wpc' = [wpc EXCEPT ![c] = IF mpc = "ended" THEN "reaped" ELSE "zombie"]
  /\ chld' = (mpc # "ended")
  /\ line' = [line EXCEPT ![c] = [k \in 1..MaxSend + 1 |-> Nul]]
  /\ UNCHANGED <<mainVars, heap, handling, arg, sock, buf, clientVars, taken, got>>

(* Children outlive main; threads do not. *)
MainEnds ==
  /\ mpc' = "ended" /\ connfd' = Nobody
  /\ Drop("main")
  /\ wpc' = [c \in Clients |->
               CASE wpc[c] = "zombie" -> "reaped"
                 [] ~IsForking /\ wpc[c] # "none" -> "done"
                 [] OTHER -> wpc[c]]
  /\ handling' = FALSE /\ chld' = FALSE
  /\ UNCHANGED <<program, iptr, heap, workVars, clientVars, taken, got, interrupted>>

WorkerFails(c) ==
  IF IsForking THEN ChildEnds(c) /\ UNCHANGED interrupted ELSE MainEnds

-----------------------------------------------------------------------------
(* main.  The listening queue is a set: a connection of it is accepted.     *)

(* Any free cell will do: cells differ in their names only. *)
MainMalloc ==
  /\ MainRuns("malloc")
  /\ \E n \in Cells :
       /\ heap[n] = "free" /\ \A m \in Cells : heap[m] = "free" => n <= m
       /\ iptr' = n /\ heap' = [heap EXCEPT ![n] = "raw"]
  /\ mpc' = "accept"
  /\ UNCHANGED <<program, connfd, signalVars, wpc, workVars, tableVars, clientVars, taken, got, interrupted>>

MainAccept ==
  /\ MainRuns("accept")
  /\ \E c \in Clients :
       /\ conn[c] = "queued"
       /\ conn' = [conn EXCEPT ![c] = "accepted"]
       /\ holders' = [holders EXCEPT ![c] = {"main"}]
       /\ connfd' = c
       /\ heap' = IF program = "heap" THEN [heap EXCEPT ![iptr] = c] ELSE heap
  /\ mpc' = "spawn"
  /\ UNCHANGED <<program, iptr, signalVars, wpc, workVars, listeners, sent, fin, rst, taken, got, interrupted>>

(* An accept that fails (no descriptors, an aborted connection) is fatal;   *)
(* server_4_sock_owner tries again instead, which changes nothing here.     *)
MainAcceptFails ==
  /\ MainRuns("accept")
  /\ \E c \in Clients : conn[c] = "queued"
  /\ MainEnds

(* Mutant: the next accept stores into the cell a thread was given, as it   *)
(* would if the threads were given &connfd.                                 *)
SpawnSharesCell ==
  /\ MainRuns("spawn")
  /\ wpc' = [wpc EXCEPT ![connfd] = "start"]
  /\ arg' = [arg EXCEPT ![connfd] = IF program = "heap" THEN iptr ELSE connfd]
  /\ IF IsForking
       THEN /\ holders' = [d \in Clients |-> IF "main" \in holders[d]
                                             THEN holders[d] \cup {connfd} ELSE holders[d]]
            /\ listeners' = listeners \cup {connfd}
            /\ mpc' = "close"
       ELSE UNCHANGED tableVars /\ mpc' = "accept"
  /\ UNCHANGED <<program, connfd, iptr, heap, signalVars, sock, buf, line, clientVars, taken, got, interrupted>>

(* Fork copies main's descriptors; Pthread_create passes an argument.       *)
MainSpawn ==
  /\ MainRuns("spawn")
  /\ wpc' = [wpc EXCEPT ![connfd] = "start"]
  /\ arg' = [arg EXCEPT ![connfd] = IF program = "heap" THEN iptr ELSE connfd]
  /\ IF IsForking
       THEN /\ holders' = [d \in Clients |-> IF "main" \in holders[d]
                                             THEN holders[d] \cup {connfd} ELSE holders[d]]
            /\ listeners' = listeners \cup {connfd}
            /\ mpc' = "close"
       ELSE UNCHANGED tableVars /\ mpc' = FirstStep
  /\ UNCHANGED <<program, connfd, iptr, heap, signalVars, sock, buf, line, clientVars, taken, got, interrupted>>

MainSpawnFails ==
  /\ MainRuns("spawn")
  /\ MainEnds

(* The parent closes the connected socket. *)
MainClose ==
  /\ MainRuns("close")
  /\ holders' = [holders EXCEPT ![connfd] = @ \ {"main"}]
  /\ mpc' = "accept"
  /\ UNCHANGED <<program, connfd, iptr, heap, signalVars, wpc, workVars, listeners,
                 clientVars, taken, got, interrupted>>

Main == MainMalloc \/ MainAccept \/ MainAcceptFails \/ MainSpawn \/ MainSpawnFails \/ MainClose

(* SIGINT, by its handler (server_-1, server_4_sock_owner) or by default.   *)
(* Children inherit either.  Sent to one process, or from the terminal to   *)
(* all, each of which takes it at a time of its own.                        *)
Interrupt == mpc # "ended" /\ MainEnds

InterruptChild(c) ==
  /\ IsForking /\ wpc[c] \in {"start", "read", "write"}
  /\ ChildEnds(c)
  /\ interrupted' = interrupted \cup {c}

(* sig_chld interrupts main anywhere; SIGCHLD is blocked while it runs, and *)
(* accept is restarted, or returns EINTR and is called again.               *)
SigChld ==
  /\ chld /\ ~handling
  /\ handling' = TRUE /\ chld' = FALSE
  /\ UNCHANGED <<mainVars, heap, wpc, workVars, tableVars, clientVars, taken, got, interrupted>>

(* Mutant: waitpid is called once (if for while). *)
ReapOnce ==
  /\ handling
  /\ \E c \in Clients : wpc[c] = "zombie" /\ wpc' = [wpc EXCEPT ![c] = "reaped"]
  /\ handling' = FALSE
  /\ UNCHANGED <<mainVars, heap, chld, workVars, tableVars, clientVars, taken, got, interrupted>>

(* waitpid(-1, WNOHANG) returns some child that has ended ... *)
Reap ==
  /\ handling
  /\ \E c \in Clients : wpc[c] = "zombie" /\ wpc' = [wpc EXCEPT ![c] = "reaped"]
  /\ UNCHANGED <<mainVars, heap, signalVars, workVars, tableVars, clientVars, taken, got, interrupted>>

(* ... or that there is none. *)
HandlerReturns ==
  /\ handling /\ \A c \in Clients : wpc[c] # "zombie"
  /\ handling' = FALSE
  /\ UNCHANGED <<mainVars, heap, chld, wpc, workVars, tableVars, clientVars, taken, got, interrupted>>

Handler == SigChld \/ Reap \/ HandlerReturns

-----------------------------------------------------------------------------
(* Workers. *)

(* Mutant: a worker reads its descriptor from main's variable connfd. *)
StartReadsConnfd(c) ==
  /\ wpc[c] = "start"
  /\ wpc' = [wpc EXCEPT ![c] = IF program = "greet" THEN "write" ELSE "read"]
  /\ sock' = [sock EXCEPT ![c] = connfd]
  /\ heap' = IF program = "heap" THEN [heap EXCEPT ![arg[c]] = "free"] ELSE heap
  /\ buf' = [buf EXCEPT ![c] = IF program = "greet" THEN <<Own(sock'[c], 0)>> ELSE @]
  /\ listeners' = listeners \ (IF IsForking THEN {c} ELSE {})
  /\ UNCHANGED <<mainVars, signalVars, arg, line, holders, clientVars, taken, got, interrupted>>

(* A child closes listenfd, and may have a line to write; a thread copies   *)
(* its descriptor and frees the cell it came in.                            *)
WorkerStart(c) ==
  /\ wpc[c] = "start"
  /\ wpc' = [wpc EXCEPT ![c] = IF program = "greet" THEN "write" ELSE "read"]
  /\ sock' = [sock EXCEPT ![c] = IF program = "heap" THEN heap[arg[c]] ELSE arg[c]]
  /\ heap' = IF program = "heap" THEN [heap EXCEPT ![arg[c]] = "free"] ELSE heap
  /\ buf' = [buf EXCEPT ![c] = IF program = "greet" THEN <<Own(sock'[c], 0)>> ELSE @]
  /\ listeners' = listeners \ (IF IsForking THEN {c} ELSE {})
  /\ UNCHANGED <<mainVars, signalVars, arg, line, holders, clientVars, taken, got, interrupted>>

(* The string in line[]: what precedes the first NUL. *)
Terminated(l) ==
  LET n == CHOOSE k \in 0..(MaxSend + 1) : /\ \A j \in 1..k : l[j] # Nul
                                           /\ k = MaxSend + 1 \/ l[k + 1] = Nul
  IN SubSeq(l, 1, n)

(* The next n units of client d.  Any may be a NUL, which only strlen tells *)
(* from other units.                                                        *)
Input(d, n) ==
  {[k \in 1..n |-> IF k \in nuls THEN Nul ELSE Own(d, taken[d] + k)] :
     nuls \in IF program \in Strings THEN SUBSET (1..n) ELSE {{}}}

(* line[] after a read; server_-1 then sets line[n] to 0.                   *)
AfterRead(l, bytes) ==
  [k \in DOMAIN l |->
     IF k <= Len(bytes) THEN bytes[k]
     ELSE IF k = Len(bytes) + 1 /\ program = "nul" THEN Nul ELSE l[k]]

WorkerReads(c) ==
  LET d == sock[c] IN
  /\ wpc[c] = "read" /\ taken[d] < sent[d]
  /\ \E n \in 1..(sent[d] - taken[d]) : \E bytes \in Input(d, n) :
       /\ taken' = [taken EXCEPT ![d] = @ + n]
       /\ line' = IF program \in Strings
                    THEN [line EXCEPT ![c] = AfterRead(@, bytes)] ELSE line
       /\ buf' = [buf EXCEPT ![c] = CASE program \in Strings -> Terminated(line'[c])
                                      [] program = "sum" -> <<Own(d, 0)>>
                                      [] OTHER -> bytes]
  /\ wpc' = [wpc EXCEPT ![c] = "write"]
  /\ UNCHANGED <<mainVars, heap, signalVars, arg, sock, tableVars, clientVars, got, interrupted>>

(* End of file: a child exits, a thread goes on to close its descriptor.    *)
WorkerSeesEnd(c) ==
  LET d == sock[c] IN
  /\ wpc[c] = "read" /\ taken[d] = sent[d] /\ fin[d] /\ ~rst[d]
  /\ IF IsForking
       THEN ChildEnds(c) /\ UNCHANGED interrupted
       ELSE /\ wpc' = [wpc EXCEPT ![c] = "close"]
            /\ UNCHANGED <<mainVars, heap, signalVars, workVars, tableVars, clientVars,
                           taken, got, interrupted>>

(* ECONNRESET from read, also when Writen waits; EPIPE (and SIGPIPE).       *)
WorkerSeesReset(c) ==
  /\ wpc[c] \in {"read", "write"} /\ rst[sock[c]]
  /\ WorkerFails(c)

(* Writen waits for room while there is something left to write; a client   *)
(* that goes on reading makes some.                                         *)
WorkerWrites(c) ==
  LET d == sock[c] IN
  /\ wpc[c] = "write" /\ ~rst[d]
  /\ IF buf[c] = <<>>
       THEN UNCHANGED <<got, buf>>
       ELSE /\ d \in Readers \/ Len(got[d]) < Window
            /\ got' = [got EXCEPT ![d] = Append(@, Head(buf[c]))]
            /\ buf' = [buf EXCEPT ![c] = Tail(@)]
  /\ wpc' = [wpc EXCEPT ![c] = IF Len(buf[c]) <= 1 THEN "read" ELSE "write"]
  /\ UNCHANGED <<mainVars, heap, signalVars, arg, sock, line, tableVars, clientVars, taken,
                 interrupted>>

(* Mutant: doit returns without closing. *)
ThreadReturns(c) ==
  /\ wpc[c] = "close"
  /\ wpc' = [wpc EXCEPT ![c] = "done"]
  /\ UNCHANGED <<mainVars, heap, signalVars, workVars, tableVars, clientVars, taken, got, interrupted>>

ThreadCloses(c) ==
  /\ wpc[c] = "close"
  /\ holders' = [holders EXCEPT ![sock[c]] = @ \ {"main"}]
  /\ wpc' = [wpc EXCEPT ![c] = "done"]
  /\ UNCHANGED <<mainVars, heap, signalVars, workVars, listeners, clientVars, taken, got, interrupted>>

Worker(c) ==
  \/ WorkerStart(c) \/ WorkerReads(c) \/ WorkerSeesEnd(c) \/ WorkerSeesReset(c)
  \/ WorkerWrites(c) \/ ThreadCloses(c)

-----------------------------------------------------------------------------
(* Clients: they connect, send, half-close and may reset at any time.  What *)
(* they do after the server has closed their connection does not reach it.  *)

serverVars == <<mainVars, heap, signalVars, wpc, workVars, listeners, taken, got, holders,
                interrupted>>

Reaches(c) == ~rst[c] /\ (holders[c] # {} \/ (conn[c] = "queued" /\ listeners # {}))

Connect(c) ==
  /\ conn[c] = "none" /\ listeners # {}
  /\ conn' = [conn EXCEPT ![c] = "queued"]
  /\ UNCHANGED <<serverVars, sent, fin, rst>>

Send(c) ==
  /\ Reaches(c) /\ ~fin[c] /\ sent[c] < IF c \in Brief THEN 1 ELSE MaxSend
  /\ sent' = [sent EXCEPT ![c] = @ + 1]
  /\ UNCHANGED <<serverVars, conn, fin, rst>>

Finish(c) ==
  /\ Reaches(c) /\ ~fin[c]
  /\ fin' = [fin EXCEPT ![c] = TRUE]
  /\ UNCHANGED <<serverVars, conn, sent, rst>>

(* A reset, or a network that does not acknowledge any more; the client     *)
(* sends nothing after it.                                                  *)
Reset(c) ==
  /\ Reaches(c)
  /\ rst' = [rst EXCEPT ![c] = TRUE]
  /\ fin' = [fin EXCEPT ![c] = TRUE]
  /\ UNCHANGED <<serverVars, conn, sent>>

Client(c) == Connect(c) \/ Send(c) \/ Finish(c) \/ Reset(c)

Next ==
  \/ Main \/ Interrupt \/ Handler
  \/ \E c \in Clients : Worker(c) \/ InterruptChild(c) \/ Client(c)

(* Every process and thread keeps running; clients need do nothing.         *)
Fairness ==
  /\ WF_vars(Main) /\ WF_vars(Handler)
  /\ \A c \in Clients : WF_vars(Worker(c))

Spec == Init /\ [][Next]_vars /\ Fairness

-----------------------------------------------------------------------------
(* Properties. *)

TypeOK ==
  /\ program \in Programs
  /\ mpc \in {"malloc", "accept", "spawn", "close", "ended"}
  /\ connfd \in Clients \cup {Nobody} /\ iptr \in {0} \cup Cells
  /\ heap \in [Cells -> {"free", "raw"} \cup Clients]
  /\ handling \in BOOLEAN /\ chld \in BOOLEAN
  /\ wpc \in [Clients -> {"none", "start", "read", "write", "close", "done", "zombie", "reaped"}]
  /\ arg \in [Clients -> {0} \cup Cells \cup Clients]
  /\ sock \in [Clients -> Clients \cup {Nobody}]
  /\ buf \in [Clients -> Seq(Units)]
  /\ line \in [Clients -> [1..MaxSend + 1 -> Units \cup {Nul}]]
  /\ holders \in [Clients -> SUBSET (Clients \cup {"main"})]
  /\ listeners \subseteq Clients \cup {"main"}
  /\ conn \in [Clients -> {"none", "queued", "accepted"}]
  /\ sent \in [Clients -> 0..MaxSend] /\ taken \in [Clients -> 0..MaxSend]
  /\ fin \in [Clients -> BOOLEAN] /\ rst \in [Clients -> BOOLEAN]
  /\ got \in [Clients -> Seq(Units)]
  /\ interrupted \subseteq Clients

(* The lines of its own that a server has begun to write to client c.       *)
Greetings(c) == IF program = "greet" /\ sock[c] # Nobody THEN 1 ELSE 0

(* A client gets back what it sent, in order and without gaps, however      *)
(* accepts, thread starts and writes interleave.  From server_-1, which     *)
(* takes line[] for a string, some of it may be missing; server_4_sock_owner*)
(* may add stale bytes of its own stack; and what the sum servers answer is *)
(* no echo; but never are there bytes of another client.                    *)
EchoFaithful ==
  \A c \in Clients :
    CASE program \in {"string", "sum"} ->
           \A k \in DOMAIN got[c] : got[c][k] = Junk \/ got[c][k][1] = c
      [] program = "nul" ->
           LET all == got[c] \o buf[c] IN
           /\ \A k \in DOMAIN all : \E n \in 1..taken[c] : all[k] = Own(c, n)
           /\ \A j, k \in DOMAIN all : j < k => all[j][2] < all[k][2]
      [] OTHER ->
           got[c] \o buf[c] =
             [k \in 1..(Greetings(c) + taken[c]) |-> Own(c, k - Greetings(c))]

(* Every connection is held by the worker it was accepted for and by no     *)
(* other process, apart from main until it has closed its copy; only main   *)
(* and children that have just been forked hold the listening socket; every *)
(* allocated cell is main's, or that of one thread that has yet to read it. *)
ResourcesOwned ==
  /\ \A c \in Clients : wpc[c] \in {"read", "write", "close"} => sock[c] = c
  /\ \A c \in Clients :
       holders[c] = IF IsForking
         THEN {p \in {"main"} : mpc \in {"spawn", "close"} /\ connfd = c}
                \cup {p \in {c} : wpc[c] \in {"start", "read", "write"}}
         ELSE {p \in {"main"} : mpc # "ended" /\ conn[c] = "accepted" /\ wpc[c] # "done"}
  /\ listeners = {p \in {"main"} : mpc # "ended"}
                  \cup {c \in Clients : IsForking /\ wpc[c] = "start"}
  /\ program = "heap" /\ mpc # "ended" =>
       LET starting == {c \in Clients : wpc[c] = "start"}
           mine == {n \in {iptr} : mpc \in {"accept", "spawn"}} IN
       /\ {n \in Cells : heap[n] # "free"} = mine \cup {arg[c] : c \in starting}
       /\ \A c \in starting : arg[c] \notin mine /\ heap[arg[c]] = c

(* SIGCHLD is one bit, so the ends of several children may make one signal: *)
(* while some child has not been waited for, main is in the handler's loop  *)
(* or is about to enter it.                                                 *)
NoZombieForgotten == (\E c \in Clients : wpc[c] = "zombie") => chld \/ handling

(* Nothing is left of a connection and its worker; and what the client sent *)
(* was answered, unless the connection was reset or SIGINT ended the child. *)
Gone(c) ==
  /\ holders[c] = {}
  /\ wpc[c] \in {"done", "reaped"}
  /\ rst[c] \/ c \in interrupted \/ (taken[c] = sent[c] /\ buf[c] = <<>>)

(* A client that goes on reading, and says it has finished, is answered and *)
(* gets the end of file (no process keeps its connection open), and its     *)
(* worker is reaped, as is that of one that resets its connection.          *)
(* Another client that does not read cannot prevent that; nor can another   *)
(* client's reset, unless the workers are threads; nor can the end of main, *)
(* once a child has been forked.                                            *)
FinishedClientsLeaveNothing ==
  \A c \in Readers :
    fin[c] ~> Gone(c) \/ (mpc = "ended" /\ (~IsForking \/ wpc[c] = "none"))
=============================================================================
