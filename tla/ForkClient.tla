----------------------------- MODULE ForkClient -----------------------------
(***************************************************************************)
(* The echo clients that fork: the parent copies standard input to the     *)
(* socket, the child copies the socket to standard output and tells the    *)
(* parent, with SIGTERM, that it has seen the end of file.                 *)
(*                                                                         *)
(*   "tcpcli2"  nonblock_tcpcli2: a blocking connect;                      *)
(*   "connect"  nonblock_connect: connect_nonblocking, then the same loop  *)
(*              with the received bytes terminated.                        *)
(*                                                                         *)
(* Parent and child share one open socket: its O_NONBLOCK flag, its        *)
(* pending error.  Lines are units, numbered in the order they are typed,  *)
(* and the server echoes them in that order.                               *)
(***************************************************************************)
EXTENDS Naturals, Sequences

CONSTANTS
  Programs,   \* the clients to consider
  MaxLines,   \* bound: lines typed
  MAXLINE,    \* units recvline holds
  Cap,        \* units a socket's send and receive buffers hold, one way
  Faults      \* what may break: standard input, standard output, the connection

ASSUME ForkClientAssumption ==
  /\ Programs \subseteq {"tcpcli2", "connect"}
  /\ Faults \subseteq {"stdin", "stdout", "sock"}
  /\ MaxLines \in Nat \ {0} /\ MAXLINE \in Nat \ {0} /\ Cap \in Nat \ {0}

VARIABLES
  program,
  ppc,       \* parent: "connect", "select", "restore", "fork", "gets", "writen",
             \* "pause"; "killed" (SIGTERM), "failed" (err_sys, SIGPIPE)
  cpc,       \* child: "none", "read", "kill"; "exited", "failed"
  conn,      \* "none", "pending", "up", "refused"
  nonblock,  \* O_NONBLOCK of the socket
  typed, closed,   \* lines on standard input so far, and its end
  taken,     \* lines Fgets has returned
  written,   \* units written to the socket
  fin,       \* Shutdown was called
  srvRead, echoed, srv,   \* the server: units read, written back; "up",
             \* "finished" (closed at the FIN), "died"
  err,       \* a reset, or a time-out: "no", "pending" (for the next call), "taken"
  faulty,    \* what has broken
  recvd,     \* units read from the socket
  line,      \* recvline, and the unit of the stack that follows it
  out,       \* what was put on standard output
  stray      \* SIGTERM was sent to a process that is not the parent

connVars == <<conn, nonblock>>
inVars   == <<typed, closed>>
parVars  == <<taken, written, fin>>
srvVars  == <<srvRead, echoed, srv, faulty>>
outVars  == <<recvd, line, out>>
vars == <<program, ppc, cpc, connVars, inVars, parVars, srvVars, err, outVars, stray>>

Nul  == 0
Lost == "sock" \in faulty
Junk == MaxLines + 1       \* a unit of the stack that was never written
ParentEnded == ppc \in {"killed", "failed"}
ChildEnded  == cpc \in {"exited", "failed"}

Init ==
  /\ program \in Programs
  /\ ppc = "connect" /\ cpc = "none" /\ conn = "none" /\ nonblock = FALSE
  /\ typed = 0 /\ closed = FALSE /\ taken = 0 /\ written = 0 /\ fin = FALSE
  /\ srvRead = 0 /\ echoed = 0 /\ srv = "up" /\ err = "no" /\ faulty = {}
  /\ recvd = 0 /\ line \in [1..(MAXLINE + 1) -> {Nul, Junk}] /\ out = <<>>
  /\ stray = FALSE

-----------------------------------------------------------------------------
(* Connecting. *)

(* Connect ("tcpcli2") blocks; connect_nonblocking first sets O_NONBLOCK,   *)
(* and the connection may be there at once.                                 *)
Connect ==
  /\ ppc = "connect" /\ conn = "none"
  /\ nonblock' = (program = "connect")
  /\ \/ conn' = "pending" /\ ppc' = IF program = "connect" THEN "select" ELSE "connect"
     \/ conn' = "up" /\ ppc' = IF program = "connect" THEN "restore" ELSE "fork"
     \/ conn' = "refused" /\ ppc' = "failed"
  /\ UNCHANGED <<program, cpc, inVars, parVars, srvVars, err, outVars, stray>>

(* A blocking connect returns; select(..., NULL) finds the socket readable  *)
(* or writable, and SO_ERROR tells whether the connection failed.           *)
ConnectReturns ==
  /\ ppc \in {"connect", "select"} /\ conn \in {"up", "refused"}
  /\ ppc' = IF program = "connect" THEN "restore"
            ELSE IF conn = "up" THEN "fork" ELSE "failed"
  /\ UNCHANGED <<program, cpc, connVars, inVars, parVars, srvVars, err, outVars, stray>>

(* Mutant: the flags are not restored. *)
FlagsKept ==
  /\ ppc = "restore"
  /\ ppc' = IF conn = "up" THEN "fork" ELSE "failed"
  /\ UNCHANGED <<program, cpc, connVars, inVars, parVars, srvVars, err, outVars, stray>>

(* The flags are restored, whatever the error was. *)
RestoreFlags ==
  /\ ppc = "restore"
  /\ nonblock' = FALSE
  /\ ppc' = IF conn = "up" THEN "fork" ELSE "failed"
  /\ UNCHANGED <<program, cpc, conn, inVars, parVars, srvVars, err, outVars, stray>>

Fork ==
  /\ ppc = "fork"
  /\ \/ ppc' = "gets" /\ cpc' = "read"
     \/ ppc' = "failed" /\ UNCHANGED cpc
  /\ UNCHANGED <<program, connVars, inVars, parVars, srvVars, err, outVars, stray>>

-----------------------------------------------------------------------------
(* The parent. *)

(* Mutant: the parent leaves the shutdown to its exit, as if the child had  *)
(* no descriptor for the socket.                                            *)
ParentGetsNoShutdown ==
  /\ ppc = "gets"
  /\ \/ taken < typed /\ taken' = taken + 1 /\ ppc' = "writen" /\ UNCHANGED fin
     \/ /\ taken = typed /\ closed
        /\ ppc' = "pause"
        /\ UNCHANGED <<taken, fin>>
     \/ "stdin" \in faulty /\ ppc' = "failed" /\ UNCHANGED <<taken, fin>>
  /\ UNCHANGED <<program, cpc, connVars, inVars, written, srvVars, err, outVars, stray>>

(* Fgets, which may fail; at end of file Shutdown (an error after a reset), *)
(* then pause.                                                              *)
ParentGets ==
  /\ ppc = "gets"
  /\ \/ taken < typed /\ taken' = taken + 1 /\ ppc' = "writen" /\ UNCHANGED fin
     \/ /\ taken = typed /\ closed
        /\ fin' = TRUE
        /\ ppc' = IF err # "no" THEN "failed" ELSE "pause"
        /\ UNCHANGED taken
     \/ "stdin" \in faulty /\ ppc' = "failed" /\ UNCHANGED <<taken, fin>>
  /\ UNCHANGED <<program, cpc, connVars, inVars, written, srvVars, err, outVars, stray>>

(* Writen waits for room (on a non-blocking socket it fails).  A server     *)
(* that has died answers with a reset, after which writing fails.           *)
ParentWrites ==
  /\ ppc = "writen"
  /\ \/ /\ srv = "up" /\ ~Lost /\ (written - srvRead < Cap \/ nonblock)
        /\ IF written - srvRead < Cap THEN written' = written + 1 /\ ppc' = "gets"
                                     ELSE ppc' = "failed" /\ UNCHANGED written
        /\ UNCHANGED err
     \/ /\ srv # "up" \/ Lost
        /\ err' = IF err = "no" THEN "pending" ELSE "taken"
        /\ ppc' = IF err = "no" THEN "gets" ELSE "failed"
        /\ UNCHANGED written
  /\ UNCHANGED <<program, cpc, connVars, inVars, taken, fin, srvVars, outVars, stray>>

Parent == Connect \/ ConnectReturns \/ RestoreFlags \/ Fork \/ ParentGets \/ ParentWrites

-----------------------------------------------------------------------------
(* The child. *)

(* The string in recvline, which runs on until a NUL. *)
Terminated(l) ==
  LET n == CHOOSE m \in 0..(MAXLINE + 1) : /\ \A j \in 1..m : l[j] # Nul
                                           /\ m = MAXLINE + 1 \/ l[m + 1] = Nul
  IN SubSeq(l, 1, n)

(* Mutant: nothing is terminated when the read has filled recvline. *)
AfterShortReadOnly(n) ==
  LET l == [j \in DOMAIN line |-> IF j <= n THEN recvd + j ELSE line[j]] IN
  IF program = "connect" /\ n < MAXLINE THEN [l EXCEPT ![n + 1] = Nul] ELSE l

(* recvline after a read of n units.  Only "connect" terminates it, in the  *)
(* place of the last unit when the read has filled it.                      *)
AfterRead(n) ==
  LET l == [j \in DOMAIN line |-> IF j <= n THEN recvd + j ELSE line[j]] IN
  IF program = "connect" THEN [l EXCEPT ![IF n < MAXLINE THEN n + 1 ELSE MAXLINE] = Nul]
                         ELSE l

SmallerOf(a, b) == IF a < b THEN a ELSE b

(* Read and Fputs, which either fails (err_sys, SIGPIPE) or leaves the      *)
(* string to stdio, which may not find out before its buffer is full.       *)
ChildCopies ==
  /\ cpc = "read" /\ recvd < echoed
  /\ \E n \in 1..SmallerOf(MAXLINE, echoed - recvd) :
       recvd' = recvd + n /\ line' = AfterRead(n)
  /\ \/ out' = out \o Terminated(line') /\ UNCHANGED cpc
     \/ "stdout" \in faulty /\ cpc' = "failed" /\ UNCHANGED out
  /\ UNCHANGED <<program, ppc, connVars, inVars, parVars, srvVars, err, stray>>

(* Read returns 0 at the end of file; it fails (err_sys, without a word to  *)
(* the parent) when an error is pending, or when it would have to wait and  *)
(* the socket is non-blocking.  An error may overtake bytes.                *)
ChildSeesEnd ==
  /\ cpc = "read"
  /\ \/ recvd = echoed /\ (srv # "up" \/ nonblock)
     \/ err = "pending" \/ Lost
  /\ cpc' = IF (srv # "up" \/ Lost) /\ err # "pending" THEN "kill" ELSE "failed"
  /\ err' = IF err = "pending" THEN "taken" ELSE err
  /\ UNCHANGED <<program, ppc, connVars, inVars, parVars, srvVars, outVars, stray>>

(* kill(getppid(), SIGTERM): if the parent has ended, the child's parent is *)
(* another process by now.                                                  *)
ChildKills ==
  /\ cpc = "kill"
  /\ cpc' = "exited"
  /\ IF ParentEnded THEN stray' = TRUE /\ UNCHANGED ppc
                    ELSE ppc' = "killed" /\ UNCHANGED stray
  /\ UNCHANGED <<program, connVars, inVars, parVars, srvVars, err, outVars>>

Child == ChildCopies \/ ChildSeesEnd \/ ChildKills

-----------------------------------------------------------------------------
(* The user, the network, the echo server, and what may break. *)

Type ==
  /\ ~closed /\ ~ParentEnded
  /\ \/ typed < MaxLines /\ typed' = typed + 1 /\ UNCHANGED closed
     \/ closed' = TRUE /\ UNCHANGED typed
  /\ UNCHANGED <<program, ppc, cpc, connVars, parVars, srvVars, err, outVars, stray>>

Establish ==
  /\ conn = "pending" /\ conn' \in {"up", "refused"}
  /\ UNCHANGED <<program, ppc, cpc, nonblock, inVars, parVars, srvVars, err, outVars, stray>>

ServerReads ==
  /\ conn = "up" /\ srv = "up" /\ ~Lost /\ srvRead = echoed
  /\ \/ \E n \in 1..(written - srvRead) : srvRead' = srvRead + n /\ UNCHANGED srv
     \/ srvRead = written /\ fin /\ srv' = "finished" /\ UNCHANGED srvRead
  /\ UNCHANGED <<program, ppc, cpc, connVars, inVars, parVars, echoed, faulty, err, outVars, stray>>

ServerWrites ==
  /\ srv = "up" /\ ~Lost
  /\ \E n \in 1..(srvRead - echoed) : echoed + n - recvd <= Cap /\ echoed' = echoed + n
  /\ UNCHANGED <<program, ppc, cpc, connVars, inVars, parVars, srvRead, srv, faulty, err, outVars, stray>>

(* The server process ends; units it has not read make that a reset. *)
ServerDies ==
  /\ conn = "up" /\ srv = "up" /\ ~Lost
  /\ srv' = "died" /\ err' = IF srvRead < written THEN "pending" ELSE err
  /\ UNCHANGED <<program, ppc, cpc, connVars, inVars, parVars, srvRead, echoed, faulty, outVars, stray>>

(* A terminal hangs up, a disk is full, the reader of a pipe has gone, the  *)
(* network does not acknowledge any more.                                   *)
Break(f) ==
  /\ f \in Faults \ faulty /\ conn = "up"
  /\ faulty' = faulty \cup {f}
  /\ err' = IF f = "sock" /\ err = "no" THEN "pending" ELSE err
  /\ UNCHANGED <<program, ppc, cpc, connVars, inVars, parVars, srvRead, echoed, srv, outVars, stray>>

SomethingBreaks == \E f \in Faults : Break(f)

Server == ServerReads \/ ServerWrites

Next == Parent \/ Child \/ Type \/ Establish \/ Server \/ ServerDies \/ SomethingBreaks

(* The processes run, and an attempt to connect comes to an end; the user   *)
(* need not type, the server need not die and nothing need break.           *)
Fairness == WF_vars(Parent) /\ WF_vars(Child) /\ WF_vars(Establish) /\ WF_vars(Server)

Spec == Init /\ [][Next]_vars /\ Fairness

-----------------------------------------------------------------------------
(* Properties. *)

(* "connect" puts on its output what the server sent, in order and once;    *)
(* until Fputs has failed, only the last unit of a read that fills recvline *)
(* can be missing.  "tcpcli2" does not terminate recvline, and shows what   *)
(* is left in it.                                                           *)
OutputExplained ==
  program = "connect" =>
    /\ \A j \in DOMAIN out : out[j] \in 1..recvd
    /\ \A j, k \in DOMAIN out : j < k => out[j] < out[k]
    /\ cpc # "failed" \/ "stdout" \notin faulty =>
         LET missing == {u \in 1..recvd : \A j \in DOMAIN out : out[j] # u} IN
         \A v \in missing : \A u \in {0} \cup missing : u < v => v - u >= MAXLINE

(* Each process fails only for a reason of its own: the child for an error  *)
(* of the connection or of standard output; the parent for a connection     *)
(* refused or not shared (Fork), an error of it, or one of standard input;  *)
(* neither because of the other's O_NONBLOCK.  The parent is killed before  *)
(* the end of its input, or SIGTERM goes astray, only when the server has   *)
(* died or cannot be reached; and a server that ends in order has had       *)
(* everything it sent back read.                                            *)
EndsExplained ==
  /\ cpc = "failed" => err # "no" \/ "stdout" \in faulty
  /\ ppc = "failed" => conn = "refused" \/ cpc = "none" \/ err # "no" \/ "stdin" \in faulty
  /\ ppc = "killed" /\ ~fin => srv = "died" \/ Lost
  /\ stray => srv = "died" \/ Lost
  /\ cpc = "exited" /\ srv = "finished" /\ ~Lost => recvd = typed

(* The child has failed, which does not tell the parent: it waits in Fgets, *)
(* in Writen (nobody reads what the server sends back) or in pause.         *)
ParentLeftAlone == cpc = "failed" /\ ~ParentEnded

(* The parent has failed on its input, without the FIN that Shutdown sends: *)
(* the child shares the socket, which stays open, and waits in Read.        *)
ChildLeftAlone == ppc = "failed" /\ "stdin" \in faulty /\ ~fin /\ cpc = "read"

(* Once the input has ended, or the server has died, both processes end;    *)
(* unless one of them has failed and left the other alone.                  *)
BothEnd ==
  (closed \/ (cpc # "none" /\ srv = "died"))
    ~> \/ ParentLeftAlone \/ ChildLeftAlone
       \/ ParentEnded /\ (ChildEnded \/ cpc = "none")
=============================================================================
