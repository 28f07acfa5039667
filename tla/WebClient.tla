----------------------------- MODULE WebClient -----------------------------
(***************************************************************************)
(* nonblock_webclient: one process that reads a home page over a blocking  *)
(* connection, then fetches the other files over at most maxnconn          *)
(* non-blocking connections at a time.  Its bookkeeping is kept three      *)
(* times: in the flags of file[], in the descriptor sets rset and wset,    *)
(* and in the counters nconn, nlefttoconn and nlefttoread.                 *)
(*                                                                         *)
(* Replies are counted in reads of at most one reply unit; descriptors are *)
(* numbers, and socket() returns the lowest one that is not open.          *)
(***************************************************************************)
EXTENDS Naturals, FiniteSets

CONSTANTS
  nfiles,      \* files named on the command line, after the home page
  maxnconn,    \* connections allowed at a time
  NAddrs,      \* addresses the host name resolves to
  MaxReply,    \* bound: units of a server's reply
  ServersFail  \* whether a server may refuse or drop a connection

ASSUME WebAssumption ==
  /\ nfiles \in Nat \ {0} /\ maxnconn \in Nat \ {0}
  /\ NAddrs \in Nat \ {0} /\ MaxReply \in Nat /\ ServersFail \in BOOLEAN

VARIABLES
  pc,          \* the call the process is about to make, or how it ended
  addr,        \* addresses of the home page's server still to try
  homeRead,    \* units of the home page read
  i,           \* index in file[]: the entry the scan, or a GET, is at
  flags,       \* file[].f_flags: "none" is 0
  fd,          \* file[].f_fd
  rset, wset,  \* the global descriptor sets
  rs, ws,      \* the copies select left
  maxfd,       \* one above the highest descriptor asked about
  nconn, nlefttoconn, nlefttoread,
  open,        \* descriptors the process holds
  conn,        \* of each file's connection, in the kernel
  gets,        \* GET commands its server has received
  sent,        \* units of the reply its server has sent
  served,      \* its server has sent all of the reply, and closed
  got          \* units the process has read

bookVars == <<flags, fd, rset, wset, maxfd, nconn, nlefttoconn, nlefttoread, open>>
homeVars == <<addr, homeRead>>
netVars  == <<conn, gets, sent, served>>
vars == <<pc, homeVars, i, bookVars, rs, ws, netVars, got>>

Files == 1..nfiles
Ended == {"exited", "failed", "killed"}
LowestFree == CHOOSE d \in 1..(nfiles + 1) :
                d \notin open /\ \A e \in 1..(d - 1) : e \in open

Init ==
  /\ pc = "tcp_connect" /\ addr = NAddrs /\ homeRead = 0
  /\ i = 1
  /\ flags = [f \in Files |-> "none"] /\ fd = [f \in Files |-> 0]
  /\ rset = {} /\ wset = {} /\ rs = {} /\ ws = {} /\ maxfd = 0
  /\ nlefttoread = nfiles /\ nlefttoconn = nfiles /\ nconn = 0
  /\ open = {}
  /\ conn = [f \in Files |-> "none"] /\ gets = [f \in Files |-> 0]
  /\ sent = [f \in Files |-> 0] /\ served = [f \in Files |-> FALSE]
  /\ got = [f \in Files |-> 0]

-----------------------------------------------------------------------------
(* home_page: a blocking connection, tried at each address in turn. *)

HomeConnect ==
  /\ pc = "tcp_connect"
  /\ \/ pc' = "home_page" /\ open' = {LowestFree} /\ UNCHANGED addr
     \/ /\ ServersFail /\ addr > 0
        /\ addr' = addr - 1
        /\ pc' = IF addr' = 0 THEN "failed" ELSE "tcp_connect"
        /\ UNCHANGED open
  /\ UNCHANGED <<homeRead, i, flags, fd, rset, wset, maxfd, nconn, nlefttoconn,
                 nlefttoread, rs, ws, netVars, got>>

(* The GET is written and the reply read until end of file. *)
HomePage ==
  /\ pc = "home_page"
  /\ \/ homeRead < MaxReply /\ homeRead' = homeRead + 1 /\ UNCHANGED <<pc, open>>
     \/ pc' = "loop" /\ open' = {} /\ UNCHANGED homeRead
     \/ ServersFail /\ pc' = "failed" /\ UNCHANGED <<open, homeRead>>
  /\ UNCHANGED <<addr, i, flags, fd, rset, wset, maxfd, nconn, nlefttoconn,
                 nlefttoread, rs, ws, netVars, got>>

-----------------------------------------------------------------------------
(* The main loop. *)

Larger(a, b) == IF a > b THEN a ELSE b
Unstarted == {f \in Files : flags[f] = "none"}

(* Mutant: a connection that is under way is not counted until it is up. *)
ConnectInProgressUncounted(f) ==
  /\ flags' = [flags EXCEPT ![f] = "connecting"]
  /\ fd' = [fd EXCEPT ![f] = LowestFree] /\ open' = open \cup {LowestFree}
  /\ rset' = rset \cup {LowestFree} /\ wset' = wset \cup {LowestFree}
  /\ maxfd' = Larger(maxfd, LowestFree)
  /\ nlefttoconn' = nlefttoconn - 1
  /\ conn' = [conn EXCEPT ![f] = "pending"]
  /\ pc' = "loop"
  /\ UNCHANGED <<i, nconn>>

(* start_connect: connect() returns EINPROGRESS ... *)
ConnectInProgress(f) ==
  /\ flags' = [flags EXCEPT ![f] = "connecting"]
  /\ fd' = [fd EXCEPT ![f] = LowestFree] /\ open' = open \cup {LowestFree}
  /\ rset' = rset \cup {LowestFree} /\ wset' = wset \cup {LowestFree}
  /\ maxfd' = Larger(maxfd, LowestFree)
  /\ nconn' = nconn + 1 /\ nlefttoconn' = nlefttoconn - 1
  /\ conn' = [conn EXCEPT ![f] = "pending"]
  /\ pc' = "loop"
  /\ UNCHANGED i

(* ... or is done already, and the GET is written in start_connect ... *)
ConnectDone(f) ==
  /\ fd' = [fd EXCEPT ![f] = LowestFree] /\ open' = open \cup {LowestFree}
  /\ conn' = [conn EXCEPT ![f] = "up"]
  /\ pc' = "get_started" /\ i' = f
  /\ UNCHANGED <<flags, rset, wset, maxfd, nconn, nlefttoconn>>

(* ... or fails: err_sys. *)
ConnectFails ==
  /\ ServersFail
  /\ pc' = "failed"
  /\ UNCHANGED <<i, flags, fd, open, rset, wset, maxfd, nconn, nlefttoconn, conn>>

(* The first file not yet processed; err_quit if the counter says there is *)
(* one and there is none.                                                  *)
StartConnect ==
  /\ pc = "loop" /\ nlefttoread > 0
  /\ nconn < maxnconn /\ nlefttoconn > 0
  /\ \/ \E f \in Unstarted :
          /\ \A g \in Unstarted : f <= g
          /\ ConnectInProgress(f) \/ ConnectDone(f) \/ ConnectFails
     \/ /\ Unstarted = {}
        /\ pc' = "quit"
        /\ UNCHANGED <<i, flags, fd, open, rset, wset, maxfd, nconn, nlefttoconn, conn>>
  /\ UNCHANGED <<homeVars, nlefttoread, rs, ws, gets, sent, served, got>>

(* What select reports of a file's connection: an error makes it both. *)
Broken(f)    == conn[f] \in {"error", "cleared"}
CanRead(f)  == Broken(f) \/ (conn[f] = "up" /\ (got[f] < sent[f] \/ served[f]))
CanWrite(f) == Broken(f) \/ conn[f] = "up"
FileOf(d) == CHOOSE f \in Files : fd[f] = d /\ flags[f] \in {"connecting", "reading"}

Select ==
  /\ pc = "loop" /\ nlefttoread > 0
  /\ ~(nconn < maxnconn /\ nlefttoconn > 0)
  /\ rs' = {d \in rset \cap 0..maxfd : CanRead(FileOf(d))}
  /\ ws' = {d \in wset \cap 0..maxfd : CanWrite(FileOf(d))}
  /\ rs' \cup ws' # {}
  /\ pc' = "scan" /\ i' = 1
  /\ UNCHANGED <<homeVars, bookVars, netVars, got>>

Exit ==
  /\ pc = "loop" /\ nlefttoread = 0
  /\ pc' = "exited"
  /\ UNCHANGED <<homeVars, i, bookVars, rs, ws, netVars, got>>

(* The entries the scan still has to act on; the others it passes over. *)
Due == {f \in i..nfiles : \/ flags[f] = "connecting" /\ fd[f] \in rs \cup ws
                          \/ flags[f] = "reading" /\ fd[f] \in rs}
NextDue(f) == f \in Due /\ \A g \in Due : f <= g

ScanEnds ==
  /\ pc = "scan" /\ Due = {}
  /\ pc' = "loop"
  /\ UNCHANGED <<homeVars, i, bookVars, rs, ws, netVars, got>>

(* getsockopt(SO_ERROR) reports the error of a failed connect, and clears   *)
(* it; the program prints it and carries on as if the connection were up.   *)
Connected ==
  /\ pc = "scan"
  /\ \E f \in Files :
       /\ NextDue(f) /\ flags[f] = "connecting"
       /\ conn' = [conn EXCEPT ![f] = IF @ = "error" THEN "cleared" ELSE @]
       /\ wset' = wset \ {fd[f]}       \* no more writability test
       /\ i' = f
  /\ pc' = "get_connected"
  /\ UNCHANGED <<homeVars, flags, fd, rset, maxfd, nconn, nlefttoconn, nlefttoread, open,
                 rs, ws, gets, sent, served, got>>

(* Mutant: F_READING is added, and F_CONNECTING stays set. *)
GetWrittenStillConnecting ==
  /\ conn[i] = "up"
  /\ gets' = [gets EXCEPT ![i] = @ + 1]
  /\ flags' = [flags EXCEPT ![i] = IF @ = "connecting" THEN @ ELSE "reading"]
  /\ rset' = rset \cup {fd[i]} /\ maxfd' = Larger(maxfd, fd[i])

(* write_get_cmd on a connection that is up. *)
GetWritten ==
  /\ conn[i] = "up"
  /\ gets' = [gets EXCEPT ![i] = @ + 1]
  /\ flags' = [flags EXCEPT ![i] = "reading"]
  /\ rset' = rset \cup {fd[i]} /\ maxfd' = Larger(maxfd, fd[i])

(* Writen on one that is not: a pending error is returned (err_sys); once   *)
(* it was cleared, EPIPE, and SIGPIPE ends the process.                     *)
GetFails ==
  /\ Broken(i)
  /\ pc' = IF conn[i] = "error" THEN "failed" ELSE "killed"
  /\ UNCHANGED <<flags, rset, maxfd, gets, nconn, nlefttoconn, i>>

WriteGetStarted ==
  /\ pc = "get_started"
  /\ \/ /\ GetWritten
        /\ nconn' = nconn + 1 /\ nlefttoconn' = nlefttoconn - 1
        /\ pc' = "loop" /\ UNCHANGED i
     \/ GetFails
  /\ UNCHANGED <<homeVars, fd, wset, nlefttoread, open, rs, ws, conn, sent, served, got>>

WriteGetConnected ==
  /\ pc = "get_connected"
  /\ \/ GetWritten /\ pc' = "scan" /\ i' = i + 1 /\ UNCHANGED <<nconn, nlefttoconn>>
     \/ GetFails
  /\ UNCHANGED <<homeVars, fd, wset, nlefttoread, open, rs, ws, conn, sent, served, got>>

(* Mutants: the descriptor stays in rset; the connection stays counted; it  *)
(* is not closed.                                                           *)
ReadEofKeepsDescriptor(f) ==
  /\ served[f] /\ got[f] = sent[f]
  /\ flags' = [flags EXCEPT ![f] = "done"]
  /\ open' = open \ {fd[f]}
  /\ nconn' = nconn - 1 /\ nlefttoread' = nlefttoread - 1
  /\ UNCHANGED <<rset, got>>
ReadEofKeepsCount(f) ==
  /\ served[f] /\ got[f] = sent[f]
  /\ flags' = [flags EXCEPT ![f] = "done"]
  /\ open' = open \ {fd[f]} /\ rset' = rset \ {fd[f]}
  /\ nlefttoread' = nlefttoread - 1
  /\ UNCHANGED <<nconn, got>>
ReadEofReopens(f) ==
  /\ served[f] /\ got[f] = sent[f]
  /\ flags' = [flags EXCEPT ![f] = "none"]
  /\ open' = open \ {fd[f]} /\ rset' = rset \ {fd[f]}
  /\ nconn' = nconn - 1 /\ nlefttoread' = nlefttoread - 1
  /\ UNCHANGED got

ReadEof(f) ==
  /\ served[f] /\ got[f] = sent[f]
  /\ flags' = [flags EXCEPT ![f] = "done"]
  /\ open' = open \ {fd[f]} /\ rset' = rset \ {fd[f]}
  /\ nconn' = nconn - 1 /\ nlefttoread' = nlefttoread - 1
  /\ UNCHANGED got

ReadData(f) ==
  /\ got[f] < sent[f]
  /\ got' = [got EXCEPT ![f] = @ + 1]
  /\ UNCHANGED <<flags, open, rset, nconn, nlefttoread>>

Read ==
  /\ pc = "scan"
  /\ \E f \in Files :
       /\ NextDue(f) /\ flags[f] = "reading"
       /\ \/ (ReadData(f) \/ (~Broken(f) /\ ReadEof(f))) /\ pc' = "scan"
          \/ /\ Broken(f) /\ pc' = "failed"       \* ECONNRESET: err_sys
             /\ UNCHANGED <<flags, open, rset, nconn, nlefttoread, got>>
       /\ i' = f + 1
  /\ UNCHANGED <<homeVars, fd, wset, maxfd, nlefttoconn, rs, ws, netVars>>

Client ==
  \/ HomeConnect \/ HomePage
  \/ StartConnect \/ Select \/ ScanEnds \/ Connected \/ WriteGetStarted
  \/ WriteGetConnected \/ Read \/ Exit

-----------------------------------------------------------------------------
(* The servers. *)

procVars == <<pc, homeVars, i, bookVars, rs, ws, got>>

Establish(f) ==
  /\ conn[f] = "pending"
  /\ conn' = [conn EXCEPT ![f] = "up"]
  /\ UNCHANGED <<procVars, gets, sent, served>>

(* A connection is refused while it is pending, or dropped once it is up. *)
Fail(f) ==
  /\ ServersFail
  /\ conn[f] = "pending" \/ (conn[f] = "up" /\ flags[f] # "done")
  /\ conn' = [conn EXCEPT ![f] = "error"]
  /\ UNCHANGED <<procVars, gets, sent, served>>

Reply(f) ==
  /\ conn[f] = "up" /\ gets[f] > 0 /\ ~served[f] /\ sent[f] < MaxReply
  /\ sent' = [sent EXCEPT ![f] = @ + 1]
  /\ UNCHANGED <<procVars, conn, gets, served>>

ReplyEnds(f) ==
  /\ conn[f] = "up" /\ gets[f] > 0 /\ ~served[f]
  /\ served' = [served EXCEPT ![f] = TRUE]
  /\ UNCHANGED <<procVars, conn, gets, sent>>

Next ==
  \/ Client
  \/ \E f \in Files : Establish(f) \/ Fail(f) \/ Reply(f) \/ ReplyEnds(f)

(* The process runs, a connection attempt comes to an end, and a server     *)
(* that was asked finishes its reply.                                       *)
Fairness ==
  /\ WF_vars(Client)
  /\ \A f \in Files : WF_vars(Establish(f)) /\ WF_vars(ReplyEnds(f))

Spec == Init /\ [][Next]_vars /\ Fairness

-----------------------------------------------------------------------------
(* Properties. *)

TypeOK ==
  /\ pc \in {"tcp_connect", "home_page", "loop", "scan", "get_started", "get_connected",
             "quit"} \cup Ended
  /\ addr \in 0..NAddrs /\ homeRead \in 0..MaxReply
  /\ i \in 1..(nfiles + 1)
  /\ flags \in [Files -> {"none", "connecting", "reading", "done"}]
  /\ fd \in [Files -> 0..nfiles]
  /\ rset \subseteq 1..nfiles /\ wset \subseteq rset
  /\ rs \subseteq 1..nfiles /\ ws \subseteq 1..nfiles
  /\ maxfd \in 0..nfiles
  /\ nconn \in 0..nfiles /\ nlefttoconn \in 0..nfiles /\ nlefttoread \in 0..nfiles
  /\ open \subseteq 1..nfiles
  /\ conn \in [Files -> {"none", "pending", "up", "error", "cleared"}]
  /\ gets \in [Files -> Nat] /\ sent \in [Files -> 0..MaxReply]
  /\ served \in [Files -> BOOLEAN] /\ got \in [Files -> 0..MaxReply]

InFlight == {f \in Files : flags[f] \in {"connecting", "reading"}}

(* The counters agree with the flags whenever the loop tests them: nconn    *)
(* connections are in flight, nlefttoconn files have no connection yet and  *)
(* nlefttoread are not done.  So the err_quit of the file search ("nothing  *)
(* found") is never reached.                                                *)
CountersAgree ==
  /\ pc = "loop" =>
       /\ nconn = Cardinality(InFlight)
       /\ nlefttoconn = Cardinality(Unstarted)
       /\ nlefttoread = Cardinality({f \in Files : flags[f] # "done"})
  /\ pc # "quit"

(* Descriptors are reused as connections close.  At the top of the loop the *)
(* sets name exactly the connections in flight, no two of which share a     *)
(* descriptor, maxfd is above them all, and none has leaked.                *)
SetsAgree ==
  pc = "loop" =>
    /\ rset = {fd[f] : f \in InFlight} /\ open = rset
    /\ wset = {fd[f] : f \in {g \in Files : flags[g] = "connecting"}}
    /\ \A f, g \in InFlight : fd[f] = fd[g] => f = g
    /\ \A d \in rset : d <= maxfd

(* A file is asked for once, and is marked done only when its server has    *)
(* finished the reply and every unit of it was read.                        *)
FetchedWhole ==
  \A f \in Files :
    /\ gets[f] <= 1
    /\ flags[f] = "done" => gets[f] = 1 /\ served[f] /\ got[f] = sent[f]

(* The program always ends: no order of connects, replies and failures      *)
(* leaves it waiting in select.                                             *)
AlwaysEnds == <>(pc \in Ended)

(* The downloads are a FetchPool. *)
status == [f \in Files |-> CASE flags[f] = "done" -> "done"
                             [] flags[f] = "none" -> "todo"
                             [] OTHER -> "active"]
Pool == INSTANCE FetchPool WITH
          Files <- Files, MaxConn <- maxnconn, status <- status,
          outcome <- IF pc = "exited" THEN "exited"
                     ELSE IF pc \in Ended THEN "aborted" ELSE "running"
PoolSpec == Pool!Spec

(* "Nonfatal error related to system call" (networking_functions.c:78): a   *)
(* connect whose failure was reported by err_ret does not end the program.  *)
FailedConnectIsNonfatal == pc # "killed"
=============================================================================
