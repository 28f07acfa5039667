--------------------------- MODULE NonblockClient ---------------------------
(***************************************************************************)
(* The echo client of nonblock_tcpcli1: one process that copies standard   *)
(* input to a socket and the socket to standard output with non-blocking   *)
(* reads and writes, two byte buffers and one select loop (str_cli).       *)
(*                                                                         *)
(* A buffer of MAXLINE bytes is an array with two positions, counted in    *)
(* bytes from its start:                                                   *)
(*      0 <= optr (first byte still to write) <= iptr (first free) <= MAXLINE *)
(* The k-th byte of standard input is the number k.  The kernel and the    *)
(* peer (user, server, reader of standard output) take steps of their own  *)
(* between any two system calls of the client.                             *)
(***************************************************************************)
EXTENDS Naturals, Sequences

CONSTANTS
  MAXLINE,      \* size of the buffers to[] and fr[]
  NBytes,       \* bound: most bytes the user types
  SndBuf,       \* bytes the connection holds from the client to the server
  RcvBuf,       \* bytes the connection holds from the server to the client
  PipeBuf,      \* bytes standard output accepts before its reader drains it
  ServerMayDie, \* whether the server may close before it has seen our FIN
  Faults        \* which descriptors may fail of themselves

ASSUME SizesAssumption ==
  /\ MAXLINE \in Nat \ {0}
  /\ NBytes \in Nat
  /\ SndBuf \in Nat \ {0}
  /\ RcvBuf \in Nat \ {0}
  /\ PipeBuf \in Nat \ {0}
ASSUME ServerAssumption == ServerMayDie \in BOOLEAN
ASSUME FaultsAssumption == Faults \subseteq {"stdin", "sock", "stdout"}

VARIABLES
  pc,          \* the system call str_cli is about to make
  to, toiptr, tooptr,    \* standard input -> socket
  fr, friptr, froptr,    \* socket -> standard output
  stdineof,    \* read() of standard input has returned 0
  rset, wset,  \* the descriptor sets, as select left them and as str_cli adds to them
  shutdowns,   \* calls of Shutdown(sockfd, SHUT_WR)
  typed,       \* bytes the user has typed
  stdinClosed, \* the user has ended standard input
  taken,       \* bytes read from standard input
  sent,        \* bytes written to the socket, in order
  srvGot,      \* how many of them the server has read
  echoed,      \* bytes the server has written back, in order
  got,         \* how many of them the client has read
  srvClosed,   \* the server has closed its end (its FIN follows echoed)
  srvDied,     \* ... before it saw the client's FIN
  reset,       \* the socket holds an error: a RST, or the connection has timed out
  faulty,      \* the descriptors that have failed of themselves
  out,         \* bytes written to standard output, in order
  drained      \* how many of them its reader has consumed

toVars    == <<to, toiptr, tooptr>>
frVars    == <<fr, friptr, froptr>>
sets      == <<rset, wset>>
userVars  == <<typed, stdinClosed>>
srvVars   == <<srvGot, echoed, srvClosed, srvDied, reset, faulty>>
vars == <<pc, toVars, frVars, stdineof, sets, shutdowns, userVars, taken, sent,
          got, srvVars, out, drained>>

FDs == {"stdin", "sock", "stdout"}
Min2(a, b) == IF a <= b THEN a ELSE b

(* The bytes of a buffer between two positions, as a sequence. *)
Window(buf, o, i) == [k \in 1..(i - o) |-> buf[o + k]]

(* The buffer after read() has stored bytes at position p. *)
Stored(buf, p, bytes) ==
  [j \in 1..MAXLINE |-> IF j > p /\ j <= p + Len(bytes) THEN bytes[j - p] ELSE buf[j]]

Running == pc \in {"select", "stdin", "sockread", "stdout", "sockwrite"}
Halted  == pc \in {"done", "failed"}

(* What the kernel would report for each descriptor: one that can only fail *)
(* is ready, too.                                                           *)
StdinFails  == "stdin" \in faulty
StdoutFails == "stdout" \in faulty       \* its reader has gone, or its disk is full
StdinReadable  == taken < typed \/ stdinClosed \/ StdinFails
SockReadable   == got < Len(echoed) \/ srvClosed \/ reset
SockWritable   == Len(sent) - srvGot < SndBuf \/ reset
StdoutRoom     == Len(out) - drained < PipeBuf
StdoutWritable == StdoutRoom \/ StdoutFails

Init ==
  /\ pc = "select"
  /\ to = [j \in 1..MAXLINE |-> 0] /\ toiptr = 0 /\ tooptr = 0
  /\ fr = [j \in 1..MAXLINE |-> 0] /\ friptr = 0 /\ froptr = 0
  /\ stdineof = FALSE
  /\ rset = {} /\ wset = {}
  /\ shutdowns = 0
  /\ typed = 0 /\ stdinClosed = FALSE /\ taken = 0
  /\ sent = <<>> /\ srvGot = 0
  /\ echoed = <<>> /\ got = 0
  /\ srvClosed = FALSE /\ srvDied = FALSE /\ reset = FALSE /\ faulty = {}
  /\ out = <<>> /\ drained = 0

-----------------------------------------------------------------------------
(* The client: one action per system call of the loop. *)

(* Mutant: a full buffer is read into. *)
WantReadWhenFull == (IF ~stdineof THEN {"stdin"} ELSE {}) \cup {"sock"}

(* The sets str_cli builds before it calls select. *)
WantRead ==
  (IF ~stdineof /\ toiptr < MAXLINE THEN {"stdin"} ELSE {})
    \cup (IF friptr < MAXLINE THEN {"sock"} ELSE {})
WantWrite ==
  (IF tooptr # toiptr THEN {"sock"} ELSE {})
    \cup (IF froptr # friptr THEN {"stdout"} ELSE {})

(* Select returns when a descriptor asked about is ready, with all that are. *)
Select ==
  /\ pc = "select"
  /\ rset' = {f \in WantRead : \/ f = "stdin" /\ StdinReadable
                               \/ f = "sock" /\ SockReadable}
  /\ wset' = {f \in WantWrite : \/ f = "sock" /\ SockWritable
                                \/ f = "stdout" /\ StdoutWritable}
  /\ rset' \cup wset' # {}
  /\ pc' = "stdin"
  /\ UNCHANGED <<toVars, frVars, stdineof, shutdowns, userVars, taken, sent, got,
                 srvVars, out, drained>>

(* Shutdown exits through err_sys when the connection is already reset. *)
CallShutdown(next) ==
  /\ shutdowns' = shutdowns + 1
  /\ pc' = IF reset THEN "failed" ELSE next

StdinData ==
  /\ taken < typed
  /\ \E n \in 1..Min2(MAXLINE - toiptr, typed - taken):
       /\ to' = Stored(to, toiptr, [k \in 1..n |-> taken + k])
       /\ toiptr' = toiptr + n
       /\ taken' = taken + n
  /\ wset' = wset \cup {"sock"}      \* try and write to the socket below
  /\ pc' = "sockread"
  /\ UNCHANGED <<tooptr, stdineof, shutdowns>>

(* Mutant: the FIN does not wait for the bytes still in to[]. *)
StdinEofSendsFin ==
  /\ (taken = typed /\ stdinClosed) \/ toiptr = MAXLINE
  /\ stdineof' = TRUE
  /\ CallShutdown("sockread")
  /\ UNCHANGED <<toVars, taken, wset>>

(* read() returns 0 at the end of standard input, and also when it is asked *)
(* for no byte at all.                                                      *)
StdinEof ==
  /\ (taken = typed /\ stdinClosed) \/ toiptr = MAXLINE
  /\ stdineof' = TRUE
  /\ IF tooptr = toiptr THEN CallShutdown("sockread")
                        ELSE pc' = "sockread" /\ UNCHANGED shutdowns
  /\ UNCHANGED <<toVars, taken, wset>>

(* "read error on stdin": err_sys. *)
StdinError ==
  /\ StdinFails
  /\ pc' = "failed"
  /\ UNCHANGED <<toVars, stdineof, shutdowns, taken, wset>>

ReadStdin ==
  /\ pc = "stdin"
  /\ \/ "stdin" \in rset /\ (StdinData \/ StdinEof \/ StdinError)
     \/ /\ "stdin" \notin rset
        /\ pc' = "sockread"
        /\ UNCHANGED <<toVars, stdineof, shutdowns, taken, wset>>
  /\ UNCHANGED <<frVars, rset, userVars, sent, got, srvVars, out, drained>>

SockData ==
  /\ got < Len(echoed)
  /\ \E n \in 1..Min2(MAXLINE - friptr, Len(echoed) - got):
       /\ fr' = Stored(fr, friptr, Window(echoed, got, got + n))
       /\ friptr' = friptr + n
       /\ got' = got + n
  /\ wset' = wset \cup {"stdout"}    \* try and write to standard output below
  /\ pc' = "stdout"
  /\ UNCHANGED froptr

(* read() returns 0: "normal termination" after the end of standard input,  *)
(* "server terminated prematurely" (err_quit) before it.                    *)
SockEof ==
  /\ (got = Len(echoed) /\ srvClosed) \/ friptr = MAXLINE
  /\ pc' = IF stdineof THEN "done" ELSE "failed"
  /\ UNCHANGED <<frVars, got, wset>>

(* ECONNRESET, ETIMEDOUT: err_sys. *)
SockError ==
  /\ reset
  /\ pc' = "failed"
  /\ UNCHANGED <<frVars, got, wset>>

ReadSock ==
  /\ pc = "sockread"
  /\ \/ "sock" \in rset /\ (SockData \/ SockEof \/ SockError)
     \/ /\ "sock" \notin rset
        /\ pc' = "stdout"
        /\ UNCHANGED <<frVars, got, wset>>
  /\ UNCHANGED <<toVars, stdineof, rset, shutdowns, userVars, taken, sent, srvVars,
                 out, drained>>

(* Mutants: a partial write is taken for a full one; only one position goes *)
(* back to the start; neither does.                                         *)
StdoutWrittenPartialAsFull ==
  \E n \in 1..Min2(friptr - froptr, PipeBuf - (Len(out) - drained)):
    /\ out' = out \o Window(fr, froptr, froptr + n)
    /\ froptr' = 0 /\ friptr' = 0
StdoutWrittenHalfReset ==
  \E n \in 1..Min2(friptr - froptr, PipeBuf - (Len(out) - drained)):
    /\ out' = out \o Window(fr, froptr, froptr + n)
    /\ froptr' = froptr + n
    /\ friptr' = IF froptr' = friptr THEN 0 ELSE friptr
StdoutWrittenNoReset ==
  \E n \in 1..Min2(friptr - froptr, PipeBuf - (Len(out) - drained)):
    /\ out' = out \o Window(fr, froptr, froptr + n)
    /\ froptr' = froptr + n
    /\ UNCHANGED friptr

(* The write to standard output; both positions go back to the start of the *)
(* buffer once it is empty.  A full pipe (EWOULDBLOCK) changes nothing.     *)
StdoutWritten ==
  \E n \in 1..Min2(friptr - froptr, PipeBuf - (Len(out) - drained)):
    /\ out' = out \o Window(fr, froptr, froptr + n)
    /\ IF froptr + n = friptr THEN froptr' = 0 /\ friptr' = 0
                              ELSE froptr' = froptr + n /\ UNCHANGED friptr

WriteStdout ==
  /\ pc = "stdout"
  /\ \/ /\ "stdout" \in wset /\ friptr > froptr
        /\ ~StdoutFails /\ StdoutRoom /\ StdoutWritten /\ pc' = "sockwrite"
     \/ /\ "stdout" \in wset /\ friptr > froptr
        /\ StdoutFails /\ pc' = "failed"          \* err_sys, or SIGPIPE
        /\ UNCHANGED <<froptr, friptr, out>>
     \/ /\ \/ "stdout" \notin wset \/ friptr = froptr
           \/ ~StdoutFails /\ ~StdoutRoom          \* EWOULDBLOCK
        /\ pc' = "sockwrite"
        /\ UNCHANGED <<froptr, friptr, out>>
  /\ UNCHANGED <<toVars, fr, stdineof, sets, shutdowns, userVars, taken, sent, got,
                 srvVars, drained>>

(* Mutants: no FIN after the last byte; the emptied buffer does not start over. *)
SockWrittenNoFin ==
  \E n \in 1..Min2(toiptr - tooptr, SndBuf - (Len(sent) - srvGot)):
    /\ sent' = sent \o Window(to, tooptr, tooptr + n)
    /\ IF tooptr + n = toiptr THEN tooptr' = 0 /\ toiptr' = 0
                              ELSE tooptr' = tooptr + n /\ UNCHANGED toiptr
    /\ pc' = "select"
    /\ UNCHANGED shutdowns
SockWrittenNoReset ==
  \E n \in 1..Min2(toiptr - tooptr, SndBuf - (Len(sent) - srvGot)):
    /\ sent' = sent \o Window(to, tooptr, tooptr + n)
    /\ tooptr' = tooptr + n
    /\ IF tooptr + n = toiptr /\ stdineof THEN CallShutdown("select")
                                         ELSE pc' = "select" /\ UNCHANGED shutdowns
    /\ UNCHANGED toiptr

(* The write to the socket; the byte that empties the buffer after the end  *)
(* of standard input is followed by the FIN.                                *)
SockWritten ==
  \E n \in 1..Min2(toiptr - tooptr, SndBuf - (Len(sent) - srvGot)):
    /\ sent' = sent \o Window(to, tooptr, tooptr + n)
    /\ IF tooptr + n = toiptr
         THEN /\ tooptr' = 0 /\ toiptr' = 0
              /\ IF stdineof THEN CallShutdown("select")
                             ELSE pc' = "select" /\ UNCHANGED shutdowns
         ELSE /\ tooptr' = tooptr + n
              /\ pc' = "select"
              /\ UNCHANGED <<toiptr, shutdowns>>

WriteSock ==
  /\ pc = "sockwrite"
  /\ \/ /\ "sock" \in wset /\ toiptr > tooptr
        /\ \/ ~reset /\ SockWritable /\ SockWritten
           \/ ~reset /\ ~SockWritable /\ pc' = "select"      \* EWOULDBLOCK
                /\ UNCHANGED <<toiptr, tooptr, sent, shutdowns>>
           \/ reset /\ pc' = "failed"                         \* EPIPE, or SIGPIPE
                /\ UNCHANGED <<toiptr, tooptr, sent, shutdowns>>
     \/ /\ ~("sock" \in wset /\ toiptr > tooptr)
        /\ pc' = "select"
        /\ UNCHANGED <<toiptr, tooptr, sent, shutdowns>>
  /\ UNCHANGED <<to, frVars, stdineof, sets, userVars, taken, got, srvVars, out, drained>>

Client == Select \/ ReadStdin \/ ReadSock \/ WriteStdout \/ WriteSock

-----------------------------------------------------------------------------
(* The environment. *)

clientVars == <<pc, toVars, frVars, stdineof, sets, shutdowns, taken, sent, got, out>>

Type ==
  /\ ~stdinClosed /\ typed < NBytes
  /\ typed' = typed + 1
  /\ UNCHANGED <<clientVars, stdinClosed, srvVars, drained>>

CloseStdin ==
  /\ ~stdinClosed
  /\ stdinClosed' = TRUE
  /\ UNCHANGED <<clientVars, typed, srvVars, drained>>

(* The echo server: reads and writes back the same bytes. *)
ServerEcho ==
  /\ ~srvClosed /\ ~reset
  /\ \E n \in 1..Min2(Len(sent) - srvGot, RcvBuf - (Len(echoed) - got)):
       /\ echoed' = echoed \o Window(sent, srvGot, srvGot + n)
       /\ srvGot' = srvGot + n
  /\ UNCHANGED <<clientVars, userVars, srvClosed, srvDied, reset, faulty, drained>>

(* It reads the FIN after the last byte, and closes. *)
ServerClose ==
  /\ ~srvClosed /\ ~reset
  /\ shutdowns > 0 /\ srvGot = Len(sent)
  /\ srvClosed' = TRUE
  /\ UNCHANGED <<clientVars, userVars, srvGot, echoed, srvDied, reset, faulty, drained>>

ServerDie ==
  /\ ServerMayDie /\ ~srvClosed /\ ~reset
  /\ srvClosed' = TRUE /\ srvDied' = TRUE
  /\ UNCHANGED <<clientVars, userVars, srvGot, echoed, reset, faulty, drained>>

(* Bytes that reach a closed end are answered with a RST. *)
Reset ==
  /\ srvDied /\ ~reset /\ Len(sent) > srvGot
  /\ reset' = TRUE
  /\ UNCHANGED <<clientVars, userVars, srvGot, echoed, srvClosed, srvDied, faulty, drained>>

(* A descriptor fails of itself: standard input cannot be read, the reader  *)
(* of standard output has gone, the connection has timed out.               *)
Break(f) ==
  /\ f \in Faults \ faulty
  /\ faulty' = faulty \cup {f}
  /\ reset' = (reset \/ f = "sock")
  /\ UNCHANGED <<clientVars, userVars, srvGot, echoed, srvClosed, srvDied, drained>>

SomethingBreaks == \E f \in Faults : Break(f)

Drain ==
  /\ drained < Len(out) /\ ~StdoutFails
  /\ drained' = drained + 1
  /\ UNCHANGED <<clientVars, userVars, srvVars>>

Next ==
  \/ Client
  \/ Type \/ CloseStdin
  \/ ServerEcho \/ ServerClose \/ ServerDie \/ Reset
  \/ SomethingBreaks
  \/ Drain

(* The client, the server and the reader of standard output keep running;   *)
(* the user need not type, the server need not die, and nothing need break. *)
Fairness == WF_vars(Client) /\ WF_vars(ServerEcho) /\ WF_vars(ServerClose)
              /\ WF_vars(Drain)

Spec == Init /\ [][Next]_vars /\ Fairness

-----------------------------------------------------------------------------
(* Properties. *)

Bytes == 0..NBytes

(* Types, and the order of the two positions of each buffer. *)
TypeOK ==
  /\ pc \in {"select", "stdin", "sockread", "stdout", "sockwrite", "done", "failed"}
  /\ to \in [1..MAXLINE -> Bytes] /\ fr \in [1..MAXLINE -> Bytes]
  /\ toiptr \in 0..MAXLINE /\ tooptr \in 0..toiptr
  /\ friptr \in 0..MAXLINE /\ froptr \in 0..friptr
  /\ stdineof \in BOOLEAN
  /\ rset \subseteq {"stdin", "sock"} /\ wset \subseteq {"sock", "stdout"}
  /\ shutdowns \in Nat
  /\ typed \in 0..NBytes /\ stdinClosed \in BOOLEAN /\ taken \in 0..typed
  /\ sent \in Seq(Bytes) /\ srvGot \in 0..Len(sent)
  /\ echoed \in Seq(Bytes) /\ got \in 0..Len(echoed)
  /\ srvClosed \in BOOLEAN /\ srvDied \in BOOLEAN /\ reset \in BOOLEAN
  /\ faulty \subseteq Faults
  /\ out \in Seq(Bytes) /\ drained \in 0..Len(out)

(* Every byte read from standard input is in the socket or in to[], in the  *)
(* order typed; every byte read from the socket is in standard output or in *)
(* fr[], in the order the server wrote it.                                  *)
InOrder ==
  /\ sent \o Window(to, tooptr, toiptr) = [k \in 1..taken |-> k]
  /\ out \o Window(fr, froptr, friptr) = Window(echoed, 0, got)

(* The FIN is sent at most once, never while to[] still holds a byte, and   *)
(* without fail once standard input has ended and to[] is empty: the two    *)
(* calls of Shutdown in the loop cover every order of the last write and    *)
(* the end of file, and do not overlap.                                     *)
HalfCloseOnce ==
  /\ shutdowns <= 1
  /\ shutdowns = 1 <=> stdineof /\ tooptr = toiptr
  /\ shutdowns = 1 => Len(sent) = typed /\ taken = typed

(* The loop never reaches select with nothing to wait for: a full buffer    *)
(* always has a byte to write, since an emptied one starts over.            *)
SelectHasWork == pc = "select" => WantRead \cup WantWrite # {}

(* The client fails only when the server closed early or a descriptor has   *)
(* failed; when it returns from str_cli against a server that did not close *)
(* early, everything typed was sent, echoed and read back.                  *)
ExitExplained ==
  /\ pc = "failed" => srvDied \/ faulty # {}
  /\ pc = "done" /\ ~srvDied =>
       shutdowns = 1 /\ Len(sent) = typed /\ Len(echoed) = typed /\ got = typed

(* "normal termination" (main.c:141) has copied to standard output all that *)
(* the server sent.                                                         *)
NormalTerminationIsComplete == pc = "done" => Len(out) = Len(echoed)

(* Whatever is typed reaches standard output, unless the client stops: no   *)
(* order of full and empty buffers leaves a byte waiting for another event. *)
EveryByteEchoed ==
  \A k \in 1..NBytes : (typed >= k) ~> (Len(out) >= k \/ Halted)

(* Once standard input has ended, str_cli returns or fails. *)
EofTerminates == stdinClosed ~> Halted

(* Each direction is a HalfRelay: standard input to the socket, whose end   *)
(* is passed on as the FIN, and the socket to standard output.              *)
Up == INSTANCE HalfRelay WITH
        Capacity <- MAXLINE, queue <- Window(to, tooptr, toiptr), taken <- taken,
        passed <- sent, eof <- stdineof, closed <- shutdowns > 0
Down == INSTANCE HalfRelay WITH
        Capacity <- MAXLINE, queue <- Window(fr, froptr, friptr), taken <- got,
        passed <- out, eof <- FALSE, closed <- FALSE
UpRelay   == Up!Spec
DownRelay == Down!Spec
=============================================================================
