---------------------------- MODULE SelectClient ----------------------------
(***************************************************************************)
(* The echo clients that wait for standard input and the socket in one     *)
(* select but then use blocking calls, with the echo server they talk to:  *)
(*                                                                         *)
(*   "lines"    client_2_io_multiplexing: Readline and Fgets, which keep   *)
(*              what they have read beyond a line in buffers of their own, *)
(*              and no shutdown;                                           *)
(*   "buffers"  client_3_io_multiplexing, unix_domain_cli1: read, Writen   *)
(*              and shutdown.                                              *)
(*                                                                         *)
(* Line k is the bytes 2k - 1 and 2k, of which the second is the newline.  *)
(* Nothing changes the order of bytes, so the state of the stream is how   *)
(* many bytes have passed each point on the way from input to output.      *)
(***************************************************************************)
EXTENDS Naturals

CONSTANTS
  Programs,   \* the clients to consider
  MaxLines,   \* bound: lines typed
  Cap,        \* bytes a socket's send and receive buffers hold, one way
  Faults      \* what may break: standard input, standard output, the connection

ASSUME SelectClientAssumption ==
  /\ Programs \subseteq {"lines", "buffers"}
  /\ Faults \subseteq {"stdin", "stdout", "sock"}
  /\ MaxLines \in Nat \ {0} /\ Cap \in Nat \ {0}

VARIABLES
  program,
  pc,         \* "select", "sock", "readline", "stdin", "writen";
              \* "done" (str_cli returned), "quit" (err_quit), "failed" (err_sys)
  ready,      \* what select reported
  stdineof,
  typed, closed,  \* lines on standard input so far, and its end
  taken,      \* lines read from it
  used,       \* lines Fgets has returned: the others are in stdio's buffer
  pend,       \* bytes Writen has still to write
  written,    \* bytes written to the socket
  fin,        \* the client has shut down its side
  srvRead, echoed,  \* bytes the server has read, and written back
  srv,        \* "up", "finished" (closed at the FIN), "died"
  rst,        \* the client's socket has been reset, or is lost
  faulty,     \* what has broken
  recvd,      \* bytes read from the socket
  scanned,    \* bytes readline has copied: the others are in read_buf
  shown       \* bytes on standard output

inputVars == <<typed, closed>>
cliVars   == <<taken, used, pend, stdineof>>
outVars   == <<recvd, scanned, shown>>
srvVars   == <<srvRead, echoed, srv, faulty>>
vars == <<program, pc, ready, inputVars, cliVars, written, fin, srvVars, rst, outVars>>

Ended == pc \in {"done", "quit", "failed"}
SockEnded == rst \/ (recvd = echoed /\ srv # "up")
Readable == recvd < echoed \/ SockEnded
InputReady == taken < typed \/ closed \/ "stdin" \in faulty

Init ==
  /\ program \in Programs
  /\ pc = "select" /\ ready = {"sock", "stdin"} /\ stdineof = FALSE
  /\ typed = 0 /\ closed = FALSE
  /\ taken = 0 /\ used = 0 /\ pend = 0 /\ written = 0 /\ fin = FALSE
  /\ srvRead = 0 /\ echoed = 0 /\ srv = "up" /\ rst = FALSE /\ faulty = {}
  /\ recvd = 0 /\ scanned = 0 /\ shown = 0

-----------------------------------------------------------------------------
(* str_cli. *)

SockBranch == IF program = "lines" THEN "readline" ELSE "sock"

(* Mutant: standard input is put into rset once, before the loop. *)
SelectOnce ==
  /\ pc = "select"
  /\ ready' = {d \in ready : \/ d = "sock" /\ Readable
                             \/ d = "stdin" /\ InputReady /\ ~stdineof}
  /\ ready' # {}
  /\ pc' = IF "sock" \in ready' THEN SockBranch ELSE "stdin"
  /\ UNCHANGED <<program, inputVars, cliVars, written, fin, srvVars, rst, outVars>>

(* FD_SET of both descriptors (the input until its end was seen), Select.   *)
Select ==
  /\ pc = "select"
  /\ ready' = {d \in {"sock", "stdin"} : \/ d = "sock" /\ Readable
                                         \/ d = "stdin" /\ InputReady /\ ~stdineof}
  /\ ready' # {}
  /\ pc' = IF "sock" \in ready' THEN SockBranch ELSE "stdin"
  /\ UNCHANGED <<program, inputVars, cliVars, written, fin, srvVars, rst, outVars>>

AfterSock == IF "stdin" \in ready THEN "stdin" ELSE "select"

(* "buffers": Read and Write what there is.  A write that fails, or takes   *)
(* only a part, is err_sys (or SIGPIPE).  At the end of file the program    *)
(* returns if it has seen the end of its input, and gives up otherwise.     *)
SockRead ==
  /\ pc = "sock"
  /\ \/ \E n \in 1..(echoed - recvd) :
          /\ recvd' = recvd + n /\ scanned' = recvd'
          /\ \/ "stdout" \notin faulty /\ shown' = recvd' /\ pc' = AfterSock
             \/ "stdout" \in faulty /\ shown' \in shown..(recvd' - 1) /\ pc' = "failed"
     \/ /\ SockEnded
        /\ pc' = IF rst THEN "failed" ELSE IF stdineof THEN "done" ELSE "quit"
        /\ UNCHANGED outVars
  /\ UNCHANGED <<program, ready, inputVars, cliVars, written, fin, srvVars, rst>>

(* "lines": Fputs either fails (err_sys, SIGPIPE) or leaves the line to     *)
(* stdio, which may not find out before the buffer is full.                 *)
FputsTo(n) ==
  \/ shown' = n /\ pc' = AfterSock
  \/ "stdout" \in faulty /\ pc' = "failed" /\ UNCHANGED shown

(* "lines": readline copies from read_buf to the end of a line ...          *)
ReadlineCopies ==
  /\ pc = "readline" /\ scanned < recvd
  /\ scanned' = scanned + 1
  /\ IF scanned' % 2 = 0 THEN FputsTo(scanned') ELSE UNCHANGED <<shown, pc>>
  /\ UNCHANGED <<program, ready, inputVars, cliVars, written, fin, srvVars, rst, recvd>>

(* ... and when it is empty, my_read waits for the socket.  The end of file *)
(* ends the line; without a byte before it, it ends the program.            *)
ReadlineFills ==
  /\ pc = "readline" /\ scanned = recvd
  /\ \/ /\ \E n \in 1..(echoed - recvd) : recvd' = recvd + n
        /\ UNCHANGED <<pc, shown>>
     \/ /\ SockEnded
        /\ IF rst \/ scanned = shown
             THEN pc' = (IF rst THEN "failed" ELSE "quit") /\ UNCHANGED shown
             ELSE FputsTo(scanned)
        /\ UNCHANGED recvd
  /\ UNCHANGED <<program, ready, inputVars, cliVars, written, fin, srvVars, rst, scanned>>

(* "lines": Fgets returns a line of stdio's buffer, which it fills when it  *)
(* is empty (from a terminal one line at a time, from a pipe all there is); *)
(* at end of file str_cli returns, at an error it is err_sys.               *)
StdinGets ==
  /\ pc = "stdin" /\ program = "lines"
  /\ \/ /\ used < taken \/ taken < typed
        /\ IF used < taken THEN UNCHANGED taken ELSE taken' \in (taken + 1)..typed
        /\ used' = used + 1 /\ pend' = 2
        /\ pc' = "writen"
     \/ /\ used = taken /\ taken = typed /\ closed
        /\ pc' = "done"
        /\ UNCHANGED <<taken, used, pend>>
     \/ /\ used = taken /\ "stdin" \in faulty
        /\ pc' = "failed"
        /\ UNCHANGED <<taken, used, pend>>
  /\ UNCHANGED <<program, ready, inputVars, stdineof, written, fin, srvVars, rst, outVars>>

(* Mutant: str_cli returns at the end of its input. *)
StdinReturns ==
  /\ pc = "stdin" /\ program = "buffers"
  /\ \/ /\ taken' \in (taken + 1)..typed /\ used' = taken'
        /\ pend' = 2 * (taken' - taken)
        /\ pc' = "writen"
        /\ UNCHANGED <<stdineof, fin>>
     \/ /\ taken = typed /\ closed
        /\ pc' = "done"
        /\ UNCHANGED <<taken, used, pend, stdineof, fin>>
     \/ /\ "stdin" \in faulty
        /\ pc' = "failed"
        /\ UNCHANGED <<taken, used, pend, stdineof, fin>>
  /\ UNCHANGED <<program, ready, inputVars, written, srvVars, rst, outVars>>

(* "buffers": Read, which may fail; at end of file Shutdown, which fails    *)
(* after a reset.                                                           *)
StdinReads ==
  /\ pc = "stdin" /\ program = "buffers"
  /\ \/ /\ taken' \in (taken + 1)..typed /\ used' = taken'
        /\ pend' = 2 * (taken' - taken)
        /\ pc' = "writen"
        /\ UNCHANGED <<stdineof, fin>>
     \/ /\ taken = typed /\ closed
        /\ stdineof' = TRUE /\ fin' = TRUE
        /\ pc' = IF rst THEN "failed" ELSE "select"
        /\ UNCHANGED <<taken, used, pend>>
     \/ /\ "stdin" \in faulty
        /\ pc' = "failed"
        /\ UNCHANGED <<taken, used, pend, stdineof, fin>>
  /\ UNCHANGED <<program, ready, inputVars, written, srvVars, rst, outVars>>

(* Writen blocks until it has written everything.  A server that has died   *)
(* answers with a reset; the write after that is SIGPIPE.                   *)
Writen ==
  /\ pc = "writen"
  /\ \/ /\ srv = "up" /\ ~rst
        /\ \E n \in 1..pend :
             /\ written + n - srvRead <= Cap
             /\ written' = written + n /\ pend' = pend - n
        /\ pc' = IF pend' = 0 THEN "select" ELSE "writen"
        /\ UNCHANGED rst
     \/ /\ srv # "up" \/ rst
        /\ pc' = IF rst THEN "failed" ELSE "select"
        /\ rst' = TRUE /\ pend' = 0
        /\ UNCHANGED written
  /\ UNCHANGED <<program, ready, inputVars, taken, used, stdineof, fin, srvVars, outVars>>

Client ==
  Select \/ SockRead \/ ReadlineCopies \/ ReadlineFills \/ StdinGets \/ StdinReads \/ Writen

-----------------------------------------------------------------------------
(* The user, the echo server (the fixed-buffer loop of the servers), and    *)
(* what may break.                                                          *)

Type ==
  /\ ~closed /\ ~Ended
  /\ \/ typed < MaxLines /\ typed' = typed + 1 /\ UNCHANGED closed
     \/ closed' = TRUE /\ UNCHANGED typed
  /\ UNCHANGED <<program, pc, ready, cliVars, written, fin, srvVars, rst, outVars>>

ServerReads ==
  /\ srv = "up" /\ ~rst /\ srvRead = echoed
  /\ \/ \E n \in 1..(written - srvRead) : srvRead' = srvRead + n /\ UNCHANGED srv
     \/ srvRead = written /\ (fin \/ Ended) /\ srv' = "finished" /\ UNCHANGED srvRead
  /\ UNCHANGED <<program, pc, ready, inputVars, cliVars, written, fin, echoed, rst, faulty, outVars>>

ServerWrites ==
  /\ srv = "up" /\ ~rst
  /\ \E n \in 1..(srvRead - echoed) : echoed + n - recvd <= Cap /\ echoed' = echoed + n
  /\ UNCHANGED <<program, pc, ready, inputVars, cliVars, written, fin, srvRead, srv, rst, faulty, outVars>>

(* Bytes the server has not read turn the close into a reset. *)
ServerDies ==
  /\ srv = "up" /\ ~rst /\ ~Ended
  /\ srv' = "died" /\ rst' = (srvRead < written)
  /\ UNCHANGED <<program, pc, ready, inputVars, cliVars, written, fin, srvRead, echoed, faulty, outVars>>

(* A terminal hangs up, a disk is full, the reader of a pipe has gone, the  *)
(* network does not acknowledge any more.                                   *)
Break(f) ==
  /\ f \in Faults \ faulty /\ ~Ended
  /\ faulty' = faulty \cup {f}
  /\ rst' = (rst \/ f = "sock")
  /\ UNCHANGED <<program, pc, ready, inputVars, cliVars, written, fin, srvRead, echoed, srv, outVars>>

SomethingBreaks == \E f \in Faults : Break(f)

Server == ServerReads \/ ServerWrites

Next == Client \/ Type \/ Server \/ ServerDies \/ SomethingBreaks

(* Both programs run; the user need not type, the server need not die and   *)
(* nothing need break.                                                      *)
Fairness == WF_vars(Client) /\ WF_vars(Server)

Spec == Init /\ [][Next]_vars /\ Fairness

-----------------------------------------------------------------------------
(* Properties. *)

(* "server terminated prematurely" is said of a server that has died only,  *)
(* and err_sys ends a client for that or for something that has broken.     *)
(* The client that shuts down returns only when the echo of everything it   *)
(* was given is on its output, whatever has broken meanwhile, unless the    *)
(* server died first.                                                       *)
OutcomeExplained ==
  /\ pc = "quit" => srv = "died"
  /\ pc = "failed" => srv = "died" \/ faulty # {}
  /\ pc = "done" /\ program = "buffers" /\ srv # "died" => shown = 2 * typed

(* "waiting in select for data already received and stored in readline's    *)
(* buffers" (readline2.c:11), or for lines in stdio's.                      *)
WaitsOverData ==
  /\ program = "lines" /\ pc = "select" /\ ~Readable /\ ~InputReady
  /\ recvd - shown >= 2 \/ used < taken

(* The client waits in Writen, and the server waits to write back: the      *)
(* client does not read the socket while it writes.                         *)
Gridlock ==
  /\ pc = "writen" /\ srv = "up" /\ ~rst
  /\ written - srvRead = Cap /\ srvRead > echoed /\ echoed - recvd = Cap

(* A line that was typed is shown, and the client that shuts down ends      *)
(* after its input has, unless the client ends, its two sides wait for each *)
(* other, or (only with Readline and Fgets) it waits over data.             *)
LinesShown ==
  /\ \A l \in 1..MaxLines :
       typed >= l ~> shown >= 2 * l \/ Ended \/ Gridlock \/ WaitsOverData
  /\ closed ~> Ended \/ Gridlock \/ WaitsOverData
=============================================================================
