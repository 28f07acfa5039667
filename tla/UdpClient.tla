----------------------------- MODULE UdpClient -----------------------------
(***************************************************************************)
(* The datagram clients, which send a line and wait for one datagram, and  *)
(* the datagram echo server, over a network that loses, delays, reorders   *)
(* and duplicates; their sockets are not connected, and take a datagram    *)
(* from anyone:                                                            *)
(*                                                                         *)
(*   "plain"     client_1_udp, unix_domain_udpcli1: Recvfrom, no timeout;  *)
(*   "checked"   client_2_udp_preply_addr: a reply from an address other   *)
(*               than the one written to is ignored;                       *)
(*   "alarm"     advio_timeout_SIGALRM: alarm(5), then recvfrom;           *)
(*   "select"    advio_timeout_select: Readable_timeo, then Recvfrom;      *)
(*   "rcvtimeo"  advio_timeout_sorcvtimeo: recvfrom with SO_RCVTIMEO.      *)
(*                                                                         *)
(* Lines are numbered.  Neither lines nor replies carry that number: the   *)
(* program takes the next datagram it is given for the answer.             *)
(***************************************************************************)
EXTENDS Naturals, Sequences

CONSTANTS
  Programs,  \* the clients to consider
  MaxLines,  \* bound: lines on standard input
  MaxExtra   \* bound: datagrams the network makes twice, and unsolicited ones

AllPrograms == {"plain", "checked", "alarm", "select", "rcvtimeo"}
ASSUME UdpAssumption ==
  Programs \subseteq AllPrograms /\ MaxLines \in Nat \ {0} /\ MaxExtra \in Nat

VARIABLES
  program,
  pc,        \* "gets", "send", "enter" (recvfrom is about to be called),
             \* "recv" (it waits), "puts"; "exited", "failed"
  k,         \* the line sent last
  armed,     \* the alarm is running
  answer,    \* the line the datagram just read answers; Stray: none
  shown,     \* of each line: the line whose answer was shown after it; or 0
  timedOut,  \* the lines whose wait was ended by a timer
  early,     \* the alarm of this line went off before recvfrom was called
  strayed,   \* the lines whose wait was ended by an unsolicited datagram
  requests,  \* datagrams under way to the server
  mesg,      \* what dg_echo has read and not yet sent back; 0: nothing
  replies,   \* datagrams under way to the client, with their sender's address
  rbuf,      \* datagrams in the client's socket
  copied,    \* the lines of which the request or the answer was duplicated
  extra      \* datagrams duplicated or unsolicited so far

lineVars == <<shown, timedOut, early, strayed>>
cliVars == <<program, pc, k, armed, answer, lineVars>>
extraVars == <<copied, extra>>
netVars == <<requests, mesg, replies, extraVars>>
vars == <<cliVars, netVars, rbuf>>

Lines == 1..MaxLines
Stray == MaxLines + 1           \* what an unsolicited datagram answers: no line
Addrs == {"server", "other"}    \* a server host may answer from another address;
Senders == IF program = "checked" THEN Addrs ELSE {"server"}   \* only "checked" looks
Running == pc \notin {"exited", "failed"}

Init ==
  /\ program \in Programs
  /\ pc = "gets" /\ k = 0 /\ armed = FALSE /\ answer = 0
  /\ shown = [l \in Lines |-> 0] /\ timedOut = {} /\ early = FALSE
  /\ strayed = {} /\ copied = {} /\ extra = 0
  /\ requests = {} /\ mesg = 0 /\ replies = {} /\ rbuf = <<>>

-----------------------------------------------------------------------------
(* dg_cli. *)

GetLine ==
  /\ pc = "gets"
  /\ \/ k < MaxLines /\ pc' = "send" /\ k' = k + 1
     \/ pc' \in {"exited", "failed"} /\ UNCHANGED k   \* end of file; err_sys
  /\ UNCHANGED <<program, armed, answer, lineVars, netVars, rbuf>>

(* Mutant: no alarm is set for a line that follows one that timed out. *)
SendUnarmed ==
  /\ pc = "send"
  /\ \/ /\ pc' = "enter" /\ requests' = requests \cup {k}
        /\ armed' = (program = "alarm" /\ timedOut = {}) /\ early' = FALSE
     \/ pc' = "failed" /\ UNCHANGED <<requests, armed, early>>
  /\ UNCHANGED <<program, k, answer, shown, timedOut, strayed, mesg, replies, extraVars, rbuf>>

(* Sendto, then alarm(5) in the program that has it. *)
SendLine ==
  /\ pc = "send"
  /\ \/ /\ pc' = "enter" /\ requests' = requests \cup {k}
        /\ armed' = (program = "alarm") /\ early' = FALSE
     \/ pc' = "failed" /\ UNCHANGED <<requests, armed, early>>
  /\ UNCHANGED <<program, k, answer, shown, timedOut, strayed, mesg, replies, extraVars, rbuf>>

EnterRecv ==
  /\ pc = "enter"
  /\ pc' = "recv"
  /\ UNCHANGED <<program, k, armed, answer, lineVars, netVars, rbuf>>

(* recvfrom returns the datagram that has waited longest. *)
Receive ==
  /\ pc = "recv" /\ rbuf # <<>>
  /\ rbuf' = Tail(rbuf)
  /\ strayed' = IF Head(rbuf)[1] = Stray THEN strayed \cup {k} ELSE strayed
  /\ IF program = "checked" /\ Head(rbuf)[2] # "server"
       THEN pc' = "gets" /\ UNCHANGED answer
       ELSE pc' = "puts" /\ answer' = Head(rbuf)[1]
  /\ UNCHANGED <<program, k, armed, shown, timedOut, early, netVars>>

(* Mutant: the alarm is left running. *)
PutKeepsAlarm ==
  /\ pc = "puts"
  /\ shown' = [shown EXCEPT ![k] = answer]
  /\ pc' = "gets"
  /\ UNCHANGED <<program, k, armed, answer, timedOut, early, strayed, netVars, rbuf>>

(* alarm(0) and Fputs, which may fail. *)
PutLine ==
  /\ pc = "puts"
  /\ \/ shown' = [shown EXCEPT ![k] = answer] /\ pc' = "gets"
     \/ pc' = "failed" /\ UNCHANGED shown
  /\ armed' = FALSE
  /\ UNCHANGED <<program, k, answer, timedOut, early, strayed, netVars, rbuf>>

(* Mutant: a request that timed out is sent again. *)
TimeoutResends ==
  /\ pc = "recv" /\ rbuf = <<>> /\ program \in {"select", "rcvtimeo"}
  /\ pc' = "send"
  /\ UNCHANGED <<program, k, armed, answer, lineVars, netVars, rbuf>>

(* select returns 0, or recvfrom fails with EWOULDBLOCK, after 5 seconds. *)
Timeout ==
  /\ pc = "recv" /\ rbuf = <<>> /\ program \in {"select", "rcvtimeo"}
  /\ pc' = "gets" /\ timedOut' = timedOut \cup {k}
  /\ UNCHANGED <<program, k, armed, answer, shown, early, strayed, netVars, rbuf>>

(* SIGALRM interrupts a recvfrom that waits (EINTR); before recvfrom, and   *)
(* after it, sig_alrm returns and nothing happens.  It would make a Fgets   *)
(* that waits for a line fail, and err_sys end the program.                 *)
AlarmFires ==
  /\ armed /\ Running
  /\ armed' = FALSE
  /\ CASE pc = "recv" /\ rbuf = <<>> ->
            pc' = "gets" /\ timedOut' = timedOut \cup {k} /\ UNCHANGED early
       [] pc = "gets"  -> pc' = "failed" /\ UNCHANGED <<timedOut, early>>
       [] pc = "enter" -> early' = TRUE /\ UNCHANGED <<pc, timedOut>>
       [] OTHER        -> UNCHANGED <<pc, timedOut, early>>
  /\ UNCHANGED <<program, k, answer, shown, strayed, netVars, rbuf>>

Client == GetLine \/ SendLine \/ EnterRecv \/ Receive \/ PutLine

-----------------------------------------------------------------------------
(* The network duplicates a datagram: one is taken, and one stays under way. *)
Copied(l) ==
  /\ extra < MaxExtra /\ extra' = extra + 1
  /\ copied' = copied \cup {l}

(* dg_echo of server_1_udp, unix_domain_udpsrv1, unix_domain_srv3_udp.      *)

ServerReceives ==
  /\ mesg = 0
  /\ \E l \in requests :
       /\ mesg' = l
       /\ \/ requests' = requests \ {l} /\ UNCHANGED extraVars
          \/ Copied(l) /\ UNCHANGED requests
  /\ UNCHANGED <<cliVars, replies, rbuf>>

ServerReplies ==
  /\ mesg # 0
  /\ \E a \in Senders : replies' = replies \cup {<<mesg, a>>}
  /\ mesg' = 0
  /\ UNCHANGED <<cliVars, requests, extraVars, rbuf>>

Server == ServerReceives \/ ServerReplies

(* The network: datagrams are lost, or delivered late, in any order, twice. *)
Lose ==
  /\ \/ \E l \in requests : requests' = requests \ {l} /\ UNCHANGED replies
     \/ \E r \in replies : replies' = replies \ {r} /\ UNCHANGED requests
  /\ UNCHANGED <<cliVars, mesg, extraVars, rbuf>>

Deliver ==
  /\ Running
  /\ \E r \in replies :
       /\ rbuf' = Append(rbuf, r)
       /\ \/ replies' = replies \ {r} /\ UNCHANGED extraVars
          \/ Copied(r[1]) /\ UNCHANGED replies
  /\ UNCHANGED <<cliVars, requests, mesg>>

(* Another program sends the client a datagram; or the server does, in      *)
(* answer to one that had the same port before.                             *)
Unsolicited ==
  /\ Running /\ extra < MaxExtra
  /\ extra' = extra + 1
  /\ \E a \in Senders : rbuf' = Append(rbuf, <<Stray, a>>)
  /\ UNCHANGED <<cliVars, requests, mesg, replies, copied>>

Next == Client \/ Timeout \/ AlarmFires \/ Server \/ Lose \/ Deliver \/ Unsolicited

(* Both programs run, time passes, and the network does not keep datagrams. *)
Fairness ==
  /\ WF_vars(Client) /\ WF_vars(Server)
  /\ WF_vars(Timeout) /\ WF_vars(AlarmFires) /\ WF_vars(Deliver)

Spec == Init /\ [][Next]_vars /\ Fairness

-----------------------------------------------------------------------------
(* Properties. *)

(* What can put answers and lines out of step by line d.                    *)
Disturbed(d) == \E m \in timedOut \cup copied \cup strayed : m <= d

(* Nothing matches answers to lines.  They stay in step until a wait ends   *)
(* without its answer, in a timeout or in an unsolicited datagram, or an    *)
(* answer comes twice: what is shown after line l answers l, or no line; or *)
(* an earlier one, from which on answers and lines are out of step.  Only   *)
(* an answer that was duplicated under way is shown after two lines.        *)
AnswersExplained ==
  \A l \in Lines : shown[l] # 0 =>
    /\ shown[l] = Stray => l \in strayed
    /\ shown[l] \notin {l, Stray} => shown[l] < l /\ Disturbed(shown[l])
    /\ \A m \in Lines \ {l} : shown[m] = shown[l] => shown[l] \in copied \cup {Stray}

(* The alarm runs only around its own recvfrom: it never goes off while the *)
(* next line is being read, where it would end the program.                 *)
NoStrayAlarm == pc \in {"gets", "send"} => ~armed

(* No timer runs, and no datagram will come. *)
WaitsForEver ==
  /\ pc = "recv" /\ (program \in {"plain", "checked"} \/ early)
  /\ requests = {} /\ mesg = 0 /\ replies = {} /\ rbuf = <<>>

(* Every wait ends, whatever is lost; except in the programs without a      *)
(* timeout, and in the one whose alarm went off before recvfrom was called. *)
WaitEnds == pc \in {"enter", "recv"} ~> pc \notin {"enter", "recv"} \/ WaitsForEver
=============================================================================
