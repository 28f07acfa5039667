-------------------------- MODULE UdpClientProofs --------------------------
(***************************************************************************)
(* For any number of lines, and a network that loses, delays, reorders and *)
(* duplicates, with strangers that send as well: what the datagram clients *)
(* show is explained by what went wrong before, and their alarm never goes *)
(* off outside its own wait.                                               *)
(***************************************************************************)
EXTENDS UdpClient, TLAPS

Waiting == {"enter", "recv"}
Busy    == {"send", "enter", "recv", "puts"}
Packets == (Lines \cup {Stray}) \X Addrs

TypeInv ==
  /\ program \in Programs
  /\ pc \in Busy \cup {"gets", "exited", "failed"}
  /\ k \in 0..MaxLines /\ (pc \in Busy => k \in Lines)
  /\ armed \in BOOLEAN /\ early \in BOOLEAN
  /\ answer \in Nat
  /\ shown \in [Lines -> Nat] /\ timedOut \in SUBSET Lines
  /\ requests \in SUBSET Lines /\ mesg \in 0..MaxLines
  /\ replies \in SUBSET (Lines \X Addrs) /\ rbuf \in Seq(Packets)
  /\ strayed \in SUBSET Lines /\ copied \in SUBSET Lines /\ extra \in Nat

(* Only the program with an alarm arms it, for the wait it is about to make.*)
AlarmInv == armed => program = "alarm" /\ pc \in Waiting \cup {"puts"}

Buffered(d) == \E j \in DOMAIN rbuf : rbuf[j][1] = d
Replied(d)  == \E r \in replies : r[1] = d
Out(d)      == d \in requests \/ d = mesg \/ Replied(d) \/ Buffered(d)

(* The request or the answer of a line that was not duplicated is in one    *)
(* place only.                                                              *)
Unique ==
  \A d \in Lines \ copied :
    /\ d \in requests => d # mesg /\ ~Replied(d) /\ ~Buffered(d)
    /\ d = mesg => ~Replied(d) /\ ~Buffered(d)
    /\ Replied(d) => ~Buffered(d)
    /\ \A r, s \in replies : r[1] = d /\ s[1] = d => r = s
    /\ \A i, j \in DOMAIN rbuf : rbuf[i][1] = d /\ rbuf[j][1] = d => i = j

(* What is under way for a line that is no longer waited for is excused by  *)
(* what happened to that line or to an earlier one.                         *)
Late ==
  \A d \in Lines : Out(d) =>
    /\ d <= k /\ (pc = "send" => d < k)
    /\ d < k \/ pc \notin Waiting => Disturbed(d)

(* The answer about to be shown is the one waited for, an excused one, or   *)
(* no answer at all.                                                        *)
AnswerInv ==
  pc = "puts" =>
    /\ answer \in 1..k \/ (answer = Stray /\ k \in strayed)
    /\ answer < k => Disturbed(answer)
    /\ answer \in Lines \ copied => ~Out(answer) /\ \A l \in Lines : shown[l] # answer

ShownInv ==
  \A l \in Lines : shown[l] # 0 =>
    /\ shown[l] \in Lines \cup {Stray}
    /\ shown[l] \in Lines => shown[l] <= k /\ (pc = "send" => shown[l] < k)
    /\ shown[l] \in Lines \ copied => ~Out(shown[l])

IInv == TypeInv /\ AlarmInv /\ Unique /\ Late /\ AnswerInv /\ ShownInv /\ AnswersExplained

LEMMA InitHolds == Init => IInv
<1> SUFFICES ASSUME Init PROVE IInv
  OBVIOUS
<1> USE UdpAssumption DEF Init, Lines
<1>1. TypeInv /\ AlarmInv
  <2>1. shown \in [Lines -> Nat] /\ rbuf \in Seq(Packets)
    OBVIOUS
  <2>2. pc \in Busy \cup {"gets", "exited", "failed"} /\ pc \notin Busy
    BY DEF Busy
  <2>3. k \in 0..MaxLines /\ mesg \in 0..MaxLines /\ answer \in Nat
    OBVIOUS
  <2> QED
    BY <2>1, <2>2, <2>3 DEF TypeInv, AlarmInv
<1>2. \A d \in Lines : ~Out(d)
  BY DEF Out, Replied, Buffered
<1>3. Unique
  BY DEF Unique, Replied, Buffered
<1>4. Late /\ AnswerInv /\ ShownInv /\ AnswersExplained
  BY <1>2 DEF Late, AnswerInv, ShownInv, AnswersExplained
<1> QED
  BY <1>1, <1>3, <1>4 DEF IInv

LEMMA StrayIsNoLine == Stray \notin Lines /\ Stray # 0 /\ Stray \in Nat
  BY UdpAssumption DEF Stray, Lines

(* A step that only makes datagrams disappear, moves one, or copies one     *)
(* leaves nothing under way that was not.                                   *)
LEMMA FewerOut ==
  ASSUME IInv, Unique', TypeInv', AlarmInv',
         UNCHANGED <<k, pc, answer, shown, timedOut, strayed>>, copied \subseteq copied',
         \A d \in Lines : Out(d)' => Out(d)
  PROVE  IInv'
<1>1. \A d : Disturbed(d) => Disturbed(d)'
  BY DEF Disturbed
<1>2. Late'
  BY <1>1 DEF IInv, Late
<1>3. AnswerInv'
  <2> SUFFICES ASSUME pc = "puts" PROVE AnswerInv'
    BY DEF AnswerInv
  <2> QED
    BY <1>1 DEF IInv, AnswerInv
<1>4. ShownInv'
  BY DEF IInv, ShownInv
<1>5. AnswersExplained'
  BY <1>1 DEF IInv, AnswersExplained
<1> QED
  BY <1>2, <1>3, <1>4, <1>5 DEF IInv

LEMMA ClientTypes == IInv /\ (Client \/ Timeout \/ AlarmFires) => TypeInv' /\ AlarmInv'
<1> SUFFICES ASSUME IInv, Client \/ Timeout \/ AlarmFires PROVE TypeInv' /\ AlarmInv'
  OBVIOUS
<1> USE UdpAssumption
    DEF IInv, TypeInv, AlarmInv, Busy, Waiting, Lines, netVars, extraVars, lineVars, Running
<1>1. CASE GetLine
  BY <1>1 DEF GetLine
<1>2. CASE SendLine
  <2>1. AlarmInv'
    BY <1>2 DEF SendLine
  <2>2. armed' \in BOOLEAN /\ early' \in BOOLEAN
    BY <1>2 DEF SendLine
  <2> QED
    BY <1>2, <2>1, <2>2 DEF SendLine
<1>3. CASE EnterRecv
  BY <1>3 DEF EnterRecv
<1>4. CASE Receive
  <2>1. Head(rbuf) \in Packets /\ Tail(rbuf) \in Seq(Packets)
    BY <1>4 DEF Receive
  <2>2. Head(rbuf)[1] \in Nat
    BY <2>1, StrayIsNoLine DEF Packets
  <2> QED
    BY <1>4, <2>1, <2>2 DEF Receive
<1>5. CASE PutLine
  BY <1>5 DEF PutLine
<1>6. CASE Timeout
  BY <1>6 DEF Timeout
<1>7. CASE AlarmFires
  BY <1>7 DEF AlarmFires
<1> QED
  BY <1>1, <1>2, <1>3, <1>4, <1>5, <1>6, <1>7 DEF Client

(* Steps that leave the network alone leave what is under way alone. *)
LEMMA SameOut ==
  ASSUME UNCHANGED <<requests, mesg, replies, rbuf, copied>>
  PROVE  (Unique' <=> Unique) /\ \A d : Out(d)' <=> Out(d)
  BY DEF Unique, Out, Replied, Buffered

LEMMA GetLineStep == IInv /\ GetLine => IInv'
<1> SUFFICES ASSUME IInv, GetLine PROVE IInv'
  OBVIOUS
<1> USE DEF GetLine, netVars, extraVars, lineVars
<1>1. TypeInv' /\ AlarmInv'
  BY ClientTypes DEF Client
<1>2. k \in Nat /\ k' \in Nat /\ k <= k' /\ (pc' = "send" => k' = k + 1)
  BY UdpAssumption DEF IInv, TypeInv
<1>3. Unique' /\ \A d : Out(d)' <=> Out(d)
  BY SameOut DEF IInv
<1>4. \A d : Disturbed(d)' <=> Disturbed(d)
  BY DEF Disturbed
<1>5. Late'
  BY <1>2, <1>3, <1>4 DEF IInv, Late, Waiting, Lines
<1>6. ShownInv'
  BY <1>2, <1>3 DEF IInv, ShownInv, Lines
<1>7. AnswerInv' /\ AnswersExplained'
  BY DEF IInv, AnswerInv, AnswersExplained, Disturbed
<1> QED
  BY <1>1, <1>3, <1>5, <1>6, <1>7 DEF IInv

LEMMA SendLineStep == IInv /\ SendLine => IInv'
<1> SUFFICES ASSUME IInv, SendLine PROVE IInv'
  OBVIOUS
<1> USE DEF SendLine, extraVars
<1>1. TypeInv' /\ AlarmInv'
  BY ClientTypes DEF Client
<1>2. k \in Lines /\ k \in Nat
  BY UdpAssumption DEF IInv, TypeInv, Busy, Lines
<1>3. ~Out(k)
  BY <1>2 DEF IInv, Late
<1>4. \A d \in Lines : (Out(d)' => Out(d) \/ (d = k /\ pc' = "enter")) /\ (Disturbed(d)' <=> Disturbed(d))
  BY DEF Out, Replied, Buffered, Disturbed
<1>5. Unique'
  BY <1>3 DEF IInv, Unique, Out, Replied, Buffered
<1>6. Late'
  BY <1>2, <1>4 DEF IInv, Late, Waiting, Lines
<1>7. ShownInv'
  BY <1>2, <1>4 DEF IInv, ShownInv, Lines
<1>8. AnswerInv' /\ AnswersExplained'
  BY DEF IInv, AnswerInv, AnswersExplained, Disturbed
<1> QED
  BY <1>1, <1>5, <1>6, <1>7, <1>8 DEF IInv

LEMMA EnterRecvStep == IInv /\ EnterRecv => IInv'
<1> SUFFICES ASSUME IInv, EnterRecv PROVE IInv'
  OBVIOUS
<1> USE DEF EnterRecv, netVars, extraVars, lineVars
<1>1. TypeInv' /\ AlarmInv'
  BY ClientTypes DEF Client
<1>2. Unique' /\ \A d : Out(d)' <=> Out(d)
  BY SameOut DEF IInv
<1>3. \A d : Disturbed(d)' <=> Disturbed(d)
  BY DEF Disturbed
<1>4. Late' /\ ShownInv'
  BY <1>2, <1>3 DEF IInv, Late, ShownInv, Waiting, Lines
<1>5. AnswerInv' /\ AnswersExplained'
  BY DEF IInv, AnswerInv, AnswersExplained, Disturbed
<1> QED
  BY <1>1, <1>2, <1>4, <1>5 DEF IInv

(* The datagram read is either the answer waited for, and then all that is  *)
(* left is older, or an excused one, which excuses the one waited for.      *)
LEMMA ReceiveStep == IInv /\ Receive => IInv'
<1> SUFFICES ASSUME IInv, Receive PROVE IInv'
  OBVIOUS
<1> USE DEF Receive, netVars, extraVars
<1>1. TypeInv' /\ AlarmInv'
  BY ClientTypes DEF Client
<1>0. PICK e : e = Head(rbuf)[1]
  OBVIOUS
<1>2. /\ rbuf \in Seq(Packets) /\ rbuf # <<>> /\ k \in Nat /\ k \in Lines
      /\ Head(rbuf) = rbuf[1] /\ 1 \in DOMAIN rbuf /\ rbuf[1] \in Packets
      /\ \A j \in DOMAIN rbuf' : j + 1 \in DOMAIN rbuf /\ rbuf'[j] = rbuf[j + 1] /\ j + 1 # 1
  BY UdpAssumption DEF IInv, TypeInv, Busy, Lines
<1>3. (e \in Lines /\ Buffered(e) /\ e \in Nat) \/ e = Stray
  BY <1>0, <1>2 DEF Packets, Buffered, Lines
<1>4. \A d \in Lines : Buffered(d)' => Buffered(d) /\ (d = e => d \in copied)
  BY <1>0, <1>2 DEF Buffered, IInv, Unique
<1>5. \A d \in Lines : Out(d)' => Out(d)
  BY <1>4 DEF Out, Replied
<1>6. e \in Lines \ copied => ~Out(e)'
  <2> SUFFICES ASSUME e \in Lines, e \notin copied PROVE ~Out(e)'
    OBVIOUS
  <2>1. Buffered(e) /\ ~Buffered(e)'
    BY <1>3, <1>4, StrayIsNoLine
  <2> QED
    BY <2>1 DEF Out, Replied, IInv, Unique
<1>7. Unique'
  <2> SUFFICES ASSUME NEW d \in Lines \ copied
               PROVE  /\ d \in requests => d # mesg /\ ~Replied(d) /\ ~Buffered(d)'
                      /\ d = mesg => ~Replied(d) /\ ~Buffered(d)'
                      /\ Replied(d) => ~Buffered(d)'
                      /\ \A r, s \in replies : r[1] = d /\ s[1] = d => r = s
                      /\ \A i, j \in DOMAIN rbuf' : rbuf'[i][1] = d /\ rbuf'[j][1] = d => i = j
    BY DEF Unique, Replied
  <2>1. \A i, j \in DOMAIN rbuf' : rbuf'[i][1] = d /\ rbuf'[j][1] = d => i = j
    <3> SUFFICES ASSUME NEW i \in DOMAIN rbuf', NEW j \in DOMAIN rbuf',
                        rbuf'[i][1] = d, rbuf'[j][1] = d
                 PROVE  i = j
      OBVIOUS
    <3>1. i + 1 = j + 1
      BY <1>2 DEF IInv, Unique
    <3>2. i \in Nat /\ j \in Nat
      BY <1>1 DEF TypeInv
    <3> QED
      BY <3>1, <3>2
  <2> QED
    BY <1>4, <2>1 DEF IInv, Unique
<1>8. e \in Lines => e <= k /\ (e < k => Disturbed(e))
  BY <1>3, StrayIsNoLine DEF IInv, Late, Out
<1>9. (\A d : Disturbed(d) => Disturbed(d)') /\ (e = Stray => k \in strayed')
  BY <1>0 DEF Disturbed
<1>10. \A d \in Lines : Out(d)' => d <= k /\ Disturbed(d)'
  <2> SUFFICES ASSUME NEW d \in Lines, Out(d)' PROVE d <= k /\ Disturbed(d)'
    OBVIOUS
  <2>1. d <= k /\ (d < k => Disturbed(d))
    BY <1>5 DEF IInv, Late
  <2>2. CASE d < k
    BY <1>9, <2>1, <2>2
  <2>3. CASE d = k /\ e = Stray
    BY <1>2, <1>9, <2>1, <2>3 DEF Disturbed
  <2>4. CASE d = k /\ e = k
    <3>1. d \in copied' /\ d <= d
      BY <1>2, <1>6, <2>4
    <3> QED
      BY <2>1, <3>1 DEF Disturbed
  <2>5. CASE d = k /\ e \in Lines /\ e # k
    <3>1. e < k /\ e \in Nat
      BY <1>2, <1>8, <2>5 DEF Lines
    <3>2. PICK m \in timedOut \cup copied \cup strayed : m <= e
      BY <1>8, <2>5, <3>1 DEF Disturbed
    <3>3. m <= d /\ m \in timedOut' \cup copied' \cup strayed'
      BY <1>2, <2>5, <3>1, <3>2 DEF IInv, TypeInv, Lines
    <3> QED
      BY <2>1, <3>3 DEF Disturbed
  <2> QED
    BY <1>2, <1>3, <2>1, <2>2, <2>3, <2>4, <2>5 DEF Lines
<1>11. Late'
  BY <1>10 DEF Late
<1>12. AnswerInv'
  <2> SUFFICES ASSUME pc' = "puts" PROVE AnswerInv'
    BY DEF AnswerInv
  <2>1. answer' = e
    BY <1>0
  <2>2. e \in Lines \ copied => \A l \in Lines : shown[l] # e
    BY <1>3, StrayIsNoLine DEF IInv, ShownInv, Out, Lines
  <2>3. e \in 1..k \/ (e = Stray /\ k \in strayed')
    BY <1>2, <1>3, <1>8, <1>9 DEF Lines
  <2>4. e < k => Disturbed(e)'
    <3> SUFFICES ASSUME e < k PROVE Disturbed(e)'
      OBVIOUS
    <3>1. ~(Stray < k)
      BY <1>2, UdpAssumption DEF Stray, Lines
    <3>2. e \in Lines
      BY <1>3, <3>1
    <3> QED
      BY <1>8, <1>9, <3>2
  <2> QED
    BY <1>6, <2>1, <2>2, <2>3, <2>4 DEF AnswerInv
<1>13. ShownInv'
  BY <1>5 DEF IInv, ShownInv
<1>14. AnswersExplained'
  BY <1>9 DEF IInv, AnswersExplained
<1> QED
  BY <1>1, <1>7, <1>11, <1>12, <1>13, <1>14 DEF IInv

LEMMA PutLineStep == IInv /\ PutLine => IInv'
<1> SUFFICES ASSUME IInv, PutLine PROVE IInv'
  OBVIOUS
<1> USE DEF PutLine, netVars, extraVars
<1>1. TypeInv' /\ AlarmInv'
  BY ClientTypes DEF Client
<1>2. Unique' /\ \A d : Out(d)' <=> Out(d)
  BY SameOut DEF IInv
<1>3. \A d : Disturbed(d)' <=> Disturbed(d)
  BY DEF Disturbed
<1>4. /\ k \in Lines /\ k \in Nat
      /\ (answer \in 1..k /\ answer \in Lines) \/ (answer = Stray /\ k \in strayed)
      /\ answer < k => Disturbed(answer)
      /\ answer \in Lines \ copied => ~Out(answer) /\ \A l \in Lines : shown[l] # answer
  <2>1. k \in Lines /\ k \in Nat
    BY UdpAssumption DEF IInv, TypeInv, Busy, Lines
  <2>2. 1..k \subseteq Lines
    BY <2>1, UdpAssumption DEF Lines
  <2> QED
    BY <2>1, <2>2 DEF IInv, AnswerInv
<1>5. \A l \in Lines : shown'[l] = shown[l] \/ (l = k /\ shown'[l] = answer)
  BY DEF IInv, TypeInv
<1>6. Late'
  BY <1>2, <1>3 DEF IInv, Late, Waiting
<1>7. ShownInv'
  <2> SUFFICES ASSUME NEW l \in Lines, shown'[l] # 0
               PROVE  /\ shown'[l] \in Lines \cup {Stray}
                      /\ shown'[l] \in Lines => shown'[l] <= k
                      /\ shown'[l] \in Lines \ copied => ~Out(shown[l])'
    BY DEF ShownInv
  <2>1. CASE shown'[l] = shown[l]
    BY <1>2, <2>1 DEF IInv, ShownInv
  <2>2. CASE shown'[l] = answer
    BY <1>2, <1>4, <2>2, StrayIsNoLine
  <2> QED
    BY <1>5, <2>1, <2>2
<1>8. AnswerInv'
  BY DEF AnswerInv
<1>9. AnswersExplained'
  <2>1. \A l \in Lines : shown'[l] # 0 =>
          /\ shown'[l] = Stray => l \in strayed
          /\ shown'[l] \notin {l, Stray} => shown'[l] < l /\ Disturbed(shown'[l])
    <3> SUFFICES ASSUME NEW l \in Lines, shown'[l] # 0
                 PROVE  /\ shown'[l] = Stray => l \in strayed
                        /\ shown'[l] \notin {l, Stray} => shown'[l] < l /\ Disturbed(shown'[l])
      OBVIOUS
    <3>1. CASE shown'[l] = shown[l]
      BY <3>1 DEF IInv, AnswersExplained
    <3>2. CASE l = k /\ shown'[l] = answer
      BY <1>4, <3>2, StrayIsNoLine DEF Lines
    <3> QED
      BY <1>5, <3>1, <3>2
  <2>2. \A l, m \in Lines : l # m /\ shown'[l] # 0 /\ shown'[m] = shown'[l]
          => shown'[l] \in copied \cup {Stray}
    <3> SUFFICES ASSUME NEW l \in Lines, NEW m \in Lines, l # m, shown'[l] # 0,
                        shown'[m] = shown'[l], shown'[l] \notin copied \cup {Stray}
                 PROVE  FALSE
      OBVIOUS
    <3>1. shown'[l] # shown[l] \/ shown'[m] # shown[m]
      BY DEF IInv, AnswersExplained
    <3>2. shown'[l] = answer /\ answer \in Lines \ copied
      BY <1>4, <1>5, <3>1
    <3>3. shown'[l] = shown[l] \/ shown'[m] = shown[m]
      BY <1>5
    <3> QED
      BY <1>4, <3>2, <3>3
  <2> QED
    BY <1>3, <2>1, <2>2 DEF AnswersExplained
<1> QED
  BY <1>1, <1>2, <1>6, <1>7, <1>8, <1>9 DEF IInv

(* A wait that ends without an answer: its line excuses what comes later.   *)
LEMMA WaitEndsStep ==
  ASSUME IInv, Timeout \/ AlarmFires PROVE IInv'
<1> USE DEF Timeout, AlarmFires, netVars, extraVars, Running
<1>1. TypeInv' /\ AlarmInv'
  BY ClientTypes
<1>2. Unique' /\ \A d : Out(d)' <=> Out(d)
  BY SameOut DEF IInv
<1>3. \A d : Disturbed(d) => Disturbed(d)'
  BY DEF Disturbed
<1>4. pc' = pc \/ (pc = "recv" /\ pc' = "gets" /\ Disturbed(k)')
  <2>1. pc # "gets" \/ ~armed
    BY DEF IInv, AlarmInv, Waiting
  <2>2. k <= k
    BY DEF IInv, TypeInv
  <2> QED
    BY <2>1, <2>2 DEF Disturbed
<1>5. k' = k /\ shown' = shown /\ answer' = answer /\ k \in Nat
  BY DEF IInv, TypeInv
<1>6. Late'
  <2> SUFFICES ASSUME NEW d \in Lines, Out(d)'
               PROVE  /\ d <= k /\ (pc' = "send" => d < k)
                      /\ d < k \/ pc' \notin Waiting => Disturbed(d)'
    BY <1>5 DEF Late
  <2>1. /\ d <= k /\ (pc = "send" => d < k)
        /\ d < k \/ pc \notin Waiting => Disturbed(d)
    BY <1>2 DEF IInv, Late
  <2>2. d < k \/ d = k
    BY <1>5, <2>1 DEF Lines
  <2> QED
    BY <1>3, <1>4, <2>1, <2>2
<1>7. AnswerInv'
  BY <1>2, <1>3, <1>4, <1>5 DEF IInv, AnswerInv
<1>8. ShownInv'
  BY <1>2, <1>4, <1>5 DEF IInv, ShownInv
<1>9. AnswersExplained'
  BY <1>3, <1>5 DEF IInv, AnswersExplained
<1> QED
  BY <1>1, <1>2, <1>6, <1>7, <1>8, <1>9 DEF IInv

-----------------------------------------------------------------------------
(* The server and the network.                                              *)

LEMMA NetworkTypes ==
  ASSUME IInv, Server \/ Lose \/ Deliver \/ Unsolicited
  PROVE  /\ TypeInv' /\ AlarmInv'
         /\ UNCHANGED <<k, pc, answer, shown, timedOut, strayed>> /\ copied \subseteq copied'
<1> USE UdpAssumption DEF IInv, cliVars, lineVars, extraVars, Copied
<1>1. AlarmInv' /\ UNCHANGED <<k, pc, answer, shown, timedOut, strayed, early, armed, program>>
  BY DEF AlarmInv, Server, ServerReceives, ServerReplies, Lose, Deliver, Unsolicited
<1>2. copied \subseteq copied'
  BY DEF Server, ServerReceives, ServerReplies, Lose, Deliver, Unsolicited
<1>3. /\ requests \subseteq Lines /\ replies \subseteq Lines \X Addrs
      /\ rbuf \in Seq(Packets) /\ copied \subseteq Lines /\ extra \in Nat
      /\ mesg \in 0..MaxLines
  BY DEF TypeInv
<1>4. copied' \subseteq Lines /\ extra' \in Nat
  <2>1. ASSUME NEW l \in Lines, Copied(l) PROVE copied' \subseteq Lines /\ extra' \in Nat
    BY <1>3, <2>1
  <2>2. ASSUME UNCHANGED extraVars PROVE copied' \subseteq Lines /\ extra' \in Nat
    BY <1>3, <2>2
  <2>3. CASE ServerReceives
    BY <1>3, <2>1, <2>2, <2>3, Zenon DEF ServerReceives
  <2>4. CASE Deliver
    <3>1. \A r \in replies : r[1] \in Lines
      BY <1>3
    <3> QED
      BY <2>1, <2>2, <2>4, <3>1, Zenon DEF Deliver
  <2>5. CASE ServerReplies \/ Lose
    BY <2>2, <2>5 DEF ServerReplies, Lose
  <2>6. CASE Unsolicited
    BY <1>3, <2>6 DEF Unsolicited
  <2> QED
    BY <2>3, <2>4, <2>5, <2>6 DEF Server
<1>5. requests' \subseteq Lines /\ replies' \subseteq Lines \X Addrs /\ mesg' \in 0..MaxLines
  <2>1. CASE ServerReceives
    <3>1. PICK l \in requests : mesg' = l /\ requests' \subseteq requests
      BY <2>1 DEF ServerReceives
    <3>2. replies' = replies /\ l \in Lines /\ Lines \subseteq 0..MaxLines
      BY <1>3, <2>1 DEF ServerReceives, Lines
    <3> QED
      BY <1>3, <3>1, <3>2
  <2>2. CASE ServerReplies
    <3>1. PICK a \in Addrs : replies' = replies \cup {<<mesg, a>>}
      BY <2>2 DEF ServerReplies, Senders, Addrs
    <3>2. mesg \in Lines /\ requests' = requests /\ mesg' = 0
      BY <1>3, <2>2 DEF ServerReplies, Lines
    <3> QED
      BY <1>3, <3>1, <3>2
  <2>3. CASE Lose \/ Deliver \/ Unsolicited
    BY <1>3, <2>3 DEF Lose, Deliver, Unsolicited
  <2> QED
    BY <2>1, <2>2, <2>3 DEF Server
<1>6. rbuf' \in Seq(Packets)
  <2>1. \A r \in replies : r \in Packets
    BY <1>3 DEF Packets
  <2>2. \A a \in Senders : <<Stray, a>> \in Packets
    BY DEF Packets, Senders, Addrs
  <2>3. rbuf' = rbuf \/ \E r \in Packets : rbuf' = Append(rbuf, r)
    BY <2>1, <2>2 DEF Server, ServerReceives, ServerReplies, Lose, Deliver, Unsolicited
  <2> QED
    BY ONLY <1>3, <2>3
<1> QED
  BY <1>1, <1>2, <1>4, <1>5, <1>6 DEF TypeInv

LEMMA ServerStep == ASSUME IInv, Server PROVE IInv'
<1>1. CASE ServerReceives
  <2> USE <1>1 DEF ServerReceives, cliVars, extraVars, Copied
  <2>1. Unique'
    BY DEF IInv, Unique, Replied, Buffered
  <2>2. \A d \in Lines : Out(d)' => Out(d)
    BY DEF Out, Replied, Buffered
  <2> QED
    BY <2>1, <2>2, NetworkTypes, FewerOut DEF Server
<1>2. CASE ServerReplies
  <2> USE <1>2 DEF ServerReplies, cliVars, extraVars
  <2>1. PICK a : replies' = replies \cup {<<mesg, a>>}
    OBVIOUS
  <2>2. mesg \in Lines /\ mesg' \notin Lines
    BY UdpAssumption DEF IInv, TypeInv, Lines
  <2>3. \A d : Replied(d)' <=> Replied(d) \/ d = mesg
    <3>1. <<mesg, a>> \in replies' /\ <<mesg, a>>[1] = mesg
      BY <2>1
    <3>2. \A r \in replies' : r \in replies \/ r = <<mesg, a>>
      BY <2>1
    <3>3. replies \subseteq replies'
      BY <2>1
    <3> QED
      BY <3>1, <3>2, <3>3 DEF Replied
  <2>4. \A d : Buffered(d)' <=> Buffered(d)
    BY DEF Buffered
  <2>5. mesg \notin copied => ~Replied(mesg) /\ ~Buffered(mesg) /\ mesg \notin requests
    BY <2>2 DEF IInv, Unique
  <2>6. \A d \in Lines \ copied : \A r, s \in replies' : r[1] = d /\ s[1] = d => r = s
    BY <2>1, <2>5 DEF IInv, Unique, Replied
  <2>7. Unique'
    BY <2>2, <2>3, <2>4, <2>5, <2>6 DEF IInv, Unique
  <2>8. \A d \in Lines : Out(d)' => Out(d)
    BY <2>2, <2>3, <2>4 DEF Out
  <2> QED
    BY <2>7, <2>8, NetworkTypes, FewerOut DEF Server
<1> QED
  BY <1>1, <1>2 DEF Server

(* A datagram is put at the end of the client's socket. *)
LEMMA Appended ==
  ASSUME IInv, NEW r \in Packets, rbuf' = Append(rbuf, r)
  PROVE  /\ \A d : Buffered(d)' <=> Buffered(d) \/ d = r[1]
         /\ \A d \in Lines \ copied : d # r[1] \/ ~Buffered(d) =>
              \A i, j \in DOMAIN rbuf' : rbuf'[i][1] = d /\ rbuf'[j][1] = d => i = j
<1>1. rbuf \in Seq(Packets)
  BY DEF IInv, TypeInv
<1>2. /\ DOMAIN rbuf' = DOMAIN rbuf \cup {Len(rbuf) + 1} /\ Len(rbuf) + 1 \notin DOMAIN rbuf
      /\ rbuf'[Len(rbuf) + 1] = r /\ \A j \in DOMAIN rbuf : rbuf'[j] = rbuf[j]
  BY <1>1
<1>3. \A d : Buffered(d)' <=> Buffered(d) \/ d = r[1]
  BY <1>2 DEF Buffered
<1>4. ASSUME NEW d \in Lines \ copied, d # r[1] \/ ~Buffered(d),
             NEW i \in DOMAIN rbuf', NEW j \in DOMAIN rbuf',
             rbuf'[i][1] = d, rbuf'[j][1] = d
      PROVE  i = j
  BY <1>2, <1>4 DEF IInv, Unique, Buffered
<1> QED
  BY <1>3, <1>4

LEMMA NetworkStep == ASSUME IInv, Lose \/ Deliver \/ Unsolicited PROVE IInv'
<1>1. CASE Lose
  <2> USE <1>1 DEF Lose, cliVars, extraVars
  <2>1. Unique'
    BY DEF IInv, Unique, Replied, Buffered
  <2>2. \A d \in Lines : Out(d)' => Out(d)
    BY DEF Out, Replied, Buffered
  <2> QED
    BY <2>1, <2>2, NetworkTypes, FewerOut
<1>2. CASE Deliver
  <2> USE <1>2 DEF Deliver, cliVars
  <2>1. PICK r \in replies :
          /\ rbuf' = Append(rbuf, r)
          /\ \/ replies' = replies \ {r} /\ copied' = copied
             \/ replies' = replies /\ copied' = copied \cup {r[1]}
    BY DEF Copied, extraVars
  <2>2. r \in Packets /\ r[1] \in Lines
    BY DEF IInv, TypeInv, Packets
  <2>3. /\ \A d : Buffered(d)' <=> Buffered(d) \/ d = r[1]
        /\ \A d \in Lines \ copied : d # r[1] \/ ~Buffered(d) =>
             \A i, j \in DOMAIN rbuf' : rbuf'[i][1] = d /\ rbuf'[j][1] = d => i = j
    BY <2>1, <2>2, Appended
  <2>4. Replied(r[1]) /\ \A d : Replied(d)' => Replied(d)
    BY <2>1 DEF Replied
  <2>5. r[1] \notin copied => ~Buffered(r[1]) /\ r[1] \notin requests /\ r[1] # mesg
    BY <2>2, <2>4 DEF IInv, Unique
  <2>6. r[1] \notin copied' => ~Replied(r[1])'
    BY <2>1, <2>2 DEF IInv, Unique, Replied
  <2>7. Unique'
    <3>1. \A d \in Lines \ copied' : \A p, q \in replies' : p[1] = d /\ q[1] = d => p = q
      BY <2>1 DEF IInv, Unique
    <3>2. \A d \in Lines \ copied' :
            \A i, j \in DOMAIN rbuf' : rbuf'[i][1] = d /\ rbuf'[j][1] = d => i = j
      BY <2>1, <2>3, <2>5
    <3> QED
      BY <2>1, <2>3, <2>4, <2>5, <2>6, <3>1, <3>2 DEF IInv, Unique
  <2>8. \A d \in Lines : Out(d)' => Out(d)
    BY <2>3, <2>4 DEF Out
  <2> QED
    BY <2>7, <2>8, NetworkTypes, FewerOut
<1>3. CASE Unsolicited
  <2> USE <1>3 DEF Unsolicited, cliVars
  <2>1. PICK a \in Addrs : rbuf' = Append(rbuf, <<Stray, a>>)
    BY DEF Senders, Addrs
  <2>2. <<Stray, a>> \in Packets /\ <<Stray, a>>[1] \notin Lines
    BY StrayIsNoLine DEF Packets
  <2>3. /\ \A d \in Lines : Buffered(d)' <=> Buffered(d)
        /\ \A d \in Lines \ copied :
             \A i, j \in DOMAIN rbuf' : rbuf'[i][1] = d /\ rbuf'[j][1] = d => i = j
    BY <2>1, <2>2, Appended
  <2>4. Unique'
    BY <2>3 DEF IInv, Unique, Replied
  <2>5. \A d \in Lines : Out(d)' => Out(d)
    BY <2>3 DEF Out, Replied
  <2> QED
    BY <2>4, <2>5, NetworkTypes, FewerOut
<1> QED
  BY <1>1, <1>2, <1>3

LEMMA NextStep == IInv /\ [Next]_vars => IInv'
<1> SUFFICES ASSUME IInv, [Next]_vars PROVE IInv'
  OBVIOUS
<1>1. CASE UNCHANGED vars
  BY <1>1 DEF vars, cliVars, lineVars, netVars, extraVars, IInv, TypeInv, AlarmInv, Unique, Late, AnswerInv,
     ShownInv, AnswersExplained, Out, Replied, Buffered, Disturbed
<1> QED
  BY <1>1, GetLineStep, SendLineStep, EnterRecvStep, ReceiveStep, PutLineStep, WaitEndsStep,
     ServerStep, NetworkStep DEF Next, Client

THEOREM Invariance == Spec => []IInv
  BY InitHolds, NextStep, PTL DEF Spec

(* What dg_cli of every datagram client shows after a line is its answer;   *)
(* or an earlier one, put out of step by a timeout, a duplicate or an       *)
(* unsolicited datagram at that line or before it; or such a datagram; and  *)
(* only a duplicated answer is shown twice.                                 *)
THEOREM AnswersAlwaysExplained == Spec => []AnswersExplained
<1>1. IInv => AnswersExplained
  BY DEF IInv
<1> QED
  BY <1>1, Invariance, PTL

(* alarm(0) leaves no alarm running while dg_cli reads its next line        *)
(* (advio_timeout_SIGALRM).                                                 *)
THEOREM AlarmStaysInItsWait == Spec => []NoStrayAlarm
<1>1. IInv => NoStrayAlarm
  BY DEF IInv, AlarmInv, NoStrayAlarm, Waiting
<1> QED
  BY <1>1, Invariance, PTL
=============================================================================
