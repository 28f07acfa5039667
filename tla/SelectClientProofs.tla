------------------------- MODULE SelectClientProofs -------------------------
(***************************************************************************)
(* For any number of lines and any socket buffers: the select clients give *)
(* up only when their server has died or something has broken, and the     *)
(* ones that shut down return with the whole echo on their output.         *)
(***************************************************************************)
EXTENDS SelectClient, TLAPS

TypeInv ==
  /\ program \in {"lines", "buffers"}
  /\ pc \in {"select", "sock", "readline", "stdin", "writen", "done", "quit", "failed"}
  /\ ready \in SUBSET {"sock", "stdin"}
  /\ stdineof \in BOOLEAN /\ closed \in BOOLEAN /\ fin \in BOOLEAN /\ rst \in BOOLEAN
  /\ srv \in {"up", "finished", "died"}
  /\ faulty \subseteq Faults
  /\ typed \in Nat /\ taken \in Nat /\ used \in Nat /\ pend \in Nat /\ written \in Nat
  /\ srvRead \in Nat /\ echoed \in Nat
  /\ recvd \in Nat /\ scanned \in Nat /\ shown \in Nat

(* "lines" reads the socket with Readline, "buffers" with Read; and bytes   *)
(* are left to write only inside Writen.                                    *)
Branches ==
  /\ pc = "sock" => program = "buffers"
  /\ pc = "readline" => program = "lines"
  /\ pc # "writen" => pend = 0

(* Only "buffers" shuts down, when it has read all of its input, and then   *)
(* writes no more.                                                          *)
HalfClose ==
  /\ stdineof <=> fin
  /\ fin => /\ program = "buffers" /\ taken = typed /\ closed
            /\ pc \notin {"stdin", "writen"}
            /\ pc = "sock" => "stdin" \notin ready

(* A server that has not died closes only at a FIN, and then has written    *)
(* back all it was sent; so a socket is reset by a server that has died, or *)
(* because the connection is lost.                                          *)
Peer ==
  /\ srv = "finished" => fin \/ Ended
  /\ srv = "finished" /\ fin => srvRead = written /\ echoed = written
  /\ rst => srv = "died" \/ faulty # {}

(* The bytes of "buffers" on both ways through the program.                 *)
Stream ==
  program = "buffers" =>
    /\ srv # "died" /\ ~rst => written + pend = 2 * taken
    /\ pc # "failed" => shown = recvd

IInv == TypeInv /\ Branches /\ HalfClose /\ Peer /\ Stream /\ OutcomeExplained

LEMMA InitHolds == Init => IInv
<1> SUFFICES ASSUME Init PROVE IInv
  OBVIOUS
<1> USE SelectClientAssumption DEF Init
<1>1. TypeInv
  BY DEF TypeInv
<1>2. HalfClose
  BY DEF HalfClose
<1>3. Branches /\ Peer /\ Stream /\ OutcomeExplained
  BY DEF Branches, Peer, Stream, OutcomeExplained, Ended
<1> QED
  BY <1>1, <1>2, <1>3 DEF IInv

LEMMA ClientStep == IInv /\ Client => IInv'
<1> SUFFICES ASSUME IInv, Client PROVE IInv'
  OBVIOUS
<1> USE DEF IInv, TypeInv, Branches, HalfClose, Peer, Stream, OutcomeExplained, Ended,
            SockBranch, AfterSock, SockEnded, FputsTo, inputVars, cliVars, outVars, srvVars
<1>1. CASE Select
  BY <1>1 DEF Select
<1>2. CASE SockRead
  <2> USE <1>2 DEF SockRead
  <2>1. CASE UNCHANGED outVars
    <3>1. pc' \in {"failed", "done", "quit"} /\ SockEnded
      BY <2>1
    <3>2. TypeInv' /\ Branches' /\ HalfClose'
      BY <2>1, <3>1
    <3>3. Peer' /\ Stream' /\ OutcomeExplained'
      BY <2>1
    <3> QED
      BY <3>2, <3>3
  <2>2. CASE ~UNCHANGED outVars
    <3>1. PICK n \in 1..(echoed - recvd) :
            /\ recvd' = recvd + n /\ scanned' = recvd'
            /\ \/ "stdout" \notin faulty /\ shown' = recvd' /\ pc' = AfterSock
               \/ "stdout" \in faulty /\ shown' \in shown..(recvd' - 1) /\ pc' = "failed"
      BY <2>2
    <3>2. recvd' \in Nat /\ scanned' \in Nat /\ shown' \in Nat
      BY <3>1
    <3>3. pc' \in {"stdin", "select", "failed"} /\ (pc' = "failed" => faulty # {})
      BY <3>1
    <3>4. TypeInv' /\ Branches' /\ HalfClose'
      BY <3>1, <3>2, <3>3
    <3>5. Peer' /\ Stream' /\ OutcomeExplained'
      BY <3>1, <3>2, <3>3
    <3> QED
      BY <3>4, <3>5
  <2> QED
    BY <2>1, <2>2
<1>3. CASE ReadlineCopies
  BY <1>3 DEF ReadlineCopies
<1>4. CASE ReadlineFills
  BY <1>4 DEF ReadlineFills
<1>5. CASE StdinGets
  <2> USE <1>5 DEF StdinGets
  <2>1. taken' \in Nat /\ used' \in Nat /\ pend' \in Nat
    OBVIOUS
  <2>2. pc' \in {"writen", "done", "failed"} /\ Branches'
    OBVIOUS
  <2>3. HalfClose'
    OBVIOUS
  <2>4. Peer' /\ Stream' /\ OutcomeExplained'
    OBVIOUS
  <2> QED
    BY <2>1, <2>2, <2>3, <2>4
<1>6. CASE StdinReads
  <2> USE <1>6 DEF StdinReads
  <2>1. taken' \in Nat /\ used' \in Nat /\ pend' \in Nat
    OBVIOUS
  <2>2. pc' \in {"writen", "failed", "select"} /\ stdineof' \in BOOLEAN /\ fin' \in BOOLEAN /\ Branches'
    OBVIOUS
  <2>3. HalfClose'
    OBVIOUS
  <2>4. Peer' /\ Stream' /\ OutcomeExplained'
    OBVIOUS
  <2> QED
    BY <2>1, <2>2, <2>3, <2>4
<1>7. CASE Writen
  <2> USE <1>7 DEF Writen
  <2>1. CASE srv = "up" /\ ~rst
    <3>1. PICK n \in 1..pend : written' = written + n /\ pend' = pend - n
      BY <2>1
    <3>2. written' + pend' = written + pend /\ written' \in Nat /\ pend' \in Nat
      BY <3>1
    <3>3. pc' \in {"select", "writen"} /\ UNCHANGED rst
      BY <2>1
    <3>4. TypeInv' /\ Branches'
      BY <3>2, <3>3, <2>1
    <3>5. HalfClose'
      BY <3>3
    <3>6. Peer' /\ Stream' /\ OutcomeExplained'
      BY <2>1, <3>2, <3>3
    <3> QED
      BY <3>4, <3>5, <3>6
  <2>2. CASE srv # "up" \/ rst
    <3>1. pc' \in {"failed", "select"} /\ rst' /\ rst' \in BOOLEAN /\ pend' = 0
      BY <2>2
    <3>2. srv = "died" \/ faulty # {}
      BY <2>2
    <3>3. TypeInv' /\ Branches'
      BY <3>1
    <3>4. HalfClose'
      BY <3>1
    <3>5. Peer' /\ Stream' /\ OutcomeExplained'
      BY <3>1, <3>2
    <3> QED
      BY <3>3, <3>4, <3>5
  <2> QED
    BY <2>1, <2>2
<1> QED
  BY <1>1, <1>2, <1>3, <1>4, <1>5, <1>6, <1>7 DEF Client

LEMMA EnvironmentStep == IInv /\ (Type \/ Server \/ ServerDies \/ SomethingBreaks) => IInv'
<1> SUFFICES ASSUME IInv, Type \/ Server \/ ServerDies \/ SomethingBreaks PROVE IInv'
  OBVIOUS
<1> USE DEF IInv, TypeInv, Branches, HalfClose, Peer, Stream, OutcomeExplained, Ended,
            inputVars, cliVars, outVars, srvVars
<1>1. CASE Type
  <2> USE <1>1 DEF Type
  <2>1. typed' \in Nat
    OBVIOUS
  <2>2. closed' \in BOOLEAN
    OBVIOUS
  <2>3. HalfClose'
    OBVIOUS
  <2>4. Branches' /\ Peer' /\ Stream' /\ OutcomeExplained'
    OBVIOUS
  <2> QED
    BY <2>1, <2>2, <2>3, <2>4
<1>2. CASE ServerReads
  BY <1>2 DEF ServerReads
<1>3. CASE ServerWrites
  BY <1>3 DEF ServerWrites
<1>4. CASE ServerDies
  BY <1>4 DEF ServerDies
<1>5. CASE SomethingBreaks
  BY <1>5 DEF SomethingBreaks, Break
<1> QED
  BY <1>1, <1>2, <1>3, <1>4, <1>5 DEF Server

LEMMA StutterStep == IInv /\ UNCHANGED vars => IInv'
  BY DEF vars, inputVars, cliVars, outVars, srvVars, IInv, TypeInv, Branches, HalfClose,
         Peer, Stream, OutcomeExplained, Ended

(* str_cli says that the server terminated only when it has died, fails     *)
(* only for that or for something broken, and returns, where it has shut    *)
(* down first, with all of the echo written to its output.                  *)
THEOREM OutcomesExplained == Spec => []OutcomeExplained
<1>1. IInv /\ [Next]_vars => IInv'
  BY ClientStep, EnvironmentStep, StutterStep DEF Next
<1>2. IInv => OutcomeExplained
  BY DEF IInv
<1> QED
  BY <1>1, <1>2, InitHolds, PTL DEF Spec
=============================================================================
