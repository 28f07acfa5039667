-------------------------- MODULE ForkClientProofs --------------------------
(***************************************************************************)
(* For any number of lines, buffers and message sizes: why either process  *)
(* of the forking clients ends, that a server that ends in order has had   *)
(* everything it sent back read, and what the child puts out of it.        *)
(***************************************************************************)
EXTENDS ForkClient, Integers, SequenceTheorems, TLAPS

Alone == {"connect", "select", "restore", "fork"}

TypeInv ==
  /\ program \in {"tcpcli2", "connect"}
  /\ ppc \in Alone \cup {"gets", "writen", "pause", "killed", "failed"}
  /\ cpc \in {"none", "read", "kill", "exited", "failed"}
  /\ conn \in {"none", "pending", "up", "refused"}
  /\ srv \in {"up", "finished", "died"} /\ err \in {"no", "pending", "taken"}
  /\ typed \in Nat /\ taken \in Nat /\ written \in Nat
  /\ srvRead \in Nat /\ echoed \in Nat /\ recvd \in Nat /\ faulty \subseteq Faults

(* The child exists from the fork on, and by then the connection is up and  *)
(* the socket blocking again.                                               *)
Processes ==
  /\ ppc \in Alone => cpc = "none"
  /\ ppc \notin Alone \cup {"failed"} => cpc # "none"
  /\ cpc # "none" => conn = "up" /\ ~nonblock
  /\ ppc = "connect" => ~nonblock
  /\ ppc = "select" => program = "connect"
  /\ ppc = "fork" => conn = "up" /\ ~nonblock
  /\ ppc = "killed" => cpc = "exited"

(* The parent sends its FIN at the end of its input; a server that has not  *)
(* died closes only at the FIN, and an error of the socket comes from one   *)
(* that has died or cannot be reached.                                      *)
HalfClose ==
  /\ fin => closed /\ taken = typed /\ ppc \in {"pause", "failed", "killed"}
  /\ fin /\ ppc = "failed" => err # "no"
  /\ srv = "finished" => fin /\ srvRead = written /\ echoed = written
  /\ err # "no" => srv = "died" \/ Lost
  /\ srv # "died" /\ ~Lost => taken = IF ppc = "writen" THEN written + 1 ELSE written

(* The child goes on to kill only when it has read all there is, or can     *)
(* have.                                                                    *)
ChildEnd == cpc \in {"kill", "exited"} => Lost \/ (srv # "up" /\ recvd = echoed)

IInv == TypeInv /\ Processes /\ HalfClose /\ ChildEnd /\ EndsExplained

(* The initial states.                                                      *)
LEMMA InitHolds == Init => IInv
  BY ForkClientAssumption
  DEF Init, IInv, TypeInv, Processes, HalfClose, ChildEnd, EndsExplained, Alone, Lost

(* The parent, until the child exists.                                      *)
LEMMA ConnectStep ==
  IInv /\ (Connect \/ ConnectReturns \/ RestoreFlags \/ Fork \/ Establish) => IInv'
<1> SUFFICES ASSUME IInv, Connect \/ ConnectReturns \/ RestoreFlags \/ Fork \/ Establish
             PROVE  IInv'
  OBVIOUS
<1> USE DEF IInv, TypeInv, Processes, HalfClose, ChildEnd, EndsExplained, Alone, Lost,
            connVars, inVars, parVars, srvVars, outVars
<1>1. CASE Connect
  BY <1>1 DEF Connect
<1>2. CASE ConnectReturns
  BY <1>2 DEF ConnectReturns
<1>3. CASE RestoreFlags
  BY <1>3 DEF RestoreFlags
<1>4. CASE Fork
  BY <1>4 DEF Fork
<1>5. CASE Establish
  BY <1>5 DEF Establish
<1> QED
  BY <1>1, <1>2, <1>3, <1>4, <1>5

(* The parent copies its input, ends it, or waits.                          *)
LEMMA ParentStep == IInv /\ (ParentGets \/ ParentWrites) => IInv'
<1> SUFFICES ASSUME IInv, ParentGets \/ ParentWrites PROVE IInv'
  OBVIOUS
<1> USE DEF IInv, TypeInv, Processes, HalfClose, ChildEnd, EndsExplained, Alone, Lost,
            connVars, inVars, parVars, srvVars, outVars
<1>1. CASE ParentGets
  BY <1>1 DEF ParentGets
<1>2. CASE ParentWrites
  BY <1>2 DEF ParentWrites
<1> QED
  BY <1>1, <1>2

(* The child copies its input out, and sends SIGTERM at its end.            *)
LEMMA ChildStep == IInv /\ Child => IInv'
<1> SUFFICES ASSUME IInv, Child PROVE IInv'
  OBVIOUS
<1> USE DEF IInv, TypeInv, Processes, HalfClose, ChildEnd, EndsExplained, Alone, Lost,
            ParentEnded, connVars, inVars, parVars, srvVars, outVars
<1>1. CASE ChildCopies
  <2>1. recvd' \in Nat
    BY <1>1 DEF ChildCopies
  <2> QED
    BY <1>1, <2>1 DEF ChildCopies
<1>2. CASE ChildSeesEnd
  BY <1>2 DEF ChildSeesEnd
<1>3. CASE ChildKills
  <2> USE <1>3 DEF ChildKills
  <2>1. TypeInv' /\ Processes' /\ ChildEnd'
    OBVIOUS
  <2>2. srv = "died" \/ Lost \/ (srv = "finished" /\ fin /\ ppc # "writen")
    OBVIOUS
  <2>3. HalfClose'
    <3>1. ppc' = ppc \/ ppc' = "killed"
      OBVIOUS
    <3>2. fin => closed /\ taken = typed /\ ppc' \in {"pause", "failed", "killed"}
      BY <3>1
    <3>3. srv # "died" /\ ~Lost => ppc # "writen" /\ ppc' # "writen" /\ taken = written
      BY <2>2, <3>1
    <3>4. (fin /\ ppc' = "failed" => err # "no")
          /\ (srv = "finished" => fin /\ srvRead = written /\ echoed = written)
          /\ (err # "no" => srv = "died" \/ Lost)
      OBVIOUS
    <3>5. UNCHANGED <<fin, closed, taken, typed, srv, srvRead, written, echoed, err, faulty>>
      OBVIOUS
    <3> QED
      BY ONLY <3>2, <3>3, <3>4, <3>5 DEF HalfClose, Lost
  <2>4. EndsExplained'
    <3>1. ppc' = "killed" \/ stray' => srv = "died" \/ Lost \/ fin
      BY <2>2
    <3>2. stray' => srv = "died" \/ Lost
      <4>1. CASE ParentEnded
        BY <2>2, <4>1
      <4>2. CASE ~ParentEnded
        BY <4>2
      <4> QED
        BY <4>1, <4>2
    <3>3. srv = "finished" /\ ~Lost => recvd = typed
      BY <2>2
    <3>4. /\ cpc' = "exited" /\ (ppc' = "failed" => ppc = "failed")
          /\ UNCHANGED <<fin, srv, faulty, err, conn, recvd, typed>>
      OBVIOUS
    <3>5. ppc' = "failed" => conn = "refused" \/ err # "no" \/ "stdin" \in faulty
      BY <3>4
    <3> QED
      BY ONLY <3>1, <3>2, <3>3, <3>4, <3>5 DEF EndsExplained, Lost
  <2> QED
    BY <2>1, <2>3, <2>4
<1> QED
  BY <1>1, <1>2, <1>3 DEF Child

(* Steps of the user and the server, and what breaks.                       *)
LEMMA EnvironmentStep == IInv /\ (Type \/ Server \/ ServerDies \/ SomethingBreaks) => IInv'
<1> SUFFICES ASSUME IInv, Type \/ Server \/ ServerDies \/ SomethingBreaks PROVE IInv'
  OBVIOUS
<1> USE DEF IInv, TypeInv, Processes, HalfClose, ChildEnd, EndsExplained, Alone, Lost,
            ParentEnded, connVars, inVars, parVars, srvVars, outVars
<1>1. CASE Type
  BY <1>1 DEF Type
<1>2. CASE ServerReads
  BY <1>2 DEF ServerReads
<1>3. CASE ServerWrites
  BY <1>3 DEF ServerWrites
<1>4. CASE ServerDies
  BY <1>4 DEF ServerDies
<1>5. CASE SomethingBreaks
  BY <1>5 DEF SomethingBreaks, Break
<1> QED
  BY <1>1, <1>2, <1>3, <1>4, <1>5 DEF Server

(* Steps that change nothing.                                               *)
LEMMA StutterStep == IInv /\ UNCHANGED vars => IInv'
  BY DEF vars, connVars, inVars, parVars, srvVars, outVars, IInv, TypeInv, Processes, HalfClose,
         ChildEnd, EndsExplained, Lost

(* A process of nonblock_tcpcli2 or nonblock_connect fails only for a       *)
(* connection refused, a fork that failed, an error of the connection or of *)
(* its own standard stream; the parent is stopped early, or somebody else   *)
(* is, only after the server has died or is lost.                           *)
THEOREM EndsAlwaysExplained == Spec => []EndsExplained
<1>1. IInv /\ [Next]_vars => IInv'
  BY ConnectStep, ParentStep, ChildStep, EnvironmentStep, StutterStep DEF Next, Parent
<1>2. IInv => EndsExplained
  BY DEF IInv
<1> QED
  BY <1>1, <1>2, InitHolds, PTL DEF Spec

-----------------------------------------------------------------------------
(* What reaches standard output. *)

LineType ==
  /\ line \in [1..(MAXLINE + 1) -> Nat]
  /\ out \in Seq(Nat)
  /\ recvd \in Nat

(* The units a read of n is printed as: all of them, but for the last of a  *)
(* read that fills recvline.                                                *)
Shown(n) == IF n < MAXLINE THEN n ELSE MAXLINE - 1

(* A string ends at its first NUL.                                          *)
LEMMA TerminatedAt ==
  ASSUME NEW l \in [1..(MAXLINE + 1) -> Nat], NEW m \in 0..MAXLINE,
         l[m + 1] = Nul, \A j \in 1..m : l[j] # Nul
  PROVE  /\ Terminated(l) \in Seq(Nat) /\ Len(Terminated(l)) = m
         /\ \A j \in 1..m : Terminated(l)[j] = l[j]
<1> USE ForkClientAssumption
<1> DEFINE P(k) == /\ \A j \in 1..k : l[j] # Nul
                   /\ k = MAXLINE + 1 \/ l[k + 1] = Nul
           n == CHOOSE k \in 0..(MAXLINE + 1) : P(k)
<1>1. m \in 0..(MAXLINE + 1) /\ P(m)
  OBVIOUS
<1>2. n \in 0..(MAXLINE + 1) /\ P(n)
  BY <1>1
<1> HIDE DEF n
<1>3. n = m
  <2>1. ~ (n < m)
    <3>1. n < m => n + 1 \in 1..m /\ n # MAXLINE + 1
      BY <1>2
    <3> QED
      BY <1>2, <3>1
  <2>2. ~ (m < n)
    <3>1. m < n => m + 1 \in 1..n
      BY <1>2
    <3> QED
      BY <1>2, <3>1
  <2> QED
    BY <1>2, <2>1, <2>2
<1>4. Terminated(l) = SubSeq(l, 1, m)
  BY <1>3 DEF Terminated, n
<1> QED
  BY <1>4

(* What nonblock_connect prints of a read: units it has just read.          *)
LEMMA PrintedOfRead ==
  ASSUME LineType, program = "connect", NEW n \in 1..MAXLINE
  PROVE  LET t == Terminated(AfterRead(n)) IN
         /\ AfterRead(n) \in [1..(MAXLINE + 1) -> Nat]
         /\ t \in Seq(Nat) /\ Len(t) = Shown(n)
         /\ \A j \in 1..Shown(n) : t[j] = recvd + j
<1> USE ForkClientAssumption
<1> DEFINE l == AfterRead(n)
           m == Shown(n)
<1>1. m \in 0..MAXLINE /\ m <= n /\ m + 1 = IF n < MAXLINE THEN n + 1 ELSE MAXLINE
  BY DEF Shown
<1> DEFINE g == [j \in 1..(MAXLINE + 1) |-> IF j <= n THEN recvd + j ELSE line[j]]
<1>2. g \in [1..(MAXLINE + 1) -> Nat]
  <2>1. \A j \in 1..(MAXLINE + 1) : recvd + j \in Nat /\ line[j] \in Nat
    BY DEF LineType
  <2> QED
    BY <2>1
<1>3. l = [g EXCEPT ![m + 1] = Nul]
  <2>1. DOMAIN line = 1..(MAXLINE + 1)
    BY DEF LineType
  <2>2. l = [g EXCEPT ![IF n < MAXLINE THEN n + 1 ELSE MAXLINE] = Nul]
    BY <2>1 DEF AfterRead
  <2> HIDE DEF l, g, m
  <2> QED
    BY <1>1, <2>2
<1>4. \A j \in 1..m : j \in 1..(MAXLINE + 1) /\ j # m + 1 /\ g[j] = recvd + j
  <2> HIDE DEF m
  <2>1. \A j \in 1..m : j \in 1..(MAXLINE + 1) /\ j # m + 1 /\ j <= n
    BY <1>1
  <2> QED
    BY <2>1
<1> HIDE DEF l, m, g
<1>5. m + 1 \in 1..(MAXLINE + 1)
  BY <1>1
<1>6. l \in [1..(MAXLINE + 1) -> Nat] /\ l[m + 1] = Nul
  BY <1>2, <1>3, <1>5 DEF Nul
<1>7. \A j \in 1..m : l[j] = recvd + j
  BY <1>2, <1>3, <1>4
<1>8. \A j \in 1..m : l[j] # Nul
  BY <1>1, <1>7 DEF LineType, Nul
<1>9. /\ Terminated(l) \in Seq(Nat) /\ Len(Terminated(l)) = m
      /\ \A j \in 1..m : Terminated(l)[j] = l[j]
  BY <1>1, <1>6, <1>8, TerminatedAt
<1> QED
  BY <1>6, <1>7, <1>9 DEF l, m

Missing == {u \in 1..recvd : \A j \in DOMAIN out : out[j] # u}

(* OutputExplained for a client that is nonblock_connect.                   *)
Ordered ==
  /\ \A j \in 1..Len(out) : out[j] \in 1..recvd
  /\ \A j, k \in 1..Len(out) : j < k => out[j] < out[k]

Printed ==
  /\ Ordered
  /\ \A v \in Missing : \A u \in {0} \cup Missing : u < v => v - u >= MAXLINE

(* A read of n units adds them to the output, but the last of a full        *)
(* recvline.                                                                *)
LEMMA ReadPrinted ==
  ASSUME LineType, Printed, NEW n \in 1..MAXLINE, recvd' = recvd + n,
         NEW t \in Seq(Nat), Len(t) = Shown(n), \A j \in 1..Shown(n) : t[j] = recvd + j,
         out' = out \o t
  PROVE  Printed'
<1> USE ForkClientAssumption
<1> DEFINE L == Len(out)
           m == Shown(n)
<1>1. m \in Nat /\ L \in Nat /\ recvd \in Nat /\ recvd' \in Nat /\ m <= n
      /\ n - m \in {0, 1} /\ (n - m = 1 => n = MAXLINE)
  BY DEF LineType, Shown
<1>2. /\ Len(out') = L + m /\ DOMAIN out' = 1..(L + m)
      /\ \A j \in 1..L : out'[j] = out[j]
      /\ \A j \in 1..m : out'[L + j] = recvd + j
  <2>1. out \in Seq(Nat) /\ Len(t) = m
    BY DEF LineType
  <2>2. Len(out \o t) = L + m /\ DOMAIN (out \o t) = 1..(L + m)
        /\ \A j \in 1..(L + m) : (out \o t)[j] = IF j <= L THEN out[j] ELSE t[j - L]
    <3>1. out \o t \in Seq(Nat)
      BY <2>1, ConcatProperties
    <3>2. DOMAIN (out \o t) = 1..Len(out \o t)
      BY <3>1, LenProperties
    <3>3. Len(out \o t) = Len(out) + Len(t)
      BY <2>1, ConcatProperties
    <3>4. \A j \in 1..(Len(out) + Len(t)) :
            (out \o t)[j] = IF j <= Len(out) THEN out[j] ELSE t[j - Len(out)]
      BY <2>1, ConcatProperties
    <3> QED
      BY <2>1, <3>2, <3>3, <3>4
  <2>3. ASSUME NEW j \in 1..m PROVE L + j \in 1..(L + m) /\ ~(L + j <= L) /\ (L + j) - L = j
    BY <1>1
  <2> HIDE DEF L, m
  <2>4. \A j \in 1..m : out'[L + j] = t[j]
    BY <2>2, <2>3
  <2>5. \A j \in 1..m : t[j] = recvd + j
    BY DEF m
  <2>6. \A j \in 1..L : j \in 1..(L + m) /\ j <= L
    BY <1>1
  <2> QED
    BY <2>2, <2>4, <2>5, <2>6
<1> HIDE DEF L, m
<1>3. \A j \in 1..(L + m) : \/ j \in 1..L
                            \/ j - L \in 1..m /\ out'[j] = recvd + (j - L)
  <2> TAKE j \in 1..(L + m)
  <2>1. j \in 1..L \/ (j - L \in 1..m /\ L + (j - L) = j)
    BY <1>1
  <2> QED
    BY <1>2, <2>1
<1>4. \A j \in 1..L : out[j] \in 1..recvd
  BY DEF Printed, Ordered, L
<1>5. ASSUME NEW j \in 1..Len(out') PROVE out'[j] \in 1..recvd'
  <2>1. CASE j \in 1..L
    BY <1>1, <1>2, <1>4, <2>1
  <2>2. CASE j - L \in 1..m /\ out'[j] = recvd + (j - L)
    BY <1>1, <2>2
  <2> QED
    BY <1>2, <1>3, <2>1, <2>2
<1>6. ASSUME NEW j \in 1..Len(out'), NEW k \in 1..Len(out'), j < k PROVE out'[j] < out'[k]
  <2>1. CASE j \in 1..L /\ k \in 1..L
    BY <1>2, <1>6, <2>1 DEF Printed, Ordered, L
  <2>2. CASE j \in 1..L /\ k - L \in 1..m /\ out'[k] = recvd + (k - L)
    <3>1. out'[j] \in 1..recvd
      BY <1>2, <1>4, <2>2
    <3>2. k - L >= 1 /\ k - L \in Nat
      BY ONLY <1>1, <2>2
    <3> QED
      BY ONLY <1>1, <2>2, <3>1, <3>2
  <2>3. CASE /\ j - L \in 1..m /\ out'[j] = recvd + (j - L)
             /\ k - L \in 1..m /\ out'[k] = recvd + (k - L)
    BY <1>1, <1>2, <1>6, <2>3
  <2>4. CASE j - L \in 1..m /\ k \in 1..L
    BY <1>1, <1>2, <1>6, <2>4
  <2> QED
    BY <1>2, <1>3, <2>1, <2>2, <2>3, <2>4
<1>7. ASSUME NEW v \in Missing' PROVE v \in Missing \/ (n = MAXLINE /\ v = recvd + n)
  <2>1. v \in 1..(recvd + n) /\ \A j \in 1..(L + m) : out'[j] # v
    BY <1>2 DEF Missing
  <2>2. CASE v <= recvd
    <3>1. \A j \in 1..L : j \in 1..(L + m) /\ out'[j] = out[j]
      BY <1>1, <1>2
    <3>2. DOMAIN out = 1..L
      BY DEF L, LineType
    <3>3. \A j \in DOMAIN out : out[j] # v
      BY <2>1, <3>1, <3>2
    <3> QED
      BY <1>1, <2>1, <2>2, <3>3 DEF Missing
  <2>3. CASE ~ (v <= recvd)
    <3> DEFINE j == v - recvd
    <3>1. j \in 1..n /\ v = recvd + j
      BY <1>1, <2>1, <2>3
    <3> HIDE DEF j
    <3>2. j \notin 1..m
      <4>1. j \in 1..m => L + j \in 1..(L + m) /\ out'[L + j] = v
        BY <1>1, <1>2, <3>1
      <4> QED
        BY <2>1, <4>1
    <3>3. j = n /\ n - m = 1
      BY <1>1, <3>1, <3>2
    <3> QED
      BY <1>1, <3>1, <3>3
  <2> QED
    BY <2>2, <2>3
<1>8. ASSUME NEW v \in Missing', NEW u \in {0} \cup Missing', u < v PROVE v - u >= MAXLINE
  <2>1. Missing \subseteq 1..recvd
    BY DEF Missing
  <2>2. CASE v \in Missing /\ u \in {0} \cup Missing
    BY <1>8, <2>2 DEF Printed
  <2>3. CASE v \in Missing /\ u = recvd + n
    BY <1>1, <1>8, <2>1, <2>3
  <2>4. CASE n = MAXLINE /\ v = recvd + n /\ u \in {0} \cup Missing
    BY <1>1, <2>1, <2>4
  <2>5. CASE v = recvd + n /\ u = recvd + n
    BY <1>1, <1>8, <2>5
  <2> QED
    BY <1>7, <2>2, <2>3, <2>4, <2>5
<1> QED
  BY <1>5, <1>6, <1>8 DEF Printed, Ordered

FputsFailed == cpc = "failed" /\ "stdout" \in faulty

OutInv == program = "connect" => LineType /\ Ordered /\ (FputsFailed \/ Printed)

(* At first nothing has been read or put out.                               *)
LEMMA OutInitial == Init => OutInv
  BY ForkClientAssumption DEF Init, OutInv, LineType, Printed, Ordered, Missing, Nul, Junk

(* Only the child's read changes what has been read or put out.             *)
LEMMA OutStep == IInv /\ OutInv /\ [Next]_vars => OutInv'
<1> SUFFICES ASSUME IInv, OutInv, [Next]_vars, program' = "connect"
             PROVE  LineType' /\ Ordered' /\ (FputsFailed \/ Printed)'
  BY DEF OutInv
<1> USE ForkClientAssumption
<1>1. program = "connect" /\ LineType /\ Ordered /\ (FputsFailed \/ Printed)
  BY DEF OutInv, Next, Parent, Connect, ConnectReturns, RestoreFlags, Fork, ParentGets, ParentWrites,
     Child, ChildCopies, ChildSeesEnd, ChildKills, Type, Establish, Server, ServerReads,
     ServerWrites, ServerDies, SomethingBreaks, Break, vars
<1>2. CASE ChildCopies
  <2>1. PICK n \in 1..SmallerOf(MAXLINE, echoed - recvd) :
          recvd' = recvd + n /\ line' = AfterRead(n)
    BY <1>2 DEF ChildCopies
  <2>2. n \in 1..MAXLINE /\ recvd' \in Nat
    BY <2>1 DEF SmallerOf, IInv, TypeInv
  <2> DEFINE t == Terminated(AfterRead(n))
  <2>3. /\ line' \in [1..(MAXLINE + 1) -> Nat]
        /\ t \in Seq(Nat) /\ Len(t) = Shown(n)
        /\ \A j \in 1..Shown(n) : t[j] = recvd + j
    BY <1>1, <2>1, <2>2, PrintedOfRead
  <2>4. \/ out' = out \o t
        \/ "stdout" \in faulty /\ cpc' = "failed" /\ out' = out /\ faulty' = faulty
    BY <1>2, <2>1 DEF ChildCopies, srvVars
  <2> HIDE DEF t
  <2>5. CASE out' = out \o t
    <3>1. Printed
      BY <1>1, <1>2 DEF ChildCopies, FputsFailed
    <3>2. Printed'
      BY <1>1, <2>1, <2>2, <2>3, <2>5, <3>1, ReadPrinted
    <3>3. out' \in Seq(Nat)
      BY <1>1, <2>3, <2>5 DEF LineType
    <3> QED
      BY <2>2, <2>3, <3>2, <3>3 DEF LineType, Printed
  <2>6. CASE "stdout" \in faulty /\ cpc' = "failed" /\ out' = out /\ faulty' = faulty
    <3>1. \A j \in 1..recvd : j \in 1..recvd'
      BY <2>1, <2>2 DEF IInv, TypeInv
    <3>2. Ordered'
      BY <1>1, <2>6, <3>1 DEF Ordered
    <3> QED
      BY <1>1, <2>2, <2>3, <2>6, <3>2 DEF LineType, FputsFailed
  <2> QED
    BY <2>4, <2>5, <2>6
<1>3. ASSUME UNCHANGED outVars, FputsFailed => FputsFailed'
      PROVE  LineType' /\ Ordered' /\ (FputsFailed \/ Printed)'
  BY <1>1, <1>3 DEF outVars, LineType, Printed, Ordered, Missing
<1>4. ASSUME ~ChildCopies PROVE UNCHANGED outVars /\ (FputsFailed => FputsFailed')
  BY <1>4 DEF Next, Parent, Connect, ConnectReturns, RestoreFlags, Fork, ParentGets,
     ParentWrites, Child, ChildSeesEnd, ChildKills, Type, Establish, Server, ServerReads,
     ServerWrites, ServerDies, SomethingBreaks, Break, FputsFailed, srvVars, IInv, Processes,
     Alone, vars
<1> QED
  BY <1>2, <1>3, <1>4

(* nonblock_connect prints what the server sent, in order and once, and     *)
(* misses, until Fputs fails, at most one unit in MAXLINE: the last of a    *)
(* read that fills recvline, whose place the terminating NUL takes.         *)
THEOREM OutputAlwaysExplained == Spec => []OutputExplained
<1>1. OutInv => OutputExplained
  <2> SUFFICES ASSUME program = "connect", LineType, Ordered, FputsFailed \/ Printed
               PROVE  OutputExplained
    BY DEF OutInv, OutputExplained
  <2>1. DOMAIN out = 1..Len(out)
    BY DEF LineType
  <2> QED
    BY <2>1 DEF OutputExplained, Printed, Ordered, FputsFailed, Missing
<1>2. IInv /\ [Next]_vars => IInv'
  BY ConnectStep, ParentStep, ChildStep, EnvironmentStep, StutterStep DEF Next, Parent
<1> QED
  BY <1>1, <1>2, InitHolds, OutInitial, OutStep, PTL DEF Spec
=============================================================================
