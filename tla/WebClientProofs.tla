-------------------------- MODULE WebClientProofs --------------------------
(***************************************************************************)
(* The bookkeeping of nonblock_webclient for any number of files,          *)
(* connections and addresses: the counters, the descriptor sets and the    *)
(* flags agree, every file that is done was fetched whole and once, and    *)
(* the downloads implement FetchPool.                                      *)
(***************************************************************************)
EXTENDS WebClient, Integers, FiniteSetTheorems, FunctionTheorems, TLAPS

Undone == {f \in Files : flags[f] # "done"}
Connecting == {f \in Files : flags[f] = "connecting"}

Labels == {"tcp_connect", "home_page", "loop", "scan", "get_started", "get_connected"}

TypeInv ==
  /\ pc \in Labels \cup Ended
  /\ addr \in 0..NAddrs /\ homeRead \in 0..MaxReply
  /\ i \in 1..(nfiles + 1)
  /\ flags \in [Files -> {"none", "connecting", "reading", "done"}]
  /\ fd \in [Files -> 0..nfiles]
  /\ wset \subseteq rset
  /\ rs \subseteq 1..nfiles /\ ws \subseteq 1..nfiles
  /\ maxfd \in 0..nfiles
  /\ open \subseteq 1..nfiles
  /\ conn \in [Files -> {"none", "pending", "up", "error", "cleared"}]
  /\ gets \in [Files -> Nat] /\ sent \in [Files -> 0..MaxReply]
  /\ served \in [Files -> BOOLEAN] /\ got \in [Files -> 0..MaxReply]

(* The counters are exact in every state, the ends included.                *)
Counts ==
  /\ nconn = Cardinality(InFlight)
  /\ nlefttoconn = Cardinality(Unstarted)
  /\ nlefttoread = Cardinality(Undone)

(* Each connection in flight has a descriptor of its own, and rset is the   *)
(* set of these.                                                            *)
Descriptors ==
  /\ rset = {fd[f] : f \in InFlight}
  /\ \A f \in InFlight : fd[f] \in 1..maxfd
  /\ \A f, g \in InFlight : fd[f] = fd[g] => f = g
  /\ pc \in {"loop", "scan", "get_started"} => wset = {fd[f] : f \in Connecting}
  /\ pc = "get_connected" => wset = {fd[f] : f \in Connecting \ {i}}

(* The process holds the descriptors of the connections in flight and, at   *)
(* the home page or between start_connect's connect and its GET, one more.  *)
Held ==
  /\ pc = "tcp_connect" => open = {}
  /\ pc \in {"tcp_connect", "home_page"} => Unstarted = Files
  /\ pc \in {"loop", "scan", "get_connected"} => open = rset
  /\ pc = "get_started" => open = rset \cup {fd[i]} /\ fd[i] \in (1..nfiles) \ rset

(* The file whose GET is about to be written.                               *)
GetPending ==
  /\ pc = "get_started" => i \in Files /\ flags[i] = "none" /\ nconn < maxnconn
  /\ pc = "get_connected" => i \in Files /\ flags[i] = "connecting"

(* What has been asked for, sent and read of each file.                     *)
Fetches ==
  \A f \in Files :
    /\ gets[f] = IF flags[f] \in {"reading", "done"} THEN 1 ELSE 0
    /\ got[f] <= sent[f]
    /\ flags[f] = "done" => served[f] /\ got[f] = sent[f]

IInv == TypeInv /\ Counts /\ Descriptors /\ Held /\ GetPending /\ Fetches

-----------------------------------------------------------------------------
(* Files and descriptors are few. *)

(* A set of files is finite, with at most nfiles elements.                  *)
LEMMA SomeFiles ==
  ASSUME NEW S \in SUBSET Files
  PROVE  IsFiniteSet(S) /\ Cardinality(S) \in 0..nfiles
<1>1. IsFiniteSet(1..nfiles) /\ Cardinality(1..nfiles) = nfiles
  BY WebAssumption, FS_Interval
<1>2. IsFiniteSet(S) /\ Cardinality(S) <= nfiles
  BY <1>1, FS_Subset DEF Files
<1> QED
  BY <1>2, FS_CardinalityType, WebAssumption

(* What one file more or less does to a count.                              *)
LEMMA Moved ==
  ASSUME NEW S \in SUBSET Files, NEW f \in Files
  PROVE  /\ f \notin S => Cardinality(S \cup {f}) = Cardinality(S) + 1
         /\ f \in S => Cardinality(S \ {f}) = Cardinality(S) - 1
  BY SomeFiles, FS_AddElement, FS_RemoveElement

Below == {de \in Nat \X Nat : de[1] < de[2]}

(* A set of natural numbers that is not empty has a least element.          *)
LEMMA Least ==
  ASSUME NEW T \in SUBSET Nat, T # {}
  PROVE  \E d \in T : \A e \in T : d <= e
<1>1. IsWellFoundedOn(Below, Nat)
  BY NatLessThanWellFounded DEF OpToRel, Below
<1>2. PICK d \in T : \A e \in T : <<e, d>> \notin Below
  BY <1>1, WFMin
<1>3. ASSUME NEW e \in T PROVE d <= e
  <2>1. <<e, d>> \in Nat \X Nat /\ <<e, d>> \notin Below
    BY <1>2
  <2>2. ~ (e < d)
    BY <2>1 DEF Below
  <2> QED
    BY <2>2
<1> QED
  BY <1>3

(* socket() finds a descriptor unless all of them are open.                 *)
LEMMA SocketReturns ==
  ASSUME open \subseteq 1..nfiles, open # 1..nfiles
  PROVE  LowestFree \in (1..nfiles) \ open
<1> DEFINE T == (1..nfiles) \ open
           P(d) == d \notin open /\ \A e \in 1..(d - 1) : e \in open
<1>1. PICK d \in T : \A e \in T : d <= e
  <2>1. \E d \in 1..nfiles : d \notin open
    OBVIOUS
  <2>2. T # {} /\ T \in SUBSET Nat
    BY <2>1, WebAssumption
  <2> HIDE DEF T
  <2> QED
    BY <2>2, Least
<1>2. d \in 1..(nfiles + 1) /\ P(d)
  <2>1. ASSUME NEW e \in 1..(d - 1) PROVE e \in open
    <3>1. e \in 1..nfiles /\ ~ (d <= e)
      BY <1>1, WebAssumption
    <3> QED
      BY <1>1, <3>1
  <2> QED
    BY <1>1, <2>1, WebAssumption
<1>3. LowestFree \in 1..(nfiles + 1) /\ P(LowestFree)
  BY <1>2 DEF LowestFree
<1>4. LowestFree # nfiles + 1
  BY <1>1, <1>3, WebAssumption
<1> QED
  BY <1>3, <1>4, WebAssumption

(* While a file has no connection yet, not all descriptors are in use.      *)
LEMMA DescriptorLeft ==
  ASSUME TypeInv, Descriptors, Unstarted # {}
  PROVE  rset \subseteq 1..nfiles /\ rset # 1..nfiles
<1>1. rset \subseteq 1..nfiles
  BY WebAssumption DEF TypeInv, Descriptors, InFlight, Files
<1>2. ASSUME rset = 1..nfiles PROVE FALSE
  <2> DEFINE own == [f \in InFlight |-> fd[f]]
  <2>1. own \in Surjection(InFlight, 1..nfiles)
    <3>1. own \in [InFlight -> 1..nfiles]
      BY <1>1 DEF Descriptors
    <3>2. \A d \in 1..nfiles : \E f \in InFlight : own[f] = d
      BY <1>2 DEF Descriptors
    <3> QED
      BY <3>1, <3>2, Fun_IsSurj
  <2>2. PICK f \in Files : flags[f] = "none"
    BY DEF Unstarted
  <2>3. InFlight \subseteq Files \ {f}
    BY <2>2 DEF InFlight
  <2>4. Cardinality(Files) = nfiles
    BY WebAssumption, FS_Interval DEF Files
  <2>5. Cardinality(Files \ {f}) = nfiles - 1 /\ IsFiniteSet(Files \ {f})
    BY <2>4, Moved, SomeFiles
  <2>6. Cardinality(InFlight) <= nfiles - 1 /\ IsFiniteSet(InFlight)
    BY <2>3, <2>5, FS_Subset
  <2>7. Cardinality(1..nfiles) <= Cardinality(InFlight)
    BY <2>1, <2>6, FS_Surjection
  <2>8. Cardinality(InFlight) \in Nat
    BY <2>6, FS_CardinalityType
  <2> QED
    BY <2>4, <2>6, <2>7, <2>8, WebAssumption DEF Files
<1> QED
  BY <1>1, <1>2

-----------------------------------------------------------------------------
(* The invariant holds in every reachable state. *)

(* FD_SET raises maxfd, so descriptors in bounds stay in bounds.            *)
LEMMA LargerBounds ==
  \A a, b \in 0..nfiles :
    Larger(a, b) \in {a, b} /\ a <= Larger(a, b) /\ b <= Larger(a, b)
  BY WebAssumption DEF Larger

(* The initial states.                                                      *)
LEMMA InitHolds == Init => IInv
<1> SUFFICES ASSUME Init PROVE IInv
  OBVIOUS
<1> USE DEF Init
<1>1. TypeInv
  BY WebAssumption DEF TypeInv, Labels
<1>2. Counts
  <2>1. InFlight = {} /\ Unstarted = Files /\ Undone = Files
    BY DEF InFlight, Unstarted, Undone
  <2>2. Cardinality(Files) = nfiles
    BY WebAssumption, FS_Interval DEF Files
  <2> QED
    BY <2>1, <2>2, FS_EmptySet DEF Counts
<1>3. Descriptors
  BY DEF Descriptors, InFlight, Connecting
<1> QED
  BY <1>1, <1>2, <1>3 DEF IInv, Held, GetPending, Fetches, Unstarted

(* A step that leaves the flags, the descriptors and the counters alone.    *)
LEMMA BookKept ==
  ASSUME IInv, UNCHANGED <<flags, fd, rset, wset, maxfd, nconn, nlefttoconn, nlefttoread>>
  PROVE  /\ Counts'
         /\ rset' = {fd'[f] : f \in InFlight'}
         /\ \A f \in InFlight' : fd'[f] \in 1..maxfd'
         /\ \A f, g \in InFlight' : fd'[f] = fd'[g] => f = g
         /\ Connecting' = Connecting /\ Unstarted' = Unstarted
  BY DEF IInv, Counts, Descriptors, InFlight, Connecting, Unstarted, Undone

(* The home page keeps the bookkeeping as main initialised it.              *)
LEMMA HomeStep == IInv /\ (HomeConnect \/ HomePage) => IInv'
<1> SUFFICES ASSUME IInv, HomeConnect \/ HomePage PROVE IInv'
  OBVIOUS
<1>1. UNCHANGED <<flags, fd, rset, wset, maxfd, nconn, nlefttoconn, nlefttoread, i, rs, ws,
                  conn, gets, sent, served, got>>
  BY DEF HomeConnect, HomePage, netVars
<1>2. InFlight = {} /\ Connecting = {} /\ rset = {} /\ wset = {}
  BY DEF HomeConnect, HomePage, IInv, Held, Descriptors, TypeInv, Unstarted, InFlight, Connecting
<1>3. /\ pc' \in {"tcp_connect", "home_page", "loop", "failed"}
      /\ addr' \in 0..NAddrs /\ homeRead' \in 0..MaxReply /\ open' \subseteq 1..nfiles
      /\ pc' = "tcp_connect" => open' = {}
      /\ pc' = "loop" => open' = {}
  <2>1. CASE HomeConnect
    <3>1. open = {} /\ open # 1..nfiles
      <4>1. open = {} /\ 1 \in 1..nfiles
        BY <2>1, WebAssumption DEF HomeConnect, IInv, Held
      <4> QED
        BY <4>1
    <3>2. {LowestFree} \subseteq 1..nfiles
      BY <3>1, SocketReturns
    <3> QED
      BY <2>1, <3>1, <3>2, WebAssumption DEF HomeConnect, IInv, TypeInv
  <2>2. CASE HomePage
    <3>1. /\ pc = "home_page" /\ pc' \in {pc, "loop", "failed"}
          /\ open' \in {open, {}} /\ (pc' = "loop" => open' = {})
          /\ addr' = addr
          /\ homeRead' = homeRead \/ (homeRead < MaxReply /\ homeRead' = homeRead + 1)
      BY <2>2 DEF HomePage
    <3>2. open \subseteq 1..nfiles /\ addr \in 0..NAddrs /\ homeRead \in 0..MaxReply
      BY DEF IInv, TypeInv
    <3>3. homeRead' \in 0..MaxReply
      BY <3>1, <3>2, WebAssumption
    <3>4. open' \subseteq 1..nfiles
      BY <3>1, <3>2
    <3> QED
      BY <3>1, <3>2, <3>3, <3>4
  <2> QED
    BY <2>1, <2>2
<1>4. TypeInv'
  BY <1>1, <1>3 DEF IInv, TypeInv, Labels, Ended
<1>5. Descriptors'
  BY <1>1, <1>2, <1>3, BookKept DEF Descriptors
<1>6. Held' /\ GetPending' /\ Fetches'
  BY <1>1, <1>2, <1>3, BookKept DEF HomeConnect, HomePage, IInv, Held, GetPending, Fetches
<1> QED
  BY <1>1, <1>4, <1>5, <1>6, BookKept DEF IInv

(* The calls that change neither flags nor descriptors.                     *)
LEMMA WaitStep == IInv /\ (Select \/ ScanEnds \/ Exit) => IInv'
<1> SUFFICES ASSUME IInv, Select \/ ScanEnds \/ Exit PROVE IInv'
  OBVIOUS
<1> USE DEF bookVars, netVars, homeVars
<1>1. /\ UNCHANGED <<bookVars, netVars, homeVars, got>>
      /\ i' \in {1, i}
      /\ pc \in {"loop", "scan"} /\ pc' \in {"loop", "scan", "exited"}
      /\ rs' \subseteq rs \cup rset /\ ws' \subseteq ws \cup wset
  BY DEF Select, ScanEnds, Exit
<1>2. rset \subseteq 1..nfiles
  BY WebAssumption DEF IInv, TypeInv, Descriptors, InFlight, Files
<1>3. TypeInv'
  BY <1>1, <1>2, WebAssumption DEF IInv, TypeInv, Labels, Ended
<1>4. Descriptors'
  BY <1>1, BookKept DEF IInv, Descriptors
<1>5. Held' /\ GetPending' /\ Fetches'
  BY <1>1, BookKept DEF IInv, Held, GetPending, Fetches
<1> QED
  BY <1>1, <1>3, <1>4, <1>5, BookKept DEF IInv

(* A connect has ended: the descriptor leaves wset before the flag changes. *)
LEMMA ConnectedStep == IInv /\ Connected => IInv'
<1> SUFFICES ASSUME IInv, Connected PROVE IInv'
  OBVIOUS
<1> USE DEF homeVars
<1>1. PICK f \in Files : /\ flags[f] = "connecting"
                         /\ conn' = [conn EXCEPT ![f] = IF @ = "error" THEN "cleared" ELSE @]
                         /\ wset' = wset \ {fd[f]} /\ i' = f
  BY DEF Connected
<1>2. /\ pc = "scan" /\ pc' = "get_connected"
      /\ UNCHANGED <<homeVars, flags, fd, rset, maxfd, nconn, nlefttoconn, nlefttoread, open,
                     rs, ws, gets, sent, served, got>>
  BY DEF Connected
<1>3. TypeInv'
  <2>1. conn' \in [Files -> {"none", "pending", "up", "error", "cleared"}]
    BY <1>1 DEF IInv, TypeInv
  <2>2. i' \in 1..(nfiles + 1) /\ wset' \subseteq rset'
    BY <1>1, <1>2, WebAssumption DEF IInv, TypeInv, Files
  <2> QED
    BY <1>2, <2>1, <2>2 DEF IInv, TypeInv, Labels
<1>4. Counts'
  BY <1>2 DEF IInv, Counts, InFlight, Unstarted, Undone
<1>5. wset' = {fd[g] : g \in Connecting \ {f}}
  <2>1. wset = {fd[g] : g \in Connecting} /\ f \in InFlight /\ Connecting \subseteq InFlight
    BY <1>1, <1>2 DEF IInv, Descriptors, Connecting, InFlight
  <2>2. \A g \in Connecting : fd[g] = fd[f] => g = f
    BY <2>1 DEF IInv, Descriptors
  <2> QED
    BY <1>1, <2>1, <2>2
<1>6. Descriptors'
  <2>1. InFlight' = InFlight /\ Connecting' = Connecting
    BY <1>2 DEF InFlight, Connecting
  <2>2. rset' = {fd'[g] : g \in InFlight'} /\ wset' = {fd'[g] : g \in Connecting' \ {i'}}
    BY <1>1, <1>2, <1>5, <2>1 DEF IInv, Descriptors
  <2> QED
    BY <1>2, <2>1, <2>2 DEF IInv, Descriptors
<1>7. Held' /\ GetPending' /\ Fetches'
  BY <1>1, <1>2 DEF IInv, Held, GetPending, Fetches
<1> QED
  BY <1>3, <1>4, <1>6, <1>7 DEF IInv

(* A file gets its connection: one file more is in flight, one less is to   *)
(* be started, and the new descriptor is not in rset yet.                   *)
LEMMA BookStarted ==
  ASSUME IInv, NEW f \in Files, flags[f] = "none",
         NEW s \in {"connecting", "reading"}, flags' = [flags EXCEPT ![f] = s],
         fd' \in [Files -> 0..nfiles], \A g \in Files : g # f => fd'[g] = fd[g],
         fd'[f] \in (1..nfiles) \ rset,
         rset' = rset \cup {fd'[f]}, maxfd' = Larger(maxfd, fd'[f]),
         nconn' = nconn + 1, nlefttoconn' = nlefttoconn - 1, nlefttoread' = nlefttoread
  PROVE  /\ Counts'
         /\ rset' = {fd'[g] : g \in InFlight'}
         /\ \A g \in InFlight' : fd'[g] \in 1..maxfd'
         /\ \A g, h \in InFlight' : fd'[g] = fd'[h] => g = h
         /\ maxfd' \in 0..nfiles
         /\ f \notin InFlight /\ f \in Unstarted
<1>1. flags \in [Files -> {"none", "connecting", "reading", "done"}] /\ maxfd \in 0..nfiles
  BY DEF IInv, TypeInv
<1>2. /\ InFlight' = InFlight \cup {f} /\ f \notin InFlight /\ InFlight \subseteq Files
      /\ Unstarted' = Unstarted \ {f} /\ f \in Unstarted /\ Unstarted \subseteq Files
      /\ Undone' = Undone
  BY <1>1 DEF InFlight, Unstarted, Undone
<1>3. Counts'
  BY <1>2, Moved DEF IInv, Counts
<1>4. \A g \in InFlight : g # f /\ g \in Files /\ fd'[g] = fd[g] /\ fd[g] \in rset
  BY <1>2 DEF IInv, Descriptors
<1>5. rset' = {fd'[g] : g \in InFlight'}
  BY <1>2, <1>4 DEF IInv, Descriptors
<1>6. maxfd <= maxfd' /\ fd'[f] <= maxfd' /\ maxfd' \in 0..nfiles
  BY <1>1, LargerBounds
<1>7. ASSUME NEW g \in InFlight' PROVE fd'[g] \in 1..maxfd'
  <2>1. CASE g = f
    BY <2>1, <1>6, WebAssumption
  <2>2. CASE g # f
    <3>1. fd'[g] = fd[g] /\ fd[g] \in 1..maxfd
      BY <1>2, <1>4, <2>2 DEF IInv, Descriptors
    <3> QED
      BY <3>1, <1>1, <1>6, WebAssumption
  <2> QED
    BY <2>1, <2>2
<1>8. ASSUME NEW g \in InFlight', NEW h \in InFlight', fd'[g] = fd'[h] PROVE g = h
  BY <1>2, <1>4, <1>8 DEF IInv, Descriptors
<1> QED
  BY <1>2, <1>3, <1>5, <1>6, <1>7, <1>8

(* A connect under way: both sets, maxfd, the flag and two counters change. *)
LEMMA ConnectInProgressStep ==
  ASSUME IInv, StartConnect, NEW f \in Unstarted, ConnectInProgress(f)
  PROVE  IInv'
<1> USE DEF homeVars
<1> DEFINE d == LowestFree
<1>1. /\ f \in Files /\ flags[f] = "none" /\ Unstarted # {}
      /\ pc = "loop" /\ pc' = "loop" /\ open = rset
      /\ UNCHANGED <<homeVars, nlefttoread, rs, ws, gets, sent, served, got, i>>
  BY DEF Unstarted, StartConnect, ConnectInProgress, IInv, Held
<1>2. d \in (1..nfiles) \ rset /\ open \subseteq 1..nfiles
  BY <1>1, DescriptorLeft, SocketReturns DEF IInv
<1>3. /\ flags' = [flags EXCEPT ![f] = "connecting"]
      /\ fd' = [fd EXCEPT ![f] = d] /\ open' = open \cup {d}
      /\ rset' = rset \cup {d} /\ wset' = wset \cup {d}
      /\ maxfd' = Larger(maxfd, d)
      /\ nconn' = nconn + 1 /\ nlefttoconn' = nlefttoconn - 1
      /\ conn' = [conn EXCEPT ![f] = "pending"]
  BY DEF ConnectInProgress
<1> HIDE DEF d
<1>4. fd' \in [Files -> 0..nfiles] /\ fd'[f] = d /\ \A g \in Files : g # f => fd'[g] = fd[g]
  BY <1>1, <1>2, <1>3, WebAssumption DEF IInv, TypeInv
<1>5. /\ Counts'
      /\ rset' = {fd'[g] : g \in InFlight'}
      /\ \A g \in InFlight' : fd'[g] \in 1..maxfd'
      /\ \A g, h \in InFlight' : fd'[g] = fd'[h] => g = h
      /\ maxfd' \in 0..nfiles
      /\ f \notin InFlight
  BY <1>1, <1>2, <1>3, <1>4, BookStarted
<1>6. wset' = {fd'[g] : g \in Connecting'}
  <2>1. Connecting' = Connecting \cup {f} /\ f \notin Connecting
    BY <1>1, <1>3 DEF Connecting, IInv, TypeInv
  <2>2. wset = {fd[g] : g \in Connecting} /\ \A g \in Connecting : fd'[g] = fd[g]
    BY <1>1, <1>4, <2>1 DEF IInv, Descriptors, Connecting
  <2> QED
    BY <1>3, <1>4, <2>1, <2>2
<1>7. TypeInv'
  <2>1. /\ conn' \in [Files -> {"none", "pending", "up", "error", "cleared"}]
        /\ flags' \in [Files -> {"none", "connecting", "reading", "done"}]
    BY <1>1, <1>3 DEF IInv, TypeInv
  <2>2. wset' \subseteq rset' /\ open' \subseteq 1..nfiles
    BY <1>2, <1>3 DEF IInv, TypeInv
  <2> QED
    BY <1>1, <1>4, <1>5, <2>1, <2>2 DEF IInv, TypeInv, Labels
<1>8. Descriptors' /\ Held' /\ GetPending'
  BY <1>1, <1>3, <1>5, <1>6 DEF Descriptors, Held, GetPending
<1>9. Fetches'
  BY <1>1, <1>3 DEF IInv, Fetches, TypeInv
<1> QED
  BY <1>5, <1>7, <1>8, <1>9 DEF IInv

(* A connect done at once leaves the bookkeeping to write_get_cmd.          *)
LEMMA ConnectDoneStep ==
  ASSUME IInv, StartConnect, NEW f \in Unstarted, ConnectDone(f)
  PROVE  IInv'
<1> USE DEF homeVars
<1> DEFINE d == LowestFree
<1>1. /\ f \in Files /\ flags[f] = "none" /\ Unstarted # {}
      /\ pc = "loop" /\ open = rset /\ nconn < maxnconn
      /\ UNCHANGED <<homeVars, nlefttoread, rs, ws, gets, sent, served, got>>
  BY DEF Unstarted, StartConnect, IInv, Held
<1>2. d \in (1..nfiles) \ rset /\ open \subseteq 1..nfiles
  BY <1>1, DescriptorLeft, SocketReturns DEF IInv
<1>3. /\ fd' = [fd EXCEPT ![f] = d] /\ open' = open \cup {d}
      /\ conn' = [conn EXCEPT ![f] = "up"]
      /\ pc' = "get_started" /\ i' = f
      /\ UNCHANGED <<flags, rset, wset, maxfd, nconn, nlefttoconn>>
  BY DEF ConnectDone
<1> HIDE DEF d
<1>4. fd' \in [Files -> 0..nfiles] /\ fd'[f] = d /\ \A g \in Files : g # f => fd'[g] = fd[g]
  BY <1>1, <1>2, <1>3, WebAssumption DEF IInv, TypeInv
<1>5. /\ InFlight' = InFlight /\ Connecting' = Connecting /\ Unstarted' = Unstarted
      /\ Undone' = Undone /\ \A g \in InFlight : fd'[g] = fd[g]
      /\ Connecting \subseteq InFlight
  BY <1>1, <1>3, <1>4 DEF InFlight, Connecting, Unstarted, Undone
<1>6. Counts'
  BY <1>1, <1>3, <1>5 DEF IInv, Counts
<1>7. Descriptors'
  <2>1. rset' = {fd'[g] : g \in InFlight'}
    BY <1>3, <1>5 DEF IInv, Descriptors
  <2>2. wset' = {fd'[g] : g \in Connecting'}
    BY <1>1, <1>3, <1>5 DEF IInv, Descriptors
  <2> QED
    BY <1>3, <1>5, <2>1, <2>2 DEF IInv, Descriptors
<1>8. TypeInv'
  <2>1. conn' \in [Files -> {"none", "pending", "up", "error", "cleared"}]
    BY <1>1, <1>3 DEF IInv, TypeInv
  <2>2. i' \in 1..(nfiles + 1)
    BY <1>1, <1>3, WebAssumption DEF Files
  <2>3. wset' \subseteq rset' /\ open' \subseteq 1..nfiles
    BY <1>2, <1>3 DEF IInv, TypeInv
  <2> QED
    BY <1>1, <1>3, <1>4, <2>1, <2>2, <2>3 DEF IInv, TypeInv, Labels
<1>9. Held' /\ GetPending'
  BY <1>1, <1>2, <1>3, <1>4 DEF Held, GetPending
<1>10. Fetches'
  BY <1>1, <1>3 DEF IInv, Fetches
<1> QED
  BY <1>6, <1>7, <1>8, <1>9, <1>10 DEF IInv

(* err_sys or SIGPIPE ends the program and leaves its books as they are.    *)
LEMMA Fails ==
  ASSUME IInv, pc' \in {"failed", "killed"}, i' \in 1..(nfiles + 1),
         UNCHANGED <<homeVars, bookVars, rs, ws, netVars, got>>
  PROVE  IInv'
<1> USE DEF homeVars, bookVars, netVars
<1>1. TypeInv'
  BY DEF IInv, TypeInv, Ended
<1>2. Descriptors'
  BY BookKept DEF Descriptors
<1>3. Held' /\ GetPending' /\ Fetches'
  BY DEF IInv, Held, GetPending, Fetches
<1> QED
  BY <1>1, <1>2, <1>3, BookKept DEF IInv

(* The file search always finds a file, and so never ends in err_quit.      *)
LEMMA StartConnectStep == IInv /\ StartConnect => IInv'
<1> SUFFICES ASSUME IInv, StartConnect PROVE IInv'
  OBVIOUS
<1>1. Unstarted # {}
  BY FS_EmptySet DEF StartConnect, IInv, Counts
<1>2. PICK f \in Unstarted : ConnectInProgress(f) \/ ConnectDone(f) \/ ConnectFails
  BY <1>1 DEF StartConnect
<1>3. CASE ConnectFails
  <2>1. /\ pc' = "failed" /\ i' = i
        /\ UNCHANGED <<homeVars, bookVars, rs, ws, netVars, got>>
    BY <1>3 DEF ConnectFails, StartConnect, bookVars, netVars
  <2> QED
    BY <2>1, Fails DEF IInv, TypeInv
<1> QED
  BY <1>2, <1>3, ConnectInProgressStep, ConnectDoneStep

(* The GET has been written: the flags become F_READING.                    *)
LEMMA GetWrittenFacts ==
  ASSUME IInv, i \in Files, flags[i] \in {"none", "connecting"}, GetWritten
  PROVE  /\ flags' = [flags EXCEPT ![i] = "reading"]
         /\ flags' \in [Files -> {"none", "connecting", "reading", "done"}]
         /\ gets' \in [Files -> Nat]
         /\ served' = served /\ got' = got /\ sent' = sent => Fetches'
<1>1. /\ gets' = [gets EXCEPT ![i] = @ + 1]
      /\ flags' = [flags EXCEPT ![i] = "reading"]
  BY DEF GetWritten
<1>2. gets \in [Files -> Nat] /\ flags \in [Files -> {"none", "connecting", "reading", "done"}]
  BY DEF IInv, TypeInv
<1>3. \A f \in Files : gets'[f] = IF flags'[f] \in {"reading", "done"} THEN 1 ELSE 0
  BY <1>1, <1>2 DEF IInv, Fetches
<1> QED
  BY <1>1, <1>2, <1>3 DEF IInv, Fetches

(* The GET of start_connect, after which the counters are exact again.      *)
LEMMA WriteGetStartedStep == IInv /\ WriteGetStarted => IInv'
<1> SUFFICES ASSUME IInv, WriteGetStarted PROVE IInv'
  OBVIOUS
<1> USE DEF homeVars
<1>1. /\ pc = "get_started" /\ i \in Files /\ flags[i] = "none" /\ nconn < maxnconn
      /\ fd[i] \in (1..nfiles) \ rset /\ open = rset \cup {fd[i]}
      /\ UNCHANGED <<homeVars, fd, wset, nlefttoread, open, rs, ws, conn, sent, served, got>>
  BY DEF WriteGetStarted, IInv, Held, GetPending
<1>2. CASE GetFails
  <2>1. /\ pc' \in {"failed", "killed"} /\ i' = i
        /\ UNCHANGED <<homeVars, bookVars, rs, ws, netVars, got>>
    BY <1>1, <1>2 DEF GetFails, bookVars, netVars
  <2> QED
    BY <2>1, Fails DEF IInv, TypeInv
<1>3. CASE GetWritten /\ nconn' = nconn + 1 /\ nlefttoconn' = nlefttoconn - 1
           /\ pc' = "loop" /\ UNCHANGED i
  <2>1. /\ flags' = [flags EXCEPT ![i] = "reading"]
        /\ flags' \in [Files -> {"none", "connecting", "reading", "done"}]
        /\ gets' \in [Files -> Nat] /\ Fetches'
    BY <1>1, <1>3, GetWrittenFacts
  <2>2. rset' = rset \cup {fd'[i]} /\ maxfd' = Larger(maxfd, fd'[i])
    BY <1>1, <1>3 DEF GetWritten
  <2>3. fd' \in [Files -> 0..nfiles] /\ \A g \in Files : g # i => fd'[g] = fd[g]
    BY <1>1 DEF IInv, TypeInv
  <2>4. /\ Counts'
        /\ rset' = {fd'[g] : g \in InFlight'}
        /\ \A g \in InFlight' : fd'[g] \in 1..maxfd'
        /\ \A g, h \in InFlight' : fd'[g] = fd'[h] => g = h
        /\ maxfd' \in 0..nfiles
    BY <1>1, <1>3, <2>1, <2>2, <2>3, BookStarted
  <2>5. Connecting' = Connecting
    BY <1>1, <2>1 DEF Connecting, IInv, TypeInv
  <2>6. Descriptors'
    BY <1>1, <1>3, <2>4, <2>5 DEF IInv, Descriptors
  <2>7. TypeInv'
    BY <1>1, <1>3, <2>1, <2>2, <2>3, <2>4 DEF IInv, TypeInv, Labels
  <2>8. Held' /\ GetPending'
    BY <1>1, <1>3, <2>2 DEF Held, GetPending
  <2> QED
    BY <2>1, <2>4, <2>6, <2>7, <2>8 DEF IInv
<1> QED
  BY <1>2, <1>3 DEF WriteGetStarted

(* The GET of the scan, which takes the descriptor from wset.               *)
LEMMA WriteGetConnectedStep == IInv /\ WriteGetConnected => IInv'
<1> SUFFICES ASSUME IInv, WriteGetConnected PROVE IInv'
  OBVIOUS
<1> USE DEF homeVars
<1>1. /\ pc = "get_connected" /\ i \in Files /\ flags[i] = "connecting" /\ open = rset
      /\ UNCHANGED <<homeVars, fd, wset, nlefttoread, open, rs, ws, conn, sent, served, got>>
  BY DEF WriteGetConnected, IInv, Held, GetPending
<1>2. CASE GetFails
  <2>1. /\ pc' \in {"failed", "killed"} /\ i' = i
        /\ UNCHANGED <<homeVars, bookVars, rs, ws, netVars, got>>
    BY <1>1, <1>2 DEF GetFails, bookVars, netVars
  <2> QED
    BY <2>1, Fails DEF IInv, TypeInv
<1>3. CASE GetWritten /\ pc' = "scan" /\ i' = i + 1 /\ UNCHANGED <<nconn, nlefttoconn>>
  <2>1. /\ flags' = [flags EXCEPT ![i] = "reading"]
        /\ flags' \in [Files -> {"none", "connecting", "reading", "done"}]
        /\ gets' \in [Files -> Nat] /\ Fetches'
    BY <1>1, <1>3, GetWrittenFacts
  <2>2. /\ InFlight' = InFlight /\ i \in InFlight /\ Unstarted' = Unstarted /\ Undone' = Undone
        /\ Connecting' = Connecting \ {i}
    BY <1>1, <2>1 DEF InFlight, Unstarted, Undone, Connecting, IInv, TypeInv
  <2>3. fd[i] \in rset /\ fd[i] \in 1..maxfd /\ maxfd \in 0..nfiles
    BY <2>2 DEF IInv, Descriptors, TypeInv
  <2>4. rset' = rset /\ maxfd' = maxfd
    BY <1>3, <2>3, WebAssumption DEF GetWritten, Larger
  <2>5. Counts'
    BY <1>1, <1>3, <2>2 DEF IInv, Counts
  <2>6. Descriptors'
    BY <1>1, <1>3, <2>2, <2>4 DEF IInv, Descriptors
  <2>7. TypeInv'
    <3>1. i' \in 1..(nfiles + 1)
      BY <1>1, <1>3, WebAssumption DEF Files
    <3> QED
      BY <1>1, <1>3, <2>1, <2>4, <3>1 DEF IInv, TypeInv, Labels
  <2>8. Held' /\ GetPending'
    BY <1>1, <1>3, <2>4 DEF Held, GetPending
  <2> QED
    BY <2>1, <2>5, <2>6, <2>7, <2>8 DEF IInv
<1> QED
  BY <1>2, <1>3 DEF WriteGetConnected

(* End of file: the file is done, and its descriptor is free again.         *)
LEMMA ReadEofStep ==
  ASSUME IInv, pc = "scan", NEW f \in Files, flags[f] = "reading", ReadEof(f),
         pc' = "scan", i' \in 1..(nfiles + 1),
         UNCHANGED <<homeVars, fd, wset, maxfd, nlefttoconn, rs, ws, netVars>>
  PROVE  IInv'
<1> USE DEF homeVars, netVars
<1>1. /\ flags' = [flags EXCEPT ![f] = "done"]
      /\ open' = open \ {fd[f]} /\ rset' = rset \ {fd[f]}
      /\ nconn' = nconn - 1 /\ nlefttoread' = nlefttoread - 1 /\ got' = got
      /\ served[f] /\ got[f] = sent[f] /\ open = rset
  BY DEF ReadEof, IInv, Held
<1>2. /\ InFlight' = InFlight \ {f} /\ f \in InFlight /\ InFlight \subseteq Files
      /\ Unstarted' = Unstarted
      /\ Undone' = Undone \ {f} /\ f \in Undone /\ Undone \subseteq Files
      /\ Connecting' = Connecting /\ f \notin Connecting /\ Connecting \subseteq InFlight
  BY <1>1 DEF InFlight, Unstarted, Undone, Connecting, IInv, TypeInv
<1>3. Counts'
  BY <1>1, <1>2, Moved DEF IInv, Counts
<1>4. \A g \in InFlight : fd[g] = fd[f] => g = f
  BY <1>2 DEF IInv, Descriptors
<1>5. Descriptors'
  <2>1. rset = {fd[g] : g \in InFlight}
    BY DEF IInv, Descriptors
  <2>2. rset' = {fd'[g] : g \in InFlight'}
    BY <1>1, <1>2, <1>4, <2>1
  <2> QED
    BY <1>1, <1>2, <2>2 DEF IInv, Descriptors
<1>6. wset' \subseteq rset'
  BY <1>1, <1>2, <1>4 DEF IInv, Descriptors
<1>7. TypeInv'
  BY <1>1, <1>6 DEF IInv, TypeInv, Labels
<1>8. Held' /\ GetPending' /\ Fetches'
  BY <1>1 DEF IInv, Held, GetPending, Fetches, TypeInv
<1> QED
  BY <1>3, <1>5, <1>7, <1>8 DEF IInv

(* A read that returns data changes only what has been read.                *)
LEMMA ReadDataStep ==
  ASSUME IInv, pc = "scan", NEW f \in Files, flags[f] = "reading", ReadData(f),
         pc' = "scan", i' \in 1..(nfiles + 1),
         UNCHANGED <<homeVars, fd, wset, maxfd, nlefttoconn, rs, ws, netVars>>
  PROVE  IInv'
<1> USE DEF homeVars, netVars
<1>1. /\ got' = [got EXCEPT ![f] = @ + 1] /\ got[f] < sent[f]
      /\ UNCHANGED <<flags, open, rset, nconn, nlefttoread>>
  BY DEF ReadData
<1>2. /\ got \in [Files -> 0..MaxReply] /\ sent \in [Files -> 0..MaxReply]
      /\ MaxReply \in Nat
  BY WebAssumption DEF IInv, TypeInv
<1>3. got' \in [Files -> 0..MaxReply] /\ \A g \in Files : g # f => got'[g] = got[g]
  BY <1>1, <1>2
<1>4. got'[f] <= sent[f]
  BY <1>1, <1>2
<1>5. Fetches'
  BY <1>1, <1>3, <1>4 DEF IInv, Fetches
<1>6. TypeInv'
  BY <1>1, <1>3 DEF IInv, TypeInv, Labels
<1>7. Descriptors'
  BY <1>1, BookKept DEF IInv, Descriptors
<1>8. Held' /\ GetPending'
  BY <1>1 DEF IInv, Held, GetPending
<1> QED
  BY <1>1, <1>5, <1>6, <1>7, <1>8, BookKept DEF IInv

(* A read; at end of file the connection leaves the sets and the counters.  *)
LEMMA ReadStep == IInv /\ Read => IInv'
<1> SUFFICES ASSUME IInv, Read PROVE IInv'
  OBVIOUS
<1>1. PICK f \in Files :
        /\ flags[f] = "reading"
        /\ \/ (ReadData(f) \/ (~Broken(f) /\ ReadEof(f))) /\ pc' = "scan"
           \/ /\ Broken(f) /\ pc' = "failed"
              /\ UNCHANGED <<flags, open, rset, nconn, nlefttoread, got>>
        /\ i' = f + 1
  BY DEF Read
<1>2. /\ pc = "scan" /\ i' \in 1..(nfiles + 1)
      /\ UNCHANGED <<homeVars, fd, wset, maxfd, nlefttoconn, rs, ws, netVars>>
  BY <1>1, WebAssumption DEF Read, Files
<1>3. CASE Broken(f) /\ pc' = "failed" /\ UNCHANGED <<flags, open, rset, nconn, nlefttoread, got>>
  BY <1>2, <1>3, Fails DEF bookVars
<1> QED
  BY <1>1, <1>2, <1>3, ReadDataStep, ReadEofStep

(* The servers do not touch the program's books; a reply grows only while   *)
(* it has not ended.                                                        *)
LEMMA ServerStep ==
  ASSUME IInv, NEW f \in Files, Establish(f) \/ Fail(f) \/ Reply(f) \/ ReplyEnds(f)
  PROVE  IInv'
<1> USE DEF procVars, homeVars, bookVars
<1>1. UNCHANGED procVars
  BY DEF Establish, Fail, Reply, ReplyEnds
<1>2. /\ conn' \in [Files -> {"none", "pending", "up", "error", "cleared"}]
      /\ gets' = gets
  BY DEF Establish, Fail, Reply, ReplyEnds, IInv, TypeInv
<1>3. /\ sent' \in [Files -> 0..MaxReply] /\ served' \in [Files -> BOOLEAN]
      /\ \A g \in Files : /\ sent'[g] = sent[g] \/ (~served[g] /\ sent'[g] = sent[g] + 1)
                          /\ served[g] => served'[g]
  <2>1. CASE Establish(f) \/ Fail(f)
    BY <2>1 DEF Establish, Fail, IInv, TypeInv
  <2>2. CASE Reply(f)
    <3>1. sent' = [sent EXCEPT ![f] = @ + 1] /\ ~served[f] /\ sent[f] < MaxReply /\ served' = served
      BY <2>2 DEF Reply
    <3>2. sent \in [Files -> 0..MaxReply] /\ served \in [Files -> BOOLEAN] /\ MaxReply \in Nat
      BY WebAssumption DEF IInv, TypeInv
    <3>3. sent' \in [Files -> 0..MaxReply]
      BY <3>1, <3>2
    <3> QED
      BY <3>1, <3>2, <3>3
  <2>3. CASE ReplyEnds(f)
    BY <2>3 DEF ReplyEnds, IInv, TypeInv
  <2> QED
    BY <2>1, <2>2, <2>3
<1>4. Fetches'
  <2>1. \A g \in Files : got[g] <= sent'[g]
    BY <1>3, WebAssumption DEF IInv, TypeInv, Fetches
  <2> QED
    BY <1>1, <1>2, <1>3, <2>1 DEF IInv, Fetches
<1>5. TypeInv'
  BY <1>1, <1>2, <1>3 DEF IInv, TypeInv
<1>6. Descriptors' /\ Held' /\ GetPending'
  BY <1>1, BookKept DEF IInv, Descriptors, Held, GetPending
<1> QED
  BY <1>1, <1>4, <1>5, <1>6, BookKept DEF IInv

(* Every step, of the client, of a server or neither.                       *)
LEMMA StepHolds == IInv /\ [Next]_vars => IInv'
<1>1. IInv /\ UNCHANGED vars => IInv'
  <2> SUFFICES ASSUME IInv, UNCHANGED vars PROVE IInv'
    OBVIOUS
  <2> USE DEF vars, homeVars, bookVars, netVars
  <2>1. TypeInv' /\ Fetches'
    BY DEF IInv, TypeInv, Fetches
  <2>2. Descriptors'
    <3>1. UNCHANGED <<pc, i, wset, fd>>
      OBVIOUS
    <3> QED
      BY <3>1, BookKept DEF IInv, Descriptors
  <2>3. Held' /\ GetPending'
    BY DEF IInv, Held, GetPending, Unstarted
  <2> QED
    BY <2>1, <2>2, <2>3, BookKept DEF IInv
<1> QED
  BY <1>1, HomeStep, WaitStep, ConnectedStep, StartConnectStep, WriteGetStartedStep,
     WriteGetConnectedStep, ReadStep, ServerStep DEF Next, Client

(* The invariant, from the initial states and the steps above.              *)
LEMMA Invariance == Spec => []IInv
  BY InitHolds, StepHolds, PTL DEF Spec

-----------------------------------------------------------------------------
(* What follows from it. *)

(* Every variable keeps its type; in particular the counters stay between 0 *)
(* and nfiles, and no descriptor above nfiles is ever used.                 *)
THEOREM TypeCorrect == Spec => []TypeOK
<1>1. ASSUME IInv PROVE TypeOK
  <2>1. InFlight \subseteq Files /\ Unstarted \subseteq Files /\ Undone \subseteq Files
    BY DEF InFlight, Unstarted, Undone
  <2>2. nconn \in 0..nfiles /\ nlefttoconn \in 0..nfiles /\ nlefttoread \in 0..nfiles
    BY <1>1, <2>1, SomeFiles DEF IInv, Counts
  <2>3. rset \subseteq 1..nfiles
    BY <1>1, WebAssumption DEF IInv, TypeInv, Descriptors, InFlight, Files
  <2> QED
    BY <1>1, <2>2, <2>3 DEF IInv, TypeInv, TypeOK, Labels
<1> QED
  BY <1>1, Invariance, PTL

(* The counters main tests agree with the flags of file[], so its search    *)
(* for a file to start never comes to "nothing found" (err_quit).           *)
THEOREM CountersAlwaysAgree == Spec => []CountersAgree
<1>1. IInv => CountersAgree
  BY DEF IInv, Counts, TypeInv, Labels, Ended, CountersAgree, Undone
<1> QED
  BY <1>1, Invariance, PTL

(* At the top of the loop the descriptor sets name exactly the connections  *)
(* in flight, each with a descriptor of its own, and none has leaked.       *)
THEOREM SetsAlwaysAgree == Spec => []SetsAgree
<1>1. ASSUME IInv PROVE SetsAgree
  <2>1. \A f \in InFlight : fd[f] <= maxfd
    BY <1>1, WebAssumption DEF IInv, Descriptors, TypeInv
  <2>2. \A d \in rset : d <= maxfd
    BY <1>1, <2>1 DEF IInv, Descriptors
  <2> QED
    BY <1>1, <2>2 DEF IInv, Descriptors, Held, SetsAgree, Connecting
<1> QED
  BY <1>1, Invariance, PTL

(* A file is asked for once, and is done only when every unit its server    *)
(* sent has been read.                                                      *)
THEOREM FilesFetchedWhole == Spec => []FetchedWhole
<1>1. IInv => FetchedWhole
  BY DEF IInv, Fetches, TypeInv, FetchedWhole
<1> QED
  BY <1>1, Invariance, PTL

-----------------------------------------------------------------------------
(* The downloads are a FetchPool. *)

(* The status of a file in the pool, by its flag.                           *)
LEMMA StatusOf ==
  ASSUME TypeInv
  PROVE  /\ status \in [Files -> {"todo", "active", "done"}]
         /\ \A f \in Files : /\ status[f] = "todo" <=> flags[f] = "none"
                             /\ status[f] = "active" <=> f \in InFlight
                             /\ status[f] = "done" <=> flags[f] = "done"
         /\ Pool!Active = InFlight
  BY DEF TypeInv, status, InFlight, Pool!Active

(* A flag that is set moves the file in the pool.                           *)
LEMMA StatusMoves ==
  ASSUME TypeInv, NEW f \in Files, NEW s \in {"connecting", "reading", "done"},
         flags' = [flags EXCEPT ![f] = s]
  PROVE  status' = [status EXCEPT ![f] = IF s = "done" THEN "done" ELSE "active"]
  BY DEF TypeInv, status

(* The pool sees the flags only.                                            *)
LEMMA StatusKept == UNCHANGED flags => UNCHANGED status
  BY DEF status

(* At first nothing is started.                                             *)
LEMMA PoolInitial == Init => Pool!Init
  BY DEF Init, Pool!Init, status, Ended

(* A connection is started only while fewer than maxnconn are in flight.    *)
LEMMA PoolStarts ==
  ASSUME IInv, NEW f \in Files, flags[f] = "none", nconn < maxnconn,
         NEW s \in {"connecting", "reading"}, flags' = [flags EXCEPT ![f] = s],
         pc \notin Ended, pc' \notin Ended
  PROVE  Pool!Next
<1>1. status[f] = "todo" /\ Cardinality(Pool!Active) < maxnconn
  BY StatusOf DEF IInv, Counts
<1>2. status' = [status EXCEPT ![f] = "active"]
  BY StatusMoves DEF IInv
<1>3. Pool!Start(f)
  BY <1>1, <1>2 DEF Pool!Start, Ended, Pool!Cardinality, Cardinality
<1> QED
  BY <1>3 DEF Pool!Next, Ended

(* A step that sets no flag and ends nothing is a stutter of the pool.      *)
LEMMA PoolKept ==
  ASSUME UNCHANGED flags, pc \notin Ended, pc' \notin Ended
  PROVE  UNCHANGED Pool!vars
  BY StatusKept DEF Pool!vars, Ended

(* A failure of the program aborts the pool.                                *)
LEMMA PoolAborts ==
  ASSUME UNCHANGED flags, pc \notin Ended, pc' \in {"failed", "killed"}
  PROVE  Pool!Next
  BY StatusKept DEF Pool!Next, Pool!Abort, Ended

(* End of file of a reply finishes its download.                            *)
LEMMA PoolFinishes ==
  ASSUME IInv, NEW f \in Files, flags[f] = "reading", flags' = [flags EXCEPT ![f] = "done"],
         pc \notin Ended, pc' \notin Ended
  PROVE  Pool!Next
<1>1. status[f] = "active" /\ status' = [status EXCEPT ![f] = "done"]
  BY StatusOf, StatusMoves DEF IInv, InFlight
<1>2. Pool!Finish(f)
  BY <1>1 DEF Pool!Finish, Ended
<1> QED
  BY <1>2 DEF Pool!Next, Ended

(* nlefttoread is zero only when every file is done.                        *)
LEMMA PoolExits == ASSUME IInv, Exit PROVE Pool!Next
<1>1. Undone = {}
  <2>1. IsFiniteSet(Undone) /\ Cardinality(Undone) = 0
    BY SomeFiles DEF Exit, IInv, Counts, Undone
  <2> QED
    BY <2>1, FS_EmptySet
<1>2. \A f \in Files : status[f] = "done"
  BY <1>1, StatusOf DEF IInv, Undone
<1>3. Pool!Exit
  BY <1>2, StatusKept DEF Exit, bookVars, Pool!Exit
<1> QED
  BY <1>3 DEF Exit, Ended, Pool!Next

(* Every step of the web client is a step of the pool or a stutter.         *)
LEMMA PoolStep == IInv /\ [Next]_vars => [Pool!Next]_(Pool!vars)
<1> SUFFICES ASSUME IInv, [Next]_vars PROVE Pool!Next \/ UNCHANGED Pool!vars
  OBVIOUS
<1> USE DEF Ended
<1>1. CASE HomeConnect \/ HomePage
  <2>1. flags' = flags /\ pc \in {"tcp_connect", "home_page"}
        /\ pc' \in {"tcp_connect", "home_page", "loop", "failed"}
    BY <1>1 DEF HomeConnect, HomePage
  <2> QED
    BY <2>1, PoolKept, PoolAborts
<1>2. CASE Select \/ ScanEnds \/ Connected
  <2>1. flags' = flags /\ pc \in {"loop", "scan"} /\ pc' \in {"loop", "scan", "get_connected"}
    BY <1>2 DEF Select, ScanEnds, Connected, bookVars
  <2> QED
    BY <2>1, PoolKept
<1>3. CASE Exit
  BY <1>3, PoolExits
<1>4. CASE StartConnect
  <2>1. PICK f \in Unstarted : ConnectInProgress(f) \/ ConnectDone(f) \/ ConnectFails
    BY <1>4, FS_EmptySet DEF StartConnect, IInv, Counts
  <2>2. f \in Files /\ flags[f] = "none" /\ nconn < maxnconn /\ pc = "loop"
    BY <1>4 DEF Unstarted, StartConnect
  <2>3. CASE ConnectInProgress(f)
    BY <2>2, <2>3, PoolStarts DEF ConnectInProgress
  <2>4. CASE ConnectDone(f)
    BY <2>2, <2>4, PoolKept DEF ConnectDone
  <2>5. CASE ConnectFails
    BY <2>2, <2>5, PoolAborts DEF ConnectFails
  <2> QED
    BY <2>1, <2>3, <2>4, <2>5
<1>5. CASE WriteGetStarted
  <2>1. i \in Files /\ flags[i] = "none" /\ nconn < maxnconn /\ pc = "get_started"
    BY <1>5 DEF WriteGetStarted, IInv, GetPending
  <2>2. CASE GetFails
    BY <2>1, <2>2, PoolAborts DEF GetFails
  <2>3. CASE GetWritten /\ pc' = "loop"
    BY <2>1, <2>3, PoolStarts DEF GetWritten
  <2> QED
    BY <1>5, <2>2, <2>3 DEF WriteGetStarted
<1>6. CASE WriteGetConnected
  <2>1. i \in Files /\ flags[i] = "connecting" /\ pc = "get_connected"
    BY <1>6 DEF WriteGetConnected, IInv, GetPending
  <2>2. CASE GetFails
    BY <2>1, <2>2, PoolAborts DEF GetFails
  <2>3. CASE GetWritten /\ pc' = "scan"
    <3>1. status' = [status EXCEPT ![i] = "active"]
      BY <2>1, <2>3, StatusMoves DEF GetWritten, IInv
    <3>2. status[i] = "active" /\ status \in [Files -> {"todo", "active", "done"}]
      BY <2>1, StatusOf DEF IInv, InFlight
    <3>3. status' = status
      BY <3>1, <3>2
    <3> QED
      BY <2>1, <2>3, <3>3 DEF Pool!vars
  <2> QED
    BY <1>6, <2>2, <2>3 DEF WriteGetConnected
<1>7. CASE Read
  <2>1. PICK f \in Files :
          /\ flags[f] = "reading"
          /\ \/ (ReadData(f) \/ ReadEof(f)) /\ pc' = "scan"
             \/ pc' = "failed" /\ UNCHANGED flags
    BY <1>7 DEF Read
  <2>2. pc = "scan"
    BY <1>7 DEF Read
  <2>3. CASE ReadEof(f) /\ pc' = "scan"
    BY <2>1, <2>2, <2>3, PoolFinishes DEF ReadEof
  <2>4. CASE ReadData(f) /\ pc' = "scan"
    BY <2>2, <2>4, PoolKept DEF ReadData
  <2> QED
    BY <2>1, <2>2, <2>3, <2>4, PoolAborts
<1>8. ASSUME UNCHANGED <<pc, flags>> PROVE UNCHANGED Pool!vars
  BY <1>8, StatusKept DEF Pool!vars
<1>9. ASSUME NEW f \in Files, Establish(f) \/ Fail(f) \/ Reply(f) \/ ReplyEnds(f)
      PROVE  UNCHANGED Pool!vars
  BY <1>8, <1>9 DEF Establish, Fail, Reply, ReplyEnds, procVars, bookVars
<1>10. CASE UNCHANGED vars
  BY <1>8, <1>10 DEF vars, bookVars
<1> QED
  BY <1>1, <1>2, <1>3, <1>4, <1>5, <1>6, <1>7, <1>9, <1>10 DEF Next, Client

(* Every behaviour of the web client, its servers and its failures is a     *)
(* behaviour of FetchPool: at most maxnconn downloads at a time, each file  *)
(* once, and a normal exit only when all are done.                          *)
THEOREM ImplementsPool == Spec => PoolSpec
  BY Invariance, PoolInitial, PoolStep, PTL DEF Spec, PoolSpec, Pool!Spec
=============================================================================
