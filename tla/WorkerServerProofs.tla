------------------------ MODULE WorkerServerProofs ------------------------
(***************************************************************************)
(* For any number of clients, any amount of data and every kind of server. *)
(*                                                                         *)
(* ZInv: no child that has ended is forgotten.  Only the end of a child    *)
(* makes a zombie, and it raises SIGCHLD; the handler returns only when    *)
(* waitpid has found no zombie.                                            *)
(*                                                                         *)
(* OInv: what every process holds.  Between accept and fork or create main *)
(* has one connection no worker knows (MainInv); what a worker is started  *)
(* with leads to that connection (ArgInv), until it has copied it.         *)
(*                                                                         *)
(* EInv: what workers read and write.  It rests on OInv: a worker reads    *)
(* its own client's bytes because it serves its own connection.            *)
(*                                                                         *)
(* At the end, the threads of SharedCounter: no increment is lost.         *)
(***************************************************************************)
EXTENDS WorkerServer, SharedCounter, TLAPS, WellFoundedInduction, SequenceTheorems

Labels == {"none", "start", "read", "write", "close", "done", "zombie", "reaped"}

ZInv ==
  /\ wpc \in [Clients -> Labels]
  /\ mpc = "ended" => \A c \in Clients : wpc[c] # "zombie"
  /\ NoZombieForgotten

LEMMA InitZ == Init => ZInv
  BY DEF Init, ZInv, NoZombieForgotten, Labels, FirstStep

(* Whoever ends it, main leaves no zombie behind: init reaps them. *)
LEMMA MainEndsZ == ZInv /\ MainEnds => ZInv'
  BY DEF ZInv, NoZombieForgotten, Labels, MainEnds

LEMMA ChildEndsZ == ASSUME NEW c \in Clients, ZInv, ChildEnds(c) PROVE ZInv'
  BY DEF ZInv, NoZombieForgotten, Labels, ChildEnds, mainVars

LEMMA MainZ == ZInv /\ Main => ZInv'
<1> SUFFICES ASSUME ZInv, Main PROVE ZInv'
  OBVIOUS
<1> USE DEF ZInv, NoZombieForgotten, Labels, MainRuns, signalVars
<1>1. CASE MainMalloc
  BY <1>1 DEF MainMalloc
<1>2. CASE MainAccept
  BY <1>2 DEF MainAccept
<1>3. CASE MainAcceptFails
  BY <1>3, MainEndsZ DEF MainAcceptFails
<1>4. CASE MainSpawn
  BY <1>4 DEF MainSpawn, FirstStep
<1>5. CASE MainSpawnFails
  BY <1>5, MainEndsZ DEF MainSpawnFails
<1>6. CASE MainClose
  BY <1>6 DEF MainClose
<1> QED
  BY <1>1, <1>2, <1>3, <1>4, <1>5, <1>6 DEF Main

LEMMA HandlerZ == ZInv /\ Handler => ZInv'
<1> SUFFICES ASSUME ZInv, Handler PROVE ZInv'
  OBVIOUS
<1> USE DEF ZInv, NoZombieForgotten, Labels, mainVars
<1>1. CASE SigChld
  BY <1>1 DEF SigChld
<1>2. CASE Reap
  BY <1>2 DEF Reap, signalVars
<1>3. CASE HandlerReturns
  BY <1>3 DEF HandlerReturns
<1> QED
  BY <1>1, <1>2, <1>3 DEF Handler

LEMMA WorkerZ == ASSUME NEW c \in Clients, ZInv, Worker(c) PROVE ZInv'
<1> USE DEF ZInv, NoZombieForgotten, Labels, mainVars, signalVars
<1>1. CASE WorkerStart(c)
  BY <1>1 DEF WorkerStart
<1>2. CASE WorkerReads(c)
  BY <1>2 DEF WorkerReads
<1>3. CASE WorkerSeesEnd(c)
  BY <1>3, ChildEndsZ DEF WorkerSeesEnd
<1>4. CASE WorkerSeesReset(c)
  BY <1>4, ChildEndsZ, MainEndsZ DEF WorkerSeesReset, WorkerFails
<1>5. CASE WorkerWrites(c)
  BY <1>5 DEF WorkerWrites
<1>6. CASE ThreadCloses(c)
  BY <1>6 DEF ThreadCloses
<1> QED
  BY <1>1, <1>2, <1>3, <1>4, <1>5, <1>6 DEF Worker

LEMMA ClientZ == ASSUME NEW c \in Clients, ZInv, Client(c) PROVE ZInv'
  BY DEF ZInv, NoZombieForgotten, Labels, Client, Connect, Send, Finish, Reset,
         serverVars, mainVars, signalVars

LEMMA NextZ == ZInv /\ [Next]_vars => ZInv'
<1> SUFFICES ASSUME ZInv, [Next]_vars PROVE ZInv'
  OBVIOUS
<1>1. CASE UNCHANGED vars
  BY <1>1 DEF vars, ZInv, NoZombieForgotten, mainVars, signalVars
<1> QED
  BY <1>1, MainZ, MainEndsZ, ChildEndsZ, HandlerZ, WorkerZ, ClientZ
  DEF Next, Interrupt, InterruptChild

(* No child is forgotten (sig_chld of the forking servers), however many    *)
(* there are and whenever they end.                                         *)
THEOREM ChildrenRemembered == Spec => []NoZombieForgotten
<1>1. ZInv => NoZombieForgotten
  BY DEF ZInv
<1> QED
  BY <1>1, InitZ, NextZ, PTL DEF Spec

-----------------------------------------------------------------------------
(* Who holds what. *)

OwnType ==
  /\ program \in Forking \cup Threaded
  /\ mpc \in {"malloc", "accept", "spawn", "close", "ended"}
  /\ wpc \in [Clients -> Labels]
  /\ arg \in [Clients -> {0} \cup Cells \cup Clients]
  /\ sock \in [Clients -> Clients \cup {Nobody}]
  /\ heap \in [Cells -> {"free", "raw"} \cup Clients]
  /\ holders \in [Clients -> SUBSET (Clients \cup {"main"})]
  /\ conn \in [Clients -> {"none", "queued", "accepted"}]

(* What main is about to do: between accept and fork or create it has one   *)
(* connection that no worker knows; all other accepted ones have a worker.  *)
MainInv ==
  /\ mpc \in {"spawn", "close"} => connfd \in Clients /\ conn[connfd] = "accepted"
  /\ mpc = "spawn" => wpc[connfd] = "none"
  /\ mpc = "close" => IsForking
  /\ mpc = "malloc" => program = "heap"
  /\ \A c \in Clients : wpc[c] # "none" => conn[c] = "accepted"
  /\ \A c \in Clients :
       conn[c] = "accepted" => wpc[c] # "none" \/ mpc = "ended" \/ (mpc = "spawn" /\ connfd = c)

(* Children and threads end in their own ways, and threads with main.       *)
KindInv ==
  \A c \in Clients :
    IF IsForking THEN wpc[c] \notin {"close", "done"}
                 ELSE /\ wpc[c] \notin {"zombie", "reaped"}
                      /\ mpc = "ended" => wpc[c] \in {"none", "done"}

(* What a worker was started with leads to its own connection.              *)
ArgInv ==
  /\ \A c \in Clients : wpc[c] = "start" =>
       IF program = "heap" THEN arg[c] \in Cells ELSE arg[c] = c
  /\ program = "heap" /\ mpc \in {"accept", "spawn"} =>
       iptr \in Cells /\ heap[iptr] = IF mpc = "spawn" THEN connfd ELSE "raw"

(* The four parts of ResourcesOwned. *)
Served == \A c \in Clients : wpc[c] \in {"read", "write", "close"} => sock[c] = c

HoldersOf(c) ==
  IF IsForking
    THEN {p \in {"main"} : mpc \in {"spawn", "close"} /\ connfd = c}
           \cup {p \in {c} : wpc[c] \in {"start", "read", "write"}}
    ELSE IF mpc # "ended" /\ conn[c] = "accepted" /\ wpc[c] # "done" THEN {"main"} ELSE {}
Held == \A c \in Clients : holders[c] = HoldersOf(c)

Listened ==
  listeners = {p \in {"main"} : mpc # "ended"} \cup {c \in Clients : IsForking /\ wpc[c] = "start"}

Starting == {c \in Clients : wpc[c] = "start"}
Mine     == {n \in {iptr} : mpc \in {"accept", "spawn"}}
CellsOwned ==
  program = "heap" /\ mpc # "ended" =>
    /\ {n \in Cells : heap[n] # "free"} = Mine \cup {arg[c] : c \in Starting}
    /\ \A c \in Starting : arg[c] \notin Mine /\ heap[arg[c]] = c

OInv == OwnType /\ MainInv /\ KindInv /\ ArgInv /\ Served /\ Held /\ Listened /\ CellsOwned

LEMMA InitO == Init => OInv
<1> SUFFICES ASSUME Init PROVE OInv
  OBVIOUS
<1> USE WorkerAssumption DEF Init
<1>1. OwnType
  BY DEF OwnType, Labels, FirstStep
<1>2. MainInv /\ KindInv /\ ArgInv /\ Served
  BY DEF MainInv, KindInv, ArgInv, Served, FirstStep
<1>3. Held /\ Listened
  BY DEF Held, HoldersOf, Listened, FirstStep
<1>4. CellsOwned
  BY DEF CellsOwned, Mine, Starting, FirstStep
<1> QED
  BY <1>1, <1>2, <1>3, <1>4 DEF OInv

LEMMA MainEndsO == ASSUME OInv, MainEnds PROVE OInv'
<1> USE WorkerAssumption DEF OInv, MainEnds, Drop, OwnType, Labels, workVars, clientVars
<1>1. \A c \in Clients :
        wpc'[c] = CASE wpc[c] = "zombie" -> "reaped"
                    [] ~IsForking /\ wpc[c] # "none" -> "done"
                    [] OTHER -> wpc[c]
  OBVIOUS
<1>2. IsForking' <=> IsForking
  BY DEF IsForking
<1>3. OwnType'
  OBVIOUS
<1>4. MainInv' /\ KindInv' /\ ArgInv'
  BY <1>1, <1>2 DEF MainInv, KindInv, ArgInv
<1>5. Served'
  BY <1>1, <1>2 DEF Served
<1>6. Held'
  BY <1>1, <1>2 DEF Held, HoldersOf
<1>7. Listened' /\ CellsOwned'
  BY <1>1, <1>2 DEF Listened, CellsOwned, KindInv
<1> QED
  BY <1>3, <1>4, <1>5, <1>6, <1>7

LEMMA ChildEndsO ==
  ASSUME OInv, NEW c \in Clients, IsForking, wpc[c] \in {"start", "read", "write"}, ChildEnds(c)
  PROVE  OInv'
<1> USE WorkerAssumption
    DEF OInv, ChildEnds, Drop, OwnType, Labels, mainVars, workVars, clientVars
<1>1. OwnType' /\ (IsForking' <=> IsForking) /\ program # "heap"
  BY DEF IsForking, Forking, Strings
<1>2. MainInv' /\ KindInv' /\ ArgInv' /\ Served'
  BY <1>1 DEF MainInv, KindInv, ArgInv, Served
<1>3. Held'
  BY <1>1 DEF Held, HoldersOf
<1>4. Listened' /\ CellsOwned'
  BY <1>1 DEF Listened, CellsOwned
<1> QED
  BY <1>1, <1>2, <1>3, <1>4

LEMMA MainMallocO == ASSUME OInv, MainMalloc PROVE OInv'
<1> USE WorkerAssumption
    DEF OInv, MainMalloc, MainRuns, OwnType, Labels, workVars, clientVars, tableVars, signalVars
<1>1. PICK n \in Cells : heap[n] = "free" /\ iptr' = n /\ heap' = [heap EXCEPT ![n] = "raw"]
  OBVIOUS
<1>2. OwnType' /\ (IsForking' <=> IsForking)
  BY <1>1 DEF IsForking
<1>3. MainInv' /\ KindInv' /\ Served' /\ Listened'
  BY <1>2 DEF MainInv, KindInv, Served, Listened
<1>4. ArgInv'
  BY <1>1 DEF ArgInv
<1>5. Held'
  BY <1>2 DEF Held, HoldersOf
<1>6. CellsOwned'
  BY <1>1 DEF CellsOwned, Mine, Starting
<1> QED
  BY <1>2, <1>3, <1>4, <1>5, <1>6

LEMMA MainAcceptO == ASSUME OInv, MainAccept PROVE OInv'
<1> USE WorkerAssumption
    DEF OInv, MainAccept, MainRuns, OwnType, Labels, workVars, signalVars
<1>1. PICK c \in Clients :
        /\ conn[c] = "queued" /\ conn' = [conn EXCEPT ![c] = "accepted"]
        /\ holders' = [holders EXCEPT ![c] = {"main"}] /\ connfd' = c
        /\ heap' = IF program = "heap" THEN [heap EXCEPT ![iptr] = c] ELSE heap
  OBVIOUS
<1>2. OwnType' /\ (IsForking' <=> IsForking)
  BY <1>1 DEF IsForking
<1>3. wpc[c] = "none"
  BY <1>1 DEF MainInv
<1>4. MainInv' /\ KindInv' /\ Served' /\ Listened'
  BY <1>1, <1>2, <1>3 DEF MainInv, KindInv, Served, Listened
<1>5. ArgInv'
  BY <1>1 DEF ArgInv
<1>6. Held'
  <2> SUFFICES ASSUME NEW d \in Clients PROVE holders'[d] = HoldersOf(d)'
    BY DEF Held
  <2>1. c # "main" /\ mpc = "accept" /\ mpc' = "spawn" /\ wpc' = wpc
    OBVIOUS
  <2>2. CASE d = c
    BY <1>1, <1>2, <1>3, <2>1, <2>2 DEF HoldersOf
  <2>3. CASE d # c
    <3>1. holders'[d] = HoldersOf(d) /\ conn'[d] = conn[d] /\ connfd' # d
      BY <1>1, <2>3 DEF Held
    <3>2. CASE IsForking
      BY <1>2, <2>1, <3>1, <3>2 DEF HoldersOf
    <3>3. CASE ~IsForking
      BY <1>2, <2>1, <3>1, <3>3 DEF HoldersOf
    <3> QED
      BY <3>2, <3>3
  <2> QED
    BY <2>2, <2>3
<1>7. CellsOwned'
  BY <1>1 DEF CellsOwned, Mine, Starting, ArgInv
<1> QED
  BY <1>2, <1>4, <1>5, <1>6, <1>7

(* Before the fork main holds only the connection it has just accepted, so  *)
(* that is all the child gets.                                              *)
LEMMA MainSpawnO == ASSUME OInv, MainSpawn PROVE OInv'
<1> USE WorkerAssumption
    DEF OInv, MainSpawn, MainRuns, OwnType, Labels, clientVars, tableVars, signalVars
<1>1. /\ connfd \in Clients /\ wpc[connfd] = "none" /\ conn[connfd] = "accepted"
      /\ wpc' = [wpc EXCEPT ![connfd] = "start"] /\ connfd' = connfd /\ connfd # "main"
  BY DEF MainInv
<1>2. IsForking' <=> IsForking
  BY DEF IsForking
<1>3. OwnType'
  BY <1>1 DEF FirstStep, ArgInv
<1>4. MainInv'
  BY <1>1, <1>2, <1>3 DEF MainInv, FirstStep
<1>5. KindInv' /\ Served'
  BY <1>1, <1>2 DEF KindInv, Served, FirstStep
<1>6. ArgInv'
  BY <1>1 DEF ArgInv, FirstStep, IsForking, Forking, Strings
<1>7. Held'
  <2>1. CASE IsForking
    <3>1. \A d \in Clients : "main" \in holders[d] <=> d = connfd
      BY <1>1, <2>1 DEF Held, HoldersOf
    <3> QED
      BY <1>1, <1>2, <2>1, <3>1 DEF Held, HoldersOf
  <2>2. CASE ~IsForking
    BY <1>1, <1>2, <2>2 DEF Held, HoldersOf, FirstStep
  <2> QED
    BY <2>1, <2>2
<1>8. Listened'
  BY <1>1, <1>2 DEF Listened, FirstStep
<1>9. CellsOwned'
  BY <1>1 DEF CellsOwned, Mine, Starting, ArgInv, FirstStep, IsForking, Forking, Strings
<1> QED
  BY <1>3, <1>4, <1>5, <1>6, <1>7, <1>8, <1>9

LEMMA MainCloseO == ASSUME OInv, MainClose PROVE OInv'
<1> USE WorkerAssumption
    DEF OInv, MainClose, MainRuns, OwnType, Labels, workVars, clientVars, signalVars
<1>1. OwnType' /\ IsForking /\ IsForking' /\ connfd \in Clients /\ program # "heap"
  BY DEF IsForking, MainInv, Forking, Strings
<1>2. MainInv' /\ KindInv' /\ ArgInv' /\ Served' /\ Listened' /\ CellsOwned'
  BY <1>1 DEF MainInv, KindInv, ArgInv, Served, Listened, CellsOwned
<1>3. Held'
  BY <1>1 DEF Held, HoldersOf
<1> QED
  BY <1>1, <1>2, <1>3

(* The handler changes no worker but a zombie. *)
LEMMA HandlerO == ASSUME OInv, Handler PROVE OInv'
<1> USE DEF OInv, OwnType, Labels, mainVars, workVars, clientVars, tableVars, signalVars
<1>1. PICK Z \in SUBSET Clients :
        /\ \A c \in Z : wpc[c] = "zombie"
        /\ wpc' = [c \in Clients |-> IF c \in Z THEN "reaped" ELSE wpc[c]]
  <2>1. CASE Reap
    <3>1. PICK c \in Clients : wpc[c] = "zombie" /\ wpc' = [wpc EXCEPT ![c] = "reaped"]
      BY <2>1 DEF Reap
    <3> WITNESS {c} \in SUBSET Clients
    <3> QED
      BY <3>1
  <2>2. CASE SigChld \/ HandlerReturns
    <3> WITNESS {} \in SUBSET Clients
    <3> QED
      BY <2>2 DEF SigChld, HandlerReturns
  <2> QED
    BY <2>1, <2>2 DEF Handler
<1>2. UNCHANGED <<mainVars, heap, workVars, tableVars, clientVars>>
  BY DEF Handler, SigChld, Reap, HandlerReturns
<1>3. OwnType' /\ (IsForking' <=> IsForking)
  BY <1>1, <1>2 DEF IsForking
<1>4. MainInv' /\ KindInv' /\ ArgInv' /\ Served'
  BY <1>1, <1>2, <1>3 DEF MainInv, KindInv, ArgInv, Served
<1>5. Held' /\ Listened' /\ CellsOwned'
  BY <1>1, <1>2, <1>3 DEF Held, HoldersOf, Listened, CellsOwned, Mine, Starting
<1> QED
  BY <1>3, <1>4, <1>5

LEMMA WorkerStartO == ASSUME OInv, NEW c \in Clients, WorkerStart(c) PROVE OInv'
<1> USE WorkerAssumption DEF OInv, WorkerStart, OwnType, Labels, mainVars, clientVars, signalVars
<1>1. IsForking' <=> IsForking
  BY DEF IsForking
<1>2. program = "heap" => mpc # "ended" /\ arg[c] \in Cells /\ heap[arg[c]] = c
  BY DEF KindInv, ArgInv, CellsOwned, Starting, IsForking, Forking, Strings
<1>3. sock' = [sock EXCEPT ![c] = c]
  BY <1>2 DEF ArgInv
<1>4. OwnType'
  BY <1>2, <1>3
<1>5. MainInv' /\ KindInv'
  BY <1>1 DEF MainInv, KindInv
<1>6. ArgInv'
  BY <1>2 DEF ArgInv, CellsOwned, Mine, Starting
<1>7. Served'
  BY <1>3 DEF Served
<1>8. Held'
  BY <1>1 DEF Held, HoldersOf
<1>9. Listened'
  BY <1>1 DEF Listened
<1>10. CellsOwned'
  BY <1>2 DEF CellsOwned, Mine, Starting
<1> QED
  BY <1>4, <1>5, <1>6, <1>7, <1>8, <1>9, <1>10

(* Steps of a worker that only move it between reading, writing and closing.*)
LEMMA WorkerMovesO ==
  ASSUME OInv, NEW c \in Clients,
         wpc[c] \in {"read", "write"}, wpc' = [wpc EXCEPT ![c] = wpc'[c]],
         wpc'[c] \in {"read", "write"} \/ (wpc'[c] = "close" /\ ~IsForking),
         UNCHANGED <<mainVars, heap, arg, sock, tableVars, clientVars>>
  PROVE  OInv'
<1> USE DEF OInv, OwnType, Labels, mainVars, clientVars, tableVars
<1>1. OwnType' /\ (IsForking' <=> IsForking)
  BY DEF IsForking
<1>2. MainInv' /\ KindInv' /\ ArgInv' /\ Served'
  BY <1>1 DEF MainInv, KindInv, ArgInv, Served
<1>3. Held' /\ Listened'
  BY <1>1 DEF Held, HoldersOf, Listened
<1>4. CellsOwned'
  BY DEF CellsOwned, Mine, Starting
<1> QED
  BY <1>1, <1>2, <1>3, <1>4

LEMMA ThreadClosesO == ASSUME OInv, NEW c \in Clients, ThreadCloses(c) PROVE OInv'
<1> USE WorkerAssumption
    DEF OInv, ThreadCloses, OwnType, Labels, mainVars, workVars, clientVars, signalVars
<1>1. OwnType' /\ (IsForking' <=> IsForking) /\ ~IsForking /\ sock[c] = c
  BY DEF IsForking, KindInv, Served
<1>2. MainInv' /\ KindInv' /\ ArgInv' /\ Served'
  BY <1>1 DEF MainInv, KindInv, ArgInv, Served
<1>3. Held'
  <2> SUFFICES ASSUME NEW d \in Clients PROVE holders'[d] = HoldersOf(d)'
    BY DEF Held
  <2>1. holders[d] = HoldersOf(d) /\ mpc' = mpc /\ conn' = conn
    BY DEF Held
  <2>2. CASE d = c
    <3>1. holders'[d] = holders[d] \ {"main"} /\ wpc'[d] = "done"
      BY <1>1, <2>2
    <3>2. HoldersOf(d)' = {}
      BY <1>1, <3>1 DEF HoldersOf
    <3>3. holders[d] \subseteq {"main"}
      BY <1>1, <2>1 DEF HoldersOf
    <3>4. holders'[d] = {}
      BY <3>1, <3>3
    <3> QED
      BY <3>2, <3>4
  <2>3. CASE d # c
    <3>1. holders'[d] = holders[d] /\ wpc'[d] = wpc[d]
      BY <1>1, <2>3
    <3>2. HoldersOf(d)' = HoldersOf(d)
      BY <1>1, <2>1, <3>1, Zenon DEF HoldersOf
    <3> QED
      BY <2>1, <3>1, <3>2
  <2> QED
    BY <2>2, <2>3
<1>4. Listened' /\ CellsOwned'
  BY <1>1 DEF Listened, CellsOwned, Mine, Starting
<1> QED
  BY <1>1, <1>2, <1>3, <1>4

LEMMA WorkerO == ASSUME OInv, NEW c \in Clients, Worker(c) PROVE OInv'
<1> USE DEF workVars, signalVars
<1>1. CASE WorkerStart(c)
  BY <1>1, WorkerStartO
<1>2. CASE WorkerReads(c)
  BY <1>2, WorkerMovesO DEF WorkerReads, OInv, OwnType
<1>3. CASE WorkerSeesEnd(c)
  <2>1. CASE IsForking
    BY <1>3, <2>1, ChildEndsO DEF WorkerSeesEnd
  <2>2. CASE ~IsForking
    BY <1>3, <2>2, WorkerMovesO DEF WorkerSeesEnd, OInv, OwnType
  <2> QED
    BY <2>1, <2>2
<1>4. CASE WorkerSeesReset(c)
  BY <1>4, ChildEndsO, MainEndsO DEF WorkerSeesReset, WorkerFails
<1>5. CASE WorkerWrites(c)
  BY <1>5, WorkerMovesO DEF WorkerWrites, OInv, OwnType
<1>6. CASE ThreadCloses(c)
  BY <1>6, ThreadClosesO
<1> QED
  BY <1>1, <1>2, <1>3, <1>4, <1>5, <1>6 DEF Worker

LEMMA ClientO == ASSUME OInv, NEW c \in Clients, Client(c) PROVE OInv'
<1> USE DEF OInv, OwnType, serverVars, mainVars, workVars
<1>1. /\ UNCHANGED serverVars /\ conn' \in [Clients -> {"none", "queued", "accepted"}]
      /\ \A d \in Clients : conn'[d] = "accepted" <=> conn[d] = "accepted"
  BY DEF Client, Connect, Send, Finish, Reset
<1>2. OwnType' /\ (IsForking' <=> IsForking)
  BY <1>1 DEF IsForking
<1>3. MainInv' /\ KindInv' /\ ArgInv' /\ Served'
  BY <1>1, <1>2 DEF MainInv, KindInv, ArgInv, Served
<1>4. Held' /\ Listened' /\ CellsOwned'
  BY <1>1, <1>2 DEF Held, HoldersOf, Listened, CellsOwned, Mine, Starting
<1> QED
  BY <1>2, <1>3, <1>4

LEMMA NextO == OInv /\ [Next]_vars => OInv'
<1> SUFFICES ASSUME OInv, [Next]_vars PROVE OInv'
  OBVIOUS
<1>1. CASE UNCHANGED vars
  BY <1>1 DEF vars, mainVars, workVars, tableVars, clientVars, OInv, OwnType, MainInv, KindInv,
     ArgInv, Served, Held, HoldersOf, Listened, CellsOwned, Mine, Starting, IsForking
<1>2. CASE Main
  BY <1>2, MainMallocO, MainAcceptO, MainSpawnO, MainCloseO, MainEndsO
  DEF Main, MainAcceptFails, MainSpawnFails
<1> QED
  BY <1>1, <1>2, MainEndsO, ChildEndsO, HandlerO, WorkerO, ClientO
  DEF Next, Interrupt, InterruptChild

(* In every server with a worker for each connection, every connection is   *)
(* held by its own worker and, until main has closed its copy, by main;     *)
(* only main and children that have not started hold the listening socket;  *)
(* and every cell that is allocated has one owner.                          *)
THEOREM OwnersOfResources == Spec => []ResourcesOwned
<1>1. OInv => ResourcesOwned
  BY DEF OInv, Served, Held, HoldersOf, Listened, CellsOwned, Mine, Starting, ResourcesOwned
<1> QED
  BY <1>1, InitO, NextO, PTL DEF Spec

-----------------------------------------------------------------------------
(* What the workers read and write. *)

Less == {ij \in Nat \X Nat : ij[1] < ij[2]}

LEMMA Least ==
  ASSUME NEW T \in SUBSET Nat, T # {}
  PROVE  \E k \in T : \A j \in T : k <= j
<1>1. IsWellFoundedOn(Less, Nat)
  BY NatLessThanWellFounded DEF OpToRel, Less
<1>2. PICK k \in T : \A j \in T : <<j, k>> \notin Less
  BY <1>1, WFMin
<1>3. ASSUME NEW j \in T PROVE k <= j
  <2>1. <<j, k>> \in Nat \X Nat /\ <<j, k>> \notin Less
    BY <1>2
  <2>2. ~ (j < k)
    BY <2>1 DEF Less
  <2> QED
    BY <2>2
<1> QED
  BY <1>3

(* line[] read as a string ends at its first NUL, or where line[] ends.     *)
LEMMA TerminatedPrefix ==
  ASSUME NEW S, NEW l \in [1..MaxSend + 1 -> S]
  PROVE  \E n \in 0..(MaxSend + 1) : /\ Terminated(l) = [k \in 1..n |-> l[k]]
                                     /\ \A k \in 1..n : l[k] # Nul
<1> DEFINE N == MaxSend + 1
           P(k) == /\ \A j \in 1..k : l[j] # Nul
                   /\ k = N \/ l[k + 1] = Nul
           T == {k \in 0..N : k = N \/ l[k + 1] = Nul}
           n == CHOOSE k \in 0..N : P(k)
<1>0. N \in Nat
  BY WorkerAssumption
<1>1. PICK m \in T : \A j \in T : m <= j
  <2>1. T \in SUBSET Nat /\ N \in T
    BY <1>0
  <2> HIDE DEF T
  <2> QED
    BY <2>1, Least
<1>2. P(m)
  <2>1. ASSUME NEW j \in 1..m PROVE l[j] # Nul
    <3>1. j - 1 \in 0..N /\ j - 1 < m /\ (j - 1) + 1 = j /\ j - 1 # N
      BY <1>0, <1>1
    <3> HIDE DEF N
    <3> QED
      BY <1>0, <1>1, <3>1
  <2> QED
    BY <1>1, <2>1
<1>3. n \in 0..N /\ P(n)
  BY <1>1, <1>2
<1>4. l \in Seq(S) /\ Len(l) = N
  BY <1>0
<1>5. Terminated(l) = SubSeq(l, 1, n)
  BY DEF Terminated
<1> HIDE DEF n, N
<1>6. SubSeq(l, 1, n) = [k \in 1..n |-> l[k]]
  BY <1>0, <1>3, <1>4
<1> QED
  BY <1>3, <1>5, <1>6 DEF N

LEMMA ConcatOf ==
  ASSUME NEW S, NEW T, NEW g \in Seq(S), NEW b \in Seq(S),
         \A k \in DOMAIN g : g[k] \in T, \A k \in DOMAIN b : b[k] \in T
  PROVE  \A k \in DOMAIN (g \o b) : (g \o b)[k] \in T
<1> SUFFICES ASSUME NEW k \in 1..(Len(g) + Len(b)) PROVE (g \o b)[k] \in T
  OBVIOUS
<1>1. CASE k <= Len(g)
  BY <1>1
<1>2. CASE k > Len(g)
  <2>1. k - Len(g) \in DOMAIN b /\ (g \o b)[k] = b[k - Len(g)]
    BY <1>2
  <2> QED
    BY <2>1
<1> QED
  BY <1>1, <1>2

LEMMA FrontOf ==
  ASSUME NEW S, NEW g \in Seq(S), NEW b \in Seq(S), NEW k \in DOMAIN g
  PROVE  k \in DOMAIN (g \o b) /\ (g \o b)[k] = g[k]
<1>1. g \o b \in Seq(S) /\ Len(g \o b) = Len(g) + Len(b)
  BY ConcatProperties
<1>2. k \in 1..Len(g) /\ Len(g) \in Nat /\ Len(b) \in Nat
  OBVIOUS
<1>3. (g \o b)[k] = g[k]
  BY <1>2
<1>4. k \in 1..Len(g \o b)
  BY <1>1, <1>2
<1> QED
  BY <1>1, <1>3, <1>4

LEMMA SeqIsFunction == ASSUME NEW S, NEW s \in Seq(S) PROVE s = [k \in DOMAIN s |-> s[k]]
  OBVIOUS

(* Only units 1, ..., t of c, and later ones behind earlier ones.           *)
Rising(s, c, t) ==
  /\ \A k \in DOMAIN s : \E n \in 1..t : s[k] = <<c, n>>
  /\ \A j, k \in DOMAIN s : j < k => s[j][2] < s[k][2]

LEMMA ConcatRising ==
  ASSUME NEW S, NEW c, NEW t \in Nat, NEW n \in Nat, NEW m \in 0..n,
         NEW g \in Seq(S), NEW b \in Seq(S), Rising(g, c, t),
         Len(b) = m, \A k \in 1..m : b[k] = <<c, t + k>>
  PROVE  Rising(g \o b, c, t + n)
<1> DEFINE s == g \o b
<1>1. /\ DOMAIN s = 1..(Len(g) + m) /\ Len(g) \in Nat
      /\ \A k \in 1..Len(g) : s[k] = g[k]
      /\ \A k \in 1..(Len(g) + m) : k > Len(g) => s[k] = b[k - Len(g)] /\ k - Len(g) \in 1..m
  <2>0. s \in Seq(S) /\ Len(s) = Len(g) + Len(b)
    BY ConcatProperties
  <2>1. s \in Seq(S) /\ Len(s) = Len(g) + Len(b) /\ Len(g) \in Nat
    BY <2>0, LenProperties
  <2>2. DOMAIN s = 1..(Len(g) + m)
    <3> HIDE DEF s
    <3> QED
      BY <2>1
  <2>3. \A k \in 1..Len(g) : s[k] = g[k]
    OBVIOUS
  <2>4. \A k \in 1..(Len(g) + m) : k > Len(g) => s[k] = b[k - Len(g)] /\ k - Len(g) \in 1..m
    OBVIOUS
  <2> QED
    BY <2>1, <2>2, <2>3, <2>4
<1>2. ASSUME NEW k \in DOMAIN s, k <= Len(g)
      PROVE  \E i0 \in 1..t : s[k] = <<c, i0>>
  BY <1>1, <1>2 DEF Rising
<1>3. ASSUME NEW k \in DOMAIN s, k > Len(g)
      PROVE  s[k] = <<c, t + (k - Len(g))>> /\ k - Len(g) \in 1..m
  <2>1. k - Len(g) \in 1..m /\ s[k] = b[k - Len(g)]
    BY <1>1, <1>3
  <2> QED
    BY <2>1
<1> HIDE DEF s
<1>4. ASSUME NEW k \in DOMAIN s PROVE \E i0 \in 1..(t + n) : s[k] = <<c, i0>>
  <2>1. k \in Nat
    BY <1>1
  <2>2. CASE k <= Len(g)
    BY <1>2, <2>2
  <2>3. CASE k > Len(g)
    BY <1>3, <2>3
  <2> QED
    BY <1>1, <2>1, <2>2, <2>3
<1>5. ASSUME NEW j \in DOMAIN s, NEW k \in DOMAIN s, j < k PROVE s[j][2] < s[k][2]
  <2>0. j \in Nat /\ k \in Nat /\ Len(g) \in Nat
    BY <1>1
  <2>1. CASE k <= Len(g)
    <3>0. j \in 1..Len(g) /\ k \in 1..Len(g)
      BY <1>1, <1>5, <2>0, <2>1
    <3>1. s[j] = g[j] /\ s[k] = g[k] /\ j \in DOMAIN g /\ k \in DOMAIN g
      BY <1>1, <3>0
    <3> QED
      BY <1>5, <3>1 DEF Rising
  <2>2. CASE j <= Len(g) /\ k > Len(g)
    <3>1. PICK i0 \in 1..t : s[j] = <<c, i0>>
      BY <1>2, <2>2
    <3>2. s[k] = <<c, t + (k - Len(g))>> /\ k - Len(g) \in 1..m
      BY <1>3, <2>2
    <3>3. s[j][2] = i0 /\ s[k][2] = t + (k - Len(g))
      BY <3>1, <3>2
    <3> QED
      BY <3>2, <3>3
  <2>3. CASE j > Len(g)
    <3>1. k > Len(g)
      BY <1>5, <2>0, <2>3
    <3>2. s[j] = <<c, t + (j - Len(g))>> /\ s[k] = <<c, t + (k - Len(g))>>
      BY <1>3, <2>3, <3>1
    <3>3. s[j][2] = t + (j - Len(g)) /\ s[k][2] = t + (k - Len(g))
      BY <3>2
    <3> QED
      BY <1>5, <2>0, <3>3
  <2> QED
    BY <2>0, <2>1, <2>2, <2>3
<1>6. Rising(s, c, t + n)
  BY <1>4, <1>5 DEF Rising
<1> QED
  BY <1>6 DEF s

(* What Writen hands to the socket leaves buf for got, in order.            *)
LEMMA HeadMoves ==
  ASSUME NEW S, NEW g \in Seq(S), NEW b \in Seq(S), b # <<>>
  PROVE  /\ Append(g, Head(b)) \in Seq(S) /\ Tail(b) \in Seq(S)
         /\ Append(g, Head(b)) \o Tail(b) = g \o b
<1>1. Head(b) \in S /\ Tail(b) \in Seq(S) /\ Len(b) \in Nat \ {0} /\ Len(Tail(b)) = Len(b) - 1
  OBVIOUS
<1>2. Append(g, Head(b)) \in Seq(S) /\ Len(Append(g, Head(b))) = Len(g) + 1
  BY <1>1
<1> DEFINE x == Append(g, Head(b)) \o Tail(b)
           y == g \o b
<1>3. x \in Seq(S) /\ y \in Seq(S) /\ Len(x) = Len(g) + Len(b) /\ Len(y) = Len(g) + Len(b)
  BY <1>1, <1>2
<1>4. ASSUME NEW k \in 1..(Len(g) + Len(b)) PROVE x[k] = y[k]
  <2>1. CASE k <= Len(g)
    BY <1>1, <1>2, <2>1
  <2>2. CASE k = Len(g) + 1
    BY <1>1, <1>2, <2>2
  <2>3. CASE k > Len(g) + 1
    <3>1. x[k] = Tail(b)[k - (Len(g) + 1)]
      BY <1>1, <1>2, <2>3
    <3>2. Tail(b)[k - (Len(g) + 1)] = b[k - Len(g)]
      BY <1>1, <2>3
    <3>3. y[k] = b[k - Len(g)]
      BY <2>3
    <3> QED
      BY <3>1, <3>2, <3>3
  <2> QED
    BY <2>1, <2>2, <2>3
<1> HIDE DEF x, y
<1>5. x = y
  BY <1>3, <1>4, SeqEqual
<1> QED
  BY <1>1, <1>2, <1>5 DEF x, y

LEMMA Reached ==
  ASSUME NEW m \in Nat, NEW s \in 0..m, NEW t \in 0..m, NEW n \in 1..(s - t)
  PROVE  n \in 1..m /\ t + n \in 0..m /\ \A k \in 1..n : t + k \in 1..m
  OBVIOUS

RestType ==
  /\ program \in Programs
  /\ connfd \in Clients \cup {Nobody} /\ iptr \in {0} \cup Cells
  /\ handling \in BOOLEAN /\ chld \in BOOLEAN
  /\ buf \in [Clients -> Seq(Units)]
  /\ line \in [Clients -> [1..MaxSend + 1 -> Units \cup {Nul}]]
  /\ listeners \subseteq Clients \cup {"main"}
  /\ sent \in [Clients -> 0..MaxSend] /\ taken \in [Clients -> 0..MaxSend]
  /\ fin \in [Clients -> BOOLEAN] /\ rst \in [Clients -> BOOLEAN]
  /\ got \in [Clients -> Seq(Units)]
  /\ interrupted \subseteq Clients

(* Between two rounds a worker has nothing left to write; before its first  *)
(* it has no connection yet, and nothing has been read from its own.        *)
Idle ==
  \A c \in Clients :
    /\ wpc[c] \in {"none", "start", "read"} => buf[c] = <<>>
    /\ wpc[c] \in {"none", "start"} => sock[c] = Nobody /\ taken[c] = 0

(* The bytes of client c, stale ones of the stack included.                 *)
Of(c) == {u \in Units : u = Junk \/ u[1] = c}

OwnLine == \A c \in Clients : \A k \in 1..MaxSend + 1 : line[c][k] \in Of(c) \cup {Nul}

(* What client c was sent and will be, of which s is all that is known.     *)
Owed(c, s) ==
  CASE program \in {"string", "sum"} -> \A k \in DOMAIN s : s[k] \in Of(c)
    [] program = "nul" -> Rising(s, c, taken[c])
    [] OTHER -> s = [k \in 1..(Greetings(c) + taken[c]) |-> <<c, k - Greetings(c)>>]

OwnBytes == \A c \in Clients : Owed(c, got[c] \o buf[c])

EInv == OInv /\ RestType /\ Idle /\ OwnLine /\ OwnBytes

LEMMA InitE == Init => EInv
<1> SUFFICES ASSUME Init PROVE EInv
  OBVIOUS
<1> USE WorkerAssumption DEF Init
<1>1. OInv
  BY InitO
<1>2. PICK behind \in {Nul, Junk} :
        line = [c \in Clients |-> [k \in 1..MaxSend + 1 |-> IF k = 1 THEN Nul ELSE behind]]
  OBVIOUS
<1>3. RestType
  <2>1. line \in [Clients -> [1..MaxSend + 1 -> Units \cup {Nul}]]
    BY <1>2 DEF Units
  <2>2. buf \in [Clients -> Seq(Units)] /\ got \in [Clients -> Seq(Units)]
    OBVIOUS
  <2>3. sent \in [Clients -> 0..MaxSend] /\ taken \in [Clients -> 0..MaxSend]
    OBVIOUS
  <2> QED
    BY <2>1, <2>2, <2>3 DEF RestType
<1>4. OwnLine
  BY <1>2 DEF OwnLine, Of, Units
<1>5. Idle
  BY DEF Idle
<1>6. OwnBytes
  <2> SUFFICES ASSUME NEW c \in Clients PROVE Owed(c, got[c] \o buf[c])
    BY DEF OwnBytes
  <2>1. got[c] \o buf[c] = <<>> /\ taken[c] = 0 /\ Greetings(c) = 0
    BY DEF Greetings
  <2> QED
    BY <2>1 DEF Owed, Rising
<1> QED
  BY <1>1, <1>3, <1>4, <1>5, <1>6 DEF EInv

(* A step that neither reads nor writes. *)
LEMMA FrameE ==
  ASSUME EInv, OInv', RestType', line' = line \/ OwnLine',
         UNCHANGED <<program, buf, taken, got>>,
         \A c \in Clients : Greetings(c)' = Greetings(c),
         \A c \in Clients :
           /\ wpc'[c] \in {"none", "start", "read"} => wpc[c] \in {"none", "start", "read"}
           /\ wpc'[c] \in {"none", "start"} => wpc[c] \in {"none", "start"} /\ sock'[c] = sock[c]
  PROVE  EInv'
<1>1. Idle'
  BY DEF EInv, Idle
<1>2. OwnLine'
  BY DEF EInv, OwnLine
<1>3. OwnBytes'
  <2> SUFFICES ASSUME NEW c \in Clients PROVE Owed(c, got[c] \o buf[c])'
    BY DEF OwnBytes
  <2>1. Owed(c, got[c] \o buf[c]) /\ Greetings(c)' = Greetings(c)
    BY DEF EInv, OwnBytes
  <2> QED
    BY <2>1 DEF Owed, Rising
<1> QED
  BY <1>1, <1>2, <1>3 DEF EInv

(* The same, of a step that changes no worker's connection.                 *)
LEMMA StillE ==
  ASSUME EInv, OInv', RestType', line' = line \/ OwnLine',
         UNCHANGED <<program, sock, buf, taken, got>>,
         \A c \in Clients :
           /\ wpc'[c] \in {"none", "start", "read"} => wpc[c] \in {"none", "start", "read"}
           /\ wpc'[c] \in {"none", "start"} => wpc[c] \in {"none", "start"}
  PROVE  EInv'
<1>1. \A c \in Clients : Greetings(c)' = Greetings(c)
  BY DEF Greetings
<1> QED
  BY <1>1, FrameE

LEMMA MainEndsE == ASSUME EInv, OInv', MainEnds PROVE EInv'
<1> USE DEF MainEnds, workVars, clientVars
<1>1. \A c \in Clients : wpc'[c] \in {"none", "start", "read"} => wpc'[c] = wpc[c]
  OBVIOUS
<1>2. RestType'
  BY DEF EInv, RestType, Drop
<1> QED
  BY <1>1, <1>2, StillE

LEMMA MainE == ASSUME EInv, OInv', Main \/ Interrupt PROVE EInv'
<1> USE DEF EInv, OInv, OwnType, Labels, RestType, workVars, signalVars, clientVars, tableVars
<1>1. CASE MainEnds
  BY <1>1, MainEndsE
<1>2. CASE MainMalloc
  BY <1>2, StillE DEF MainMalloc, MainRuns
<1>3. CASE MainAccept
  <2>1. RestType'
    BY <1>3 DEF MainAccept, MainRuns
  <2> QED
    BY <1>3, <2>1, StillE DEF MainAccept
<1>4. CASE MainSpawn
  <2>1. RestType' /\ connfd \in Clients /\ wpc[connfd] = "none"
    BY <1>4 DEF MainSpawn, MainRuns, MainInv
  <2>2. UNCHANGED <<program, buf, line, taken, got>>
    BY <1>4 DEF MainSpawn
  <2>3. wpc' = [wpc EXCEPT ![connfd] = "start"]
    BY <1>4 DEF MainSpawn
  <2>4. \A c \in Clients : wpc'[c] \in {"none", "start", "read"} =>
                             wpc[c] \in {"none", "start", "read"}
    BY <2>1, <2>3
  <2>5. \A c \in Clients : wpc'[c] \in {"none", "start"} => wpc[c] \in {"none", "start"}
    BY <2>1, <2>3
  <2>6. UNCHANGED sock
    BY <1>4 DEF MainSpawn
  <2> HIDE DEF EInv, RestType
  <2> QED
    BY <2>1, <2>2, <2>4, <2>5, <2>6, StillE
<1>5. CASE MainClose
  BY <1>5, StillE DEF MainClose, MainRuns
<1> QED
  BY <1>1, <1>2, <1>3, <1>4, <1>5 DEF Main, MainAcceptFails, MainSpawnFails, Interrupt

LEMMA HandlerE == ASSUME EInv, OInv', Handler PROVE EInv'
<1> USE DEF EInv, OInv, OwnType, Labels, RestType, mainVars, workVars, signalVars,
            clientVars, tableVars
<1>1. CASE SigChld
  BY <1>1, StillE DEF SigChld
<1>2. CASE Reap
  BY <1>2, StillE DEF Reap
<1>3. CASE HandlerReturns
  BY <1>3, StillE DEF HandlerReturns
<1> QED
  BY <1>1, <1>2, <1>3 DEF Handler

LEMMA ClientE == ASSUME EInv, OInv', NEW c \in Clients, Client(c) PROVE EInv'
<1> USE DEF EInv, RestType, serverVars, mainVars, workVars, signalVars
<1>1. RestType'
  <2>1. CASE Send(c)
    BY <2>1, WorkerAssumption DEF Send
  <2>2. CASE Connect(c) \/ Finish(c) \/ Reset(c)
    BY <2>2 DEF Connect, Finish, Reset
  <2> QED
    BY <2>1, <2>2 DEF Client
<1> QED
  BY <1>1, StillE DEF Client, Connect, Send, Finish, Reset

LEMMA ChildEndsE ==
  ASSUME EInv, OInv', NEW c \in Clients, ChildEnds(c), interrupted' \subseteq Clients
  PROVE  EInv'
<1> DEFINE cleared == [k \in 1..MaxSend + 1 |-> Nul]
<1>1. cleared \in [1..MaxSend + 1 -> Units \cup {Nul}] /\ line' = [line EXCEPT ![c] = cleared]
  BY DEF ChildEnds
<1>2. OwnLine'
  BY <1>1 DEF EInv, OwnLine, RestType
<1> HIDE DEF cleared
<1>3. RestType'
  <2>1. line' \in [Clients -> [1..MaxSend + 1 -> Units \cup {Nul}]]
    BY <1>1 DEF EInv, RestType
  <2> QED
    BY <2>1 DEF EInv, RestType, ChildEnds, Drop, mainVars, clientVars
<1>4. \A d \in Clients :
        wpc'[d] = IF d = c THEN IF mpc = "ended" THEN "reaped" ELSE "zombie" ELSE wpc[d]
  BY DEF EInv, OInv, OwnType, ChildEnds
<1> QED
  BY <1>2, <1>3, <1>4, StillE DEF ChildEnds, mainVars

(* An array from 1 is a sequence.                                           *)
LEMMA RowIsSeq == ASSUME NEW S, NEW n \in Nat, NEW f \in [1..n -> S] PROVE f \in Seq(S)
  BY SeqDef

LEMMA ReadsE == ASSUME EInv, OInv', NEW c \in Clients, WorkerReads(c) PROVE EInv'
<1> DEFINE t == taken[c]
<1>0. /\ buf \in [Clients -> Seq(Units)] /\ taken \in [Clients -> 0..MaxSend]
      /\ line \in [Clients -> [1..MaxSend + 1 -> Units \cup {Nul}]]
  BY DEF EInv, RestType
<1>1. /\ sock[c] = c /\ buf[c] = <<>> /\ wpc' = [wpc EXCEPT ![c] = "write"]
      /\ got[c] \in Seq(Units) /\ got[c] \o buf[c] = got[c]
  <2>1. sock[c] = c /\ buf[c] = <<>> /\ wpc' = [wpc EXCEPT ![c] = "write"]
    BY DEF WorkerReads, EInv, OInv, Served, Idle
  <2>2. got[c] \in Seq(Units)
    BY DEF EInv, RestType
  <2> QED
    BY <2>1, <2>2
<1>2. PICK n \in 1..(sent[c] - t) : \E bytes \in Input(c, n) :
        /\ taken' = [taken EXCEPT ![c] = t + n]
        /\ line' = IF program \in Strings
                     THEN [line EXCEPT ![c] = AfterRead(line[c], bytes)] ELSE line
        /\ buf' = [buf EXCEPT ![c] = CASE program \in Strings -> Terminated(line'[c])
                                       [] program = "sum" -> <<Own(c, 0)>>
                                       [] OTHER -> bytes]
  BY <1>1, Zenon DEF WorkerReads
<1>3. PICK bytes \in Input(c, n) :
        /\ taken' = [taken EXCEPT ![c] = t + n]
        /\ line' = IF program \in Strings
                     THEN [line EXCEPT ![c] = AfterRead(line[c], bytes)] ELSE line
        /\ buf' = [buf EXCEPT ![c] = CASE program \in Strings -> Terminated(line'[c])
                                       [] program = "sum" -> <<Own(c, 0)>>
                                       [] OTHER -> bytes]
  BY <1>2
<1>4. /\ t \in Nat /\ n \in 1..MaxSend /\ t + n \in 0..MaxSend
      /\ \A k \in 1..n : t + k \in 1..MaxSend
  <2>1. sent[c] \in 0..MaxSend /\ t \in 0..MaxSend /\ MaxSend \in Nat
    BY WorkerAssumption DEF EInv, RestType
  <2> HIDE DEF t
  <2> QED
    BY <2>1, Reached
<1>5. \A k \in 0..MaxSend : <<c, k>> \in Of(c)
  BY DEF Of, Units
<1>6. /\ DOMAIN bytes = 1..n
      /\ \A k \in 1..n : bytes[k] \in {<<c, t + k>>, Nul}
      /\ program \notin Strings => \A k \in 1..n : bytes[k] = <<c, t + k>>
  BY <1>3 DEF Input, Own
<1> HIDE DEF t
<1>7. Of(c) \subseteq Units
  BY DEF Of
<1>8. ASSUME program \in Strings
      PROVE  /\ line'[c] \in [1..MaxSend + 1 -> Of(c) \cup {Nul}]
             /\ \A k \in 1..n : line'[c][k] = bytes[k]
             /\ program = "nul" => line'[c][n + 1] = Nul
             /\ line' = [line EXCEPT ![c] = line'[c]]
  <2>1. line[c] \in [1..MaxSend + 1 -> Of(c) \cup {Nul}] /\ line \in [Clients -> [1..MaxSend + 1 -> Units \cup {Nul}]]
    BY DEF EInv, OwnLine, RestType
  <2>2. line'[c] = AfterRead(line[c], bytes) /\ line' = [line EXCEPT ![c] = line'[c]]
    BY <1>3, <1>8, <2>1
  <2>3. Len(bytes) = n
    BY <1>4, <1>6
  <2>4. line'[c] = [k \in 1..MaxSend + 1 |->
                      IF k <= n THEN bytes[k]
                      ELSE IF k = n + 1 /\ program = "nul" THEN Nul ELSE line[c][k]]
    BY <2>1, <2>2, <2>3 DEF AfterRead
  <2>5. ASSUME NEW k \in 1..MaxSend + 1 PROVE line'[c][k] \in Of(c) \cup {Nul}
    <3>1. CASE k <= n
      <4>1. k \in 1..n /\ bytes[k] \in {<<c, t + k>>, Nul} /\ t + k \in 0..MaxSend
        BY <1>4, <1>6, <3>1
      <4> QED
        BY <1>5, <2>4, <3>1, <4>1
    <3>2. CASE ~(k <= n)
      BY <2>1, <2>4, <3>2
    <3> QED
      BY <3>1, <3>2
  <2>6. n + 1 \in 1..MaxSend + 1 /\ \A k \in 1..n : k \in 1..MaxSend + 1 /\ k <= n
    BY <1>4, WorkerAssumption
  <2>7. ~(n + 1 <= n)
    BY <1>4
  <2> QED
    BY <2>2, <2>4, <2>5, <2>6, <2>7
<1> DEFINE q == buf'[c]
<1>9. buf' = [buf EXCEPT ![c] = q]
  BY <1>3 DEF EInv, RestType
<1>10. ASSUME program \in Strings
       PROVE  /\ q \in Seq(Units) /\ \A k \in DOMAIN q : q[k] \in Of(c)
              /\ program = "nul" => \E m \in 0..n : Len(q) = m /\ \A k \in 1..m : q[k] = <<c, t + k>>
  <2>1. q = Terminated(line'[c])
    BY <1>0, <1>3, <1>10 DEF Strings
  <2>2. PICK m \in 0..(MaxSend + 1) : /\ Terminated(line'[c]) = [k \in 1..m |-> line'[c][k]]
                                      /\ \A k \in 1..m : line'[c][k] # Nul
    BY <1>8, <1>10, TerminatedPrefix
  <2> DEFINE f == [k \in 1..m |-> line'[c][k]]
  <2>3. m \in Nat /\ f \in [1..m -> Of(c)]
    BY <1>8, <1>10, <2>2, WorkerAssumption
  <2>4. q = f /\ DOMAIN q = 1..m
    BY <2>1, <2>2
  <2>5. q \in Seq(Units) /\ \A k \in DOMAIN q : q[k] \in Of(c)
    <3>1. f \in [1..m -> Units] /\ \A k \in 1..m : f[k] \in Of(c)
      BY <1>7, <2>3
    <3> HIDE DEF f, q
    <3> QED
      BY <2>3, <2>4, <3>1, RowIsSeq
  <2>6. ASSUME program = "nul" PROVE m \in 0..n
    <3>1. line'[c][n + 1] = Nul /\ n \in Nat
      BY <1>4, <1>8, <1>10, <2>6
    <3>2. ~(n + 1 \in 1..m)
      BY <2>2, <3>1
    <3> QED
      BY <2>3, <3>1, <3>2
  <2>7. ASSUME program = "nul", NEW k \in 1..m PROVE q[k] = <<c, t + k>>
    <3>1. k \in 1..n
      BY <1>4, <2>6, <2>7
    <3>2. q[k] = line'[c][k] /\ line'[c][k] # Nul
      BY <2>2, <2>4
    <3> QED
      BY <1>6, <1>8, <1>10, <3>1, <3>2
  <2>8. Len(q) = m
    <3> HIDE DEF f, q
    <3> QED
      BY <2>3, <2>4, <2>5
  <2> HIDE DEF q
  <2> QED
    BY <2>5, <2>6, <2>7, <2>8
<1>11. ASSUME program = "sum"
       PROVE  q \in Seq(Units) /\ \A k \in DOMAIN q : q[k] \in Of(c)
  <2>1. q = <<(<<c, 0>>)>>
    BY <1>0, <1>3, <1>11 DEF Strings, Own
  <2>2. <<c, 0>> \in Of(c)
    BY <1>5, WorkerAssumption
  <2> QED
    BY <1>7, <2>1, <2>2
<1>12. ASSUME program \notin Strings, program # "sum"
       PROVE  q \in Seq(Units) /\ Len(q) = n /\ \A k \in 1..n : q[k] = <<c, t + k>>
  <2>1. q = bytes
    BY <1>0, <1>3, <1>12
  <2>2. ASSUME NEW k \in 1..n PROVE bytes[k] \in Units
    <3>1. t + k \in 0..MaxSend /\ bytes[k] = <<c, t + k>>
      BY <1>4, <1>6, <1>12
    <3> QED
      BY <1>5, <1>7, <3>1
  <2>3. bytes = [k \in 1..n |-> bytes[k]]
    BY <1>3, <1>6 DEF Input
  <2>4. bytes \in [1..n -> Units] /\ n \in Nat
    BY <1>4, <2>2, <2>3
  <2>5. bytes \in Seq(Units) /\ Len(bytes) = n
    BY <1>6, <2>4, RowIsSeq
  <2> QED
    BY <1>6, <1>12, <2>1, <2>5
<1>13. q \in Seq(Units)
  BY <1>10, <1>11, <1>12
<1> HIDE DEF q
<1>14. UNCHANGED <<program, sock, got, sent, fin, rst, connfd, iptr, handling, chld, listeners,
                   interrupted>>
  BY DEF WorkerReads, mainVars, signalVars, tableVars, clientVars
<1>15. RestType'
  <2>1. buf' \in [Clients -> Seq(Units)]
    BY <1>9, <1>13 DEF EInv, RestType
  <2>2. line' \in [Clients -> [1..MaxSend + 1 -> Units \cup {Nul}]]
    <3>1. CASE program \in Strings
      <4>1. line'[c] \in [1..MaxSend + 1 -> Units \cup {Nul}]
        BY <1>7, <1>8, <3>1
      <4>2. line' = [line EXCEPT ![c] = line'[c]]
        BY <1>8, <3>1
      <4> QED
        BY <4>1, <4>2 DEF EInv, RestType
    <3>2. CASE program \notin Strings
      BY <1>3, <3>2 DEF EInv, RestType
    <3> QED
      BY <3>1, <3>2
  <2>3. taken' \in [Clients -> 0..MaxSend]
    BY <1>3, <1>4 DEF EInv, RestType
  <2> QED
    BY <1>14, <2>1, <2>2, <2>3 DEF EInv, RestType
<1>16. Idle'
  <2>1. \A d \in Clients : d # c => wpc'[d] = wpc[d] /\ buf'[d] = buf[d] /\ taken'[d] = taken[d]
    BY <1>1, <1>3, <1>9 DEF EInv, OInv, OwnType, RestType
  <2>2. wpc'[c] = "write"
    BY <1>1 DEF EInv, OInv, OwnType
  <2> QED
    BY <1>14, <2>1, <2>2 DEF EInv, Idle
<1>17. OwnLine'
  <2>1. CASE program \in Strings
    <3>1. \A d \in Clients : d # c => line'[d] = line[d]
      BY <1>0, <1>8, <2>1
    <3>2. \A k \in 1..MaxSend + 1 : line'[c][k] \in Of(c) \cup {Nul}
      BY <1>8, <2>1
    <3> QED
      BY <3>1, <3>2 DEF EInv, OwnLine
  <2>2. CASE program \notin Strings
    BY <1>3, <2>2 DEF EInv, OwnLine
  <2> QED
    BY <2>1, <2>2
<1>18. OwnBytes'
  <2> SUFFICES ASSUME NEW d \in Clients PROVE Owed(d, got[d] \o buf[d])'
    BY DEF OwnBytes
  <2>1. Owed(d, got[d] \o buf[d])
    BY DEF EInv, OwnBytes
  <2>2. Greetings(d)' = Greetings(d)
    BY <1>14 DEF Greetings
  <2>3. CASE d # c
    <3>1. buf'[d] = buf[d] /\ taken'[d] = taken[d]
      BY <1>3, <1>9, <2>3 DEF EInv, RestType
    <3> QED
      BY <1>14, <2>1, <2>2, <3>1 DEF Owed, Rising
  <2>4. CASE d = c
    <3>1. Owed(c, got[c]) /\ taken'[c] = t + n /\ n \in Nat /\ Greetings(c)' = Greetings(c)
      BY <1>1, <1>3, <1>4, <2>1, <2>2, <2>4 DEF EInv, RestType
    <3>2. CASE program = "string" \/ program = "sum"
      <4>1. \A k \in DOMAIN q : q[k] \in Of(c)
        BY <1>10, <1>11, <3>2 DEF Strings
      <4>2. \A k \in DOMAIN got[c] : got[c][k] \in Of(c)
        BY <3>1, <3>2 DEF Owed
      <4>3. \A k \in DOMAIN (got[c] \o q) : (got[c] \o q)[k] \in Of(c)
        BY <1>1, <1>13, <4>1, <4>2, ConcatOf
      <4> QED
        BY <1>14, <2>4, <3>2, <4>3 DEF Owed, q
    <3>3. CASE program = "nul"
      <4>1. PICK m \in 0..n : Len(q) = m /\ \A k \in 1..m : q[k] = <<c, t + k>>
        BY <1>10, <3>3 DEF Strings
      <4>2. Rising(got[c], c, t)
        BY <3>1, <3>3 DEF Owed, t
      <4>3. Rising(got[c] \o q, c, t + n)
        BY <1>1, <1>4, <1>13, <3>1, <4>1, <4>2, ConcatRising
      <4>4. Rising(got'[c] \o buf'[c], c, taken'[c])
        BY <1>14, <3>1, <4>3 DEF q
      <4>5. Owed(c, got[c] \o buf[c])'
        BY <1>14, <3>3, <4>4 DEF Owed
      <4> QED
        BY <2>4, <4>5
    <3>4. CASE program \notin {"string", "sum", "nul"}
      <4> DEFINE h == Greetings(c)
      <4>1. h \in Nat
        BY DEF Greetings
      <4>2. got[c] = [k \in 1..(h + t) |-> <<c, k - h>>]
        BY <3>1, <3>4 DEF Owed, t
      <4>3. Len(q) = n /\ \A k \in 1..n : q[k] = <<c, t + k>>
        BY <1>12, <3>4 DEF Strings
      <4> HIDE DEF h
      <4>4. Len(got[c]) = h + t /\ \A k \in 1..(h + t) : got[c][k] = <<c, k - h>>
        BY <1>4, <4>1, <4>2
      <4>6. t \in Nat /\ n \in Nat /\ got[c] \in Seq(Units) /\ q \in Seq(Units)
        BY <1>1, <1>4, <1>13, <3>1
      <4>5. got[c] \o q = [k \in 1..(h + (t + n)) |-> <<c, k - h>>]
        <5> DEFINE g == got[c]
                   y == g \o q
        <5>1. /\ h \in Nat /\ t \in Nat /\ n \in Nat /\ g \in Seq(Units) /\ q \in Seq(Units)
              /\ Len(g) = h + t /\ \A k \in 1..(h + t) : g[k] = <<c, k - h>>
              /\ Len(q) = n /\ \A k \in 1..n : q[k] = <<c, t + k>>
          BY <4>1, <4>3, <4>4, <4>6
        <5> HIDE DEF g
        <5>2. ASSUME NEW k \in 1..(h + (t + n)) PROVE y[k] = <<c, k - h>>
          <6>1. CASE k <= h + t
            BY <5>1, <6>1
          <6>2. CASE k > h + t
            <7>1. k - (h + t) \in 1..n /\ t + (k - (h + t)) = k - h
              BY <5>1, <6>2
            <7>2. y[k] = q[k - (h + t)]
              <8>1. y[k] = IF k <= Len(g) THEN g[k] ELSE q[k - Len(g)]
                <9>1. k \in 1..(Len(g) + Len(q))
                  BY <5>1
                <9> QED
                  BY <5>1, <9>1, ConcatProperties
              <8> QED
                BY ONLY <5>1, <6>2, <8>1
            <7>3. q[k - (h + t)] = <<c, t + (k - (h + t))>>
              BY <5>1, <7>1
            <7> QED
              BY <7>1, <7>2, <7>3
          <6> QED
            BY <5>1, <6>1, <6>2
        <5>3. y \in Seq(Units) /\ Len(y) = Len(g) + Len(q)
          BY <5>1, ConcatProperties
        <5> HIDE DEF y
        <5>4. y = [k \in DOMAIN y |-> y[k]] /\ DOMAIN y = 1..(h + (t + n))
          BY <5>1, <5>3, SeqIsFunction
        <5>5. y = [k \in 1..(h + (t + n)) |-> <<c, k - h>>]
          BY <5>2, <5>4, Zenon
        <5> QED
          BY <5>5 DEF g, y
      <4> QED
        BY <1>14, <2>4, <3>1, <3>4, <4>5 DEF Owed, q, h
    <3> QED
      BY <3>2, <3>3, <3>4
  <2> QED
    BY <2>3, <2>4
<1> QED
  BY <1>15, <1>16, <1>17, <1>18 DEF EInv

LEMMA WritesE == ASSUME EInv, OInv', NEW c \in Clients, WorkerWrites(c) PROVE EInv'
<1>1. /\ sock[c] = c /\ wpc[c] = "write" /\ wpc' = [wpc EXCEPT ![c] = wpc'[c]]
      /\ wpc'[c] = IF Len(buf[c]) <= 1 THEN "read" ELSE "write"
      /\ UNCHANGED <<program, sock, line, taken>>
  BY DEF EInv, OInv, OwnType, Served, WorkerWrites, mainVars, clientVars
<1>2. /\ buf[c] \in Seq(Units) /\ got[c] \in Seq(Units)
      /\ buf \in [Clients -> Seq(Units)] /\ got \in [Clients -> Seq(Units)]
  BY DEF EInv, RestType
<1>3. /\ buf' = [buf EXCEPT ![c] = buf'[c]] /\ got' = [got EXCEPT ![c] = got'[c]]
      /\ buf'[c] \in Seq(Units) /\ got'[c] \in Seq(Units)
      /\ got'[c] \o buf'[c] = got[c] \o buf[c]
      /\ Len(buf[c]) <= 1 => buf'[c] = <<>>
  <2>1. CASE buf[c] = <<>>
    BY <1>2, <2>1 DEF WorkerWrites
  <2>2. CASE buf[c] # <<>>
    <3>1. /\ got' = [got EXCEPT ![c] = Append(got[c], Head(buf[c]))]
          /\ buf' = [buf EXCEPT ![c] = Tail(buf[c])]
      BY <1>1, <2>2 DEF WorkerWrites
    <3>2. got'[c] = Append(got[c], Head(buf[c])) /\ buf'[c] = Tail(buf[c])
      BY <1>2, <3>1
    <3>3. Len(buf[c]) <= 1 => Tail(buf[c]) = <<>>
      BY <1>2, <2>2
    <3>4. /\ Append(got[c], Head(buf[c])) \in Seq(Units) /\ Tail(buf[c]) \in Seq(Units)
          /\ Append(got[c], Head(buf[c])) \o Tail(buf[c]) = got[c] \o buf[c]
      BY <1>2, <2>2, HeadMoves
    <3> QED
      BY <3>1, <3>2, <3>3, <3>4
  <2> QED
    BY <2>1, <2>2
<1>4. RestType'
  <2>1. buf' \in [Clients -> Seq(Units)] /\ got' \in [Clients -> Seq(Units)]
    BY <1>2, <1>3
  <2> QED
    BY <2>1 DEF EInv, RestType, WorkerWrites, mainVars, signalVars, tableVars, clientVars
<1>5. Idle'
  <2>1. \A d \in Clients : d # c => wpc'[d] = wpc[d] /\ buf'[d] = buf[d]
    <3>1. \A d \in Clients : d # c => buf'[d] = buf[d]
      BY <1>2, <1>3
    <3>2. \A d \in Clients : d # c => wpc'[d] = wpc[d]
      BY <1>1 DEF EInv, OInv, OwnType
    <3> QED
      BY <3>1, <3>2
  <2>2. wpc'[c] \in {"read", "write"} /\ (wpc'[c] = "read" => buf'[c] = <<>>)
    BY <1>1, <1>3
  <2> QED
    BY <1>1, <2>1, <2>2 DEF EInv, Idle
<1>6. OwnLine'
  BY <1>1 DEF EInv, OwnLine
<1>7. OwnBytes'
  <2> SUFFICES ASSUME NEW d \in Clients PROVE Owed(d, got[d] \o buf[d])'
    BY DEF OwnBytes
  <2>1. Owed(d, got[d] \o buf[d])
    BY DEF EInv, OwnBytes
  <2>2. got'[d] \o buf'[d] = got[d] \o buf[d]
    <3>1. CASE d = c
      BY <1>3, <3>1
    <3>2. CASE d # c
      <4>1. got'[d] = got[d] /\ buf'[d] = buf[d]
        BY <1>2, <1>3, <3>2
      <4> QED
        BY <4>1
    <3> QED
      BY <3>1, <3>2
  <2>3. Greetings(d)' = Greetings(d)
    BY <1>1 DEF Greetings
  <2> QED
    BY <1>1, <2>1, <2>2, <2>3 DEF Owed, Rising
<1> QED
  BY <1>4, <1>5, <1>6, <1>7 DEF EInv

(* A worker's first step gives it its connection; server_01's child then    *)
(* has a line to write.                                                     *)
LEMMA StartE == ASSUME EInv, OInv', NEW c \in Clients, WorkerStart(c) PROVE EInv'
<1>1. /\ wpc[c] = "start" /\ sock[c] = Nobody /\ taken[c] = 0 /\ buf[c] = <<>>
      /\ UNCHANGED <<program, line, taken, got>>
      /\ \A d \in Clients : d # c => wpc'[d] = wpc[d] /\ sock'[d] = sock[d]
      /\ wpc'[c] = IF program = "greet" THEN "write" ELSE "read"
  BY DEF WorkerStart, EInv, OInv, OwnType, Idle, mainVars, clientVars
<1>2. sock'[c] = c
  <2>1. wpc'[c] \in {"read", "write", "close"}
    BY <1>1
  <2> QED
    BY <2>1 DEF OInv, Served
<1>3. buf' = [buf EXCEPT ![c] = IF program = "greet" THEN <<(<<c, 0>>)>> ELSE <<>>]
  <2>1. CASE program = "greet"
    <3>1. buf' = [buf EXCEPT ![c] = <<Own(sock'[c], 0)>>]
      BY <2>1 DEF WorkerStart
    <3>2. Own(sock'[c], 0) = <<c, 0>>
      BY <1>2 DEF Own
    <3> QED
      BY <2>1, <3>1, <3>2, Zenon
  <2>2. CASE program # "greet"
    BY <1>1, <2>2 DEF WorkerStart
  <2> QED
    BY <2>1, <2>2
<1>4. RestType'
  <2>1. <<c, 0>> \in Units
    BY WorkerAssumption DEF Units
  <2>2. buf' \in [Clients -> Seq(Units)]
    BY <1>3, <2>1 DEF EInv, RestType
  <2> QED
    BY <1>1, <2>2 DEF WorkerStart, EInv, RestType, mainVars, signalVars, clientVars
<1>5. CASE program = "greet"
  <2>1. Idle'
    BY <1>1, <1>3, <1>5 DEF EInv, Idle, RestType
  <2>2. OwnLine'
    BY <1>1 DEF EInv, OwnLine
  <2>3. OwnBytes'
    <3> SUFFICES ASSUME NEW d \in Clients PROVE Owed(d, got[d] \o buf[d])'
      BY DEF OwnBytes
    <3>1. Owed(d, got[d] \o buf[d])
      BY DEF EInv, OwnBytes
    <3>2. CASE d # c
      <4>1. buf'[d] = buf[d] /\ got'[d] = got[d] /\ taken'[d] = taken[d]
        BY <1>1, <1>3, <3>2 DEF EInv, RestType
      <4>2. Greetings(d)' = Greetings(d)
        BY <1>1, <3>2 DEF Greetings
      <4> QED
        BY <1>1, <3>1, <4>1, <4>2 DEF Owed
    <3>3. CASE d = c
      <4>1. Greetings(c) = 0 /\ Greetings(c)' = 1
        BY <1>1, <1>2, <1>5, WorkerAssumption DEF Greetings, Nobody
      <4>2. got[c] \in Seq(Units) /\ got[c] = <<>>
        <5>1. got[c] \in Seq(Units) /\ got[c] \o <<>> = got[c]
          BY DEF EInv, RestType
        <5>2. got[c] \o buf[c] = [k \in 1..(0 + 0) |-> <<c, k - 0>>]
          BY <1>1, <1>5, <3>1, <3>3, <4>1 DEF Owed
        <5>3. Len(got[c]) = 0
          BY <1>1, <5>1, <5>2
        <5> QED
          BY <5>1, <5>3
      <4>3. got'[c] \o buf'[c] = <<(<<c, 0>>)>>
        <5>1. got'[c] = <<>> /\ buf'[c] = <<(<<c, 0>>)>>
          BY <1>1, <1>3, <1>5, <4>2 DEF EInv, RestType
        <5> QED
          BY <5>1
      <4>4. [k \in 1..(1 + 0) |-> <<c, k - 1>>] = <<(<<c, 0>>)>>
        OBVIOUS
      <4> QED
        BY <1>1, <1>5, <3>3, <4>1, <4>3, <4>4 DEF Owed
    <3> QED
      BY <3>2, <3>3
  <2> QED
    BY <1>4, <2>1, <2>2, <2>3 DEF EInv
<1>6. CASE program # "greet"
  <2>1. \A d \in Clients : Greetings(d)' = Greetings(d)
    BY <1>1, <1>6 DEF Greetings
  <2>2. buf' = buf
    BY <1>1, <1>3, <1>6 DEF EInv, RestType
  <2>3. \A d \in Clients :
          /\ wpc'[d] \in {"none", "start", "read"} => wpc[d] \in {"none", "start", "read"}
          /\ wpc'[d] \in {"none", "start"} => wpc[d] \in {"none", "start"} /\ sock'[d] = sock[d]
    BY <1>1, <1>6
  <2> QED
    BY <1>1, <1>4, <2>1, <2>2, <2>3, FrameE
<1> QED
  BY <1>5, <1>6

LEMMA WorkerE == ASSUME EInv, OInv', NEW c \in Clients, Worker(c) PROVE EInv'
<1> USE DEF EInv, OInv, OwnType, RestType, mainVars, workVars, signalVars, clientVars, tableVars
<1>1. CASE WorkerStart(c)
  BY <1>1, StartE
<1>2. CASE WorkerReads(c)
  BY <1>2, ReadsE
<1>3. CASE WorkerSeesEnd(c)
  <2>1. CASE IsForking
    BY <1>3, <2>1, ChildEndsE DEF WorkerSeesEnd, EInv, RestType
  <2>2. CASE ~IsForking
    BY <1>3, <2>2, StillE DEF WorkerSeesEnd
  <2> QED
    BY <2>1, <2>2
<1>4. CASE WorkerSeesReset(c)
  <2>1. CASE IsForking
    BY <1>4, <2>1, ChildEndsE DEF WorkerSeesReset, WorkerFails, EInv, RestType
  <2>2. CASE ~IsForking
    BY <1>4, <2>2, MainEndsE DEF WorkerSeesReset, WorkerFails
  <2> QED
    BY <2>1, <2>2
<1>5. CASE WorkerWrites(c)
  BY <1>5, WritesE
<1>6. CASE ThreadCloses(c)
  BY <1>6, StillE DEF ThreadCloses
<1> QED
  BY <1>1, <1>2, <1>3, <1>4, <1>5, <1>6 DEF Worker

LEMMA NextE == EInv /\ [Next]_vars => EInv'
<1> SUFFICES ASSUME EInv, [Next]_vars PROVE EInv'
  OBVIOUS
<1>1. OInv'
  BY NextO DEF EInv
<1>2. CASE UNCHANGED vars
  BY <1>1, <1>2, StillE DEF vars, EInv, RestType, mainVars, workVars, tableVars,
     clientVars, signalVars
<1>3. ASSUME NEW c \in Clients, InterruptChild(c) PROVE EInv'
  BY <1>1, <1>3, ChildEndsE DEF InterruptChild, EInv, RestType
<1> QED
  BY <1>1, <1>2, <1>3, MainE, HandlerE, WorkerE, ClientE DEF Next

LEMMA Echoes == Spec => []EInv
  BY InitE, NextE, PTL DEF Spec

(* Every reachable state of every kind of server is well typed.             *)
THEOREM TypeCorrect == Spec => []TypeOK
<1>1. EInv => TypeOK
  BY DEF EInv, OInv, OwnType, RestType, TypeOK, Labels
<1> QED
  BY <1>1, Echoes, PTL

(* A client gets back its own bytes in order, however accepts, forks and    *)
(* threads interleave; a server that takes line[] for a string may leave    *)
(* some out (server_-1) or add what its stack held (server_4_sock_owner),   *)
(* and none sends it the bytes of another client.                           *)
THEOREM EchoesFaithful == Spec => []EchoFaithful
<1>1. ASSUME EInv PROVE EchoFaithful
  <2> SUFFICES ASSUME NEW c \in Clients
      PROVE CASE program \in {"string", "sum"} ->
                   \A k \in DOMAIN got[c] : got[c][k] = Junk \/ got[c][k][1] = c
              [] program = "nul" ->
                   LET all == got[c] \o buf[c] IN
                   /\ \A k \in DOMAIN all : \E n \in 1..taken[c] : all[k] = Own(c, n)
                   /\ \A j, k \in DOMAIN all : j < k => all[j][2] < all[k][2]
              [] OTHER ->
                   got[c] \o buf[c] =
                     [k \in 1..(Greetings(c) + taken[c]) |-> Own(c, k - Greetings(c))]
    BY DEF EchoFaithful
  <2>1. Owed(c, got[c] \o buf[c])
    BY <1>1 DEF EInv, OwnBytes
  <2>2. CASE program \in {"string", "sum"}
    <3>1. got[c] \in Seq(Units) /\ buf[c] \in Seq(Units)
      BY <1>1 DEF EInv, RestType
    <3>2. \A k \in DOMAIN (got[c] \o buf[c]) : (got[c] \o buf[c])[k] \in Of(c)
      BY <2>1, <2>2 DEF Owed
    <3>3. ASSUME NEW k \in DOMAIN got[c]
          PROVE  k \in DOMAIN (got[c] \o buf[c]) /\ (got[c] \o buf[c])[k] = got[c][k]
      BY <3>1, FrontOf
    <3>4. \A k \in DOMAIN got[c] : got[c][k] \in Of(c)
      BY <3>2, <3>3
    <3> QED
      BY <2>2, <3>4 DEF Of
  <2>3. CASE program = "nul"
    BY <2>1, <2>3 DEF Owed, Rising, Own
  <2>4. CASE program \notin {"string", "sum", "nul"}
    BY <2>1, <2>4 DEF Owed, Own
  <2> QED
    BY <2>2, <2>3, <2>4
<1> QED
  BY <1>1, Echoes, PTL

-----------------------------------------------------------------------------
(* The threads of SharedCounter, for any set of them and any number of      *)
(* turns: the mutex keeps the value a thread has fetched equal to the       *)
(* counter until that thread has stored.                                    *)

CounterLabels == {"none", "lock", "fetch", "store", "unlock", "done"}
Critical == {"fetch", "store", "unlock"}

(* The thread between lock and unlock is the one that holds the mutex, and  *)
(* what it is about to store is one more than the counter.                  *)
CounterInv ==
  /\ pc \in [Threads -> CounterLabels]
  /\ i \in [Threads -> Int] /\ val \in [Threads -> Int]
  /\ counter \in Int
  /\ holder \subseteq Threads
  /\ \A t \in Threads : pc[t] \in Critical => holder = {t}
  /\ \A t \in Threads : pc[t] = "store" => val[t] = counter

LEMMA InitCounter == CounterInit => CounterInv
  BY DEF CounterInit, CounterInv, CounterLabels, Critical

(* Only the holder of the mutex is in the critical section, so a step of    *)
(* another thread cannot be one of its steps, and leaves the counter alone. *)
LEMMA NextCounter == CounterInv /\ [CounterNext]_counterVars => CounterInv'
<1> SUFFICES ASSUME CounterInv, [CounterNext]_counterVars PROVE CounterInv'
  OBVIOUS
<1> USE DEF CounterInv, CounterLabels, Critical, threadVars
<1>1. ASSUME NEW t \in Threads, Create(t) PROVE CounterInv'
  BY <1>1 DEF Create
<1>2. ASSUME NEW t \in Threads, Lock(t) PROVE CounterInv'
  BY <1>2 DEF Lock
<1>3. ASSUME NEW t \in Threads, Fetch(t) PROVE CounterInv'
  BY <1>3 DEF Fetch
<1>4. ASSUME NEW t \in Threads, Store(t) PROVE CounterInv'
  <2>1. \A s \in Threads : s # t => pc[s] \notin Critical
    BY <1>4 DEF Store
  <2>2. \A s \in Threads : pc'[s] # "store"
    BY <1>4, <2>1 DEF Store
  <2> QED
    BY <1>4, <2>1, <2>2 DEF Store
<1>5. ASSUME NEW t \in Threads, Unlock(t) PROVE CounterInv'
  <2>1. \A s \in Threads : s # t => pc[s] \notin Critical
    BY <1>5 DEF Unlock
  <2> QED
    BY <1>5, <2>1 DEF Unlock
<1>6. ASSUME NEW t \in Threads, Return(t) PROVE CounterInv'
  BY <1>6 DEF Return
<1>7. CASE JoinAndPrint
  BY <1>7 DEF JoinAndPrint
<1>8. CASE UNCHANGED counterVars
  BY <1>8 DEF counterVars
<1> QED
  BY <1>1, <1>2, <1>3, <1>4, <1>5, <1>6, <1>7, <1>8 DEF CounterNext

(* Mutual exclusion of the threads in doit, in every reachable state.       *)
THEOREM CounterInvariance == CounterSpec => []CounterInv
  BY InitCounter, NextCounter, PTL DEF CounterSpec

(* No increment is lost (threads_err_global_increment_ok, doit): whatever   *)
(* the scheduling, every store leaves the counter one higher.               *)
THEOREM CounterMonotonic == CounterSpec => EachStoreAddsOne
<1>1. CounterInv => ((\E t \in Threads : Store(t)) => counter' = counter + 1)
  BY DEF CounterInv, Store
<1>2. CounterInv /\ [CounterNext]_counterVars => [(\E t \in Threads : Store(t)) => counter' = counter + 1]_counterVars
  BY <1>1
<1> QED
  BY <1>2, CounterInvariance, PTL DEF CounterSpec, EachStoreAddsOne
=============================================================================
