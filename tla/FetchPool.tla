------------------------------ MODULE FetchPool ------------------------------
(***************************************************************************)
(* What the web client promises of its downloads: every file is fetched at *)
(* most once, at most MaxConn of them are in progress at a time, a file    *)
(* that is done stays done, and the program ends normally when all are.    *)
(***************************************************************************)
EXTENDS FiniteSets, Naturals

CONSTANTS Files, MaxConn

VARIABLES
  status,    \* of each file: "todo", "active" or "done"
  outcome    \* "running", "exited" (normally) or "aborted"

vars == <<status, outcome>>

Active == {f \in Files : status[f] = "active"}

Init == status = [f \in Files |-> "todo"] /\ outcome = "running"

Start(f) ==
  /\ status[f] = "todo" /\ Cardinality(Active) < MaxConn
  /\ status' = [status EXCEPT ![f] = "active"]
  /\ UNCHANGED outcome

Finish(f) ==
  /\ status[f] = "active"
  /\ status' = [status EXCEPT ![f] = "done"]
  /\ UNCHANGED outcome

Exit ==
  /\ \A f \in Files : status[f] = "done"
  /\ outcome' = "exited"
  /\ UNCHANGED status

Abort == outcome' = "aborted" /\ UNCHANGED status

Next ==
  /\ outcome = "running"
  /\ (\E f \in Files : Start(f) \/ Finish(f)) \/ Exit \/ Abort

Spec == Init /\ [][Next]_vars
=============================================================================
