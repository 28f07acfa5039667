------------------------------ MODULE HalfRelay ------------------------------
(***************************************************************************)
(* What one direction of a select-driven relay promises: bytes are taken   *)
(* from a source in order, held in a queue of bounded length, passed on to *)
(* a sink in the same order, and the end of the source is passed on (the   *)
(* sink is half-closed) exactly when the last byte held has been passed.   *)
(* Byte k of the source is the number k.                                   *)
(***************************************************************************)
EXTENDS Naturals, Sequences

CONSTANT Capacity      \* most bytes the relay may hold

VARIABLES
  queue,    \* bytes taken and not yet passed on
  taken,    \* how many bytes were taken from the source
  passed,   \* the bytes passed on, in the order the sink received them
  eof,      \* the end of the source has been seen
  closed    \* the sink has been half-closed

vars == <<queue, taken, passed, eof, closed>>

Init ==
  /\ queue = <<>>
  /\ taken = 0
  /\ passed = <<>>
  /\ eof = FALSE
  /\ closed = FALSE

Take ==
  /\ ~eof
  /\ \E n \in 1..(Capacity - Len(queue)):
       /\ queue' = queue \o [k \in 1..n |-> taken + k]
       /\ taken' = taken + n
  /\ UNCHANGED <<passed, eof, closed>>

EndOfSource ==
  /\ ~eof
  /\ eof' = TRUE
  /\ closed' = (queue = <<>>)
  /\ UNCHANGED <<queue, taken, passed>>

Pass ==
  /\ \E n \in 1..Len(queue):
       /\ passed' = passed \o SubSeq(queue, 1, n)
       /\ queue' = SubSeq(queue, n + 1, Len(queue))
  /\ closed' = (eof /\ queue' = <<>>)
  /\ UNCHANGED <<taken, eof>>

Next == Take \/ EndOfSource \/ Pass

Spec == Init /\ [][Next]_vars
=============================================================================
