--------------------------- MODULE SharedCounter ---------------------------
(***************************************************************************)
(* threads_err_global_increment_ok: threads that each fetch, print and     *)
(* store a global counter NLOOP times, under a mutex, and the main thread  *)
(* that creates and joins them.  threads_err_global_increment is the same  *)
(* program without the mutex.                                              *)
(***************************************************************************)
EXTENDS Integers

CONSTANTS
  Threads,   \* the threads main creates, in any order
  NLOOP      \* increments of each thread

ASSUME CounterAssumption == NLOOP \in Nat

VARIABLES
  mainpc,    \* main: "create", "join", then "exited"
  pc,        \* of each thread: "none" until it is created, "done" at its end
  i, val,    \* doit's local variables
  counter,
  holder     \* who holds counter_mutex: a set of at most one thread

threadVars == <<pc, i, val>>
counterVars == <<mainpc, threadVars, counter, holder>>

CounterInit ==
  /\ mainpc = "create"
  /\ pc = [t \in Threads |-> "none"]
  /\ i = [t \in Threads |-> 0] /\ val = [t \in Threads |-> 0]
  /\ counter = 0 /\ holder = {}

(* Pthread_create: a thread may run before the next one is created. *)
Create(t) ==
  /\ mainpc = "create" /\ pc[t] = "none"
  /\ pc' = [pc EXCEPT ![t] = "lock"]
  /\ mainpc' = IF \A s \in Threads : pc'[s] # "none" THEN "join" ELSE "create"
  /\ UNCHANGED <<i, val, counter, holder>>

(* Mutant: the program without the mutex (threads_err_global_increment). *)
NoLock(t) ==
  /\ pc[t] = "lock" /\ i[t] < NLOOP
  /\ pc' = [pc EXCEPT ![t] = "fetch"]
  /\ UNCHANGED <<mainpc, i, val, counter, holder>>

(* The condition of the for loop, and Pthread_mutex_lock. *)
Lock(t) ==
  /\ pc[t] = "lock" /\ i[t] < NLOOP /\ holder = {}
  /\ pc' = [pc EXCEPT ![t] = "fetch"] /\ holder' = {t}
  /\ UNCHANGED <<mainpc, i, val, counter>>

Fetch(t) ==
  /\ pc[t] = "fetch"
  /\ pc' = [pc EXCEPT ![t] = "store"] /\ val' = [val EXCEPT ![t] = counter]
  /\ UNCHANGED <<mainpc, i, counter, holder>>

(* The store comes after printf, during which other threads may run. *)
Store(t) ==
  /\ pc[t] = "store"
  /\ pc' = [pc EXCEPT ![t] = "unlock"] /\ counter' = val[t] + 1
  /\ UNCHANGED <<mainpc, i, val, holder>>

Unlock(t) ==
  /\ pc[t] = "unlock"
  /\ pc' = [pc EXCEPT ![t] = "lock"] /\ i' = [i EXCEPT ![t] = @ + 1]
  /\ holder' = {}
  /\ UNCHANGED <<mainpc, val, counter>>

Return(t) ==
  /\ pc[t] = "lock" /\ i[t] >= NLOOP
  /\ pc' = [pc EXCEPT ![t] = "done"]
  /\ UNCHANGED <<mainpc, i, val, counter, holder>>

(* main has joined every thread, prints the counter and exits. *)
JoinAndPrint ==
  /\ mainpc = "join" /\ \A t \in Threads : pc[t] = "done"
  /\ mainpc' = "exited"
  /\ UNCHANGED <<threadVars, counter, holder>>

CounterNext ==
  \/ JoinAndPrint
  \/ \E t \in Threads :
       Create(t) \/ Lock(t) \/ Fetch(t) \/ Store(t) \/ Unlock(t) \/ Return(t)

CounterSpec == CounterInit /\ [][CounterNext]_counterVars

-----------------------------------------------------------------------------
(* Properties. *)

(* "The value of the counter should increase monotonically": every store    *)
(* adds one to what all the threads have stored so far, so none is lost.    *)
EachStoreAddsOne == [][(\E t \in Threads : Store(t)) => counter' = counter + 1]_counterVars
=============================================================================
