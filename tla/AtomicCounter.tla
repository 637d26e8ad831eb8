---------------------------- MODULE AtomicCounter ----------------------------
(***************************************************************************)
(* A counter that threads increment with one atomic operation:             *)
(* AtomicCounter::increment with the main of                               *)
(* 03-concurrency/exercises/atomic_counter.cpp, and the first method of    *)
(* test_cas_counter in lock_free_stack.cpp.                                *)
(***************************************************************************)
EXTENDS Naturals, FiniteSets

CONSTANTS Threads,
          Increments    \* increments made by one thread

VARIABLES counter,
          done          \* increments a thread has made: its j

vars == <<counter, done>>

(* The increments made, each as its thread and its number. *)
Made == {x \in Threads \X (0 .. Increments - 1) : x[2] < done[x[1]]}

Init == /\ counter = 0
        /\ done = [t \in Threads |-> 0]

(* counter.fetch_add(1) *)
Increment(t) ==
  /\ done[t] < Increments
  /\ counter' = counter + 1
  /\ done' = [done EXCEPT ![t] = @ + 1]

Next == \E t \in Threads : Increment(t)

Spec == Init /\ [][Next]_vars
=============================================================================
