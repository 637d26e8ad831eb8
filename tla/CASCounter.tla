------------------------------ MODULE CASCounter ------------------------------
(***************************************************************************)
(* The second method of test_cas_counter,                                  *)
(* 03-concurrency/exercises/lock_free_stack.cpp: an increment is a load    *)
(* and a compare-exchange that is repeated until it succeeds. Shown to be  *)
(* the atomic increment of AtomicCounter.                                  *)
(***************************************************************************)
EXTENDS Naturals, FiniteSets

CONSTANTS Threads,
          Increments    \* increments made by one thread (100000)

ASSUME ThreadsAssumption == IsFiniteSet(Threads)
ASSUME IncrementsAssumption == Increments \in Nat

(* 10 * 100000 increments stay within the 32 bits of an int. *)
ASSUME NoOverflow == Cardinality(Threads) * Increments <= 2147483647

VARIABLES counter2,
          pc, old_val,  \* where a thread is in its increment; its local
          done,         \* increments a thread has made: its i
          main          \* main joins the threads and reads the counter

vars == <<counter2, pc, old_val, done, main>>

Init == /\ counter2 = 0
        /\ pc = [t \in Threads |-> "load"]
        /\ old_val = [t \in Threads |-> 0]
        /\ done = [t \in Threads |-> 0]
        /\ main = "join"

(* old_val = counter2.load() *)
Load(t) ==
  /\ pc[t] = "load"
  /\ done[t] < Increments
  /\ old_val' = [old_val EXCEPT ![t] = counter2]
  /\ pc' = [pc EXCEPT ![t] = "cas"]
  /\ UNCHANGED <<counter2, done, main>>

(* Bug variant: the new value is stored, whatever the counter has become. *)
Store(t) ==
  /\ pc[t] = "cas"
  /\ counter2' = old_val[t] + 1
  /\ done' = [done EXCEPT ![t] = @ + 1]
  /\ pc' = [pc EXCEPT ![t] = "load"]
  /\ UNCHANGED <<old_val, main>>

(* The exchange succeeds, the increment is made. *)
CASSucceeds(t) ==
  /\ pc[t] = "cas"
  /\ counter2 = old_val[t]
  /\ counter2' = old_val[t] + 1
  /\ done' = [done EXCEPT ![t] = @ + 1]
  /\ pc' = [pc EXCEPT ![t] = "load"]
  /\ UNCHANGED <<old_val, main>>

(* Bug variant: a failure does not bring the counter's value back. *)
CASFailsStale(t) ==
  /\ pc[t] = "cas"
  /\ UNCHANGED vars

(* It fails, because the counter has changed or spuriously: old_val is     *)
(* what the counter holds.                                                 *)
CASFails(t) ==
  /\ pc[t] = "cas"
  /\ old_val' = [old_val EXCEPT ![t] = counter2]
  /\ UNCHANGED <<counter2, pc, done, main>>

ThreadStep(t) == Load(t) \/ CASSucceeds(t) \/ CASFails(t)

(* The joins, and the assertion after them. *)
Join ==
  /\ main = "join"
  /\ \A t \in Threads : done[t] = Increments
  /\ main' = "end"
  /\ UNCHANGED <<counter2, pc, old_val, done>>

Terminated == main = "end" /\ UNCHANGED vars

Next == (\E t \in Threads : ThreadStep(t)) \/ Join \/ Terminated

(* Every thread is scheduled, and its exchange, when it could succeed again *)
(* and again, succeeds in the end: it neither fails spuriously nor loses    *)
(* the race for ever.                                                       *)
Fairness == /\ \A t \in Threads : WF_vars(ThreadStep(t)) /\ SF_vars(CASSucceeds(t))
            /\ WF_vars(Join)

Spec == Init /\ [][Next]_vars /\ Fairness

-----------------------------------------------------------------------------
TypeOK ==
  /\ counter2 \in Nat
  /\ pc \in [Threads -> {"load", "cas"}]
  /\ old_val \in [Threads -> Nat]
  /\ done \in [Threads -> 0 .. Increments]
  /\ \A t \in Threads : pc[t] = "cas" => done[t] < Increments
  /\ main \in {"join", "end"}

Atomic == INSTANCE AtomicCounter WITH counter <- counter2

(* No increment is lost in a race: the counter is always the number of      *)
(* increments made by all threads.                                          *)
EveryIncrementCounts == counter2 = Cardinality(Atomic!Made)

(* assert(counter2.load() == 1000000), line 286.                            *)
TotalIsExact == main = "end" => counter2 = Cardinality(Threads) * Increments

(* The loop of loads and exchanges is one atomic increment, at the exchange *)
(* that succeeds.                                                           *)
AtomicSpec == Atomic!Spec

(* The test ends although the threads keep spoiling each other's exchange.  *)
TestEnds == <>(main = "end")

(* What the proofs use: main is past its joins only with every thread done. *)
AtEnd == main = "end" => \A t \in Threads : done[t] = Increments

Inv == TypeOK /\ EveryIncrementCounts /\ AtEnd
=============================================================================
