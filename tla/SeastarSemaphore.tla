--------------------------- MODULE SeastarSemaphore ---------------------------
(***************************************************************************)
(* demo_semaphore of 07-async-programming/exercises/seastar_examples.cpp:  *)
(* calls that take the one unit of sem, sleep, and give it back, on one    *)
(* reactor. The semaphore itself is Seastar's, and external: a unit given  *)
(* back goes to the call that has waited longest.                          *)
(***************************************************************************)
EXTENDS Naturals, Sequences, FiniteSets

CONSTANTS Tasks,      \* the calls, by their id
          Garbage     \* what is where a parameter has been

VARIABLES units, waiters,   \* sem
          task,             \* where a call is
          printed,          \* the id its lambda prints
          called, served    \* history: the order of the calls, of the lambdas

semVars == <<units, waiters, task, printed, called, served>>

(* Bug variant: sem{0} *)
SemInitZero == /\ units = 0
               /\ waiters = <<>>
               /\ task = [i \in Tasks |-> "to call"]
               /\ printed = [i \in Tasks |-> Garbage]
               /\ called = <<>>
               /\ served = <<>>

(* semaphore sem{1} *)
SemInit == /\ units = 1
           /\ waiters = <<>>
           /\ task = [i \in Tasks |-> "to call"]
           /\ printed = [i \in Tasks |-> Garbage]
           /\ called = <<>>
           /\ served = <<>>

(* The lambda runs up to its sleep. It reads the parameter id of            *)
(* demo_semaphore through a reference.                                      *)
Lambda(i, id) ==
  /\ task' = [task EXCEPT ![i] = "sleeping"]
  /\ printed' = [printed EXCEPT ![i] = id]
  /\ served' = Append(served, i)

(* Bug variant: the lambda does not return the future of its sleep, and     *)
(* with_semaphore gives the unit back at once.                              *)
CallTakesDetached(i) ==
  /\ task[i] = "to call"
  /\ units > 0 /\ waiters = <<>>
  /\ Lambda(i, i)
  /\ called' = Append(called, i)
  /\ UNCHANGED <<units, waiters>>

(* with_semaphore finds the unit, and runs the lambda before it returns. *)
CallTakes(i) ==
  /\ task[i] = "to call"
  /\ units > 0 /\ waiters = <<>>
  /\ units' = units - 1
  /\ Lambda(i, i)
  /\ called' = Append(called, i)
  /\ UNCHANGED waiters

(* It does not, and demo_semaphore returns: its parameter is gone. *)
CallWaits(i) ==
  /\ task[i] = "to call"
  /\ units = 0 \/ waiters # <<>>
  /\ waiters' = Append(waiters, i)
  /\ task' = [task EXCEPT ![i] = "waiting"]
  /\ called' = Append(called, i)
  /\ UNCHANGED <<units, printed, served>>

(* The future of the sleep is ready: with_semaphore gives the unit back. *)
SleepEnds(i) ==
  /\ task[i] = "sleeping"
  /\ IF waiters = <<>>
     THEN /\ units' = units + 1
          /\ task' = [task EXCEPT ![i] = "released"]
          /\ UNCHANGED waiters
     ELSE /\ task' = [task EXCEPT ![i] = "released", ![Head(waiters)] = "granted"]
          /\ waiters' = Tail(waiters)
          /\ UNCHANGED units
  /\ UNCHANGED <<printed, called, served>>

(* The lambda of a call that waited: the id it refers to may be anything. *)
Resume(i) ==
  /\ task[i] = "granted"
  /\ \E id \in Tasks \cup {Garbage} : Lambda(i, id)
  /\ UNCHANGED <<units, waiters, called>>

(* .then([id] ...), which has a copy. *)
Finish(i) ==
  /\ task[i] = "released"
  /\ task' = [task EXCEPT ![i] = "done"]
  /\ UNCHANGED <<units, waiters, printed, called, served>>

SemStep(i) == SleepEnds(i) \/ Resume(i) \/ Finish(i)
SemNext == \E i \in Tasks : CallTakes(i) \/ CallWaits(i) \/ SemStep(i)

-----------------------------------------------------------------------------
(* The one unit is somewhere: free, or with exactly one call, from before   *)
(* its lambda runs until its sleep is over.                                 *)
OneUnit == units + Cardinality({i \in Tasks : task[i] \in {"granted", "sleeping"}}) = 1

(* A unit is free only if nobody waits, and calls are served in the order   *)
(* in which they were made, also those that come between the release of a   *)
(* unit and the lambda that it was granted to.                              *)
InOrder == /\ units > 0 => waiters = <<>>
           /\ served = SubSeq(called, 1, Len(served))

(* The replacement of a mutex that 82-86 announce: one at a time, which it  *)
(* takes a lambda to return its sleep for, and in order, which is the doing *)
(* of the external semaphore as much as of this code.                       *)
SemaphoreInv == OneUnit /\ InOrder

(* A call made is served in the end, if sleeps end. *)
EveryCallServed == \A i \in Tasks : (task[i] # "to call") ~> (task[i] = "done")
=============================================================================
