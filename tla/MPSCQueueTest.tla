---------------------------- MODULE MPSCQueueTest ----------------------------
(***************************************************************************)
(* Test 5 of mpsc_queue.cpp's main: producers that push PerThread values   *)
(* each, a consumer that counts until it has them all or, once told that   *)
(* the producers are done, drains what is left, and main, which joins the  *)
(* producers, raises the flag and joins the consumer. Composes MPSCQueue   *)
(* with these threads.                                                     *)
(***************************************************************************)
EXTENDS MPSCQueue

ASSUME ProducersAssumption == IsFiniteSet(Producers)

VARIABLES
  count,      \* values the consumer has counted
  all_done,   \* the flag main raises
  ctl,        \* where in its loop the consumer is
  main        \* where main is

testVars == <<count, all_done, ctl, main>>
allVars == <<vars, testVars>>

Expected == Cardinality(Producers) * PerThread

TestInit == /\ Init
            /\ count = 0
            /\ all_done = FALSE
            /\ ctl = "while"
            /\ main = "join producers"

ProducerStep(p) == Push(p) /\ UNCHANGED testVars

-----------------------------------------------------------------------------
(* The consumer *)

(* while (count < expected_total) *)
LoopTest ==
  /\ ctl = "while"
  /\ ctl' = IF count < Expected THEN "pop" ELSE "done"
  /\ UNCHANGED <<vars, count, all_done, main>>

(* The first half of q.pop(val), in the loop or in the final drain. *)
ConsumerLoad ==
  /\ ctl \in {"pop", "drain"}
  /\ PopLoad
  /\ UNCHANGED testVars

(* q.pop(val) returns true; count++. *)
ConsumerTake ==
  /\ ctl \in {"pop", "drain"}
  /\ PopTake
  /\ count' = count + 1
  /\ ctl' = IF ctl = "pop" THEN "while" ELSE "drain"
  /\ UNCHANGED <<all_done, main>>

(* Bug variant: the consumer leaves on the first pop that fails. *)
ConsumerFalseLeaves ==
  /\ ctl \in {"pop", "drain"}
  /\ PopFalse
  /\ ctl' = "done"
  /\ UNCHANGED <<count, all_done, main>>

(* q.pop(val) returns false: look at the flag, or end the drain. *)
ConsumerFalse ==
  /\ ctl \in {"pop", "drain"}
  /\ PopFalse
  /\ ctl' = IF ctl = "pop" THEN "flag" ELSE "done"
  /\ UNCHANGED <<count, all_done, main>>

(* else if (all_done.load()) *)
LoadDone ==
  /\ ctl = "flag"
  /\ ctl' = IF all_done THEN "drain" ELSE "while"
  /\ UNCHANGED <<vars, count, all_done, main>>

ConsumerStep ==
  LoopTest \/ ConsumerLoad \/ ConsumerTake \/ ConsumerFalse \/ LoadDone

-----------------------------------------------------------------------------
(* The main thread *)

JoinProducers ==
  /\ main = "join producers"
  /\ Joined
  /\ main' = "store"
  /\ UNCHANGED <<vars, count, all_done, ctl>>

StoreDone ==
  /\ main = "store"
  /\ all_done' = TRUE
  /\ main' = "join consumer"
  /\ UNCHANGED <<vars, count, ctl>>

(* The join, the assertion (an invariant below) and the end of the scope,   *)
(* where the queue's destructor starts.                                     *)
JoinConsumer ==
  /\ main = "join consumer"
  /\ ctl = "done"
  /\ BeginDestroy
  /\ main' = "destructor"
  /\ UNCHANGED <<count, all_done, ctl>>

(* The destructor finds nothing left to pop (AllCounted), so that it only   *)
(* deletes the sentinel; were there a value, main would be stuck here.      *)
Destructor ==
  /\ main = "destructor"
  /\ DeleteTail
  /\ main' = "end"
  /\ UNCHANGED <<count, all_done, ctl>>

MainStep == JoinProducers \/ StoreDone \/ JoinConsumer \/ Destructor

TestEnd == main = "end" /\ UNCHANGED allVars

-----------------------------------------------------------------------------
TestNext == (\E p \in Producers : ProducerStep(p)) \/ ConsumerStep \/ MainStep \/ TestEnd

(* A started thread that can take a step is scheduled sooner or later;      *)
(* nothing here waits on a lock, so weak fairness of each thread is all.    *)
Fairness == /\ \A p \in Producers : WF_allVars(ProducerStep(p))
            /\ WF_allVars(ConsumerStep)
            /\ WF_allVars(MainStep)

TestSpec == TestInit /\ [][TestNext]_allVars /\ Fairness

-----------------------------------------------------------------------------

(* assert(count == NUM_THREADS * PER_THREAD), line 177, and, stronger, the  *)
(* count is right whenever the consumer leaves, whether by its loop's       *)
(* condition or by the flag and the drain: it never leaves early because a  *)
(* pop failed while a push was in progress.                                 *)
AllCounted ==
  ctl = "done" => /\ count = Expected
                  /\ \A v \in Values : \E k \in DOMAIN popped : popped[k] = v

(* Each pushed value is popped although pop may fail spuriously: the one    *)
(* push that hides it is itself going to store its link.                    *)
EveryPushIsPopped ==
  \A v \in Values :
    (\E i \in 1 .. Len(Items) : Items[i] = v) ~> (\E k \in DOMAIN popped : popped[k] = v)
=============================================================================
