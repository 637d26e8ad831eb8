---------------------------- MODULE BlockingQueue ----------------------------
(***************************************************************************)
(* 03-concurrency/exercises/producer_consumer.cpp: a bounded queue under   *)
(* one mutex with a condition variable for each side, and the threads of   *)
(* main that use it until main stops it.                                   *)
(*                                                                         *)
(* A critical section of mtx is one step: from the acquisition of the lock *)
(* to its release, by return or by wait. A condition variable is the set   *)
(* of threads blocked on it; a thread that is notified, or wakes           *)
(* spuriously, leaves the set and runs its critical section again from the *)
(* predicate. stop() is three steps, for it notifies outside the lock.     *)
(***************************************************************************)
EXTENDS Integers, Sequences, FiniteSets

CONSTANTS Producers, Consumers,
          Capacity,     \* max_size
          NumItems      \* num_items: pushes attempted by a producer

ASSUME ThreadsAssumption == /\ IsFiniteSet(Producers)
                            /\ IsFiniteSet(Consumers)
                            /\ Consumers # {}
                            /\ Producers \cap Consumers = {}
ASSUME CapacityAssumption == Capacity \in Nat \ {0}
ASSUME NumItemsAssumption == NumItems \in Nat

VARIABLES
  queue, shutdown,      \* fields of BlockingQueue
  not_full, not_empty,  \* the threads blocked on each condition variable
  sent,                 \* pushes of a producer that returned true (its i)
  running,              \* the threads that have not returned
  main,                 \* where main is
  received              \* history: values pop has returned

vars == <<queue, shutdown, not_full, not_empty, sent, running, main, received>>

Values == Producers \X (0 .. NumItems - 1)  \* the i-th value of a producer

Init == /\ queue = <<>>
        /\ shutdown = FALSE
        /\ not_full = {}
        /\ not_empty = {}
        /\ sent = [p \in Producers |-> 0]
        /\ running = Producers \cup Consumers
        /\ main = "sleep"
        /\ received = <<>>

(* What notify_one leaves of the set of blocked threads. *)
NotifyOne(blocked) ==
  IF blocked = {} THEN {{}} ELSE {blocked \ {t} : t \in blocked}

-----------------------------------------------------------------------------
(* push *)

InPush(p) == p \in running \ not_full /\ sent[p] < NumItems

(* The predicate of not_full.wait. *)
MayPush == Len(queue) < Capacity \/ shutdown

PushWaits(p) ==
  /\ InPush(p)
  /\ ~MayPush
  /\ not_full' = not_full \cup {p}
  /\ UNCHANGED <<queue, shutdown, not_empty, sent, running, main, received>>

(* if (shutdown) return false, on which the producer returns. *)
PushFalse(p) ==
  /\ InPush(p)
  /\ MayPush
  /\ shutdown
  /\ running' = running \ {p}
  /\ UNCHANGED <<queue, shutdown, not_full, not_empty, sent, main, received>>

(* Bug variant: consumers are notified only of the first value. *)
PushNotifiesIfEmpty(p) ==
  /\ InPush(p)
  /\ MayPush
  /\ ~shutdown
  /\ queue' = Append(queue, <<p, sent[p]>>)
  /\ not_empty' \in IF queue = <<>> THEN NotifyOne(not_empty) ELSE {not_empty}
  /\ sent' = [sent EXCEPT ![p] = @ + 1]
  /\ UNCHANGED <<shutdown, not_full, running, main, received>>

(* Bug variant: nobody is notified. *)
PushNoNotify(p) ==
  /\ InPush(p)
  /\ MayPush
  /\ ~shutdown
  /\ queue' = Append(queue, <<p, sent[p]>>)
  /\ sent' = [sent EXCEPT ![p] = @ + 1]
  /\ UNCHANGED <<shutdown, not_full, not_empty, running, main, received>>

(* Bug variant: shutdown is not looked at after the wait. *)
PushIgnoresShutdown(p) ==
  /\ InPush(p)
  /\ MayPush
  /\ queue' = Append(queue, <<p, sent[p]>>)
  /\ not_empty' \in NotifyOne(not_empty)
  /\ sent' = [sent EXCEPT ![p] = @ + 1]
  /\ UNCHANGED <<shutdown, not_full, running, main, received>>

PushTrue(p) ==
  /\ InPush(p)
  /\ MayPush
  /\ ~shutdown
  /\ queue' = Append(queue, <<p, sent[p]>>)
  /\ not_empty' \in NotifyOne(not_empty)
  /\ sent' = [sent EXCEPT ![p] = @ + 1]
  /\ UNCHANGED <<shutdown, not_full, running, main, received>>

(* The producer's loop has ended. *)
ProducerReturns(p) ==
  /\ p \in running
  /\ sent[p] = NumItems
  /\ running' = running \ {p}
  /\ UNCHANGED <<queue, shutdown, not_full, not_empty, sent, main, received>>

ProducerStep(p) ==
  PushWaits(p) \/ PushFalse(p) \/ PushTrue(p) \/ ProducerReturns(p)

-----------------------------------------------------------------------------
(* pop *)

InPop(c) == c \in running \ not_empty

(* The predicate of not_empty.wait. *)
MayPop == queue # <<>> \/ shutdown

PopWaits(c) ==
  /\ InPop(c)
  /\ ~MayPop
  /\ not_empty' = not_empty \cup {c}
  /\ UNCHANGED <<queue, shutdown, not_full, sent, running, main, received>>

(* Bug variant: a stopped queue is not drained. *)
PopFalseOnShutdown(c) ==
  /\ InPop(c)
  /\ MayPop
  /\ shutdown
  /\ running' = running \ {c}
  /\ UNCHANGED <<queue, shutdown, not_full, not_empty, sent, main, received>>

(* if (queue.empty()) return false, on which the consumer returns. *)
PopFalse(c) ==
  /\ InPop(c)
  /\ MayPop
  /\ queue = <<>>
  /\ running' = running \ {c}
  /\ UNCHANGED <<queue, shutdown, not_full, not_empty, sent, main, received>>

(* Bug variant: producers are notified only when the queue was full. *)
PopNotifiesIfFull(c) ==
  /\ InPop(c)
  /\ queue # <<>>
  /\ received' = Append(received, Head(queue))
  /\ queue' = Tail(queue)
  /\ not_full' \in IF Len(queue) = Capacity THEN NotifyOne(not_full) ELSE {not_full}
  /\ UNCHANGED <<shutdown, not_empty, sent, running, main>>

(* Bug variant: the value returned is the youngest. *)
PopFromBack(c) ==
  /\ InPop(c)
  /\ queue # <<>>
  /\ received' = Append(received, queue[Len(queue)])
  /\ queue' = SubSeq(queue, 1, Len(queue) - 1)
  /\ not_full' \in NotifyOne(not_full)
  /\ UNCHANGED <<shutdown, not_empty, sent, running, main>>

PopTrue(c) ==
  /\ InPop(c)
  /\ queue # <<>>
  /\ received' = Append(received, Head(queue))
  /\ queue' = Tail(queue)
  /\ not_full' \in NotifyOne(not_full)
  /\ UNCHANGED <<shutdown, not_empty, sent, running, main>>

ConsumerStep(c) == PopWaits(c) \/ PopFalse(c) \/ PopTrue(c)

(* A wait may return without a notification: the predicate is tested again. *)
SpuriousWakeup ==
  \/ /\ \E p \in not_full : not_full' = not_full \ {p}
     /\ UNCHANGED <<queue, shutdown, not_empty, sent, running, main, received>>
  \/ /\ \E c \in not_empty : not_empty' = not_empty \ {c}
     /\ UNCHANGED <<queue, shutdown, not_full, sent, running, main, received>>

-----------------------------------------------------------------------------
(* stop, called by main, which then joins every thread *)

SetShutdown ==
  /\ main = "sleep"
  /\ shutdown' = TRUE
  /\ main' = "notify not_empty"
  /\ UNCHANGED <<queue, not_full, not_empty, sent, running, received>>

(* Bug variant: stop wakes one consumer only. *)
StopNotifyOneNotEmpty ==
  /\ main = "notify not_empty"
  /\ not_empty' \in NotifyOne(not_empty)
  /\ main' = "notify not_full"
  /\ UNCHANGED <<queue, shutdown, not_full, sent, running, received>>

NotifyAllNotEmpty ==
  /\ main = "notify not_empty"
  /\ not_empty' = {}
  /\ main' = "notify not_full"
  /\ UNCHANGED <<queue, shutdown, not_full, sent, running, received>>

NotifyAllNotFull ==
  /\ main = "notify not_full"
  /\ not_full' = {}
  /\ main' = "join"
  /\ UNCHANGED <<queue, shutdown, not_empty, sent, running, received>>

(* The joins are over; the queue goes out of scope. *)
Join ==
  /\ main = "join"
  /\ running = {}
  /\ main' = "end"
  /\ UNCHANGED <<queue, shutdown, not_full, not_empty, sent, running, received>>

MainStep == NotifyAllNotEmpty \/ NotifyAllNotFull \/ Join

Terminated == main = "end" /\ UNCHANGED vars

-----------------------------------------------------------------------------
Next == \/ \E p \in Producers : ProducerStep(p)
        \/ \E c \in Consumers : ConsumerStep(c)
        \/ SpuriousWakeup
        \/ SetShutdown \/ MainStep
        \/ Terminated

(* Every thread that can run is scheduled, and gets the mutex when it wants *)
(* it. Neither a spurious wakeup nor the call of stop() may be relied on;   *)
(* once called, stop() and the joins go on.                                 *)
Fairness == /\ \A p \in Producers : WF_vars(ProducerStep(p))
            /\ \A c \in Consumers : WF_vars(ConsumerStep(c))
            /\ WF_vars(MainStep)

Spec == Init /\ [][Next]_vars /\ Fairness

-----------------------------------------------------------------------------
(* Types, and the bound that the queue is named for. *)
TypeOK ==
  /\ queue \in Seq(Values)
  /\ Len(queue) <= Capacity
  /\ shutdown \in BOOLEAN
  /\ not_full \in SUBSET (Producers \cap running)
  /\ not_empty \in SUBSET (Consumers \cap running)
  /\ sent \in [Producers -> 0 .. NumItems]
  /\ running \in SUBSET (Producers \cup Consumers)
  /\ main \in {"sleep", "notify not_empty", "notify not_full", "join", "end"}
  /\ received \in Seq(Values)

(* The consumers that will call pop's critical section without being        *)
(* notified, and the producers that have a value to push and will.          *)
AwakeConsumers == (Consumers \cap running) \ not_empty
AwakeProducers == {p \in (Producers \cap running) \ not_full : sent[p] < NumItems}

(* No lost wakeup, consumer side: while a consumer is blocked there are at  *)
(* least as many consumers awake, each on its way to pop, as values to pop; *)
(* once shutdown is set, a blocked consumer is about to be notified by      *)
(* stop (notify_one at 49, notify_all at 71).                               *)
ConsumersNotStranded ==
  not_empty # {} =>
    IF shutdown THEN main = "notify not_empty"
    ELSE Len(queue) <= Cardinality(AwakeConsumers)

(* Dually: while a producer is blocked there are as many producers awake    *)
(* and with something to push as free places (notify_one at 62, notify_all  *)
(* at 72).                                                                  *)
ProducersNotStranded ==
  not_full # {} =>
    IF shutdown THEN main \in {"notify not_empty", "notify not_full"}
    ELSE Capacity - Len(queue) <= Cardinality(AwakeProducers)

(* A consumer leaves for good only when nothing is left and nothing can     *)
(* come (lines 55-58).                                                      *)
LeavesOnlyDrained ==
  Consumers \ running # {} => shutdown /\ queue = <<>>

(* push after stop never puts a value in, however long it was blocked       *)
(* (line 46).                                                               *)
ClosedToPushes ==
  [][shutdown => queue' = queue \/ (queue # <<>> /\ queue' = Tail(queue))]_vars

(* When main ends, every value whose push returned true has been popped.    *)
NothingLeftBehind ==
  main = "end" => \A p \in Producers : \A i \in 0 .. sent[p] - 1 :
                    \E k \in 1 .. Len(received) : received[k] = <<p, i>>

(* What makes the above inductive: main's place in stop() and the joins,    *)
(* what a blocked producer is in the middle of, and the whereabouts of      *)
(* every value pushed.                                                      *)
InStop == /\ shutdown <=> main # "sleep"
          /\ main = "end" => running = {}

Blocked == \A p \in not_full : sent[p] < NumItems

Accounted ==
  \A p \in Producers : \A i \in 0 .. sent[p] - 1 :
    \/ \E k \in 1 .. Len(queue) : queue[k] = <<p, i>>
    \/ \E k \in 1 .. Len(received) : received[k] = <<p, i>>

Inv == /\ TypeOK /\ InStop /\ Blocked /\ Accounted
       /\ ConsumersNotStranded /\ ProducersNotStranded /\ LeavesOnlyDrained

(* The threads that only a notification, or a spurious wakeup, brings back. *)
Asleep == not_full \cup not_empty

(* Deadlock, stated without stop(): if all threads that run are asleep,     *)
(* then everything was pushed and popped, and they are consumers with       *)
(* nothing to wait for but stop(). In particular a producer and a consumer  *)
(* never wait for each other (44, 56), whatever notify_one chooses.         *)
AsleepOnlyWhenDone ==
  ~shutdown /\ running \subseteq Asleep =>
    /\ running \subseteq Consumers
    /\ \A v \in Values : \E k \in 1 .. Len(received) : received[k] = v

(* And with it: the joins of main wait for no thread that is asleep.        *)
JoinsTheAwake == main \in {"join", "end"} => Asleep = {}

(* The comments at 43 and 55: no deadlock.                                  *)
NeverDeadlocked == AsleepOnlyWhenDone /\ JoinsTheAwake

(* A value pushed is popped, with or without stop().                        *)
EveryPushIsPopped ==
  \A v \in Values :
    (\E k \in DOMAIN queue : queue[k] = v) ~> (\E k \in DOMAIN received : received[k] = v)

(* After stop() all threads return, whatever they were blocked on.          *)
StopEndsAll == shutdown ~> main = "end"

Queue == INSTANCE FIFOQueue WITH items <- queue, delivered <- received

(* It is a FIFO queue across all threads. *)
QueueSpec == Queue!Spec
=============================================================================
