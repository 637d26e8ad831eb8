------------------------- MODULE BlockingQueueProofs -------------------------
(***************************************************************************)
(* For any finite numbers of threads, any capacity and any number of       *)
(* items: Inv of BlockingQueue is inductive. So the capacity holds, no     *)
(* wakeup is lost, no consumer leaves with values to come, nothing pushed  *)
(* is left behind, the threads do not deadlock, and the whole implements   *)
(* the abstract FIFO queue.                                                *)
(***************************************************************************)
EXTENDS BlockingQueue, FiniteSetTheorems, TLAPS

(* Adding a thread to a finite set of threads, and removing one.            *)
LEMMA CountAdd ==
  ASSUME NEW S, IsFiniteSet(S), NEW t
  PROVE  /\ Cardinality(S) \in Nat /\ Cardinality(S \cup {t}) \in Nat
         /\ Cardinality(S \cup {t}) >= Cardinality(S)
         /\ t \notin S => Cardinality(S \cup {t}) = Cardinality(S) + 1
<1>1. Cardinality(S) \in Nat
  BY FS_CardinalityType
<1>2. Cardinality(S \cup {t}) = IF t \in S THEN Cardinality(S) ELSE Cardinality(S) + 1
  BY FS_AddElement
<1> QED
  BY <1>1, <1>2

(* A thread less counts at most one less.                                   *)
LEMMA CountRemove ==
  ASSUME NEW S, IsFiniteSet(S), NEW t
  PROVE  /\ Cardinality(S) \in Nat /\ Cardinality(S \ {t}) \in Nat
         /\ Cardinality(S \ {t}) >= Cardinality(S) - 1
<1>1. Cardinality(S) \in Nat /\ Cardinality(S \ {t}) \in Nat
  BY FS_CardinalityType, FS_RemoveElement
<1>2. Cardinality(S \ {t}) = IF t \in S THEN Cardinality(S) - 1 ELSE Cardinality(S)
  BY FS_RemoveElement
<1> QED
  BY <1>1, <1>2

(* The threads counted by the invariants are finitely many.                 *)
LEMMA ConsumersFinite ==
  ASSUME NEW S \in SUBSET Consumers
  PROVE  IsFiniteSet(S) /\ Cardinality(S) \in Nat
<1>1. IsFiniteSet(S)
  BY FS_Subset, ThreadsAssumption
<1> QED
  BY <1>1, FS_CardinalityType

(* Sets of producers are finite.                                            *)
LEMMA ProducersFinite ==
  ASSUME NEW S \in SUBSET Producers
  PROVE  IsFiniteSet(S) /\ Cardinality(S) \in Nat
<1>1. IsFiniteSet(S)
  BY FS_Subset, ThreadsAssumption
<1> QED
  BY <1>1, FS_CardinalityType

(* The threads awake are threads, before and after a step.                  *)
LEMMA AwakeTypes ==
  /\ AwakeConsumers \in SUBSET Consumers /\ AwakeConsumers' \in SUBSET Consumers
  /\ AwakeProducers \in SUBSET Producers /\ AwakeProducers' \in SUBSET Producers
  BY DEF AwakeConsumers, AwakeProducers

(* They can be counted.                                                     *)
LEMMA AwakeFinite ==
  /\ IsFiniteSet(AwakeConsumers)
  /\ Cardinality(AwakeConsumers) \in Nat /\ Cardinality(AwakeConsumers') \in Nat
  /\ IsFiniteSet(AwakeProducers)
  /\ Cardinality(AwakeProducers) \in Nat /\ Cardinality(AwakeProducers') \in Nat
  BY AwakeTypes, ConsumersFinite, ProducersFinite

(* What notify_one does to a set of blocked threads. *)
LEMMA NotifyOneCases ==
  ASSUME NEW S, NEW T \in NotifyOne(S)
  PROVE  \/ S = {} /\ T = {}
         \/ \E t \in S : T = S \ {t}
  BY DEF NotifyOne

(* All threads are awake at first, and nothing is queued.                   *)
LEMMA InitInv == Init => Inv
<1> SUFFICES ASSUME Init PROVE Inv
  OBVIOUS
<1> USE CapacityAssumption, NumItemsAssumption DEF Init
<1>1. TypeOK
  <2>1. queue \in Seq(Values) /\ Len(queue) <= Capacity /\ received \in Seq(Values)
    OBVIOUS
  <2>2. sent \in [Producers -> 0 .. NumItems]
    OBVIOUS
  <2> QED
    BY <2>1, <2>2 DEF TypeOK
<1>2. InStop /\ Blocked /\ Accounted
  BY DEF InStop, Blocked, Accounted
<1>3. ConsumersNotStranded /\ ProducersNotStranded /\ LeavesOnlyDrained
  BY DEF ConsumersNotStranded, ProducersNotStranded, LeavesOnlyDrained
<1> QED
  BY <1>1, <1>2, <1>3 DEF Inv

-----------------------------------------------------------------------------
(* A producer blocks only when there is no free place.                      *)
LEMMA PushWaitsInv ==
  ASSUME Inv, NEW p \in Producers, PushWaits(p)
  PROVE  Inv'
<1> USE CapacityAssumption, NumItemsAssumption DEF Inv
<1>1. /\ p \in running /\ p \notin not_full /\ sent[p] < NumItems
      /\ ~(Len(queue) < Capacity) /\ ~shutdown
      /\ not_full' = not_full \cup {p}
      /\ UNCHANGED <<queue, shutdown, not_empty, sent, running, main, received>>
  BY DEF PushWaits, InPush, MayPush
<1>2. TypeOK'
  BY <1>1 DEF TypeOK
<1>3. InStop' /\ Blocked' /\ Accounted' /\ LeavesOnlyDrained'
  BY <1>1 DEF InStop, Blocked, Accounted, LeavesOnlyDrained
<1>4. ConsumersNotStranded'
  BY <1>1 DEF ConsumersNotStranded, AwakeConsumers
<1>5. ProducersNotStranded'
  <2>1. queue \in Seq(Values)
    BY DEF TypeOK
  <2>2. Capacity - Len(queue) <= Cardinality(AwakeProducers')
    BY <1>1, <2>1, AwakeFinite
  <2> QED
    BY <1>1, <2>2 DEF ProducersNotStranded
<1> QED
  BY <1>2, <1>3, <1>4, <1>5

(* push returns false and the producer ends (46): shutdown is set, so that  *)
(* nobody is owed a place.                                                  *)
LEMMA PushFalseInv ==
  ASSUME Inv, NEW p \in Producers, PushFalse(p)
  PROVE  Inv'
<1> USE ThreadsAssumption DEF Inv
<1>1. /\ p \in running /\ p \notin not_full /\ shutdown
      /\ running' = running \ {p}
      /\ UNCHANGED <<queue, shutdown, not_full, not_empty, sent, main, received>>
  BY DEF PushFalse, InPush
<1>2. TypeOK'
  BY <1>1 DEF TypeOK
<1>3. InStop' /\ Blocked' /\ Accounted' /\ LeavesOnlyDrained'
  BY <1>1 DEF InStop, Blocked, Accounted, LeavesOnlyDrained
<1>4. ConsumersNotStranded' /\ ProducersNotStranded'
  BY <1>1 DEF ConsumersNotStranded, ProducersNotStranded
<1> QED
  BY <1>2, <1>3, <1>4

(* One value more, and one consumer more that is awake to take it, if any   *)
(* was blocked; one place less, and the producer may be done.               *)
LEMMA PushTrueInv ==
  ASSUME Inv, NEW p \in Producers, PushTrue(p)
  PROVE  Inv'
<1> USE CapacityAssumption, NumItemsAssumption, ThreadsAssumption DEF Inv
<1> DEFINE v == <<p, sent[p]>>
<1>1. /\ p \in running /\ p \notin not_full /\ sent[p] < NumItems
      /\ Len(queue) < Capacity /\ ~shutdown
      /\ queue' = Append(queue, v)
      /\ not_empty' \in NotifyOne(not_empty)
      /\ sent' = [sent EXCEPT ![p] = @ + 1]
      /\ UNCHANGED <<shutdown, not_full, running, main, received>>
  BY DEF PushTrue, InPush, MayPush
<1>2. \/ not_empty = {} /\ not_empty' = {}
      \/ \E t \in not_empty : not_empty' = not_empty \ {t}
  BY <1>1, NotifyOneCases
<1>3. /\ queue \in Seq(Values) /\ Len(queue) \in Nat
      /\ sent \in [Producers -> 0 .. NumItems]
  <2>1. queue \in Seq(Values) /\ sent \in [Producers -> 0 .. NumItems]
    BY DEF TypeOK
  <2> QED
    BY <2>1
<1>4. /\ queue' \in Seq(Values) /\ Len(queue') = Len(queue) + 1
      /\ \A k \in 1 .. Len(queue) : queue'[k] = queue[k]
      /\ queue'[Len(queue) + 1] = v
  <2>1. v \in Values
    BY <1>1, <1>3 DEF Values
  <2> QED
    BY <1>1, <1>3, <2>1
<1>5. TypeOK'
  <2>1. Len(queue') <= Capacity
    BY <1>1, <1>3, <1>4
  <2>2. sent' \in [Producers -> 0 .. NumItems]
    BY <1>1, <1>3
  <2> QED
    BY <1>1, <1>2, <1>4, <2>1, <2>2 DEF TypeOK
<1>6. InStop' /\ Blocked' /\ LeavesOnlyDrained'
  BY <1>1 DEF InStop, Blocked, LeavesOnlyDrained, TypeOK
<1>7. Accounted'
  <2> SUFFICES ASSUME NEW q \in Producers, NEW i \in 0 .. sent'[q] - 1
               PROVE  \/ \E k \in 1 .. Len(queue') : queue'[k] = <<q, i>>
                      \/ \E k \in 1 .. Len(received') : received'[k] = <<q, i>>
    BY DEF Accounted
  <2>1. CASE q = p /\ i = sent[p]
    BY <1>3, <1>4, <2>1
  <2>2. CASE ~(q = p /\ i = sent[p])
    <3>1. i \in 0 .. sent[q] - 1
      BY <1>1, <1>3, <2>2
    <3>2. CASE \E k \in 1 .. Len(queue) : queue[k] = <<q, i>>
      BY <1>3, <1>4, <3>2
    <3>3. CASE \E k \in 1 .. Len(received) : received[k] = <<q, i>>
      BY <1>1, <3>3
    <3> QED
      BY <3>1, <3>2, <3>3 DEF Accounted
  <2> QED
    BY <2>1, <2>2
<1>8. ConsumersNotStranded'
  <2>1. CASE not_empty = {}
    BY <1>2, <2>1 DEF ConsumersNotStranded
  <2>2. CASE not_empty # {}
    <3>1. PICK t \in not_empty : not_empty' = not_empty \ {t}
      BY <1>2, <2>2
    <3>2. AwakeConsumers' = AwakeConsumers \cup {t} /\ t \notin AwakeConsumers
      BY <1>1, <3>1 DEF AwakeConsumers, TypeOK
    <3>3. Cardinality(AwakeConsumers') = Cardinality(AwakeConsumers) + 1
      BY <3>2, AwakeFinite, CountAdd
    <3>4. Len(queue) <= Cardinality(AwakeConsumers)
      BY <1>1, <2>2 DEF ConsumersNotStranded
    <3>5. Len(queue') <= Cardinality(AwakeConsumers')
      BY <1>3, <1>4, <3>3, <3>4, AwakeFinite
    <3> QED
      BY <1>1, <3>5 DEF ConsumersNotStranded
  <2> QED
    BY <2>1, <2>2
<1>9. ProducersNotStranded'
  <2>1. \/ AwakeProducers' = AwakeProducers
        \/ AwakeProducers' = AwakeProducers \ {p}
    BY <1>1 DEF AwakeProducers, TypeOK
  <2>2. Cardinality(AwakeProducers') >= Cardinality(AwakeProducers) - 1
    BY <2>1, AwakeFinite, CountRemove
  <2>3. CASE not_full # {}
    <3>1. Capacity - Len(queue) <= Cardinality(AwakeProducers)
      BY <1>1, <2>3 DEF ProducersNotStranded
    <3>2. Capacity - Len(queue') <= Cardinality(AwakeProducers')
      BY <1>3, <1>4, <2>2, <3>1, AwakeFinite
    <3> QED
      BY <1>1, <3>2 DEF ProducersNotStranded
  <2> QED
    BY <1>1, <2>3 DEF ProducersNotStranded
<1> QED
  BY <1>5, <1>6, <1>7, <1>8, <1>9

(* A producer that has pushed all its values ends (86-101): it was not      *)
(* counted among those awake with something to push.                        *)
LEMMA ProducerReturnsInv ==
  ASSUME Inv, NEW p \in Producers, ProducerReturns(p)
  PROVE  Inv'
<1> USE NumItemsAssumption, ThreadsAssumption DEF Inv
<1>1. /\ p \in running /\ sent[p] = NumItems
      /\ running' = running \ {p}
      /\ UNCHANGED <<queue, shutdown, not_full, not_empty, sent, main, received>>
  BY DEF ProducerReturns
<1>2. p \notin not_full
  BY <1>1 DEF Blocked
<1>3. TypeOK'
  BY <1>1, <1>2 DEF TypeOK
<1>4. InStop' /\ Blocked' /\ Accounted' /\ LeavesOnlyDrained'
  BY <1>1 DEF InStop, Blocked, Accounted, LeavesOnlyDrained
<1>5. AwakeConsumers' = AwakeConsumers
  BY <1>1 DEF AwakeConsumers
<1>6. AwakeProducers' = AwakeProducers
  BY <1>1 DEF AwakeProducers
<1>7. ConsumersNotStranded' /\ ProducersNotStranded'
  BY <1>1, <1>5, <1>6 DEF ConsumersNotStranded, ProducersNotStranded
<1> QED
  BY <1>3, <1>4, <1>7

-----------------------------------------------------------------------------
(* A consumer blocks only when there is no value.                           *)
LEMMA PopWaitsInv ==
  ASSUME Inv, NEW c \in Consumers, PopWaits(c)
  PROVE  Inv'
<1> USE ThreadsAssumption DEF Inv
<1>1. /\ c \in running /\ queue = <<>> /\ ~shutdown
      /\ not_empty' = not_empty \cup {c}
      /\ UNCHANGED <<queue, shutdown, not_full, sent, running, main, received>>
  BY DEF PopWaits, InPop, MayPop
<1>2. TypeOK'
  BY <1>1 DEF TypeOK
<1>3. InStop' /\ Blocked' /\ Accounted' /\ LeavesOnlyDrained'
  BY <1>1 DEF InStop, Blocked, Accounted, LeavesOnlyDrained
<1>4. ConsumersNotStranded'
  <2>1. Len(queue) <= Cardinality(AwakeConsumers')
    BY <1>1, AwakeFinite
  <2> QED
    BY <1>1, <2>1 DEF ConsumersNotStranded
<1>5. ProducersNotStranded'
  BY <1>1 DEF ProducersNotStranded, AwakeProducers
<1> QED
  BY <1>2, <1>3, <1>4, <1>5

(* pop returns false and the consumer ends (58): it leaves an empty queue.  *)
LEMMA PopFalseInv ==
  ASSUME Inv, NEW c \in Consumers, PopFalse(c)
  PROVE  Inv'
<1> USE ThreadsAssumption DEF Inv
<1>1. /\ c \in running /\ c \notin not_empty /\ queue = <<>> /\ shutdown
      /\ running' = running \ {c}
      /\ UNCHANGED <<queue, shutdown, not_full, not_empty, sent, main, received>>
  BY DEF PopFalse, InPop, MayPop
<1>2. TypeOK'
  BY <1>1 DEF TypeOK
<1>3. InStop' /\ Blocked' /\ Accounted' /\ LeavesOnlyDrained'
  BY <1>1 DEF InStop, Blocked, Accounted, LeavesOnlyDrained
<1>4. ConsumersNotStranded' /\ ProducersNotStranded'
  BY <1>1 DEF ConsumersNotStranded, ProducersNotStranded
<1> QED
  BY <1>2, <1>3, <1>4

(* One place more, and one producer more that is awake to fill it, if any   *)
(* was blocked; the first value changes from the queue to the consumer.     *)
LEMMA PopTrueInv ==
  ASSUME Inv, NEW c \in Consumers, PopTrue(c)
  PROVE  Inv'
<1> USE CapacityAssumption, NumItemsAssumption, ThreadsAssumption DEF Inv
<1>1. /\ queue # <<>>
      /\ received' = Append(received, Head(queue))
      /\ queue' = Tail(queue)
      /\ not_full' \in NotifyOne(not_full)
      /\ UNCHANGED <<shutdown, not_empty, sent, running, main>>
  BY DEF PopTrue
<1>2. \/ not_full = {} /\ not_full' = {}
      \/ \E t \in not_full : not_full' = not_full \ {t}
  BY <1>1, NotifyOneCases
<1>3. /\ Len(queue) \in Nat /\ Len(queue) > 0 /\ Head(queue) = queue[1] /\ queue[1] \in Values
      /\ queue' \in Seq(Values) /\ Len(queue') = Len(queue) - 1
      /\ \A k \in 1 .. Len(queue) - 1 : queue'[k] = queue[k + 1]
  <2>1. queue \in Seq(Values)
    BY DEF TypeOK
  <2> QED
    BY <1>1, <2>1
<1>4. /\ received' \in Seq(Values) /\ Len(received') = Len(received) + 1
      /\ \A k \in 1 .. Len(received) : received'[k] = received[k]
      /\ received'[Len(received) + 1] = queue[1]
      /\ Len(received) \in Nat
  <2>1. received \in Seq(Values)
    BY DEF TypeOK
  <2> QED
    BY <1>1, <1>3, <2>1
<1>5. TypeOK'
  <2>1. Len(queue) <= Capacity
    BY DEF TypeOK
  <2>2. Len(queue') <= Capacity
    BY <1>3, <2>1
  <2> QED
    BY <1>1, <1>2, <1>3, <1>4, <2>2 DEF TypeOK
<1>6. InStop' /\ Blocked'
  BY <1>1, <1>2 DEF InStop, Blocked
<1>7. LeavesOnlyDrained'
  BY <1>1 DEF LeavesOnlyDrained
<1>8. Accounted'
  <2> SUFFICES ASSUME NEW q \in Producers, NEW i \in 0 .. sent[q] - 1
               PROVE  \/ \E k \in 1 .. Len(queue') : queue'[k] = <<q, i>>
                      \/ \E k \in 1 .. Len(received') : received'[k] = <<q, i>>
    BY <1>1 DEF Accounted
  <2>1. CASE \E k \in 1 .. Len(queue) : queue[k] = <<q, i>>
    <3>1. PICK k \in 1 .. Len(queue) : queue[k] = <<q, i>>
      BY <2>1
    <3>2. CASE k = 1
      BY <1>4, <3>1, <3>2
    <3>3. CASE k # 1
      <4>1. k - 1 \in 1 .. Len(queue') /\ queue'[k - 1] = queue[k]
        BY <1>3, <3>1, <3>3
      <4> QED
        BY <3>1, <4>1
    <3> QED
      BY <3>2, <3>3
  <2>2. CASE \E k \in 1 .. Len(received) : received[k] = <<q, i>>
    BY <1>4, <2>2
  <2> QED
    BY <2>1, <2>2 DEF Accounted
<1>9. ConsumersNotStranded'
  <2>1. AwakeConsumers' = AwakeConsumers
    BY <1>1 DEF AwakeConsumers
  <2>2. Len(queue) <= Cardinality(AwakeConsumers) => Len(queue') <= Cardinality(AwakeConsumers)
    BY <1>3, AwakeFinite
  <2> QED
    BY <1>1, <2>1, <2>2 DEF ConsumersNotStranded
<1>10. ProducersNotStranded'
  <2>1. CASE not_full = {}
    BY <1>2, <2>1 DEF ProducersNotStranded
  <2>2. CASE not_full # {} /\ shutdown
    BY <1>1, <2>2 DEF ProducersNotStranded
  <2>3. CASE not_full # {} /\ ~shutdown
    <3>1. PICK t \in not_full : not_full' = not_full \ {t}
      BY <1>2, <2>3
    <3>2. AwakeProducers' = AwakeProducers \cup {t} /\ t \notin AwakeProducers
      BY <1>1, <3>1 DEF AwakeProducers, Blocked, TypeOK
    <3>3. Cardinality(AwakeProducers') = Cardinality(AwakeProducers) + 1
      BY <3>2, AwakeFinite, CountAdd
    <3>4. Capacity - Len(queue) <= Cardinality(AwakeProducers)
      BY <2>3 DEF ProducersNotStranded
    <3>5. Capacity - Len(queue') <= Cardinality(AwakeProducers')
      BY <1>3, <3>3, <3>4, AwakeFinite
    <3> QED
      BY <1>1, <3>5 DEF ProducersNotStranded
  <2> QED
    BY <2>1, <2>2, <2>3
<1> QED
  BY <1>5, <1>6, <1>7, <1>8, <1>9, <1>10

-----------------------------------------------------------------------------
(* A thread woken without a reason is one more awake (44, 56).              *)
LEMMA SpuriousWakeupInv ==
  ASSUME Inv, SpuriousWakeup
  PROVE  Inv'
<1> USE CapacityAssumption DEF Inv
<1>1. CASE /\ \E p \in not_full : not_full' = not_full \ {p}
           /\ UNCHANGED <<queue, shutdown, not_empty, sent, running, main, received>>
  <2>1. PICK p \in not_full : not_full' = not_full \ {p}
    BY <1>1
  <2>2. TypeOK' /\ InStop' /\ Blocked' /\ Accounted' /\ LeavesOnlyDrained'
    BY <1>1, <2>1 DEF TypeOK, InStop, Blocked, Accounted, LeavesOnlyDrained
  <2>3. ConsumersNotStranded'
    BY <1>1 DEF ConsumersNotStranded, AwakeConsumers
  <2>4. AwakeProducers' = AwakeProducers \cup {p}
    BY <1>1, <2>1 DEF AwakeProducers, Blocked, TypeOK
  <2>5. Cardinality(AwakeProducers') >= Cardinality(AwakeProducers)
    BY <2>4, AwakeFinite, CountAdd
  <2>6. queue \in Seq(Values)
    BY DEF TypeOK
  <2>7. Capacity - Len(queue) <= Cardinality(AwakeProducers) => Capacity - Len(queue) <= Cardinality(AwakeProducers')
    BY <2>5, <2>6, AwakeFinite
  <2>8. ProducersNotStranded'
    BY <1>1, <2>1, <2>7 DEF ProducersNotStranded
  <2> QED
    BY <2>2, <2>3, <2>8
<1>2. CASE /\ \E c \in not_empty : not_empty' = not_empty \ {c}
           /\ UNCHANGED <<queue, shutdown, not_full, sent, running, main, received>>
  <2>1. PICK c \in not_empty : not_empty' = not_empty \ {c}
    BY <1>2
  <2>2. TypeOK' /\ InStop' /\ Blocked' /\ Accounted' /\ LeavesOnlyDrained'
    BY <1>2, <2>1 DEF TypeOK, InStop, Blocked, Accounted, LeavesOnlyDrained
  <2>3. ProducersNotStranded'
    BY <1>2 DEF ProducersNotStranded, AwakeProducers
  <2>4. AwakeConsumers' = AwakeConsumers \cup {c}
    BY <1>2, <2>1 DEF AwakeConsumers, TypeOK
  <2>5. Cardinality(AwakeConsumers') >= Cardinality(AwakeConsumers)
    BY <2>4, AwakeFinite, CountAdd
  <2>6. queue \in Seq(Values)
    BY DEF TypeOK
  <2>7. Len(queue) <= Cardinality(AwakeConsumers) => Len(queue) <= Cardinality(AwakeConsumers')
    BY <2>5, <2>6, AwakeFinite
  <2>8. ConsumersNotStranded'
    BY <1>2, <2>1, <2>7 DEF ConsumersNotStranded
  <2> QED
    BY <2>2, <2>3, <2>8
<1> QED
  BY <1>1, <1>2 DEF SpuriousWakeup

(* stop() leaves a blocked thread only until it notifies its side.          *)
LEMMA MainInv ==
  ASSUME Inv, SetShutdown \/ MainStep
  PROVE  Inv'
<1> USE ThreadsAssumption DEF Inv
<1>1. CASE SetShutdown
  <2> USE <1>1 DEF SetShutdown
  <2>1. TypeOK' /\ InStop' /\ Blocked' /\ Accounted'
    BY DEF TypeOK, InStop, Blocked, Accounted
  <2>2. ConsumersNotStranded' /\ ProducersNotStranded' /\ LeavesOnlyDrained'
    BY DEF ConsumersNotStranded, ProducersNotStranded, LeavesOnlyDrained
  <2> QED
    BY <2>1, <2>2
<1>2. CASE NotifyAllNotEmpty
  <2> USE <1>2 DEF NotifyAllNotEmpty
  <2>1. TypeOK' /\ InStop' /\ Blocked' /\ Accounted'
    BY DEF TypeOK, InStop, Blocked, Accounted
  <2>2. ConsumersNotStranded' /\ LeavesOnlyDrained'
    BY DEF ConsumersNotStranded, LeavesOnlyDrained
  <2>3. ProducersNotStranded'
    BY DEF ProducersNotStranded, InStop
  <2> QED
    BY <2>1, <2>2, <2>3
<1>3. CASE NotifyAllNotFull
  <2> USE <1>3 DEF NotifyAllNotFull
  <2>1. TypeOK' /\ InStop' /\ Blocked' /\ Accounted'
    BY DEF TypeOK, InStop, Blocked, Accounted
  <2>2. ProducersNotStranded' /\ LeavesOnlyDrained'
    BY DEF ProducersNotStranded, LeavesOnlyDrained
  <2>3. ConsumersNotStranded'
    BY DEF ConsumersNotStranded, InStop
  <2> QED
    BY <2>1, <2>2, <2>3
<1>4. CASE Join
  <2> USE <1>4 DEF Join
  <2>1. TypeOK' /\ InStop' /\ Blocked' /\ Accounted' /\ LeavesOnlyDrained'
    BY DEF TypeOK, InStop, Blocked, Accounted, LeavesOnlyDrained
  <2>2. not_full = {} /\ not_empty = {}
    BY DEF TypeOK
  <2>3. ConsumersNotStranded' /\ ProducersNotStranded'
    BY <2>2 DEF ConsumersNotStranded, ProducersNotStranded
  <2> QED
    BY <2>1, <2>3
<1> QED
  BY <1>1, <1>2, <1>3, <1>4 DEF MainStep

(* A step that changes nothing keeps what holds.                            *)
LEMMA StutterInv ==
  ASSUME Inv, UNCHANGED vars
  PROVE  Inv'
<1> USE DEF Inv, vars
<1>1. TypeOK' /\ InStop' /\ Blocked' /\ Accounted' /\ LeavesOnlyDrained'
  BY DEF TypeOK, InStop, Blocked, Accounted, LeavesOnlyDrained
<1>2. ConsumersNotStranded' /\ ProducersNotStranded'
  BY DEF ConsumersNotStranded, AwakeConsumers, ProducersNotStranded, AwakeProducers
<1> QED
  BY <1>1, <1>2

(* Inv is inductive: no step of any thread or of main breaks it.            *)
LEMMA StepInv == Inv /\ [Next]_vars => Inv'
<1> SUFFICES ASSUME Inv, [Next]_vars PROVE Inv'
  OBVIOUS
<1>1. ASSUME NEW p \in Producers, ProducerStep(p) PROVE Inv'
  BY <1>1, PushWaitsInv, PushFalseInv, PushTrueInv, ProducerReturnsInv DEF ProducerStep
<1>2. ASSUME NEW c \in Consumers, ConsumerStep(c) PROVE Inv'
  BY <1>2, PopWaitsInv, PopFalseInv, PopTrueInv DEF ConsumerStep
<1>3. CASE Terminated
  BY <1>3, StutterInv DEF Terminated
<1> QED
  BY <1>1, <1>2, <1>3, SpuriousWakeupInv, MainInv, StutterInv DEF Next

-----------------------------------------------------------------------------
(* The inductive invariant of the queue, its threads and stop (41-73,       *)
(* 81-145): types and capacity, the place of main, the whereabouts of every *)
(* value, and no thread blocked for which there is work.                    *)
THEOREM Invariance == Spec => []Inv
  BY InitInv, StepInv, PTL DEF Spec

(* Types, and never more than max_size values (push 44-48).                 *)
THEOREM TypeCorrect == Spec => []TypeOK
<1>1. Inv => TypeOK
  BY DEF Inv
<1> QED
  BY <1>1, Invariance, PTL

(* No wakeup is lost on either side: notify_one per value and per place is  *)
(* enough, whatever the number of threads (49, 62), and stop() reaches all  *)
(* that are blocked (71-72).                                                *)
THEOREM NoLostWakeup == Spec => [](ConsumersNotStranded /\ ProducersNotStranded)
<1>1. Inv => ConsumersNotStranded /\ ProducersNotStranded
  BY DEF Inv
<1> QED
  BY <1>1, Invariance, PTL

(* No consumer returns while a value is in the queue or can still come      *)
(* (56-58).                                                                 *)
THEOREM ConsumersDrain == Spec => []LeavesOnlyDrained
<1>1. Inv => LeavesOnlyDrained
  BY DEF Inv
<1> QED
  BY <1>1, Invariance, PTL

(* By the end of main every value pushed has been popped.                   *)
THEOREM AllReceived == Spec => []NothingLeftBehind
<1>1. Inv => NothingLeftBehind
  <2> SUFFICES ASSUME Inv, main = "end" PROVE NothingLeftBehind
    BY DEF NothingLeftBehind
  <2>1. queue = <<>>
    BY ThreadsAssumption DEF Inv, InStop, LeavesOnlyDrained
  <2>2. \A k \in 1 .. Len(queue) : FALSE
    BY <2>1
  <2> QED
    BY <2>2 DEF Inv, Accounted, NothingLeftBehind
<1> QED
  BY <1>1, Invariance, PTL

(* Once shutdown is set, no step puts a value into the queue (46).          *)
THEOREM NoPushAfterStop == Spec => ClosedToPushes
<1>1. [Next]_vars => [shutdown => queue' = queue \/ (queue # <<>> /\ queue' = Tail(queue))]_vars
  BY DEF Next, vars, ProducerStep, PushWaits, PushFalse, PushTrue, ProducerReturns,
         ConsumerStep, PopWaits, PopFalse, PopTrue, SpuriousWakeup, SetShutdown,
         MainStep, NotifyAllNotEmpty, NotifyAllNotFull, Join, Terminated
<1> QED
  BY <1>1, PTL DEF Spec, ClosedToPushes

-----------------------------------------------------------------------------
(* A value in the queue, or received, is one that its producer has counted. *)
Pushed(seq) == \A k \in 1 .. Len(seq) : seq[k][2] < sent[seq[k][1]]
OnlyPushed == Pushed(queue) /\ Pushed(received)

LEMMA OnlyPushedStep == Inv /\ OnlyPushed /\ [Next]_vars => OnlyPushed'
<1> SUFFICES ASSUME Inv, OnlyPushed, [Next]_vars PROVE OnlyPushed'
  OBVIOUS
<1>0. /\ queue \in Seq(Values) /\ received \in Seq(Values)
      /\ sent \in [Producers -> 0 .. NumItems]
  BY DEF Inv, TypeOK
<1>1. ASSUME NEW p \in Producers, PushTrue(p) PROVE OnlyPushed'
  <2>1. /\ queue' = Append(queue, <<p, sent[p]>>) /\ received' = received
        /\ sent' = [sent EXCEPT ![p] = @ + 1]
    BY <1>1 DEF PushTrue
  <2>2. ASSUME NEW v \in Values, v[2] < sent[v[1]] PROVE v[2] < sent'[v[1]]
    <3>1. v[1] \in Producers /\ v[2] \in Nat
      BY DEF Values
    <3> QED
      BY <1>0, <2>1, <2>2, <3>1
  <2>3. Pushed(received)'
    <3> SUFFICES ASSUME NEW k \in 1 .. Len(received)
                 PROVE  received[k][2] < sent'[received[k][1]]
      BY <2>1 DEF Pushed
    <3>1. received[k] \in Values
      BY <1>0
    <3> QED
      BY <2>2, <3>1 DEF OnlyPushed, Pushed
  <2>4. Pushed(queue)'
    <3> SUFFICES ASSUME NEW k \in 1 .. Len(queue')
                 PROVE  queue'[k][2] < sent'[queue'[k][1]]
      BY DEF Pushed
    <3>1. CASE k = Len(queue) + 1
      <4>1. queue'[k] = <<p, sent[p]>>
        BY <1>0, <2>1, <3>1
      <4> QED
        BY <1>0, <2>1, <4>1
    <3>2. CASE k \in 1 .. Len(queue)
      <4>1. queue'[k] = queue[k] /\ queue[k] \in Values
        BY <1>0, <2>1, <3>2
      <4> QED
        BY <2>2, <3>2, <4>1 DEF OnlyPushed, Pushed
    <3> QED
      BY <1>0, <2>1, <3>1, <3>2
  <2> QED
    BY <2>3, <2>4 DEF OnlyPushed
<1>2. ASSUME NEW c \in Consumers, PopTrue(c) PROVE OnlyPushed'
  <2>1. /\ queue # <<>> /\ received' = Append(received, Head(queue))
        /\ queue' = Tail(queue) /\ sent' = sent
    BY <1>2 DEF PopTrue
  <2>2. Pushed(queue)'
    BY <1>0, <2>1 DEF OnlyPushed, Pushed
  <2>3. Head(queue) = queue[1] /\ 1 \in 1 .. Len(queue)
    BY <1>0, <2>1
  <2>4. Pushed(received)'
    BY <1>0, <2>1, <2>3 DEF OnlyPushed, Pushed
  <2> QED
    BY <2>2, <2>4 DEF OnlyPushed
<1>3. CASE UNCHANGED <<queue, received, sent>>
  BY <1>3 DEF OnlyPushed, Pushed
<1>4. ASSUME NEW p \in Producers, ProducerStep(p) PROVE OnlyPushed'
  BY <1>1, <1>3, <1>4 DEF ProducerStep, PushWaits, PushFalse, ProducerReturns
<1>5. ASSUME NEW c \in Consumers, ConsumerStep(c) PROVE OnlyPushed'
  BY <1>2, <1>3, <1>5 DEF ConsumerStep, PopWaits, PopFalse
<1>6. CASE SpuriousWakeup \/ SetShutdown \/ MainStep \/ Terminated \/ UNCHANGED vars
  BY <1>3, <1>6 DEF SpuriousWakeup, SetShutdown, MainStep, NotifyAllNotEmpty,
     NotifyAllNotFull, Join, Terminated, vars
<1> QED
  BY <1>4, <1>5, <1>6 DEF Next

(* Whatever threads block, wake and leave: values go through in the order   *)
(* in which the pushes took the lock, each once (46-48, 58-61).             *)
THEOREM ImplementsQueue == Spec => QueueSpec
<1>1. Init => Queue!Init /\ OnlyPushed
  BY DEF Init, Queue!Init, OnlyPushed, Pushed
<1>2. Inv /\ OnlyPushed /\ [Next]_vars => [Queue!Next]_Queue!vars
  <2> SUFFICES ASSUME Inv, OnlyPushed, [Next]_vars PROVE [Queue!Next]_Queue!vars
    OBVIOUS
  <2>1. ASSUME NEW p \in Producers, PushTrue(p) PROVE Queue!Next
    <3>1. /\ queue \in Seq(Values) /\ received \in Seq(Values)
          /\ sent[p] \in 0 .. NumItems /\ sent[p] < NumItems
      BY <2>1 DEF Inv, TypeOK, PushTrue, InPush
    <3>2. <<p, sent[p]>> \in Values
      BY <3>1, NumItemsAssumption DEF Values
    <3>3. <<p, sent[p]>> \notin Queue!Entered
      BY <3>1, SMTT(40) DEF OnlyPushed, Pushed, Queue!Entered
    <3>4. Queue!Enqueue(<<p, sent[p]>>)
      BY <2>1, <3>3 DEF PushTrue, Queue!Enqueue
    <3> QED
      BY <3>2, <3>4 DEF Queue!Next
  <2>2. ASSUME NEW c \in Consumers, PopTrue(c) PROVE Queue!Next
    BY <2>2 DEF PopTrue, Queue!Next, Queue!Dequeue
  <2>3. CASE UNCHANGED <<queue, received>>
    BY <2>3 DEF Queue!vars
  <2>4. ASSUME NEW p \in Producers, ProducerStep(p) PROVE [Queue!Next]_Queue!vars
    BY <2>1, <2>3, <2>4 DEF ProducerStep, PushWaits, PushFalse, ProducerReturns
  <2>5. ASSUME NEW c \in Consumers, ConsumerStep(c) PROVE [Queue!Next]_Queue!vars
    BY <2>2, <2>3, <2>5 DEF ConsumerStep, PopWaits, PopFalse
  <2>6. CASE SpuriousWakeup \/ SetShutdown \/ MainStep \/ Terminated \/ UNCHANGED vars
    BY <2>3, <2>6 DEF SpuriousWakeup, SetShutdown, MainStep, NotifyAllNotEmpty,
       NotifyAllNotFull, Join, Terminated, vars
  <2> QED
    BY <2>4, <2>5, <2>6 DEF Next
<1> QED
  BY Invariance, <1>1, <1>2, OnlyPushedStep, PTL DEF Spec, QueueSpec, Queue!Spec

-----------------------------------------------------------------------------
(* A producer leaves before stop() only when its loop is over (81-97).      *)
LeavesComplete == ~shutdown => \A p \in Producers \ running : sent[p] = NumItems

(* Only PushFalse and ProducerReturns let a producer go.                    *)
LEMMA LeavesCompleteStep ==
  Inv /\ LeavesComplete /\ [Next]_vars => LeavesComplete'
<1> SUFFICES ASSUME Inv, LeavesComplete, [Next]_vars, ~shutdown',
                    NEW q \in Producers \ running'
             PROVE  sent'[q] = NumItems
  BY DEF LeavesComplete
<1>0. sent \in [Producers -> 0 .. NumItems]
  BY DEF Inv, TypeOK
<1>1. ASSUME NEW p \in Producers, ProducerStep(p) PROVE sent'[q] = NumItems
  <2>1. CASE PushWaits(p) \/ ProducerReturns(p)
    BY <2>1 DEF LeavesComplete, PushWaits, ProducerReturns
  <2>2. CASE PushFalse(p)
    BY <2>2 DEF PushFalse
  <2>3. CASE PushTrue(p)
    BY <1>0, <2>3 DEF LeavesComplete, PushTrue, InPush
  <2> QED
    BY <1>1, <2>1, <2>2, <2>3 DEF ProducerStep
<1>2. ASSUME NEW c \in Consumers, ConsumerStep(c) PROVE sent'[q] = NumItems
  BY <1>2, ThreadsAssumption
  DEF LeavesComplete, ConsumerStep, PopWaits, PopFalse, PopTrue
<1>3. CASE SpuriousWakeup \/ SetShutdown \/ MainStep \/ Terminated \/ UNCHANGED vars
  BY <1>3 DEF LeavesComplete, SpuriousWakeup, SetShutdown, MainStep,
     NotifyAllNotEmpty, NotifyAllNotFull, Join, Terminated, vars
<1> QED
  BY <1>1, <1>2, <1>3 DEF Next

(* Nobody is awake on a side: then nobody is asleep on it for a reason.     *)
LEMMA NobodyAwake ==
  ASSUME Inv, ~shutdown, running \subseteq Asleep
  PROVE  /\ running \subseteq Consumers
         /\ queue = <<>>
<1>a. queue \in Seq(Values) /\ Len(queue) <= Capacity
  BY DEF Inv, TypeOK
<1>b. /\ not_full \subseteq Producers \cap running
      /\ not_empty \subseteq Consumers \cap running
      /\ running \subseteq Producers \cup Consumers
  BY DEF Inv, TypeOK
<1>0. Len(queue) \in Nat
  BY <1>a
<1>1. AwakeConsumers = {} /\ AwakeProducers = {}
  BY <1>b, ThreadsAssumption DEF AwakeConsumers, AwakeProducers, Asleep
<1>2. Cardinality(AwakeConsumers) = 0 /\ Cardinality(AwakeProducers) = 0
  BY <1>1, FS_EmptySet
<1>3. Consumers \subseteq running
  BY DEF Inv, LeavesOnlyDrained
<1>4. not_empty # {}
  BY <1>b, <1>3, ThreadsAssumption DEF Asleep
<1>5. Len(queue) <= 0
  BY <1>2, <1>4 DEF Inv, ConsumersNotStranded
<1>6. queue = <<>>
  BY <1>a, <1>0, <1>5
<1>7. not_full = {}
  <2> SUFFICES ASSUME not_full # {} PROVE FALSE
    OBVIOUS
  <2>1. Capacity - Len(queue) <= 0
    BY <1>2 DEF Inv, ProducersNotStranded
  <2> QED
    BY <1>0, <1>5, <2>1, CapacityAssumption
<1> QED
  BY <1>b, <1>6, <1>7 DEF Asleep

(* The threads cannot all be asleep before their work is done, and stop()   *)
(* leaves none asleep: the queue does not deadlock, for any numbers of      *)
(* threads and any capacity (41-73, 104-145).                               *)
THEOREM NoDeadlock == Spec => []NeverDeadlocked
<1>1. Init => LeavesComplete
  BY DEF Init, LeavesComplete
<1>2. Inv /\ LeavesComplete => AsleepOnlyWhenDone
  <2> SUFFICES ASSUME Inv, LeavesComplete, ~shutdown, running \subseteq Asleep,
                      NEW v \in Values
               PROVE  /\ running \subseteq Consumers
                      /\ \E k \in 1 .. Len(received) : received[k] = v
    BY NobodyAwake DEF AsleepOnlyWhenDone
  <2>1. running \subseteq Consumers /\ queue = <<>>
    BY NobodyAwake
  <2>2. PICK p \in Producers, n \in 0 .. NumItems - 1 : v = <<p, n>>
    BY DEF Values
  <2>3. sent[p] = NumItems
    BY <2>1, ThreadsAssumption DEF LeavesComplete
  <2>4. n \in 0 .. sent[p] - 1
    BY <2>3
  <2>5. ~\E k \in 1 .. Len(queue) : queue[k] = <<p, n>>
    BY <2>1
  <2>6. \E k \in 1 .. Len(received) : received[k] = <<p, n>>
    BY <2>4, <2>5 DEF Inv, Accounted
  <2> QED
    BY <2>1, <2>2, <2>6
<1>3. Inv => JoinsTheAwake
  <2> SUFFICES ASSUME Inv, main \in {"join", "end"} PROVE Asleep = {}
    BY DEF JoinsTheAwake
  <2>1. shutdown
    BY DEF Inv, InStop
  <2> QED
    BY <2>1 DEF Inv, ConsumersNotStranded, ProducersNotStranded, Asleep
<1> QED
  BY <1>1, <1>2, <1>3, Invariance, LeavesCompleteStep, InitInv, StepInv, PTL
  DEF Spec, NeverDeadlocked
=============================================================================
