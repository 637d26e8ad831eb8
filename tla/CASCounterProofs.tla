--------------------------- MODULE CASCounterProofs ---------------------------
(***************************************************************************)
(* CASCounter for any finite set of threads and any number of increments:  *)
(* the total is exact, and the loop is an atomic increment.                *)
(***************************************************************************)
EXTENDS CASCounter, FiniteSetTheorems, TLAPS

All == Threads \X (0 .. Increments - 1)

(* There are as many increments to make as threads times increments of one. *)
LEMMA AllCounted ==
  IsFiniteSet(All) /\ Cardinality(All) = Cardinality(Threads) * Increments
<1> USE ThreadsAssumption, IncrementsAssumption
<1>1. IsFiniteSet(0 .. Increments - 1) /\ Cardinality(0 .. Increments - 1) = Increments
  BY FS_Interval
<1> QED
  BY <1>1, FS_Product DEF All

(* So the increments made can be counted. *)
LEMMA MadeFinite == IsFiniteSet(Atomic!Made)
BY AllCounted, FS_Subset DEF All, Atomic!Made

(* An increment made by t adds one to the set of increments made. *)
LEMMA OneMoreMade ==
  ASSUME TypeOK, NEW t \in Threads, done[t] < Increments,
         done' = [done EXCEPT ![t] = @ + 1]
  PROVE  Cardinality(Atomic!Made') = Cardinality(Atomic!Made) + 1
<1> USE IncrementsAssumption
<1> DEFINE x == <<t, done[t]>>
<1>1. done[t] \in 0 .. Increments - 1 /\ x \in All
  BY DEF TypeOK, All
<1>2. x \notin Atomic!Made
  BY DEF TypeOK, Atomic!Made
<1>3. Atomic!Made' = Atomic!Made \cup {x}
  <2>1. ASSUME NEW y \in All
        PROVE  y \in Atomic!Made' <=> y \in Atomic!Made \/ y = x
    <3>1. y = <<y[1], y[2]>> /\ y[1] \in Threads /\ y[2] \in Nat
      BY DEF All
    <3>2. done[y[1]] \in Nat /\ done'[y[1]] = IF y[1] = t THEN done[t] + 1 ELSE done[y[1]]
      BY <3>1 DEF TypeOK
    <3>3. y \in Atomic!Made' <=> y[2] < done'[y[1]]
      BY DEF All, Atomic!Made
    <3>4. y \in Atomic!Made <=> y[2] < done[y[1]]
      BY DEF All, Atomic!Made
    <3>5. y = x <=> y[1] = t /\ y[2] = done[t]
      BY <3>1
    <3> QED
      BY <3>1, <3>2, <3>3, <3>4, <3>5
  <2>2. Atomic!Made \subseteq All /\ Atomic!Made' \subseteq All
    BY DEF All, Atomic!Made
  <2> QED
    BY <2>1, <2>2, <1>1
<1> QED
  BY <1>2, <1>3, MadeFinite, FS_AddElement

(* Each step keeps the types. *)
LEMMA Typing == TypeOK /\ [Next]_vars => TypeOK'
<1> SUFFICES ASSUME TypeOK, [Next]_vars PROVE TypeOK'
  OBVIOUS
<1> USE IncrementsAssumption DEF TypeOK
<1>1. ASSUME NEW t \in Threads, Load(t) PROVE TypeOK'
  BY <1>1 DEF Load
<1>2. ASSUME NEW t \in Threads, CASSucceeds(t) PROVE TypeOK'
  BY <1>2 DEF CASSucceeds
<1>3. ASSUME NEW t \in Threads, CASFails(t) PROVE TypeOK'
  BY <1>3 DEF CASFails
<1>4. CASE Join
  BY <1>4 DEF Join
<1>5. CASE UNCHANGED vars
  BY <1>5 DEF vars
<1> QED
  BY <1>1, <1>2, <1>3, <1>4, <1>5 DEF Next, ThreadStep, Terminated

(* Only an exchange that succeeds changes the counter or what was made. *)
LEMMA Counting == Inv /\ [Next]_vars => EveryIncrementCounts'
<1> SUFFICES ASSUME Inv, [Next]_vars PROVE EveryIncrementCounts'
  OBVIOUS
<1>1. ASSUME NEW t \in Threads, CASSucceeds(t) PROVE EveryIncrementCounts'
  <2>1. done[t] < Increments /\ counter2' = counter2 + 1
    BY <1>1 DEF CASSucceeds, Inv, TypeOK
  <2> QED
    BY <1>1, <2>1, OneMoreMade DEF CASSucceeds, Inv, EveryIncrementCounts
<1>2. CASE UNCHANGED <<counter2, done>>
  BY <1>2 DEF Inv, EveryIncrementCounts, Atomic!Made
<1> QED
  BY <1>1, <1>2 DEF Next, ThreadStep, Load, CASFails, Join, Terminated, vars

(* Main passes its joins when all are done, and nobody is done less later. *)
LEMMA Ending == Inv /\ [Next]_vars => AtEnd'
<1> SUFFICES ASSUME Inv, [Next]_vars PROVE AtEnd'
  OBVIOUS
<1> USE IncrementsAssumption DEF Inv, AtEnd, TypeOK
<1>1. ASSUME NEW t \in Threads, CASSucceeds(t) PROVE AtEnd'
  BY <1>1 DEF CASSucceeds
<1>2. CASE Join
  BY <1>2 DEF Join
<1>3. CASE UNCHANGED <<done, main>>
  BY <1>3
<1> QED
  BY <1>1, <1>2, <1>3 DEF Next, ThreadStep, Load, CASFails, Terminated, vars

(* Nothing is made and the counter is 0. *)
LEMMA Initially == Init => Inv
<1> SUFFICES ASSUME Init PROVE Inv
  OBVIOUS
<1> USE IncrementsAssumption DEF Init
<1>1. Atomic!Made = {}
  BY DEF Atomic!Made
<1> QED
  BY <1>1, FS_EmptySet DEF Inv, TypeOK, EveryIncrementCounts, AtEnd

(* The counter is the number of increments made (lines 260-269), however    *)
(* many threads race.                                                       *)
THEOREM Invariance == Spec => []Inv
<1>1. Inv /\ [Next]_vars => Inv'
  BY Typing, Counting, Ending DEF Inv
<1> QED
  BY Initially, <1>1, PTL DEF Spec

(* The assertion of line 286, for any number of threads and increments.     *)
THEOREM ExactTotal == Spec => []TotalIsExact
<1>1. Inv => TotalIsExact
  <2> SUFFICES ASSUME Inv, main = "end"
               PROVE  counter2 = Cardinality(Threads) * Increments
    BY DEF TotalIsExact
  <2>1. Atomic!Made = All
    BY IncrementsAssumption DEF Inv, AtEnd, All, Atomic!Made
  <2> QED
    BY <2>1, AllCounted DEF Inv, EveryIncrementCounts
<1> QED
  BY Invariance, <1>1, PTL

(* The loop of load and compare-exchange (262-268) implements fetch_add     *)
(* (lines 15 of atomic_counter.cpp, 245): it takes effect at the exchange   *)
(* that succeeds, and every other step is invisible.                        *)
THEOREM ImplementsAtomic == Spec => AtomicSpec
<1>1. Init => Atomic!Init
  BY DEF Init, Atomic!Init
<1>2. Inv /\ [Next]_vars => [Atomic!Next]_Atomic!vars
  <2> SUFFICES ASSUME Inv, [Next]_vars PROVE [Atomic!Next]_Atomic!vars
    OBVIOUS
  <2>1. ASSUME NEW t \in Threads, CASSucceeds(t) PROVE Atomic!Next
    <3>1. done[t] < Increments
      BY <2>1 DEF CASSucceeds, Inv, TypeOK
    <3> QED
      BY <2>1, <3>1 DEF CASSucceeds, Atomic!Next, Atomic!Increment
  <2>2. CASE UNCHANGED <<counter2, done>>
    BY <2>2 DEF Atomic!vars
  <2> QED
    BY <2>1, <2>2 DEF Next, ThreadStep, Load, CASFails, Join, Terminated, vars
<1> QED
  BY Invariance, <1>1, <1>2, PTL DEF Spec, AtomicSpec, Atomic!Spec
=============================================================================
