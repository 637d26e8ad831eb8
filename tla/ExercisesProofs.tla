-------------------------- MODULE ExercisesProofs --------------------------
(***************************************************************************)
(* The five programs, for any variables, threads and calls. The            *)
(* pointers: the count is the number of pointers, and a Worker is deleted  *)
(* with the last one and no earlier. The files: a stream has one owner.    *)
(* The calls of the semaphore: one unit, in order. The strings and         *)
(* optionals: a buffer has one owner, through any constructions,           *)
(* assignments and swaps, in the middle of which Temp or a string that is  *)
(* being assigned to owns it, or nothing; and a call changes what it names *)
(* to what it promises, and no more. The index: each object is listed      *)
(* where the map locates it, and elsewhere only if it was created over.    *)
(***************************************************************************)
EXTENDS Exercises, SequenceTheorems, FiniteSetTheorems, TLAPS

-----------------------------------------------------------------------------
(* Pointers to Workers.                                                     *)

(* Pointers can be counted; one more or one less counts for one.            *)
LEMMA CountPtrs ==
  ASSUME NEW S \in SUBSET Ptrs
  PROVE  /\ IsFiniteSet(S) /\ Cardinality(S) \in Nat
         /\ Cardinality(S) = 0 <=> S = {}
         /\ \A p \in Ptrs \ S : Cardinality(S \cup {p}) = Cardinality(S) + 1
         /\ \A p \in S : /\ Cardinality(S \ {p}) = Cardinality(S) - 1
                         /\ Cardinality(S) = 1 => S = {p}
<1>1. IsFiniteSet(S)
  BY PtrsAssumption, FS_Subset
<1>2. Cardinality(S) \in Nat /\ (Cardinality(S) = 0 <=> S = {})
  BY <1>1, FS_CardinalityType, FS_EmptySet
<1>3. \A p \in Ptrs \ S : Cardinality(S \cup {p}) = Cardinality(S) + 1
  BY <1>1, FS_AddElement
<1>4. ASSUME NEW p \in S
      PROVE  /\ Cardinality(S \ {p}) = Cardinality(S) - 1
             /\ Cardinality(S) = 1 => S = {p}
  <2>1. Cardinality(S \ {p}) = Cardinality(S) - 1
    BY <1>1, FS_RemoveElement
  <2>2. IsFiniteSet(S \ {p})
    BY <1>1, FS_Subset
  <2>3. Cardinality(S) = 1 => Cardinality(S \ {p}) = 0
    BY <2>1
  <2>4. Cardinality(S \ {p}) = 0 => S \ {p} = {}
    BY <2>2, FS_EmptySet
  <2> QED
    BY <2>1, <2>3, <2>4
<1> QED
  BY <1>1, <1>2, <1>3, <1>4

(* The holders are pointers. *)
LEMMA HoldersType == \A w : Holders(w) \in SUBSET Ptrs
  BY DEF Holders

(* Nothing is allocated and nothing points. *)
LEMMA InitPtrInv == PtrInit => PtrInv
<1> SUFFICES ASSUME PtrInit PROVE PtrInv
  OBVIOUS
<1> USE PtrNullAssumption DEF PtrInit
<1>1. PtrTypeOK
  BY DEF PtrTypeOK
<1>2. PointeesLive /\ CountExact /\ DeletesAlone
  BY DEF PointeesLive, CountExact, DeletesAlone
<1>3. AddsAlive /\ FromInCopy /\ NoWorkerLeaks
  BY DEF AddsAlive, FromInCopy, NoWorkerLeaks
<1> QED
  BY <1>1, <1>2, <1>3 DEF PtrInv

(* Nothing points to where a Worker is created (96-109).                    *)
LEMMA CreateWorkerInv == ASSUME PtrInv, NEW p \in Ptrs, CreateWorker(p) PROVE PtrInv'
<1> USE PtrNullAssumption DEF PtrInv
<1>1. PICK w \in Workers \ allocated :
        /\ allocated' = allocated \cup {w}
        /\ ref_count' = [ref_count EXCEPT ![w] = 0]
        /\ px' = [px EXCEPT ![p] = w]
  BY DEF CreateWorker
<1>2. /\ doing[p] = "nothing" /\ px[p] = NoWorker
      /\ doing' = [doing EXCEPT ![p] = "adding"] /\ from' = from
  BY DEF CreateWorker
<1>3. \A q \in Ptrs : /\ px[q] # w
                      /\ px'[q] = IF q = p THEN w ELSE px[q]
                      /\ doing'[q] = IF q = p THEN "adding" ELSE doing[q]
  BY <1>1, <1>2 DEF PointeesLive, PtrTypeOK
<1>4. PtrTypeOK'
  BY <1>1, <1>2 DEF PtrTypeOK
<1>5. PointeesLive'
  BY <1>1, <1>3 DEF PointeesLive
<1>6. CountExact'
  <2> SUFFICES ASSUME NEW v \in allocated' PROVE ref_count'[v] = Cardinality(Holders(v)')
    BY DEF CountExact
  <2>1. CASE v = w
    <3>1. Holders(v)' = {}
      BY <1>3, <2>1 DEF Holders
    <3>2. ref_count'[v] = 0
      BY <1>1, <2>1 DEF PtrTypeOK
    <3> QED
      BY <3>1, <3>2, FS_EmptySet
  <2>2. CASE v # w
    <3>1. Holders(v)' = Holders(v)
      <4>1. v # NoWorker
        BY <1>1, <2>2 DEF PtrTypeOK
      <4> QED
        BY <1>2, <1>3, <2>2, <4>1 DEF Holders
    <3>2. ref_count'[v] = ref_count[v] /\ v \in allocated
      BY <1>1, <2>2 DEF PtrTypeOK
    <3> QED
      BY <3>1, <3>2 DEF CountExact
  <2> QED
    BY <2>1, <2>2
<1>7. DeletesAlone'
  BY <1>3 DEF DeletesAlone
<1>8. AddsAlive'
  <2> SUFFICES ASSUME NEW q \in Ptrs, doing'[q] = "adding"
               PROVE  /\ px'[q] # NoWorker
                      /\ IF from[q] = NoWorker
                         THEN \A r \in Ptrs : px'[r] = px'[q] => r = q
                         ELSE /\ from[q] \in Ptrs /\ px'[from[q]] = px'[q]
                              /\ doing'[from[q]] = "nothing"
    BY <1>2 DEF AddsAlive, Holders
  <2>1. CASE q = p
    BY <1>2, <1>3, <2>1 DEF FromInCopy
  <2>2. CASE q # p
    <3>1. from[q] # p
      BY <1>2, <1>3, <2>2 DEF AddsAlive, Holders
    <3> QED
      BY <1>3, <2>2, <3>1 DEF AddsAlive, Holders
  <2> QED
    BY <2>1, <2>2
<1>9. FromInCopy'
  BY <1>2, <1>3 DEF FromInCopy
<1>10. NoWorkerLeaks'
  BY <1>1, <1>2, <1>3 DEF NoWorkerLeaks, PtrTypeOK
<1> QED
  BY <1>4, <1>5, <1>6, <1>7, <1>8, <1>9, <1>10

(* A copy is made from a pointer that counts. *)
LEMMA CopyPtrInv ==
  ASSUME PtrInv, NEW p \in Ptrs, NEW q \in Ptrs, CopyPtr(p, q)
  PROVE  PtrInv'
<1> USE PtrNullAssumption DEF PtrInv
<1>1. /\ doing[p] = "nothing" /\ px[p] = NoWorker
      /\ doing[q] = "nothing" /\ px[q] # NoWorker
      /\ px' = [px EXCEPT ![p] = px[q]]
      /\ from' = [from EXCEPT ![p] = q]
      /\ doing' = [doing EXCEPT ![p] = "adding"]
      /\ UNCHANGED <<ref_count, allocated>>
  BY DEF CopyPtr
<1>2. \A r \in Ptrs : /\ px'[r] = IF r = p THEN px[q] ELSE px[r]
                      /\ doing'[r] = IF r = p THEN "adding" ELSE doing[r]
                      /\ from'[r] = IF r = p THEN q ELSE from[r]
  BY <1>1 DEF PtrTypeOK
<1>3. PtrTypeOK'
  BY <1>1 DEF PtrTypeOK
<1>4. PointeesLive'
  BY <1>1, <1>2 DEF PointeesLive
<1>5. CountExact'
  <2>1. \A w \in allocated : w # NoWorker
    BY DEF PtrTypeOK
  <2>2. \A w \in allocated : Holders(w)' = Holders(w)
    BY <1>1, <1>2, <2>1 DEF Holders
  <2> QED
    BY <1>1, <2>2 DEF CountExact
<1>6. DeletesAlone'
  BY <1>1, <1>2 DEF DeletesAlone
<1>7. AddsAlive'
  <2> SUFFICES ASSUME NEW r \in Ptrs, doing'[r] = "adding"
               PROVE  /\ px'[r] # NoWorker
                      /\ IF from'[r] = NoWorker
                         THEN \A s \in Ptrs : px'[s] = px'[r] => s = r
                         ELSE /\ from'[r] \in Ptrs /\ px'[from'[r]] = px'[r]
                              /\ doing'[from'[r]] = "nothing"
    BY DEF AddsAlive, Holders
  <2>1. CASE r = p
    BY <1>1, <1>2, <2>1
  <2>2. CASE r # p
    <3>1. doing[r] = "adding" /\ px[r] # NoWorker /\ from'[r] = from[r] /\ px'[r] = px[r]
      BY <1>2, <2>2 DEF AddsAlive
    <3>2. CASE from[r] = NoWorker
      <4>1. px[q] # px[r]
        BY <1>1, <3>1, <3>2 DEF AddsAlive
      <4> QED
        BY <1>2, <3>1, <3>2, <4>1 DEF AddsAlive
    <3>3. CASE from[r] # NoWorker
      <4>1. from[r] \in Ptrs /\ px[from[r]] = px[r] /\ doing[from[r]] = "nothing"
        BY <3>1, <3>3 DEF AddsAlive, Holders
      <4>2. from[r] # p
        BY <1>1, <3>1, <4>1
      <4> QED
        BY <1>2, <3>1, <3>3, <4>1, <4>2
    <3> QED
      BY <3>2, <3>3
  <2> QED
    BY <2>1, <2>2
<1>8. FromInCopy'
  BY <1>2 DEF FromInCopy
<1>9. NoWorkerLeaks'
  BY <1>1, <1>2 DEF NoWorkerLeaks, PtrTypeOK
<1> QED
  BY <1>3, <1>4, <1>5, <1>6, <1>7, <1>8, <1>9

(* The pointer counts from now on (111-113). *)
LEMMA AddRefInv == ASSUME PtrInv, NEW p \in Ptrs, AddRef(p) PROVE PtrInv'
<1> USE PtrNullAssumption DEF PtrInv
<1> DEFINE w == px[p]
<1>1. /\ doing[p] = "adding"
      /\ ref_count' = [ref_count EXCEPT ![w] = @ + 1]
      /\ doing' = [doing EXCEPT ![p] = "nothing"]
      /\ from' = [from EXCEPT ![p] = NoWorker]
      /\ UNCHANGED <<allocated, px>>
  BY DEF AddRef
<1>2. w # NoWorker /\ w \in allocated /\ w \in Workers
  BY <1>1 DEF AddsAlive, PointeesLive, PtrTypeOK
<1>3. \A r \in Ptrs : /\ doing'[r] = IF r = p THEN "nothing" ELSE doing[r]
                      /\ from'[r] = IF r = p THEN NoWorker ELSE from[r]
  BY <1>1 DEF PtrTypeOK
<1>4. ref_count' \in [Workers -> Nat]
  <2>1. ref_count \in [Workers -> Nat]
    BY DEF PtrTypeOK
  <2>2. ref_count' = [ref_count EXCEPT ![w] = ref_count[w] + 1]
    BY <1>1
  <2>3. ref_count[w] + 1 \in Nat
    BY <1>2, <2>1
  <2> QED
    BY <2>1, <2>2, <2>3, Zenon
<1>5. PtrTypeOK'
  BY <1>1, <1>4 DEF PtrTypeOK
<1>6. PointeesLive'
  BY <1>1 DEF PointeesLive
<1>7. CountExact'
  <2> SUFFICES ASSUME NEW v \in allocated PROVE ref_count'[v] = Cardinality(Holders(v)')
    BY <1>1 DEF CountExact
  <2>1. CASE v = w
    <3>1. Holders(v)' = Holders(v) \cup {p} /\ p \in Ptrs \ Holders(v)
      BY <1>1, <1>3, <2>1 DEF Holders
    <3>2. Cardinality(Holders(v)') = Cardinality(Holders(v)) + 1
      BY <3>1, HoldersType, CountPtrs
    <3>3. ref_count'[v] = ref_count[v] + 1
      BY <1>1, <1>2, <2>1 DEF PtrTypeOK
    <3> QED
      BY <3>2, <3>3 DEF CountExact
  <2>2. CASE v # w
    <3>1. Holders(v)' = Holders(v)
      BY <1>1, <1>3, <2>2 DEF Holders
    <3>2. ref_count'[v] = ref_count[v]
      BY <1>1, <2>2 DEF PtrTypeOK
    <3> QED
      BY <3>1, <3>2 DEF CountExact
  <2> QED
    BY <2>1, <2>2
<1>8. DeletesAlone' /\ FromInCopy' /\ NoWorkerLeaks'
  BY <1>1, <1>3 DEF DeletesAlone, FromInCopy, NoWorkerLeaks
<1>9. AddsAlive'
  <2> SUFFICES ASSUME NEW r \in Ptrs, doing'[r] = "adding"
               PROVE  /\ px[r] # NoWorker
                      /\ IF from'[r] = NoWorker
                         THEN \A s \in Ptrs : px[s] = px[r] => s = r
                         ELSE /\ from'[r] \in Ptrs /\ px[from'[r]] = px[r]
                              /\ doing'[from'[r]] = "nothing"
    BY <1>1 DEF AddsAlive, Holders
  <2>1. r # p /\ doing[r] = "adding" /\ from'[r] = from[r]
    BY <1>3
  <2> QED
    BY <1>3, <2>1 DEF AddsAlive, Holders
<1> QED
  BY <1>5, <1>6, <1>7, <1>8, <1>9

(* The pointer counts no more, and no copy is being made from it: if it was *)
(* the last that counts, it is the last of all (115-119).                   *)
LEMMA ReleasePtrInv == ASSUME PtrInv, NEW p \in Ptrs, ReleasePtr(p) PROVE PtrInv'
<1> USE PtrNullAssumption DEF PtrInv
<1> DEFINE w == px[p]
<1>1. /\ doing[p] = "nothing" /\ w # NoWorker
      /\ \A q \in Ptrs : from[q] # p
      /\ ref_count' = [ref_count EXCEPT ![w] = @ - 1]
      /\ UNCHANGED <<allocated, from>>
  BY DEF ReleasePtr, InScope
<1>2. \/ /\ ref_count[w] = 1
         /\ doing' = [doing EXCEPT ![p] = "deleting"] /\ px' = px
      \/ /\ ref_count[w] # 1
         /\ px' = [px EXCEPT ![p] = NoWorker] /\ doing' = doing
  BY DEF ReleasePtr
<1>3. w \in allocated /\ w \in Workers /\ p \in Holders(w)
  BY <1>1 DEF PointeesLive, PtrTypeOK, Holders
<1>4. /\ Holders(w) \in SUBSET Ptrs /\ Cardinality(Holders(w)) \in Nat
      /\ Cardinality(Holders(w)) # 0
      /\ Cardinality(Holders(w) \ {p}) = Cardinality(Holders(w)) - 1
  BY <1>3, HoldersType, CountPtrs
<1>5. ref_count[w] = Cardinality(Holders(w))
  BY <1>3 DEF CountExact
<1>6. ref_count[w] - 1 \in Nat
  BY <1>4, <1>5
<1>7. ref_count' \in [Workers -> Nat]
  <2>1. ref_count \in [Workers -> Nat]
    BY DEF PtrTypeOK
  <2>2. ref_count' = [ref_count EXCEPT ![w] = ref_count[w] - 1]
    BY <1>1
  <2> QED
    BY <1>6, <2>1, <2>2, Zenon
<1>8. PtrTypeOK'
  BY <1>1, <1>2, <1>7 DEF PtrTypeOK
<1>9. PointeesLive'
  BY <1>1, <1>2 DEF PointeesLive, PtrTypeOK
<1>10. ASSUME NEW v, v = w
       PROVE  Holders(v)' = Holders(v) \ {p}
  BY <1>1, <1>2, <1>10 DEF Holders, PtrTypeOK
<1>11. ASSUME NEW v \in Workers, v # w
       PROVE  Holders(v)' = Holders(v)
  BY <1>1, <1>2, <1>11 DEF Holders, PtrTypeOK
<1>12. CountExact'
  <2> SUFFICES ASSUME NEW v \in allocated PROVE ref_count'[v] = Cardinality(Holders(v)')
    BY <1>1 DEF CountExact
  <2>1. v \in Workers
    BY DEF PtrTypeOK
  <2>2. CASE v = w
    <3>1. Holders(v)' = Holders(w) \ {p}
      BY <1>10, <2>2
    <3>2. ref_count'[v] = ref_count[w] - 1
      BY <1>1, <1>3, <2>2 DEF PtrTypeOK
    <3> QED
      BY <1>4, <1>5, <3>1, <3>2
  <2>3. CASE v # w
    <3>1. ref_count'[v] = ref_count[v]
      BY <1>1, <2>1, <2>3 DEF PtrTypeOK
    <3> QED
      BY <1>11, <2>1, <2>3, <3>1 DEF CountExact
  <2> QED
    BY <2>2, <2>3
<1>13. CASE ref_count[w] = 1
  <2>1. doing' = [doing EXCEPT ![p] = "deleting"] /\ px' = px
    BY <1>2, <1>13
  <2>2. Holders(w) = {p}
    <3>1. Cardinality(Holders(w)) = 1
      BY <1>5, <1>13
    <3> QED
      BY <1>3, <1>4, <3>1, CountPtrs
  <2>3. ASSUME NEW q \in Ptrs, px[q] = w, q # p PROVE FALSE
    <3>1. doing[q] # "nothing"
      BY <2>2, <2>3 DEF Holders
    <3>2. CASE doing[q] = "adding"
      <4>1. from[q] # NoWorker
        BY <2>3, <3>2 DEF AddsAlive
      <4>2. from[q] \in Holders(w)
        BY <2>3, <3>2, <4>1 DEF AddsAlive
      <4> QED
        BY <1>1, <2>2, <4>2
    <3>3. CASE doing[q] = "deleting"
      BY <2>3, <3>3 DEF DeletesAlone
    <3> QED
      BY <3>1, <3>2, <3>3 DEF PtrTypeOK
  <2>4. DeletesAlone'
    BY <1>1, <2>1, <2>3 DEF DeletesAlone, PtrTypeOK
  <2>5. AddsAlive'
    <3> SUFFICES ASSUME NEW r \in Ptrs, doing'[r] = "adding"
                 PROVE  /\ px[r] # NoWorker
                        /\ IF from[r] = NoWorker
                           THEN \A s \in Ptrs : px[s] = px[r] => s = r
                           ELSE /\ from[r] \in Ptrs /\ px[from[r]] = px[r]
                                /\ doing'[from[r]] = "nothing"
      BY <1>1, <2>1 DEF AddsAlive, Holders
    <3>1. doing[r] = "adding" /\ from[r] # p
      BY <1>1, <2>1 DEF PtrTypeOK
    <3> QED
      BY <2>1, <3>1 DEF AddsAlive, Holders, PtrTypeOK
  <2>6. FromInCopy' /\ NoWorkerLeaks'
    BY <1>1, <2>1 DEF FromInCopy, NoWorkerLeaks, PtrTypeOK
  <2> QED
    BY <1>8, <1>9, <1>12, <2>4, <2>5, <2>6
<1>14. CASE ref_count[w] # 1
  <2>1. px' = [px EXCEPT ![p] = NoWorker] /\ doing' = doing
    BY <1>2, <1>14
  <2>2. \A r \in Ptrs : px'[r] = IF r = p THEN NoWorker ELSE px[r]
    BY <2>1 DEF PtrTypeOK
  <2>3. DeletesAlone'
    BY <1>1, <2>1, <2>2 DEF DeletesAlone
  <2>4. AddsAlive'
    <3> SUFFICES ASSUME NEW r \in Ptrs, doing[r] = "adding"
                 PROVE  /\ px'[r] # NoWorker
                        /\ IF from[r] = NoWorker
                           THEN \A s \in Ptrs : px'[s] = px'[r] => s = r
                           ELSE /\ from[r] \in Ptrs /\ px'[from[r]] = px'[r]
                                /\ doing[from[r]] = "nothing"
      BY <1>1, <2>1 DEF AddsAlive, Holders
    <3>1. r # p /\ from[r] # p /\ px'[r] = px[r]
      BY <1>1, <2>2
    <3> QED
      BY <2>2, <3>1 DEF AddsAlive, Holders
  <2>5. FromInCopy'
    BY <1>1, <2>1 DEF FromInCopy
  <2>6. NoWorkerLeaks'
    <3>1. Cardinality(Holders(w) \ {p}) # 0
      BY <1>4, <1>5, <1>14
    <3>2. Holders(w) \ {p} # {}
      BY <3>1, FS_EmptySet
    <3>3. PICK q \in Ptrs : q # p /\ px[q] = w
      BY <3>2 DEF Holders
    <3> QED
      BY <1>1, <2>2, <3>3 DEF NoWorkerLeaks
  <2> QED
    BY <1>8, <1>9, <1>12, <2>3, <2>4, <2>5, <2>6
<1> QED
  BY <1>13, <1>14

(* The last pointer deletes the Worker (117). *)
LEMMA DeleteWorkerInv == ASSUME PtrInv, NEW p \in Ptrs, DeleteWorker(p) PROVE PtrInv'
<1> USE PtrNullAssumption DEF PtrInv
<1> DEFINE w == px[p]
<1>1. /\ doing[p] = "deleting"
      /\ allocated' = allocated \ {w}
      /\ px' = [px EXCEPT ![p] = NoWorker]
      /\ doing' = [doing EXCEPT ![p] = "nothing"]
      /\ UNCHANGED <<ref_count, from>>
  BY DEF DeleteWorker
<1>2. w # NoWorker /\ \A q \in Ptrs : px[q] = w => q = p
  BY <1>1 DEF DeletesAlone
<1>3. \A r \in Ptrs : /\ px'[r] = IF r = p THEN NoWorker ELSE px[r]
                      /\ doing'[r] = IF r = p THEN "nothing" ELSE doing[r]
  BY <1>1 DEF PtrTypeOK
<1>4. PtrTypeOK'
  BY <1>1 DEF PtrTypeOK
<1>5. PointeesLive'
  BY <1>1, <1>2, <1>3 DEF PointeesLive
<1>6. CountExact'
  <2> SUFFICES ASSUME NEW v \in allocated' PROVE ref_count[v] = Cardinality(Holders(v)')
    BY <1>1 DEF CountExact
  <2>1. v \in allocated /\ v # w /\ v # NoWorker
    BY <1>1 DEF PtrTypeOK
  <2>2. Holders(v)' = Holders(v)
    BY <1>3, <2>1 DEF Holders
  <2> QED
    BY <2>1, <2>2 DEF CountExact
<1>7. DeletesAlone' /\ FromInCopy'
  BY <1>1, <1>3 DEF DeletesAlone, FromInCopy
<1>8. AddsAlive'
  <2> SUFFICES ASSUME NEW r \in Ptrs, doing'[r] = "adding"
               PROVE  /\ px'[r] # NoWorker
                      /\ IF from[r] = NoWorker
                         THEN \A s \in Ptrs : px'[s] = px'[r] => s = r
                         ELSE /\ from[r] \in Ptrs /\ px'[from[r]] = px'[r]
                              /\ doing'[from[r]] = "nothing"
    BY <1>1 DEF AddsAlive, Holders
  <2>1. r # p /\ doing[r] = "adding" /\ px'[r] = px[r] /\ px[r] # NoWorker
    BY <1>3 DEF AddsAlive
  <2>2. from[r] # NoWorker => from[r] \in Ptrs /\ doing[from[r]] = "nothing"
    BY <2>1 DEF AddsAlive, Holders
  <2>3. from[r] # p
    BY <1>1, <2>2
  <2> QED
    BY <1>3, <2>1, <2>2, <2>3 DEF AddsAlive, Holders
<1>9. NoWorkerLeaks'
  BY <1>1, <1>3 DEF NoWorkerLeaks
<1> QED
  BY <1>4, <1>5, <1>6, <1>7, <1>8, <1>9

(* Every step of every thread.                                              *)
LEMMA StepPtrInv == PtrInv /\ [PtrNext]_ptrVars => PtrInv'
<1> SUFFICES ASSUME PtrInv, [PtrNext]_ptrVars PROVE PtrInv'
  OBVIOUS
<1>1. ASSUME NEW p \in Ptrs,
             \/ CreateWorker(p) \/ AddRef(p) \/ ReleasePtr(p) \/ DeleteWorker(p)
             \/ \E q \in Ptrs : CopyPtr(p, q)
      PROVE  PtrInv'
  BY <1>1, CreateWorkerInv, AddRefInv, ReleasePtrInv, DeleteWorkerInv, CopyPtrInv
<1>2. CASE UNCHANGED ptrVars
  <2> USE <1>2 DEF PtrInv, ptrVars
  <2>1. PtrTypeOK' /\ PointeesLive' /\ DeletesAlone' /\ FromInCopy' /\ NoWorkerLeaks'
    BY DEF PtrTypeOK, PointeesLive, DeletesAlone, FromInCopy, NoWorkerLeaks
  <2>2. \A w : Holders(w)' = Holders(w)
    BY DEF Holders
  <2>3. CountExact'
    BY <2>2 DEF CountExact
  <2>4. AddsAlive'
    BY DEF AddsAlive, Holders
  <2> QED
    BY <2>1, <2>3, <2>4
<1> QED
  BY <1>1, <1>2 DEF PtrNext

-----------------------------------------------------------------------------
(* Files and their streams.                                                 *)

FileTypeOK == /\ handle \in [Files -> Streams \cup {NoStream, NoFile}]
              /\ open \in SUBSET Streams
FileInv == FileTypeOK /\ StreamsOwned

(* No stream is open, and no File exists.                                   *)
LEMMA InitFileInv == FileInit => FileInv
  BY FileNullAssumption DEF FileInit, FileInv, FileTypeOK, StreamsOwned

(* fopen returns a stream that nobody has: it was closed, or is new.        *)
LEMMA OpenFileInv == ASSUME FileInv, NEW f \in Files, OpenFile(f) PROVE FileInv'
<1> USE FileNullAssumption DEF FileInv, FileTypeOK, OpenFile, Constructed
<1>1. FileTypeOK'
  OBVIOUS
<1>2. StreamsOwned'
  BY DEF StreamsOwned
<1> QED
  BY <1>1, <1>2

(* The destructor closes the stream of its own File and of no other.        *)
LEMMA CloseFileInv == ASSUME FileInv, NEW f \in Files, CloseFile(f) PROVE FileInv'
<1> USE FileNullAssumption DEF FileInv, FileTypeOK, CloseFile, Constructed, Close
<1>1. FileTypeOK'
  OBVIOUS
<1>2. StreamsOwned'
  BY DEF StreamsOwned
<1> QED
  BY <1>1, <1>2

(* The stream has a new owner, and the old one nothing to close.            *)
LEMMA MoveFileInv ==
  ASSUME FileInv, NEW f \in Files, NEW g \in Files, MoveFile(f, g) PROVE FileInv'
<1> USE FileNullAssumption DEF FileInv, FileTypeOK, MoveFile, Constructed
<1>1. FileTypeOK'
  OBVIOUS
<1>2. StreamsOwned'
  BY DEF StreamsOwned
<1> QED
  BY <1>1, <1>2

(* The stream that was open is closed before its handle is overwritten.     *)
LEMMA MoveAssignFileInv ==
  ASSUME FileInv, NEW f \in Files, NEW g \in Files, MoveAssignFile(f, g) PROVE FileInv'
<1> USE FileNullAssumption DEF FileInv, FileTypeOK, MoveAssignFile, Constructed, Close
<1>1. FileTypeOK'
  OBVIOUS
<1>2. StreamsOwned'
  BY DEF StreamsOwned
<1> QED
  BY <1>1, <1>2

(* Every call on a File.                                                    *)
LEMMA StepFileInv == FileInv /\ [FileNext]_fileVars => FileInv'
<1> SUFFICES ASSUME FileInv, [FileNext]_fileVars PROVE FileInv'
  OBVIOUS
<1>1. CASE FileNext
  BY <1>1, OpenFileInv, CloseFileInv, MoveFileInv, MoveAssignFileInv DEF FileNext
<1>2. CASE UNCHANGED fileVars
  BY <1>2 DEF fileVars, FileInv, FileTypeOK, StreamsOwned
<1> QED
  BY <1>1, <1>2

-----------------------------------------------------------------------------
(* The calls that share the unit of a semaphore.                            *)

(* The calls that have the unit, and the one, if any, that was granted it   *)
(* and whose lambda has not run: it comes between those served and those    *)
(* that wait.                                                               *)
HasUnit == {i \in Tasks : task[i] \in {"granted", "sleeping"}}
Granted(i) == task[i] = "granted"

SemTypeOK == /\ units \in {0, 1}
             /\ waiters \in Seq(Tasks)
             /\ called \in Seq(Tasks) /\ served \in Seq(Tasks)
             /\ task \in [Tasks -> {"to call", "waiting", "granted", "sleeping",
                                    "released", "done"}]

UnitHeld == \/ units = 1 /\ HasUnit = {} /\ waiters = <<>>
            \/ units = 0 /\ \E i \in Tasks : HasUnit = {i}

CalledInOrder ==
  /\ (\A i \in Tasks : ~Granted(i)) => called = served \o waiters
  /\ \A i \in Tasks : Granted(i) => called = Append(served, i) \o waiters

SemInductive == SemTypeOK /\ UnitHeld /\ CalledInOrder

(* The numbers that count one unit.                                         *)
LEMMA UnitFacts == /\ 1 > 0 /\ ~(0 > 0) /\ 0 # 1
                   /\ 1 - 1 = 0
  OBVIOUS

(* The types of the three sequences, and what is needed of sequences.      *)
SeqTyped == waiters \in Seq(Tasks) /\ called \in Seq(Tasks) /\ served \in Seq(Tasks)

(* The sequences are typed when the state is.                               *)
LEMMA SemTyped == SemTypeOK => SeqTyped
  BY DEF SemTypeOK, SeqTyped

(* What is appended to a concatenation on its right, and in its middle.     *)
LEMMA AppendLaws ==
  ASSUME NEW s \in Seq(Tasks), NEW r \in Seq(Tasks), NEW i \in Tasks
  PROVE  /\ Append(s \o r, i) = s \o Append(r, i)
         /\ Append(s, i) \o r = s \o (<<i>> \o r)
         /\ <<i>> \o r \in Seq(Tasks)
<1>1. <<i>> \in Seq(Tasks) /\ Append(s, i) = s \o <<i>> /\ Append(r, i) = r \o <<i>>
  BY SMTT(40)
<1>2. s \o r \in Seq(Tasks) /\ Append(s \o r, i) = (s \o r) \o <<i>>
  OBVIOUS
<1>3. (s \o <<i>>) \o r = s \o (<<i>> \o r) /\ (s \o r) \o <<i>> = s \o (r \o <<i>>)
  BY <1>1, ConcatAssociative
<1>4. <<i>> \o r \in Seq(Tasks)
  BY <1>1
<1> QED
  BY <1>1, <1>2, <1>3, <1>4, Zenon

(* Prefixes, and the first of a sequence moved to the end of another.       *)
LEMMA SeqFacts ==
  /\ \A s, r \in Seq(Tasks) : s = SubSeq(s \o r, 1, Len(s))
  /\ \A s \in Seq(Tasks) : \A i \in Tasks : Append(s, i) \in Seq(Tasks)
  /\ \A s, r \in Seq(Tasks) : r # <<>> =>
       /\ Head(r) \in Tasks /\ Tail(r) \in Seq(Tasks)
       /\ s \o r = Append(s, Head(r)) \o Tail(r)
  /\ \A s \in Seq(Tasks) : s \o <<>> = s
<1>1. \A s, r \in Seq(Tasks) : s = SubSeq(s \o r, 1, Len(s))
  OBVIOUS
<1>2. \A s \in Seq(Tasks) : \A i \in Tasks : Append(s, i) \in Seq(Tasks)
  OBVIOUS
<1>3. ASSUME NEW s \in Seq(Tasks), NEW r \in Seq(Tasks), r # <<>>
      PROVE  /\ Head(r) \in Tasks /\ Tail(r) \in Seq(Tasks)
             /\ s \o r = Append(s, Head(r)) \o Tail(r)
  <2>1. Head(r) \in Tasks /\ Tail(r) \in Seq(Tasks)
    BY <1>3, HeadTailProperties
  <2>2. r = <<Head(r)>> \o Tail(r)
    BY <1>3
  <2>3. Append(s, Head(r)) \o Tail(r) = s \o (<<Head(r)>> \o Tail(r))
    BY <2>1, AppendLaws
  <2> QED
    BY <2>1, <2>2, <2>3, Zenon
<1>4. \A s \in Seq(Tasks) : s \o <<>> = s
  BY ConcatEmptySeq
<1> QED
  BY <1>1, <1>2, <1>3, <1>4, Zenon

(* What the run checks follows.                                             *)
LEMMA SemImplied == SemInductive => SemaphoreInv
<1> SUFFICES ASSUME SemInductive PROVE SemaphoreInv
  OBVIOUS
<1> USE DEF SemInductive
<1>1. OneUnit
  <2>1. CASE units = 1 /\ HasUnit = {}
    BY <2>1, FS_EmptySet DEF OneUnit, HasUnit
  <2>2. CASE units = 0 /\ \E i \in Tasks : HasUnit = {i}
    BY <2>2, FS_Singleton DEF OneUnit, HasUnit
  <2> QED
    BY <2>1, <2>2 DEF UnitHeld
<1>2. units > 0 => waiters = <<>>
  BY DEF UnitHeld
<1>3. served = SubSeq(called, 1, Len(served))
  <2>1. SeqTyped
    BY SemTyped
  <2>2. \E rest \in Seq(Tasks) : called = served \o rest
    <3>1. CASE \A i \in Tasks : ~Granted(i)
      BY <2>1, <3>1 DEF SeqTyped, CalledInOrder
    <3>2. ASSUME NEW i \in Tasks, Granted(i)
          PROVE  \E rest \in Seq(Tasks) : called = served \o rest
      <4>1. called = Append(served, i) \o waiters
        BY <3>2 DEF CalledInOrder
      <4>2. called = served \o (<<i>> \o waiters) /\ <<i>> \o waiters \in Seq(Tasks)
        BY <2>1, <4>1, AppendLaws, Zenon DEF SeqTyped
      <4> QED
        BY <4>2, Zenon
    <3> QED
      BY <3>1, <3>2
  <2> QED
    BY <2>1, <2>2, SeqFacts DEF SeqTyped
<1> QED
  BY <1>1, <1>2, <1>3 DEF SemaphoreInv, InOrder

(* The unit is free, and nobody has called.                                 *)
LEMMA InitSemInductive == SemInit => SemInductive
<1> SUFFICES ASSUME SemInit PROVE SemInductive
  OBVIOUS
<1> USE DEF SemInit
<1>1. <<>> \in Seq(Tasks)
  BY EmptySeq
<1>2. SemTypeOK
  BY <1>1 DEF SemTypeOK
<1>3. UnitHeld
  BY DEF UnitHeld, HasUnit
<1>4. <<>> \o <<>> = <<>>
  BY <1>1, SeqFacts, Zenon
<1>5. CalledInOrder
  BY <1>4 DEF CalledInOrder, Granted
<1> QED
  BY <1>2, <1>3, <1>5 DEF SemInductive

(* It takes the free unit: nobody waits.                                    *)
LEMMA CallTakesInductive ==
  ASSUME SemInductive, NEW i \in Tasks, CallTakes(i) PROVE SemInductive'
<1> USE DEF SemInductive
<1>0. /\ units > 0 /\ units' = units - 1
      /\ task' = [task EXCEPT ![i] = "sleeping"]
      /\ called' = Append(called, i) /\ served' = Append(served, i)
      /\ UNCHANGED waiters
  BY DEF CallTakes, Lambda
<1>1. units = 1 /\ HasUnit = {} /\ waiters = <<>>
  BY <1>0, UnitFacts, Zenon DEF UnitHeld
<1>2. SeqTyped
  BY SemTyped
<1>3. Append(called, i) \in Seq(Tasks) /\ Append(served, i) \in Seq(Tasks)
  BY <1>2, SeqFacts, Zenon DEF SeqTyped
<1>4. units' = 0
  BY <1>0, <1>1, UnitFacts, Zenon
<1>5. HasUnit' = {i}
  BY <1>0, <1>1 DEF HasUnit, SemTypeOK
<1>6. SemTypeOK' /\ UnitHeld'
  <2>1. SemTypeOK'
    BY <1>0, <1>1, <1>3, <1>4 DEF SemTypeOK
  <2> QED
    BY <1>4, <1>5, <2>1 DEF UnitHeld
<1>7. called = served
  <2>1. \A j \in Tasks : ~Granted(j)
    BY <1>1 DEF HasUnit, Granted
  <2>2. called = served \o <<>>
    BY <1>1, <2>1 DEF CalledInOrder
  <2> QED
    BY <1>2, <2>2, SeqFacts, Zenon DEF SeqTyped
<1>8. \A j \in Tasks : ~Granted(j)'
  BY <1>0, <1>1 DEF HasUnit, Granted, SemTypeOK
<1>9. called' = served' \o waiters'
  <2>1. called' = served' /\ waiters' = <<>> /\ served' \in Seq(Tasks)
    BY <1>0, <1>1, <1>3, <1>7, Zenon
  <2> QED
    BY <2>1, SeqFacts, Zenon
<1> QED
  BY <1>6, <1>8, <1>9 DEF CalledInOrder

(* It is the last of those that wait.                                       *)
LEMMA CallWaitsInductive ==
  ASSUME SemInductive, NEW i \in Tasks, CallWaits(i) PROVE SemInductive'
<1> USE DEF SemInductive
<1>0. /\ units = 0 \/ waiters # <<>>
      /\ waiters' = Append(waiters, i) /\ called' = Append(called, i)
      /\ task' = [task EXCEPT ![i] = "waiting"] /\ task[i] = "to call"
      /\ UNCHANGED <<units, served>>
  BY DEF CallWaits
<1>1. units = 0 /\ \E h \in Tasks : HasUnit = {h}
  BY <1>0, UnitFacts, Zenon DEF UnitHeld
<1>2. SeqTyped
  BY SemTyped
<1>3. Append(called, i) \in Seq(Tasks) /\ Append(waiters, i) \in Seq(Tasks)
  BY <1>2, SeqFacts, Zenon DEF SeqTyped
<1>4. SemTypeOK'
  BY <1>0, <1>3 DEF SemTypeOK
<1>5. HasUnit' = HasUnit /\ \A j \in Tasks : Granted(j)' <=> Granted(j)
  BY <1>0 DEF HasUnit, Granted, SemTypeOK
<1>6. UnitHeld'
  BY <1>0, <1>1, <1>5, Zenon DEF UnitHeld
<1>7. (\A j \in Tasks : ~Granted(j)) => called' = served' \o waiters'
  <2>1. Append(served \o waiters, i) = served \o Append(waiters, i)
    BY <1>2, AppendLaws, Zenon DEF SeqTyped
  <2> QED
    BY <1>0, <2>1, Zenon DEF CalledInOrder
<1>8. ASSUME NEW j \in Tasks, Granted(j)
      PROVE  called' = Append(served', j) \o waiters'
  <2>1. Append(served, j) \in Seq(Tasks)
    BY <1>2, SeqFacts, Zenon DEF SeqTyped
  <2>2. Append(Append(served, j) \o waiters, i) = Append(served, j) \o Append(waiters, i)
    BY <1>2, <2>1, AppendLaws, Zenon DEF SeqTyped
  <2> QED
    BY <1>0, <1>8, <2>2, Zenon DEF CalledInOrder
<1> QED
  BY <1>4, <1>5, <1>6, <1>7, <1>8 DEF CalledInOrder

(* The unit goes to the first that waits, or is free.                       *)
LEMMA SleepEndsInductive ==
  ASSUME SemInductive, NEW i \in Tasks, SleepEnds(i) PROVE SemInductive'
<1> USE DEF SemInductive
<1>1. units = 0 /\ HasUnit = {i}
  BY DEF UnitHeld, HasUnit, SleepEnds
<1>2. SeqTyped
  BY SemTyped
<1>3. called = served \o waiters
  <2>1. \A j \in Tasks : ~Granted(j)
    BY <1>1 DEF HasUnit, Granted, SleepEnds
  <2> QED
    BY <2>1 DEF CalledInOrder
<1>4. CASE waiters = <<>>
  <2>1. units' = 1 /\ waiters' = waiters /\ task' = [task EXCEPT ![i] = "released"]
    BY <1>1, <1>4 DEF SleepEnds
  <2>2. SemTypeOK'
    BY <2>1 DEF SemTypeOK, SleepEnds
  <2>3. HasUnit' = {} /\ \A j \in Tasks : ~Granted(j)'
    BY <1>1, <2>1 DEF HasUnit, Granted, SemTypeOK
  <2>4. UnitHeld'
    BY <1>4, <2>1, <2>3 DEF UnitHeld
  <2>5. CalledInOrder'
    BY <1>3, <2>1, <2>3 DEF CalledInOrder, SleepEnds
  <2> QED
    BY <2>2, <2>4, <2>5
<1>5. CASE waiters # <<>>
  <2> DEFINE h == Head(waiters)
  <2>1. /\ task' = [task EXCEPT ![i] = "released", ![h] = "granted"]
        /\ waiters' = Tail(waiters) /\ units' = 0
        /\ called' = called /\ served' = served
    BY <1>1, <1>5 DEF SleepEnds
  <2>2. h \in Tasks /\ Tail(waiters) \in Seq(Tasks)
    BY <1>2, <1>5, SeqFacts, Zenon DEF SeqTyped
  <2>3. called = Append(served, h) \o Tail(waiters)
    BY <1>2, <1>3, <1>5, SeqFacts, Zenon DEF SeqTyped
  <2> HIDE DEF h
  <2>4. SemTypeOK'
    BY <2>1, <2>2 DEF SemTypeOK
  <2>5. HasUnit' = {h} /\ \A j \in Tasks : Granted(j)' <=> j = h
    <3>1. \A j \in Tasks : task'[j] = IF j = h THEN "granted"
                                   ELSE IF j = i THEN "released" ELSE task[j]
      BY <2>1, <2>2 DEF SemTypeOK
    <3>2. \A j \in Tasks : j # i => task[j] \notin {"granted", "sleeping"}
      BY <1>1 DEF HasUnit
    <3> QED
      BY <2>2, <3>1, <3>2 DEF HasUnit, Granted
  <2>6. UnitHeld'
    BY <2>1, <2>2, <2>5 DEF UnitHeld
  <2>7. CalledInOrder'
    BY <2>1, <2>2, <2>3, <2>5, Zenon DEF CalledInOrder
  <2> QED
    BY <2>4, <2>6, <2>7
<1> QED
  BY <1>4, <1>5

(* The lambda of the call that was granted the unit.                        *)
LEMMA ResumeInductive ==
  ASSUME SemInductive, NEW i \in Tasks, Resume(i) PROVE SemInductive'
<1> USE DEF SemInductive
<1>1. /\ task' = [task EXCEPT ![i] = "sleeping"] /\ served' = Append(served, i)
      /\ UNCHANGED <<units, waiters, called>> /\ Granted(i)
  BY DEF Resume, Lambda, Granted
<1>2. units = 0 /\ HasUnit = {i}
  BY <1>1 DEF UnitHeld, HasUnit, Granted
<1>3. Append(served, i) \in Seq(Tasks)
  BY SemTyped, SeqFacts, Zenon DEF SeqTyped
<1>4. SemTypeOK'
  BY <1>1, <1>3 DEF SemTypeOK
<1>5. HasUnit' = HasUnit /\ \A j \in Tasks : ~Granted(j)'
  BY <1>1, <1>2 DEF HasUnit, Granted, SemTypeOK
<1>6. UnitHeld'
  BY <1>1, <1>2, <1>5 DEF UnitHeld
<1>7. CalledInOrder'
  BY <1>1, <1>5, Zenon DEF CalledInOrder
<1> QED
  BY <1>4, <1>6, <1>7

(* What follows the release of the unit does not touch it.                  *)
LEMMA FinishInductive ==
  ASSUME SemInductive, NEW i \in Tasks, Finish(i) PROVE SemInductive'
<1> USE DEF SemInductive, Finish
<1>1. SemTypeOK'
  BY DEF SemTypeOK
<1>2. HasUnit' = HasUnit /\ \A j \in Tasks : Granted(j)' <=> Granted(j)
  BY DEF HasUnit, Granted, SemTypeOK
<1>3. UnitHeld'
  BY <1>2 DEF UnitHeld
<1>4. CalledInOrder'
  BY <1>2, Zenon DEF CalledInOrder
<1> QED
  BY <1>1, <1>3, <1>4

(* Every call and everything the reactor runs.                              *)
LEMMA StepSemInductive == SemInductive /\ [SemNext]_semVars => SemInductive'
<1> SUFFICES ASSUME SemInductive, [SemNext]_semVars PROVE SemInductive'
  OBVIOUS
<1>1. CASE SemNext
  BY <1>1, CallTakesInductive, CallWaitsInductive, SleepEndsInductive, ResumeInductive,
     FinishInductive DEF SemNext, SemStep
<1>2. CASE UNCHANGED semVars
  BY <1>2 DEF semVars, SemInductive, SemTypeOK, UnitHeld, HasUnit, CalledInOrder, Granted
<1> QED
  BY <1>1, <1>2

-----------------------------------------------------------------------------
(* Strings and optionals. The lemmas are about any memory m, in the middle  *)
(* of a call as well as between two.                                        *)

Strs == [data : Addrs \cup {NULL}, length : Nat]
AllOpts == Optionals \cup {Temp}
Memories == [heap : [Addrs -> Texts \cup {Free}],
             str : [Slots -> Strs \cup {Raw}],
             has : [AllOpts -> BOOLEAN \cup {Raw}]]

(* Buffers are owned, but for the slots of X, which may point anywhere.     *)
Owns(m, s) == m.str[s] # Raw /\ m.str[s].data # NULL
OwnedBut(X, m) ==
  /\ \A s \in Slots \ X : Owns(m, s) =>
       /\ m.heap[m.str[s].data] # Free
       /\ m.str[s].length = Len(m.heap[m.str[s].data])
  /\ \A s, t \in Slots \ X : Owns(m, s) /\ Owns(m, t) =>
       (m.str[s].data = m.str[t].data => s = t)
  /\ \A a \in Addrs : m.heap[a] # Free => \E s \in Slots \ X : Owns(m, s) /\ m.str[s].data = a
  /\ \A s \in Slots \ X : m.str[s] # Raw /\ m.str[s].data = NULL => m.str[s].length = 0

Good(m) == m \in Memories /\ OwnedBut({}, m)
FreeFor(s, m) == m \in Memories /\ OwnedBut({s}, m)
OwnsNothing(m, s) == m.str[s] = Raw \/ m.str[s] = Null
Same(m, n, S) == n.has = m.has /\ \A u \in Slots \ S : n.str[u] = m.str[u]

(* A string that owns nothing is still a string.                            *)
LEMMA NullString == Null \in Strs /\ Null # Raw
  BY MemoryAssumption DEF Null, Strs

(* A string can be constructed where there is none, or one that owns        *)
(* nothing, or one whose buffer has been deleted.                           *)
LEMMA NothingThere ==
  ASSUME NEW m, Good(m), NEW s \in Slots, OwnsNothing(m, s)
  PROVE  FreeFor(s, m)
  BY DEF Good, FreeFor, OwnsNothing, OwnedBut, Owns, Null

(* What delete[] leaves before the pointer is overwritten.                  *)
LEMMA DeletedThere ==
  ASSUME NEW m, Good(m), NEW s \in Slots, m.str[s] # Raw,
         NEW e, e = Deleted(m, m.str[s].data)
  PROVE  FreeFor(s, e) /\ e.str = m.str /\ e.has = m.has
<1> USE MemoryAssumption DEF Good, FreeFor
<1>1. m.str[s] \in Strs
  BY DEF Memories
<1>2. /\ e.str = m.str /\ e.has = m.has /\ e \in Memories
      /\ e.heap = IF m.str[s].data = NULL THEN m.heap
                  ELSE [m.heap EXCEPT ![m.str[s].data] = Free]
  BY <1>1 DEF Deleted, Memories, Strs
<1>3. OwnedBut({s}, e)
  BY <1>1, <1>2, SMTT(40) DEF OwnedBut, Owns, Memories, Strs
<1> QED
  BY <1>2, <1>3

(* A move hands the buffer over.                                            *)
LEMMA MoveConstructedGood ==
  ASSUME NEW m, NEW s \in Slots, NEW t \in Slots, s # t, FreeFor(s, m),
         m.str[t] # Raw, NEW n, n = MoveConstructed(m, s, t)
  PROVE  Good(n) /\ Same(m, n, {s, t}) /\ n.str[s] # Raw /\ n.str[t] = Null
<1> USE MemoryAssumption DEF Good, FreeFor
<1>1. m.str[t] \in Strs /\ Null \in Strs /\ Null # Raw
  BY NullString DEF Memories
<1>2. /\ n.str = [m.str EXCEPT ![s] = m.str[t], ![t] = Null] /\ n.has = m.has
      /\ n.heap = m.heap
      /\ n \in Memories
  BY <1>1 DEF MoveConstructed, Memories
<1>3. OwnedBut({}, n)
  BY <1>1, <1>2, SMTT(40) DEF OwnedBut, Owns, Memories, Strs, Null
<1> QED
  BY <1>1, <1>2, <1>3 DEF Same, Memories

(* new chooses an address where nothing is.                                 *)
LEMMA NewBufferGood ==
  ASSUME NEW m, NEW s \in Slots, FreeFor(s, m), NEW text \in Texts,
         NEW n \in NewBuffer(m, s, Len(text), text)
  PROVE  Good(n) /\ Same(m, n, {s}) /\ n.str[s] # Raw
<1> USE MemoryAssumption DEF Good, FreeFor
<1>1. PICK a \in Addrs :
        /\ m.heap[a] = Free
        /\ n = [m EXCEPT !.heap[a] = text,
                         !.str[s] = [data |-> a, length |-> Len(text)]]
  BY DEF NewBuffer
<1> DEFINE new == [data |-> a, length |-> Len(text)]
<1>2. new \in Strs /\ new # Raw /\ new.data = a /\ new.length = Len(text)
  BY DEF Strs
<1>3. n = [m EXCEPT !.heap[a] = text, !.str[s] = new]
  BY <1>1
<1> HIDE DEF new
<1>4. /\ n.str = [m.str EXCEPT ![s] = new] /\ n.has = m.has
      /\ n.heap = [m.heap EXCEPT ![a] = text]
      /\ n \in Memories
  BY <1>2, <1>3 DEF Memories
<1>5. OwnedBut({}, n)
  BY <1>1, <1>2, <1>4 DEF OwnedBut, Owns, Memories, Strs, Null
<1> QED
  BY <1>2, <1>4, <1>5 DEF Same, Memories

(* MyString() and MyString(const char* ).                                   *)
LEMMA FromTextGood ==
  ASSUME NEW m, NEW s \in Slots, FreeFor(s, m), NEW text \in Texts \cup {NULL},
         NEW n \in FromText(m, s, text)
  PROVE  Good(n) /\ Same(m, n, {s}) /\ n.str[s] # Raw
<1> USE MemoryAssumption
<1>1. CASE text # NULL
  BY <1>1, NewBufferGood DEF FromText
<1>2. CASE text = NULL
  <2>1. n = [m EXCEPT !.str[s] = Null] /\ Null \in Strs /\ Null # Raw
    BY <1>2, NullString DEF FromText
  <2>2. n.str = [m.str EXCEPT ![s] = Null] /\ n.has = m.has /\ n.heap = m.heap /\ n \in Memories
    BY <2>1 DEF FreeFor, Memories
  <2>3. OwnedBut({}, n)
    BY <2>1, <2>2 DEF FreeFor, OwnedBut, Owns, Memories, Strs, Null
  <2> QED
    BY <2>1, <2>2, <2>3 DEF Good, FreeFor, Same, Memories
<1> QED
  BY <1>1, <1>2

(* A copy of a string is a new buffer with its text, or nothing.            *)
LEMMA CopyConstructedGood ==
  ASSUME NEW m, NEW s \in Slots, NEW t \in Slots, s # t, FreeFor(s, m),
         m.str[t] # Raw, NEW n \in CopyConstructed(m, s, t)
  PROVE  Good(n) /\ Same(m, n, {s}) /\ n.str[s] # Raw
<1> USE MemoryAssumption
<1>1. m.str[t] \in Strs
  BY DEF FreeFor, Memories
<1>2. CASE m.str[t].data = NULL
  <2>1. m.str[t].length = 0
    BY <1>2 DEF FreeFor, OwnedBut
  <2>2. n \in FromText(m, s, NULL)
    BY <1>2, <2>1 DEF CopyConstructed, FromText, Null
  <2> QED
    BY <2>2, FromTextGood
<1>3. CASE m.str[t].data # NULL
  <2>1. Owns(m, t)
    BY <1>3 DEF Owns
  <2>2. /\ m.heap[m.str[t].data] \in Texts
        /\ m.str[t].length = Len(m.heap[m.str[t].data])
    BY <1>1, <1>3, <2>1 DEF FreeFor, OwnedBut, Memories, Strs
  <2>3. n \in NewBuffer(m, s, Len(m.heap[m.str[t].data]), m.heap[m.str[t].data])
    BY <1>3, <2>2 DEF CopyConstructed, Text
  <2> QED
    BY <2>2, <2>3, NewBufferGood
<1> QED
  BY <1>2, <1>3

(* An assignment deletes the buffer, and constructs over what is left.      *)
LEMMA MoveAssignedGood ==
  ASSUME NEW m, Good(m), NEW s \in Slots, NEW t \in Slots, s # t,
         m.str[s] # Raw, m.str[t] # Raw, NEW n, n = MoveAssigned(m, s, t)
  PROVE  Good(n) /\ Same(m, n, {s, t}) /\ n.str[s] # Raw /\ n.str[t] = Null
<1> DEFINE e == Deleted(m, m.str[s].data)
<1>1. FreeFor(s, e) /\ e.str = m.str /\ e.has = m.has
  BY DeletedThere
<1>2. n = MoveConstructed(e, s, t)
  BY DEF MoveAssigned
<1> HIDE DEF e
<1> QED
  BY <1>1, <1>2, MoveConstructedGood DEF Same

(* operator=(const MyString& ), of itself too.                              *)
LEMMA CopyAssignedGood ==
  ASSUME NEW m, Good(m), NEW s \in Slots, NEW t \in Slots,
         m.str[s] # Raw, m.str[t] # Raw, NEW n \in CopyAssigned(m, s, t)
  PROVE  Good(n) /\ Same(m, n, {s}) /\ n.str[s] # Raw
<1>1. CASE s = t
  BY <1>1 DEF CopyAssigned, Same
<1>2. CASE s # t
  <2> DEFINE e == Deleted(m, m.str[s].data)
  <2>1. FreeFor(s, e) /\ e.str = m.str /\ e.has = m.has
    BY DeletedThere
  <2>2. n \in CopyConstructed(e, s, t)
    BY <1>2 DEF CopyAssigned
  <2> HIDE DEF e
  <2> QED
    BY <1>2, <2>1, <2>2, CopyConstructedGood DEF Same
<1> QED
  BY <1>1, <1>2

(* The destructor deletes the one buffer that is the string's.              *)
LEMMA DestroyedGood ==
  ASSUME NEW m, Good(m), NEW s \in Slots, m.str[s] # Raw, NEW n, n = Destroyed(m, s)
  PROVE  Good(n) /\ Same(m, n, {s}) /\ n.str[s] = Raw
<1> DEFINE e == Deleted(m, m.str[s].data)
<1>1. FreeFor(s, e) /\ e.str = m.str /\ e.has = m.has
  BY DeletedThere
<1>2. n = [e EXCEPT !.str[s] = Raw]
  BY DEF Destroyed
<1> HIDE DEF e
<1>3. n.str = [e.str EXCEPT ![s] = Raw] /\ n.has = e.has /\ n.heap = e.heap /\ n \in Memories
  BY <1>1, <1>2 DEF FreeFor, Memories
<1>4. OwnedBut({}, n)
  BY <1>1, <1>3 DEF FreeFor, OwnedBut, Owns, Memories
<1> QED
  BY <1>1, <1>3, <1>4 DEF Good, FreeFor, Same, Memories

(* When new throws, the string assigned to dangles, and no other.           *)
LEMMA HalfAssignedTears ==
  ASSUME NEW m, Good(m), NEW s \in Slots, NEW t \in Slots,
         m.str[s] # Raw, m.str[t] # Raw, NEW n, n = HalfAssigned(m, s, t)
  PROVE  FreeFor(s, n) /\ Same(m, n, {s}) /\ n.str[s] # Raw
<1> USE MemoryAssumption
<1> DEFINE e == Deleted(m, m.str[s].data)
           half == [m.str[s] EXCEPT !.length = m.str[t].length]
<1>1. FreeFor(s, e) /\ e.str = m.str /\ e.has = m.has
  BY DeletedThere
<1>2. half \in Strs /\ half # Raw
  BY DEF Good, Memories, Strs
<1>3. n = [e EXCEPT !.str[s] = half]
  BY <1>1 DEF HalfAssigned, FreeFor, Memories
<1> HIDE DEF e, half
<1>4. n.str = [e.str EXCEPT ![s] = half] /\ n.has = e.has /\ n.heap = e.heap /\ n \in Memories
  BY <1>1, <1>2, <1>3 DEF FreeFor, Memories
<1>5. OwnedBut({s}, n)
  BY <1>1, <1>4 DEF FreeFor, OwnedBut, Owns, Memories
<1> QED
  BY <1>1, <1>2, <1>4, <1>5 DEF FreeFor, Same, Memories

(* my::swap for strings: through Temp, and back.                            *)
LEMMA SwappedGood ==
  ASSUME NEW m, Good(m), NEW a \in Strings, NEW b \in Strings,
         m.str[a] # Raw, m.str[b] # Raw, m.str[Temp] = Raw,
         NEW n, n = Swapped(m, a, b)
  PROVE  Good(n) /\ Same(m, n, {a, b}) /\ n.str[a] # Raw /\ n.str[b] # Raw
<1> USE SlotsAssumption
<1> DEFINE m1 == MoveConstructed(m, Temp, a)
           m2 == MoveAssigned(m1, a, b)
           m3 == MoveAssigned(m2, b, Temp)
<1>0. /\ m1 = MoveConstructed(m, Temp, a) /\ m2 = MoveAssigned(m1, a, b)
      /\ m3 = MoveAssigned(m2, b, Temp) /\ n = Destroyed(m3, Temp)
  BY DEF Swapped
<1> HIDE DEF m1, m2, m3
<1>t. Temp \in Slots /\ a \in Slots /\ b \in Slots /\ Temp # a /\ Temp # b
  OBVIOUS
<1>1. Good(m1) /\ Same(m, m1, {Temp, a}) /\ m1.str[Temp] # Raw /\ m1.str[a] # Raw
  <2>1. FreeFor(Temp, m)
    BY <1>t, NothingThere DEF OwnsNothing
  <2> QED
    BY <1>0, <1>t, <2>1, MoveConstructedGood, NullString
<1>2. Good(m2) /\ Same(m1, m2, {a, b}) /\ m2.str[a] # Raw /\ m2.str[b] # Raw
  <2>1. CASE a = b
    <3>1. m2 = m1
      BY <1>0, <2>1 DEF MoveAssigned
    <3> QED
      BY <1>1, <2>1, <3>1 DEF Same
  <2>2. CASE a # b
    <3>1. m1.str[b] # Raw
      BY <1>1, <1>t, <2>2 DEF Same
    <3> QED
      BY <1>0, <1>1, <1>t, <2>2, <3>1, MoveAssignedGood, NullString
  <2> QED
    BY <2>1, <2>2
<1>3. m2.str[Temp] # Raw
  BY <1>1, <1>2, <1>t DEF Same
<1>4. Good(m3) /\ Same(m2, m3, {b, Temp}) /\ m3.str[b] # Raw /\ m3.str[Temp] # Raw
  BY <1>0, <1>2, <1>3, <1>t, MoveAssignedGood, NullString
<1>5. Good(n) /\ Same(m3, n, {Temp}) /\ n.str[Temp] = Raw
  BY <1>0, <1>4, <1>t, DestroyedGood
<1> QED
  BY <1>1, <1>2, <1>4, <1>5, <1>t DEF Same

(* What is true of an Optional between two calls: it claims no value that   *)
(* has been destroyed, and leaves none behind that owns anything.           *)
Live(m, o) == /\ m.has[o] = TRUE => m.str[o] # Raw
              /\ m.has[o] # TRUE => OwnsNothing(m, o)
Declares(m, o) == m.has[o] \in BOOLEAN
OptSame(m, n, S) == /\ \A u \in Slots \ S : n.str[u] = m.str[u]
                    /\ \A u \in AllOpts \ S : n.has[u] = m.has[u]

(* has_value_ owns no buffers.                                              *)
LEMMA FlagsOwnNothing ==
  ASSUME NEW m, NEW n, n.str = m.str, n.heap = m.heap, OwnedBut({}, m)
  PROVE  OwnedBut({}, n)
  BY DEF OwnedBut, Owns

(* has_value_ = true                                                        *)
LEMMA HasTrueGood ==
  ASSUME NEW m, Good(m), NEW o \in AllOpts, NEW n, n = Has(m, o, TRUE)
  PROVE  Good(n) /\ n.str = m.str /\ n.has = [m.has EXCEPT ![o] = TRUE]
<1>1. n.str = m.str /\ n.heap = m.heap /\ n.has = [m.has EXCEPT ![o] = TRUE] /\ n \in Memories
  BY DEF Has, Good, Memories
<1>2. OwnedBut({}, n)
  BY <1>1, FlagsOwnNothing DEF Good
<1> QED
  BY <1>1, <1>2 DEF Good

(* has_value_ = false                                                       *)
LEMMA HasFalseGood ==
  ASSUME NEW m, Good(m), NEW o \in AllOpts, NEW n, n = Has(m, o, FALSE)
  PROVE  Good(n) /\ n.str = m.str /\ n.has = [m.has EXCEPT ![o] = FALSE]
<1>1. n.str = m.str /\ n.heap = m.heap /\ n.has = [m.has EXCEPT ![o] = FALSE] /\ n \in Memories
  BY DEF Has, Good, Memories
<1>2. OwnedBut({}, n)
  BY <1>1, FlagsOwnNothing DEF Good
<1> QED
  BY <1>1, <1>2 DEF Good

(* An Optional has a place for its value.                                   *)
LEMMA OptsAreSlots == AllOpts \subseteq Slots
  BY SlotsAssumption DEF AllOpts

(* Optional(const T& ), Optional(T&&)                                       *)
LEMMA HoldsCopyGood ==
  ASSUME NEW m, NEW o \in AllOpts, NEW s \in Slots, o # s, FreeFor(o, m),
         m.str[s] # Raw, NEW n \in HoldsCopy(m, o, s)
  PROVE  Good(n) /\ OptSame(m, n, {o}) /\ n.str[o] # Raw /\ n.has[o] = TRUE
<1> USE OptsAreSlots
<1>1. PICK c \in CopyConstructed(m, o, s) : n = Has(c, o, TRUE)
  BY DEF HoldsCopy
<1>2. Good(c) /\ Same(m, c, {o}) /\ c.str[o] # Raw
  BY CopyConstructedGood
<1>3. Good(n) /\ n.str = c.str /\ n.has = [c.has EXCEPT ![o] = TRUE]
  BY <1>1, <1>2, HasTrueGood
<1>4. c.has \in [AllOpts -> BOOLEAN \cup {Raw}]
  BY <1>2 DEF Good, Memories
<1> QED
  BY <1>2, <1>3, <1>4 DEF Same, OptSame

(* The value is moved in, and what it was moved from is empty.              *)
LEMMA HoldsMovedGood ==
  ASSUME NEW m, NEW o \in AllOpts, NEW s \in Slots, o # s, FreeFor(o, m),
         m.str[s] # Raw, NEW n, n = HoldsMoved(m, o, s)
  PROVE  /\ Good(n) /\ n.str[o] # Raw /\ n.str[s] = Null
         /\ \A u \in Slots \ {o, s} : n.str[u] = m.str[u]
         /\ n.has = [m.has EXCEPT ![o] = TRUE]
<1> USE OptsAreSlots
<1> DEFINE c == MoveConstructed(m, o, s)
<1>1. n = Has(c, o, TRUE)
  BY DEF HoldsMoved
<1>2. Good(c) /\ Same(m, c, {o, s}) /\ c.str[o] # Raw /\ c.str[s] = Null
  BY MoveConstructedGood
<1> HIDE DEF c
<1>3. Good(n) /\ n.str = c.str /\ n.has = [c.has EXCEPT ![o] = TRUE]
  BY <1>1, <1>2, HasTrueGood
<1> QED
  BY <1>2, <1>3 DEF Same

(* Optional(const Optional& ), Optional(Optional&&)                         *)
LEMMA OptCopyConstructedGood ==
  ASSUME NEW m, Good(m), NEW o \in AllOpts, NEW p \in AllOpts, o # p,
         OwnsNothing(m, o), Declares(m, p), Live(m, p),
         NEW n \in OptCopyConstructed(m, o, p)
  PROVE  Good(n) /\ OptSame(m, n, {o}) /\ Declares(n, o) /\ Live(n, o)
<1> USE OptsAreSlots
<1>1. CASE m.has[p] = TRUE
  <2>1. n \in HoldsCopy(m, o, p) /\ m.str[p] # Raw
    BY <1>1 DEF OptCopyConstructed, Live
  <2>2. Good(n) /\ OptSame(m, n, {o}) /\ n.str[o] # Raw /\ n.has[o] = TRUE
    BY <2>1, NothingThere, HoldsCopyGood
  <2> QED
    BY <2>2 DEF Live, Declares
<1>2. CASE m.has[p] = FALSE
  <2>1. n = Has(m, o, FALSE)
    BY <1>2 DEF OptCopyConstructed
  <2>2. Good(n) /\ n.str = m.str /\ n.has = [m.has EXCEPT ![o] = FALSE]
    BY <2>1, HasFalseGood
  <2>3. m.has \in [AllOpts -> BOOLEAN \cup {Raw}]
    BY DEF Good, Memories
  <2> QED
    BY <2>2, <2>3 DEF OptSame, Declares, Live, OwnsNothing
<1> QED
  BY <1>1, <1>2 DEF Declares

(* other is left without a value, and with nothing to own.                  *)
LEMMA OptMoveConstructedGood ==
  ASSUME NEW m, Good(m), NEW o \in AllOpts, NEW p \in AllOpts, o # p,
         OwnsNothing(m, o), Declares(m, p), Live(m, p),
         NEW n, n = OptMoveConstructed(m, o, p)
  PROVE  /\ Good(n) /\ OptSame(m, n, {o, p})
         /\ Declares(n, o) /\ Live(n, o) /\ Declares(n, p) /\ Live(n, p)
<1> USE OptsAreSlots
<1> DEFINE c == IF m.has[p] THEN HoldsMoved(m, o, p) ELSE Has(m, o, FALSE)
<1>0. n = Has(c, p, FALSE)
  BY DEF OptMoveConstructed
<1>1. /\ Good(c) /\ \A u \in Slots \ {o, p} : c.str[u] = m.str[u]
      /\ OwnsNothing(c, p) /\ c.has = [m.has EXCEPT ![o] = m.has[p]]
      /\ IF m.has[p] = TRUE THEN c.str[o] # Raw ELSE OwnsNothing(c, o)
  <2>1. CASE m.has[p] = TRUE
    <3>1. c = HoldsMoved(m, o, p) /\ m.str[p] # Raw
      BY <2>1 DEF Live
    <3> HIDE DEF c
    <3>2. /\ Good(c) /\ c.str[o] # Raw /\ c.str[p] = Null
          /\ \A u \in Slots \ {o, p} : c.str[u] = m.str[u]
          /\ c.has = [m.has EXCEPT ![o] = TRUE]
      BY <3>1, NothingThere, HoldsMovedGood
    <3>3. c.has = [m.has EXCEPT ![o] = m.has[p]]
      BY <2>1, <3>2, Zenon
    <3> QED
      BY <2>1, <3>2, <3>3 DEF OwnsNothing
  <2>2. CASE m.has[p] = FALSE
    <3>1. c = Has(m, o, FALSE)
      BY <2>2
    <3> HIDE DEF c
    <3>2. Good(c) /\ c.str = m.str /\ c.has = [m.has EXCEPT ![o] = FALSE]
      BY <3>1, HasFalseGood
    <3>3. c.has = [m.has EXCEPT ![o] = m.has[p]]
      BY <2>2, <3>2, Zenon
    <3> QED
      BY <2>2, <3>2, <3>3 DEF OwnsNothing, Live
  <2> QED
    BY <2>1, <2>2 DEF Declares
<1> HIDE DEF c
<1>2. Good(n) /\ n.str = c.str /\ n.has = [c.has EXCEPT ![p] = FALSE]
  BY <1>0, <1>1, HasFalseGood
<1>3. m.has \in [AllOpts -> BOOLEAN \cup {Raw}]
  BY DEF Good, Memories
<1>4. n.has[o] = m.has[p] /\ n.has[p] = FALSE /\ \A u \in AllOpts \ {o, p} : n.has[u] = m.has[u]
  BY <1>1, <1>2, <1>3
<1>5. OptSame(m, n, {o, p}) /\ Declares(n, o) /\ Declares(n, p)
  BY <1>1, <1>2, <1>4 DEF OptSame, Declares
<1>6. Live(n, o) /\ Live(n, p)
  BY <1>1, <1>2, <1>4 DEF Live, OwnsNothing
<1> QED
  BY <1>2, <1>5, <1>6

(* The value is destroyed, if there is one.                                 *)
Emptied(m, o) == IF m.has[o] THEN Destroyed(m, o) ELSE m

(* Where nothing is, a value can be constructed.                            *)
LEMMA EmptiedGood ==
  ASSUME NEW m, Good(m), NEW o \in AllOpts, Declares(m, o), Live(m, o),
         NEW n, n = Emptied(m, o)
  PROVE  Good(n) /\ Same(m, n, {o}) /\ OwnsNothing(n, o)
<1> USE OptsAreSlots
<1>1. CASE m.has[o] = TRUE
  <2>1. n = Destroyed(m, o) /\ m.str[o] # Raw
    BY <1>1 DEF Emptied, Live
  <2> QED
    BY <2>1, DestroyedGood DEF OwnsNothing
<1>2. CASE m.has[o] = FALSE
  BY <1>2 DEF Emptied, Live, Same
<1> QED
  BY <1>1, <1>2 DEF Declares

(* operator=(Optional&&), of itself too.                                    *)
LEMMA OptMoveAssignedGood ==
  ASSUME NEW m, Good(m), NEW o \in AllOpts, NEW p \in AllOpts,
         Declares(m, o), Live(m, o), Declares(m, p), Live(m, p),
         NEW n, n = OptMoveAssigned(m, o, p)
  PROVE  /\ Good(n) /\ OptSame(m, n, {o, p})
         /\ Declares(n, o) /\ Live(n, o) /\ Declares(n, p) /\ Live(n, p)
<1> USE OptsAreSlots
<1>1. CASE o = p
  BY <1>1 DEF OptMoveAssigned, OptSame
<1>2. CASE o # p
  <2> DEFINE d == Emptied(m, o)
  <2>1. n = OptMoveConstructed(d, o, p)
    BY <1>2 DEF OptMoveAssigned, Emptied
  <2>2. Good(d) /\ Same(m, d, {o}) /\ OwnsNothing(d, o)
    BY EmptiedGood
  <2> HIDE DEF d
  <2>3. Declares(d, p) /\ Live(d, p)
    BY <1>2, <2>2 DEF Same, Declares, Live, OwnsNothing
  <2>4. /\ Good(n) /\ OptSame(d, n, {o, p})
        /\ Declares(n, o) /\ Live(n, o) /\ Declares(n, p) /\ Live(n, p)
    BY <1>2, <2>1, <2>2, <2>3, OptMoveConstructedGood
  <2> QED
    BY <2>2, <2>4 DEF Same, OptSame
<1> QED
  BY <1>1, <1>2

(* ~Optional()                                                              *)
LEMMA OptDestroyedGood ==
  ASSUME NEW m, Good(m), NEW o \in AllOpts, Declares(m, o), Live(m, o),
         NEW n, n = OptDestroyed(m, o)
  PROVE  Good(n) /\ OptSame(m, n, {o}) /\ n.str[o] = Raw /\ n.has[o] = Raw
<1> USE OptsAreSlots
<1> DEFINE d == Emptied(m, o)
<1>1. n = [d EXCEPT !.has[o] = Raw, !.str[o] = Raw]
  BY DEF OptDestroyed, Emptied
<1>2. Good(d) /\ Same(m, d, {o}) /\ OwnsNothing(d, o)
  BY EmptiedGood
<1> HIDE DEF d
<1>3. /\ n.str = [d.str EXCEPT ![o] = Raw] /\ n.has = [d.has EXCEPT ![o] = Raw]
      /\ n.heap = d.heap /\ n \in Memories
  <2>1. d \in Memories
    BY <1>2 DEF Good
  <2>2. n.str = [d.str EXCEPT ![o] = Raw] /\ n.has = [d.has EXCEPT ![o] = Raw] /\ n.heap = d.heap
    BY <1>1, <2>1 DEF Memories
  <2>3. n = [heap |-> n.heap, str |-> n.str, has |-> n.has]
    BY <1>1, <2>1 DEF Memories
  <2>4. n.heap \in [Addrs -> Texts \cup {Free}] /\ n.str \in [Slots -> Strs \cup {Raw}]
    BY <2>1, <2>2 DEF Memories
  <2>5. n.has \in [AllOpts -> BOOLEAN \cup {Raw}]
    BY <2>1, <2>2 DEF Memories
  <2> QED
    BY <2>2, <2>3, <2>4, <2>5 DEF Memories
<1>4. FreeFor(o, d)
  BY <1>2, NothingThere
<1>5. OwnedBut({}, n)
  BY <1>3, <1>4 DEF FreeFor, OwnedBut, Owns, Memories
<1> QED
  BY <1>2, <1>3, <1>5 DEF Good, Same, OptSame, Memories

(* operator=(const Optional& ), with and without values on both sides.      *)
LEMMA OptCopyAssignedGood ==
  ASSUME NEW m, Good(m), NEW o \in AllOpts, NEW p \in AllOpts,
         Declares(m, o), Live(m, o), Declares(m, p), Live(m, p),
         NEW n \in OptCopyAssigned(m, o, p)
  PROVE  Good(n) /\ OptSame(m, n, {o}) /\ Declares(n, o) /\ Live(n, o)
<1> USE OptsAreSlots
<1>0. m.has \in [AllOpts -> BOOLEAN \cup {Raw}]
  BY DEF Good, Memories
<1>1. CASE o = p
  <2>1. n = m
    BY <1>1 DEF OptCopyAssigned
  <2> QED
    BY <2>1 DEF OptSame
<1>2. CASE o # p /\ m.has[o] = TRUE /\ m.has[p] = TRUE
  <2>1. n \in CopyAssigned(m, o, p) /\ m.str[o] # Raw /\ m.str[p] # Raw
    BY <1>2 DEF OptCopyAssigned, Live
  <2>2. Good(n) /\ Same(m, n, {o}) /\ n.str[o] # Raw
    BY <2>1, CopyAssignedGood
  <2> QED
    BY <1>2, <2>2 DEF Same, OptSame, Declares, Live
<1>3. CASE o # p /\ m.has[o] = TRUE /\ m.has[p] = FALSE
  <2> DEFINE d == Destroyed(m, o)
  <2>1. n = Has(d, o, FALSE) /\ m.str[o] # Raw
    BY <1>3 DEF OptCopyAssigned, Live
  <2>2. Good(d) /\ Same(m, d, {o}) /\ d.str[o] = Raw
    BY <2>1, DestroyedGood
  <2> HIDE DEF d
  <2>3. Good(n) /\ n.str = d.str /\ n.has = [d.has EXCEPT ![o] = FALSE]
    BY <2>1, <2>2, HasFalseGood
  <2> QED
    BY <1>0, <2>2, <2>3 DEF Same, OptSame, Declares, Live, OwnsNothing
<1>4. CASE o # p /\ m.has[o] = FALSE /\ m.has[p] = TRUE
  <2>1. n \in HoldsCopy(m, o, p) /\ m.str[p] # Raw /\ OwnsNothing(m, o)
    BY <1>4 DEF OptCopyAssigned, Live
  <2>2. Good(n) /\ OptSame(m, n, {o}) /\ n.str[o] # Raw /\ n.has[o] = TRUE
    BY <1>4, <2>1, NothingThere, HoldsCopyGood
  <2> QED
    BY <2>2 DEF Declares, Live
<1>5. CASE o # p /\ m.has[o] = FALSE /\ m.has[p] = FALSE
  <2>1. n = m
    BY <1>5 DEF OptCopyAssigned
  <2> QED
    BY <2>1 DEF OptSame
<1> QED
  BY <1>1, <1>2, <1>3, <1>4, <1>5 DEF Declares

(* my::swap for Optionals.                                                  *)
LEMMA OptSwappedGood ==
  ASSUME NEW m, Good(m), NEW a \in Optionals, NEW b \in Optionals,
         Declares(m, a), Live(m, a), Declares(m, b), Live(m, b),
         m.str[Temp] = Raw, NEW n, n = OptSwapped(m, a, b)
  PROVE  /\ Good(n) /\ OptSame(m, n, {a, b, Temp})
         /\ Live(n, a) /\ Live(n, b) /\ n.str[Temp] = Raw /\ n.has[Temp] = Raw
<1> DEFINE m1 == OptMoveConstructed(m, Temp, a)
           m2 == OptMoveAssigned(m1, a, b)
           m3 == OptMoveAssigned(m2, b, Temp)
<1>0. /\ m1 = OptMoveConstructed(m, Temp, a) /\ m2 = OptMoveAssigned(m1, a, b)
      /\ m3 = OptMoveAssigned(m2, b, Temp) /\ n = OptDestroyed(m3, Temp)
  BY DEF OptSwapped
<1> HIDE DEF m1, m2, m3
<1>t. /\ Temp \in AllOpts /\ a \in AllOpts /\ b \in AllOpts /\ Temp # a /\ Temp # b
      /\ AllOpts \subseteq Slots
  BY SlotsAssumption, OptsAreSlots DEF AllOpts
<1>1. /\ Good(m1) /\ OptSame(m, m1, {Temp, a})
      /\ Declares(m1, Temp) /\ Live(m1, Temp) /\ Declares(m1, a) /\ Live(m1, a)
  <2>1. OwnsNothing(m, Temp)
    BY DEF OwnsNothing
  <2> QED
    BY <1>0, <1>t, <2>1, OptMoveConstructedGood
<1>2. Declares(m1, b) /\ Live(m1, b)
  BY <1>1, <1>t DEF OptSame, Declares, Live, OwnsNothing
<1>3. /\ Good(m2) /\ OptSame(m1, m2, {a, b})
      /\ Declares(m2, a) /\ Live(m2, a) /\ Declares(m2, b) /\ Live(m2, b)
  BY <1>0, <1>1, <1>2, <1>t, OptMoveAssignedGood
<1>4. Declares(m2, Temp) /\ Live(m2, Temp)
  BY <1>1, <1>3, <1>t DEF OptSame, Declares, Live, OwnsNothing
<1>5. /\ Good(m3) /\ OptSame(m2, m3, {b, Temp})
      /\ Live(m3, b) /\ Declares(m3, Temp) /\ Live(m3, Temp)
  BY <1>0, <1>3, <1>4, <1>t, OptMoveAssignedGood
<1>6. Live(m3, a)
  BY <1>3, <1>5, <1>t DEF OptSame, Live, OwnsNothing
<1>7. Good(n) /\ OptSame(m3, n, {Temp}) /\ n.str[Temp] = Raw /\ n.has[Temp] = Raw
  BY <1>0, <1>5, <1>t, OptDestroyedGood
<1>8. Live(n, a) /\ Live(n, b)
  BY <1>5, <1>6, <1>7, <1>t DEF OptSame, Live, OwnsNothing
<1>9. OptSame(m, n, {a, b, Temp})
  BY <1>1, <1>3, <1>5, <1>7, <1>t DEF OptSame
<1> QED
  BY <1>7, <1>8, <1>9

(* Between two calls Temp does not exist. After an assignment that threw    *)
(* nothing more is known of its string.                                     *)
AtRest(m) == /\ Good(m) /\ m.str[Temp] = Raw /\ m.has[Temp] = Raw
             /\ \A o \in Optionals : Live(m, o)
StringsInv == \/ torn = NoTear /\ AtRest(mem)
              \/ torn \in Slots /\ FreeFor(torn, mem) /\ \A o \in Optionals : Live(mem, o)

(* What the run checks follows.                                             *)
LEMMA StringsImplied == StringsInv => NothingLost
<1> SUFFICES ASSUME StringsInv PROVE NothingLost
  OBVIOUS
<1> DEFINE X == Slots \cap {torn}
<1>1. mem \in Memories /\ OwnedBut(X, mem) /\ \A o \in Optionals : Live(mem, o)
  <2>1. CASE torn = NoTear /\ AtRest(mem)
    <3>1. X = {}
      BY <2>1, MemoryAssumption DEF NoTear
    <3> QED
      BY <2>1, <3>1 DEF AtRest, Good
  <2>2. CASE torn \in Slots /\ FreeFor(torn, mem) /\ \A o \in Optionals : Live(mem, o)
    <3>1. X = {torn}
      BY <2>2
    <3> QED
      BY <2>2, <3>1 DEF FreeFor
  <2> QED
    BY <2>1, <2>2 DEF StringsInv
<1>2. Slots \ {torn} = Slots \ X
  OBVIOUS
<1> HIDE DEF X
<1>3. \A s \in Slots \ X : mem.str[s] # Raw => mem.str[s] \in Strs
  BY <1>1 DEF Memories
<1>4. \A s : Owns(mem, s) <=> mem.str[s] # Raw /\ mem.str[s].data # NULL
  BY DEF Owns
<1>5. Owners = {s \in Slots \ X : Owns(mem, s)}
  BY <1>2, <1>4 DEF Owners
<1>6. \A s \in Owners : mem.str[s].data \in Addrs
  BY <1>3, <1>4, <1>5 DEF Strs
<1>7. {a \in Addrs : mem.heap[a] # Free} = {mem.str[s].data : s \in Owners}
  BY <1>1, <1>5, <1>6 DEF OwnedBut
<1>8. \A s, t \in Owners : mem.str[s].data = mem.str[t].data => s = t
  BY <1>1, <1>5 DEF OwnedBut
<1>9. ASSUME NEW s \in Slots \ X, mem.str[s] # Raw
      PROVE  mem.str[s].length = IF Text(mem, s) = NULL THEN 0 ELSE Len(Text(mem, s))
  <2>1. CASE mem.str[s].data = NULL
    BY <1>1, <1>9, <2>1 DEF OwnedBut, Text
  <2>2. CASE mem.str[s].data # NULL
    <3>1. /\ mem.heap[mem.str[s].data] # Free
          /\ mem.str[s].length = Len(mem.heap[mem.str[s].data])
      BY <1>1, <1>9, <2>2 DEF OwnedBut, Owns
    <3>2. mem.heap[mem.str[s].data] \in Texts
      BY <1>1, <1>3, <1>9, <2>2, <3>1 DEF Memories, Strs
    <3> QED
      BY <2>2, <3>1, <3>2, MemoryAssumption DEF Text
  <2> QED
    BY <2>1, <2>2
<1>10. BuffersOwned
  BY <1>2, <1>7, <1>8, <1>9 DEF BuffersOwned
<1>11. ValuesLive
  BY <1>1 DEF ValuesLive, Live, HasValue, OwnsNothing
<1> QED
  BY <1>10, <1>11 DEF NothingLost

(* Nothing is in memory.                                                    *)
LEMMA InitStringsInv == StringsInit => StringsInv
<1> SUFFICES ASSUME StringsInit PROVE StringsInv
  OBVIOUS
<1>1. mem \in Memories
  BY DEF StringsInit, Memories, AllOpts
<1>2. /\ \A s \in Slots : mem.str[s] = Raw
      /\ \A a \in Addrs : mem.heap[a] = Free
      /\ \A o \in AllOpts : mem.has[o] = Raw
  BY DEF StringsInit, AllOpts
<1>3. OwnedBut({}, mem)
  BY <1>2 DEF OwnedBut, Owns
<1>4. AtRest(mem)
  BY <1>1, <1>2, <1>3, SlotsAssumption, OptsAreSlots
     DEF AtRest, Good, Live, OwnsNothing, AllOpts
<1> QED
  BY <1>4 DEF StringsInit, StringsInv

(* A call on strings: what it leaves of the rest.                           *)
LEMMA StringsKeepOpts ==
  ASSUME NEW m, AtRest(m), NEW n, Good(n), Same(m, n, Strings)
  PROVE  AtRest(n)
<1>1. \A u \in Optionals \cup {Temp} : n.str[u] = m.str[u] /\ u \in Slots
  BY SlotsAssumption DEF Same
<1>2. n.has = m.has
  BY DEF Same
<1> QED
  BY <1>1, <1>2 DEF AtRest, Live, OwnsNothing

(* Every call on strings.                                                   *)
LEMMA StringStep == AtRest(mem) /\ torn = NoTear /\ StringNext => StringsInv'
<1> SUFFICES ASSUME AtRest(mem), torn = NoTear, NEW s \in Strings,
                    \/ Declare(s) \/ EndScope(s)
                    \/ \E t \in Strings :
                         \/ DeclareCopy(s, t) \/ DeclareMoved(s, t)
                         \/ Assign(s, t) \/ AssignFails(s, t) \/ AssignMoved(s, t)
             PROVE  StringsInv'
  BY DEF StringNext
<1>0. Good(mem) /\ s \in Slots /\ Strings \subseteq Slots
  BY SlotsAssumption DEF AtRest
<1> DEFINE Done == torn' = NoTear /\ Good(mem') /\ Same(mem, mem', Strings)
<1>1. Done => StringsInv'
  <2> SUFFICES ASSUME Done PROVE StringsInv'
    OBVIOUS
  <2>1. AtRest(mem')
    BY StringsKeepOpts
  <2> QED
    BY <2>1 DEF StringsInv, AtRest, Good, OwnedBut, Owns, Live, OwnsNothing, Memories, NoTear
<1>2. CASE Declare(s)
  <2>1. PICK text \in Texts \cup {NULL} : mem' \in FromText(mem, s, text)
    BY <1>2 DEF Declare
  <2>2. FreeFor(s, mem)
    BY <1>0, <1>2, NothingThere DEF Declare, Declared, OwnsNothing
  <2>3. Good(mem') /\ Same(mem, mem', {s})
    BY <1>0, <2>1, <2>2, FromTextGood
  <2> QED
    BY <1>1, <1>2, <2>3 DEF Declare, Same
<1>3. CASE EndScope(s)
  <2>1. Good(mem') /\ Same(mem, mem', {s})
    BY <1>0, <1>3, DestroyedGood DEF EndScope, Declared
  <2> QED
    BY <1>1, <1>3, <2>1 DEF EndScope, Same
<1>4. ASSUME NEW t \in Strings, DeclareCopy(s, t) PROVE StringsInv'
  <2>1. FreeFor(s, mem) /\ s # t /\ mem.str[t] # Raw
    BY <1>0, <1>4, NothingThere DEF DeclareCopy, Declared, OwnsNothing
  <2>2. Good(mem') /\ Same(mem, mem', {s})
    BY <1>0, <1>4, <2>1, CopyConstructedGood DEF DeclareCopy
  <2> QED
    BY <1>1, <1>4, <2>2 DEF DeclareCopy, Same
<1>5. ASSUME NEW t \in Strings, DeclareMoved(s, t) PROVE StringsInv'
  <2>1. FreeFor(s, mem) /\ s # t /\ mem.str[t] # Raw
    BY <1>0, <1>5, NothingThere DEF DeclareMoved, Declared, OwnsNothing
  <2>2. Good(mem') /\ Same(mem, mem', {s, t})
    BY <1>0, <1>5, <2>1, MoveConstructedGood DEF DeclareMoved
  <2> QED
    BY <1>1, <1>5, <2>2 DEF DeclareMoved, Same
<1>6. ASSUME NEW t \in Strings, Assign(s, t) PROVE StringsInv'
  <2>1. Good(mem') /\ Same(mem, mem', {s})
    BY <1>0, <1>6, CopyAssignedGood DEF Assign, Declared
  <2> QED
    BY <1>1, <1>6, <2>1 DEF Assign, Same
<1>7. ASSUME NEW t \in Strings, AssignMoved(s, t) PROVE StringsInv'
  <2>1. CASE s = t
    <3>1. mem' = mem
      BY <1>7, <2>1 DEF AssignMoved, MoveAssigned
    <3> QED
      BY <1>0, <1>1, <1>7, <3>1 DEF AssignMoved, Same
  <2>2. CASE s # t
    <3>1. Good(mem') /\ Same(mem, mem', {s, t})
      BY <1>0, <1>7, <2>2, MoveAssignedGood DEF AssignMoved, Declared
    <3> QED
      BY <1>1, <1>7, <3>1 DEF AssignMoved, Same
  <2> QED
    BY <2>1, <2>2
<1>8. ASSUME NEW t \in Strings, AssignFails(s, t) PROVE StringsInv'
  <2>1. FreeFor(s, mem') /\ Same(mem, mem', {s}) /\ torn' = s
    BY <1>0, <1>8, HalfAssignedTears DEF AssignFails, Declared
  <2>2. \A o \in Optionals : Live(mem', o)
    BY <1>0, <2>1, SlotsAssumption DEF AtRest, Same, Live, OwnsNothing
  <2> QED
    BY <1>0, <2>1, <2>2 DEF StringsInv, FreeFor, OwnedBut, Owns, Live, OwnsNothing, Memories
<1> QED
  BY <1>2, <1>3, <1>4, <1>5, <1>6, <1>7, <1>8

(* A call on Optionals, and perhaps a string: what it leaves of the rest.   *)
LEMMA OptionalsRest ==
  ASSUME NEW m, AtRest(m), NEW n, Good(n), NEW S \in SUBSET Optionals,
         OptSame(m, n, S \cup Strings), \A o \in S : Live(n, o)
  PROVE  AtRest(n)
<1>1. \A u \in (Optionals \cup {Temp}) \ S :
        n.str[u] = m.str[u] /\ n.has[u] = m.has[u]
  BY SlotsAssumption DEF OptSame, AllOpts
<1>2. \A o \in Optionals : Live(n, o)
  BY <1>1 DEF AtRest, Live, OwnsNothing
<1>3. n.str[Temp] = Raw /\ n.has[Temp] = Raw
  BY <1>1, SlotsAssumption DEF AtRest
<1> QED
  BY <1>2, <1>3 DEF AtRest

(* A call that did not throw.                                               *)
LEMMA AtRestStep ==
  AtRest(mem') /\ torn' = NoTear => StringsInv'
  BY DEF StringsInv, AtRest, Good, FreeFor, OwnedBut, Owns, Live, OwnsNothing, Memories, NoTear

(* What an action on Optionals starts from.                                 *)
LEMMA OptStart ==
  ASSUME NEW m, AtRest(m), NEW o \in Optionals
  PROVE  /\ o \in AllOpts /\ o \in Slots /\ Live(m, o)
         /\ m.has[o] = Raw => OwnsNothing(m, o)
         /\ m.has[o] # Raw => Declares(m, o)
<1>1. m.has[o] \in BOOLEAN \cup {Raw} /\ o \in AllOpts
  BY DEF AtRest, Good, Memories, AllOpts
<1>2. Live(m, o)
  BY DEF AtRest
<1>3. Raw # TRUE
  BY SlotsAssumption
<1> QED
  BY <1>1, <1>2, <1>3, OptsAreSlots DEF Live, Declares

(* Every call on Optionals.                                                 *)
LEMMA OptionalStep == AtRest(mem) /\ torn = NoTear /\ OptionalNext => StringsInv'
<1> SUFFICES ASSUME AtRest(mem), torn = NoTear, NEW o \in Optionals,
                    \/ OptDeclare(o) \/ OptEndScope(o)
                    \/ \E s \in Strings : \/ OptHold(o, s) \/ Value(s, o)
                                          \/ \E d \in Strings : ValueOr(s, o, d)
                    \/ \E p \in Optionals :
                         \/ OptDeclareCopy(o, p) \/ OptDeclareMoved(o, p) \/ OptSwap(o, p)
                         \/ OptAssign(o, p) \/ OptAssignFails(o, p) \/ OptAssignMoved(o, p)
             PROVE  StringsInv'
  BY DEF OptionalNext
<1>0. /\ Good(mem) /\ Strings \subseteq Slots /\ \A s \in Strings : s # o /\ s \notin AllOpts
      /\ Optionals \subseteq AllOpts
  BY SlotsAssumption DEF AtRest, AllOpts
<1>1. CASE OptDeclare(o)
  <2>1. mem' = Has(mem, o, FALSE) /\ torn' = NoTear /\ OwnsNothing(mem, o)
    BY <1>1, OptStart DEF OptDeclare, OptDeclared
  <2>2. Good(mem') /\ mem'.str = mem.str /\ mem'.has = [mem.has EXCEPT ![o] = FALSE]
    BY <1>0, <2>1, HasFalseGood
  <2>3. mem.has \in [AllOpts -> BOOLEAN \cup {Raw}]
    BY <1>0 DEF Good, Memories
  <2>4. Live(mem', o) /\ OptSame(mem, mem', {o} \cup Strings)
    BY <1>0, <2>1, <2>2, <2>3 DEF Live, OptSame, OwnsNothing
  <2> QED
    BY <2>1, <2>2, <2>4, OptionalsRest, AtRestStep
<1>2. CASE OptEndScope(o)
  <2>1. mem' = OptDestroyed(mem, o) /\ torn' = NoTear /\ mem.has[o] # Raw
    BY <1>2 DEF OptEndScope, OptDeclared
  <2>2. Good(mem') /\ OptSame(mem, mem', {o}) /\ mem'.str[o] = Raw /\ mem'.has[o] = Raw
    BY <1>0, <2>1, OptStart, OptDestroyedGood
  <2>3. Live(mem', o) /\ OptSame(mem, mem', {o} \cup Strings)
    BY <2>2, SlotsAssumption DEF Live, OptSame, OwnsNothing
  <2> QED
    BY <2>1, <2>2, <2>3, OptionalsRest, AtRestStep
<1>3. ASSUME NEW s \in Strings, OptHold(o, s) PROVE StringsInv'
  <2>1. FreeFor(o, mem) /\ o # s /\ mem.str[s] # Raw /\ torn' = NoTear
    BY <1>0, <1>3, OptStart, NothingThere DEF OptHold, OptDeclared, Declared
  <2>2. CASE mem' \in HoldsCopy(mem, o, s)
    <3>1. Good(mem') /\ OptSame(mem, mem', {o}) /\ mem'.str[o] # Raw /\ mem'.has[o] = TRUE
      BY <1>0, <2>1, <2>2, HoldsCopyGood
    <3>2. Live(mem', o) /\ OptSame(mem, mem', {o} \cup Strings)
      BY <3>1 DEF Live, OptSame
    <3> QED
      BY <2>1, <3>1, <3>2, OptionalsRest, AtRestStep
  <2>3. CASE mem' = HoldsMoved(mem, o, s)
    <3>1. /\ Good(mem') /\ mem'.str[o] # Raw /\ mem'.str[s] = Null
          /\ \A u \in Slots \ {o, s} : mem'.str[u] = mem.str[u]
          /\ mem'.has = [mem.has EXCEPT ![o] = TRUE]
      BY <1>0, <2>1, <2>3, HoldsMovedGood
    <3>2. mem.has \in [AllOpts -> BOOLEAN \cup {Raw}]
      BY <1>0 DEF Good, Memories
    <3>3. Live(mem', o) /\ OptSame(mem, mem', {o} \cup Strings)
      BY <1>0, <3>1, <3>2 DEF Live, OptSame
    <3>4. Good(mem') /\ torn' = NoTear
      BY <2>1, <3>1
    <3>5. AtRest(mem')
      BY <3>3, <3>4, OptionalsRest
    <3> QED
      BY <3>4, <3>5, AtRestStep
  <2> QED
    BY <1>3, <2>2, <2>3 DEF OptHold
<1>4. ASSUME NEW s \in Strings, Value(s, o) PROVE StringsInv'
  <2>1. FreeFor(s, mem) /\ o # s /\ mem.str[o] # Raw /\ mem.has[o] = TRUE /\ torn' = NoTear
    BY <1>0, <1>4, OptStart, NothingThere DEF Value, HasValue, Declared, OwnsNothing, Live
  <2>2. CASE mem' \in CopyConstructed(mem, s, o)
    <3>1. Good(mem') /\ Same(mem, mem', Strings)
      BY <1>0, <2>1, <2>2, OptStart, CopyConstructedGood DEF Same
    <3> QED
      BY <2>1, <3>1, StringsKeepOpts, AtRestStep
  <2>3. CASE mem' = MoveConstructed(mem, s, o)
    <3>1. Good(mem') /\ Same(mem, mem', {s, o}) /\ mem'.str[o] = Null
      BY <1>0, <2>1, <2>3, OptStart, MoveConstructedGood
    <3>2. Live(mem', o) /\ OptSame(mem, mem', {o} \cup Strings)
      BY <2>1, <3>1, NullString DEF Live, OptSame, Same
    <3> QED
      BY <2>1, <3>1, <3>2, OptionalsRest, AtRestStep
  <2> QED
    BY <1>4, <2>2, <2>3 DEF Value
<1>5. ASSUME NEW s \in Strings, NEW d \in Strings, ValueOr(s, o, d) PROVE StringsInv'
  <2>1. FreeFor(s, mem) /\ s # d /\ mem.str[d] # Raw /\ torn' = NoTear
    BY <1>0, <1>5, NothingThere DEF ValueOr, Declared, OwnsNothing
  <2>2. Good(mem') /\ Same(mem, mem', Strings)
    <3>1. CASE HasValue(o)
      <4>1. mem' \in CopyConstructed(mem, s, o) /\ mem.str[o] # Raw
        BY <1>5, <3>1, OptStart DEF ValueOr, HasValue, Live
      <4> QED
        BY <1>0, <2>1, <4>1, OptStart, CopyConstructedGood DEF Same
    <3>2. CASE ~HasValue(o)
      <4>1. mem' = MoveConstructed(mem, s, d)
        BY <1>5, <3>2 DEF ValueOr
      <4> QED
        BY <1>0, <2>1, <4>1, MoveConstructedGood DEF Same
    <3> QED
      BY <3>1, <3>2
  <2> QED
    BY <2>1, <2>2, StringsKeepOpts, AtRestStep
<1>6. ASSUME NEW p \in Optionals, OptDeclareCopy(o, p) PROVE StringsInv'
  <2>1. o # p /\ OwnsNothing(mem, o) /\ Declares(mem, p) /\ torn' = NoTear
    BY <1>6, OptStart DEF OptDeclareCopy, OptDeclared
  <2>2. Good(mem') /\ OptSame(mem, mem', {o}) /\ Live(mem', o)
    BY <1>0, <1>6, <2>1, OptStart, OptCopyConstructedGood DEF OptDeclareCopy
  <2>3. OptSame(mem, mem', {o} \cup Strings)
    BY <2>2 DEF OptSame
  <2> QED
    BY <2>1, <2>2, <2>3, OptionalsRest, AtRestStep
<1>7. ASSUME NEW p \in Optionals, OptDeclareMoved(o, p) PROVE StringsInv'
  <2>1. o # p /\ OwnsNothing(mem, o) /\ Declares(mem, p) /\ torn' = NoTear
    BY <1>7, OptStart DEF OptDeclareMoved, OptDeclared
  <2>2. Good(mem') /\ OptSame(mem, mem', {o, p}) /\ Live(mem', o) /\ Live(mem', p)
    BY <1>0, <1>7, <2>1, OptStart, OptMoveConstructedGood DEF OptDeclareMoved
  <2>3. OptSame(mem, mem', {o, p} \cup Strings)
    BY <2>2 DEF OptSame
  <2> QED
    BY <2>1, <2>2, <2>3, OptionalsRest, AtRestStep
<1>8. ASSUME NEW p \in Optionals, OptSwap(o, p) PROVE StringsInv'
  <2>1. Declares(mem, o) /\ Declares(mem, p) /\ torn' = NoTear /\ mem.str[Temp] = Raw
    BY <1>8, OptStart DEF OptSwap, OptDeclared, AtRest
  <2>2. /\ Good(mem') /\ OptSame(mem, mem', {o, p, Temp})
        /\ Live(mem', o) /\ Live(mem', p) /\ mem'.str[Temp] = Raw /\ mem'.has[Temp] = Raw
    BY <1>0, <1>8, <2>1, OptStart, OptSwappedGood DEF OptSwap
  <2>3. OptSame(mem, mem', {o, p} \cup Strings)
    BY <2>2 DEF OptSame, AtRest
  <2> QED
    BY <2>1, <2>2, <2>3, OptionalsRest, AtRestStep
<1>9. ASSUME NEW p \in Optionals, OptAssign(o, p) PROVE StringsInv'
  <2>1. Declares(mem, o) /\ Declares(mem, p) /\ torn' = NoTear
    BY <1>9, OptStart DEF OptAssign, OptDeclared
  <2>2. Good(mem') /\ OptSame(mem, mem', {o}) /\ Live(mem', o)
    BY <1>0, <1>9, <2>1, OptStart, OptCopyAssignedGood DEF OptAssign
  <2>3. OptSame(mem, mem', {o} \cup Strings)
    BY <2>2 DEF OptSame
  <2> QED
    BY <2>1, <2>2, <2>3, OptionalsRest, AtRestStep
<1>10. ASSUME NEW p \in Optionals, OptAssignMoved(o, p) PROVE StringsInv'
  <2>1. Declares(mem, o) /\ Declares(mem, p) /\ torn' = NoTear
    BY <1>10, OptStart DEF OptAssignMoved, OptDeclared
  <2>2. Good(mem') /\ OptSame(mem, mem', {o, p}) /\ Live(mem', o) /\ Live(mem', p)
    BY <1>0, <1>10, <2>1, OptStart, OptMoveAssignedGood DEF OptAssignMoved
  <2>3. OptSame(mem, mem', {o, p} \cup Strings)
    BY <2>2 DEF OptSame
  <2> QED
    BY <2>1, <2>2, <2>3, OptionalsRest, AtRestStep
<1>11. ASSUME NEW p \in Optionals, OptAssignFails(o, p) PROVE StringsInv'
  <2>1. mem.str[o] # Raw /\ mem.str[p] # Raw /\ torn' = o /\ o \in Slots /\ p \in Slots
    BY <1>11, OptStart DEF OptAssignFails, HasValue, Live
  <2>2. FreeFor(o, mem') /\ Same(mem, mem', {o}) /\ mem'.str[o] # Raw /\ mem.has[o] = TRUE
    BY <1>0, <1>11, <2>1, HalfAssignedTears DEF OptAssignFails, HasValue
  <2>3. \A q \in Optionals : Live(mem', q)
    BY <1>0, <2>2, OptStart DEF Same, Live, OwnsNothing
  <2> QED
    BY <2>1, <2>2, <2>3
       DEF StringsInv, FreeFor, OwnedBut, Owns, Live, OwnsNothing, Memories
<1> QED
  BY <1>1, <1>2, <1>3, <1>4, <1>5, <1>6, <1>7, <1>8, <1>9, <1>10, <1>11

(* Every step, until an assignment throws.                                  *)
LEMMA StepStringsInv == StringsInv /\ [StringsNext]_stringVars => StringsInv'
<1> SUFFICES ASSUME StringsInv, [StringsNext]_stringVars PROVE StringsInv'
  OBVIOUS
<1>1. CASE StringsNext
  <2>1. torn = NoTear /\ AtRest(mem)
    BY <1>1, MemoryAssumption DEF StringsNext, StringsInv, NoTear
  <2>2. ASSUME NEW a \in Strings, NEW b \in Strings, Swap(a, b) PROVE StringsInv'
    <3>1. Good(mem') /\ Same(mem, mem', {a, b})
      BY <2>1, <2>2, SwappedGood DEF Swap, Declared, AtRest
    <3>2. Same(mem, mem', Strings)
      BY <3>1 DEF Same
    <3>3. AtRest(mem') /\ torn' = NoTear
      BY <2>1, <2>2, <3>1, <3>2, StringsKeepOpts DEF Swap
    <3> QED
      BY <3>3, AtRestStep
  <2> QED
    BY <1>1, <2>1, <2>2, StringStep, OptionalStep DEF StringsNext
<1>2. CASE UNCHANGED stringVars
  BY <1>2 DEF stringVars, StringsInv, AtRest, Good, FreeFor, OwnedBut, Owns, Live, OwnsNothing,
              Memories
<1> QED
  BY <1>1, <1>2

-----------------------------------------------------------------------------
(* What strings and optionals read as, beside what they own.                *)

(* What readers find in the slots outside of S has not changed.             *)
Reads(m, n, S) == \A u \in Slots \ S : StrVal(n, u) = StrVal(m, u)

(* A slot whose string and buffer are as they were reads as it did.         *)
LEMMA ReadsAlike ==
  ASSUME NEW m, NEW n, NEW u, n.str[u] = m.str[u],
         Owns(m, u) => n.heap[m.str[u].data] = m.heap[m.str[u].data]
  PROVE  StrVal(n, u) = StrVal(m, u)
  BY DEF StrVal, Text, Owns

(* delete[] of a buffer that is the string's own is not seen by others.     *)
LEMMA DeletedReads ==
  ASSUME NEW m, Good(m), NEW s \in Slots, m.str[s] # Raw,
         NEW e, e = Deleted(m, m.str[s].data)
  PROVE  Reads(m, e, {s})
<1> USE MemoryAssumption DEF Good
<1>1. m.str[s] \in Strs
  BY DEF Memories
<1>2. /\ e.str = m.str
      /\ e.heap = IF m.str[s].data = NULL THEN m.heap
                  ELSE [m.heap EXCEPT ![m.str[s].data] = Free]
  BY <1>1 DEF Deleted, Memories, Strs
<1> SUFFICES ASSUME NEW u \in Slots \ {s} PROVE StrVal(e, u) = StrVal(m, u)
  BY DEF Reads
<1>3. ASSUME Owns(m, u) PROVE e.heap[m.str[u].data] = m.heap[m.str[u].data]
  <2>1. m.str[s].data # NULL => Owns(m, s) /\ m.str[s].data # m.str[u].data
    BY <1>3 DEF OwnedBut, Owns
  <2>2. m.heap \in [Addrs -> Texts \cup {Free}] /\ m.str[u].data \in Addrs
    BY <1>3 DEF Memories, Owns, Strs
  <2> QED
    BY <1>2, <2>1, <2>2
<1>4. e.str[u] = m.str[u]
  BY <1>2
<1> QED
  BY <1>3, <1>4, ReadsAlike

(* A move hands the text over.                                              *)
LEMMA MoveConstructedReads ==
  ASSUME NEW m, NEW s \in Slots, NEW t \in Slots, s # t, FreeFor(s, m),
         m.str[t] # Raw, NEW n, n = MoveConstructed(m, s, t)
  PROVE  StrVal(n, s) = StrVal(m, t) /\ StrVal(n, t) = NULL /\ Reads(m, n, {s, t})
<1>1. m.str[t] \in Strs /\ Null # Raw /\ Null.data = NULL
  BY NullString DEF FreeFor, Memories, Null
<1>2. /\ n.str = [m.str EXCEPT ![s] = m.str[t], ![t] = Null] /\ n.heap = m.heap
      /\ m.str \in [Slots -> Strs \cup {Raw}]
  BY <1>1 DEF MoveConstructed, FreeFor, Memories
<1>3. n.str[s] = m.str[t] /\ n.str[t] = Null /\ \A u \in Slots \ {s, t} : n.str[u] = m.str[u]
  BY <1>2
<1> QED
  BY <1>1, <1>2, <1>3 DEF StrVal, Text, Reads

(* A new buffer has its text, and was nobody's.                             *)
LEMMA NewBufferReads ==
  ASSUME NEW m, NEW s \in Slots, FreeFor(s, m), NEW text \in Texts,
         NEW n \in NewBuffer(m, s, Len(text), text)
  PROVE  StrVal(n, s) = text /\ Reads(m, n, {s})
<1> USE MemoryAssumption DEF FreeFor
<1>1. PICK a \in Addrs :
        /\ m.heap[a] = Free
        /\ n = [m EXCEPT !.heap[a] = text,
                         !.str[s] = [data |-> a, length |-> Len(text)]]
  BY DEF NewBuffer
<1> DEFINE new == [data |-> a, length |-> Len(text)]
<1>2. new # Raw /\ new.data = a /\ a # NULL
  BY DEF Strs
<1>3. n = [m EXCEPT !.heap[a] = text, !.str[s] = new]
  BY <1>1
<1> HIDE DEF new
<1>4. /\ n.str = [m.str EXCEPT ![s] = new] /\ n.heap = [m.heap EXCEPT ![a] = text]
      /\ m.str \in [Slots -> Strs \cup {Raw}] /\ m.heap \in [Addrs -> Texts \cup {Free}]
  BY <1>3 DEF Memories
<1>5. StrVal(n, s) = text
  BY <1>2, <1>4 DEF StrVal, Text
<1>6. ASSUME NEW u \in Slots \ {s} PROVE StrVal(n, u) = StrVal(m, u)
  <2>1. Owns(m, u) => m.heap[m.str[u].data] # Free /\ m.str[u].data \in Addrs
    BY <1>4 DEF OwnedBut, Owns, Strs
  <2>2. n.str[u] = m.str[u] /\ (Owns(m, u) => n.heap[m.str[u].data] = m.heap[m.str[u].data])
    BY <1>1, <1>4, <2>1
  <2> QED
    BY <2>2, ReadsAlike
<1> QED
  BY <1>5, <1>6 DEF Reads

(* MyString() and MyString(const char* ) leave the other strings alone.     *)
LEMMA FromTextReads ==
  ASSUME NEW m, NEW s \in Slots, FreeFor(s, m), NEW text \in Texts \cup {NULL},
         NEW n \in FromText(m, s, text)
  PROVE  StrVal(n, s) = text /\ Reads(m, n, {s})
<1> USE MemoryAssumption
<1>1. CASE text # NULL
  BY <1>1, NewBufferReads DEF FromText
<1>2. CASE text = NULL
  <2>1. n = [m EXCEPT !.str[s] = Null] /\ Null # Raw /\ Null.data = NULL
    BY <1>2, NullString DEF FromText, Null
  <2>2. n.str = [m.str EXCEPT ![s] = Null] /\ n.heap = m.heap /\ m.str \in [Slots -> Strs \cup {Raw}]
    BY <2>1 DEF FreeFor, Memories
  <2> QED
    BY <1>2, <2>1, <2>2 DEF StrVal, Text, Reads
<1> QED
  BY <1>1, <1>2

(* A copy reads as what it was copied from.                                 *)
LEMMA CopyConstructedReads ==
  ASSUME NEW m, NEW s \in Slots, NEW t \in Slots, s # t, FreeFor(s, m),
         m.str[t] # Raw, NEW n \in CopyConstructed(m, s, t)
  PROVE  StrVal(n, s) = StrVal(m, t) /\ Reads(m, n, {s})
<1> USE MemoryAssumption
<1>1. m.str[t] \in Strs
  BY DEF FreeFor, Memories
<1>2. CASE m.str[t].data = NULL
  <2>1. m.str[t].length = 0 /\ StrVal(m, t) = NULL
    BY <1>2 DEF FreeFor, OwnedBut, StrVal, Text
  <2>2. n \in FromText(m, s, NULL)
    BY <1>2, <2>1 DEF CopyConstructed, FromText, Null
  <2>3. StrVal(n, s) = NULL /\ Reads(m, n, {s})
    BY <2>2, FromTextReads
  <2> QED
    BY <2>1, <2>3
<1>3. CASE m.str[t].data # NULL
  <2>1. Owns(m, t) /\ StrVal(m, t) = m.heap[m.str[t].data]
    BY <1>3 DEF Owns, StrVal, Text
  <2>2. /\ m.heap[m.str[t].data] \in Texts
        /\ m.str[t].length = Len(m.heap[m.str[t].data])
    BY <1>1, <1>3, <2>1 DEF FreeFor, OwnedBut, Memories, Strs
  <2>3. n \in NewBuffer(m, s, Len(m.heap[m.str[t].data]), m.heap[m.str[t].data])
    BY <1>3, <2>2 DEF CopyConstructed, Text
  <2>4. StrVal(n, s) = m.heap[m.str[t].data] /\ Reads(m, n, {s})
    BY <2>2, <2>3, NewBufferReads
  <2> QED
    BY <2>1, <2>4
<1> QED
  BY <1>2, <1>3

(* operator=(MyString&& ) of another string hands the text over.            *)
LEMMA MoveAssignedReads ==
  ASSUME NEW m, Good(m), NEW s \in Slots, NEW t \in Slots, s # t,
         m.str[s] # Raw, m.str[t] # Raw, NEW n, n = MoveAssigned(m, s, t)
  PROVE  StrVal(n, s) = StrVal(m, t) /\ StrVal(n, t) = NULL /\ Reads(m, n, {s, t})
<1> DEFINE e == Deleted(m, m.str[s].data)
<1>1. FreeFor(s, e) /\ e.str = m.str /\ Reads(m, e, {s})
  BY DeletedThere, DeletedReads
<1>2. n = MoveConstructed(e, s, t)
  BY DEF MoveAssigned
<1> HIDE DEF e
<1>3. StrVal(n, s) = StrVal(e, t) /\ StrVal(n, t) = NULL /\ Reads(e, n, {s, t})
  BY <1>1, <1>2, MoveConstructedReads
<1> QED
  BY <1>1, <1>3 DEF Reads

(* operator=(const MyString& ) copies the text, although the buffer that is *)
(* deleted first may be the one that new returns.                           *)
LEMMA CopyAssignedReads ==
  ASSUME NEW m, Good(m), NEW s \in Slots, NEW t \in Slots,
         m.str[s] # Raw, m.str[t] # Raw, NEW n \in CopyAssigned(m, s, t)
  PROVE  StrVal(n, s) = StrVal(m, t) /\ Reads(m, n, {s})
<1>1. CASE s = t
  BY <1>1 DEF CopyAssigned, Reads
<1>2. CASE s # t
  <2> DEFINE e == Deleted(m, m.str[s].data)
  <2>1. FreeFor(s, e) /\ e.str = m.str /\ Reads(m, e, {s})
    BY DeletedThere, DeletedReads
  <2>2. n \in CopyConstructed(e, s, t)
    BY <1>2 DEF CopyAssigned
  <2> HIDE DEF e
  <2>3. StrVal(n, s) = StrVal(e, t) /\ Reads(e, n, {s})
    BY <1>2, <2>1, <2>2, CopyConstructedReads
  <2> QED
    BY <1>2, <2>1, <2>3 DEF Reads
<1> QED
  BY <1>1, <1>2

(* The destructor takes no text away from another string.                   *)
LEMMA DestroyedReads ==
  ASSUME NEW m, Good(m), NEW s \in Slots, m.str[s] # Raw, NEW n, n = Destroyed(m, s)
  PROVE  StrVal(n, s) = Absent /\ Reads(m, n, {s})
<1> DEFINE e == Deleted(m, m.str[s].data)
<1>1. FreeFor(s, e) /\ Reads(m, e, {s})
  BY DeletedThere, DeletedReads
<1>2. n = [e EXCEPT !.str[s] = Raw]
  BY DEF Destroyed
<1> HIDE DEF e
<1>3. n.str = [e.str EXCEPT ![s] = Raw] /\ n.heap = e.heap /\ e.str \in [Slots -> Strs \cup {Raw}]
  BY <1>1, <1>2 DEF FreeFor, Memories
<1>4. \A u \in Slots \ {s} : StrVal(n, u) = StrVal(e, u)
  BY <1>3 DEF StrVal, Text
<1> QED
  BY <1>1, <1>3, <1>4 DEF StrVal, Reads

(* An assignment that throws takes no text away from another string.        *)
LEMMA HalfAssignedReads ==
  ASSUME NEW m, Good(m), NEW s \in Slots, NEW t \in Slots,
         m.str[s] # Raw, NEW n, n = HalfAssigned(m, s, t)
  PROVE  Reads(m, n, {s})
<1> DEFINE e == Deleted(m, m.str[s].data)
           half == [m.str[s] EXCEPT !.length = m.str[t].length]
<1>1. FreeFor(s, e) /\ e.str = m.str /\ Reads(m, e, {s})
  BY DeletedThere, DeletedReads
<1>2. n = [e EXCEPT !.str[s] = half]
  BY <1>1 DEF HalfAssigned, FreeFor, Memories
<1> HIDE DEF e, half
<1>3. n.str = [e.str EXCEPT ![s] = half] /\ n.heap = e.heap /\ e.str \in [Slots -> Strs \cup {Raw}]
  BY <1>1, <1>2 DEF FreeFor, Memories
<1>4. \A u \in Slots \ {s} : StrVal(n, u) = StrVal(e, u)
  BY <1>3 DEF StrVal, Text
<1> QED
  BY <1>1, <1>4 DEF Reads

(* my::swap exchanges the texts, and one string with itself keeps its own.  *)
LEMMA SwappedReads ==
  ASSUME NEW m, Good(m), NEW a \in Strings, NEW b \in Strings,
         m.str[a] # Raw, m.str[b] # Raw, m.str[Temp] = Raw,
         NEW n, n = Swapped(m, a, b)
  PROVE  StrVal(n, a) = StrVal(m, b) /\ StrVal(n, b) = StrVal(m, a) /\ Reads(m, n, {a, b, Temp})
<1> USE SlotsAssumption
<1> DEFINE m1 == MoveConstructed(m, Temp, a)
           m2 == MoveAssigned(m1, a, b)
           m3 == MoveAssigned(m2, b, Temp)
<1>0. /\ m1 = MoveConstructed(m, Temp, a) /\ m2 = MoveAssigned(m1, a, b)
      /\ m3 = MoveAssigned(m2, b, Temp) /\ n = Destroyed(m3, Temp)
  BY DEF Swapped
<1> HIDE DEF m1, m2, m3
<1>t. Temp \in Slots /\ a \in Slots /\ b \in Slots /\ Temp # a /\ Temp # b
  OBVIOUS
<1>1. /\ Good(m1) /\ Same(m, m1, {Temp, a}) /\ m1.str[Temp] # Raw /\ m1.str[a] # Raw
      /\ StrVal(m1, Temp) = StrVal(m, a) /\ Reads(m, m1, {Temp, a})
  <2>1. FreeFor(Temp, m)
    BY <1>t, NothingThere DEF OwnsNothing
  <2> QED
    BY <1>0, <1>t, <2>1, MoveConstructedGood, MoveConstructedReads, NullString
<1>2. CASE a = b
  <2>1. m2 = m1
    BY <1>0, <1>2 DEF MoveAssigned
  <2>5. Good(m2) /\ m2.str[b] # Raw /\ m2.str[Temp] # Raw
    BY <1>1, <1>2, <2>1
  <2>2. Good(m3) /\ Same(m2, m3, {b, Temp}) /\ m3.str[b] # Raw /\ m3.str[Temp] # Raw
    BY <1>0, <1>t, <2>5, MoveAssignedGood, NullString
  <2>4. StrVal(m3, b) = StrVal(m2, Temp) /\ Reads(m2, m3, {b, Temp})
    BY <1>0, <1>t, <2>5, MoveAssignedReads
  <2>3. Reads(m3, n, {Temp})
    BY <1>0, <1>t, <2>2, DestroyedReads
  <2> QED
    BY <1>1, <1>2, <1>t, <2>1, <2>3, <2>4 DEF Reads
<1>3. CASE a # b
  <2>1. m1.str[b] # Raw
    BY <1>1, <1>3, <1>t DEF Same
  <2>8. Good(m2) /\ Same(m1, m2, {a, b}) /\ m2.str[b] = Null
    BY <1>0, <1>1, <1>3, <1>t, <2>1, MoveAssignedGood, SMTT(40)
  <2>2. Good(m2) /\ Same(m1, m2, {a, b}) /\ m2.str[b] # Raw
    BY <2>8, NullString
  <2>6. StrVal(m2, a) = StrVal(m1, b) /\ Reads(m1, m2, {a, b})
    BY <1>0, <1>1, <1>3, <1>t, <2>1, MoveAssignedReads
  <2>3. m2.str[Temp] # Raw
    BY <1>1, <1>t, <2>2 DEF Same
  <2>4. Good(m3) /\ Same(m2, m3, {b, Temp}) /\ m3.str[b] # Raw /\ m3.str[Temp] # Raw
    BY <1>0, <1>t, <2>2, <2>3, MoveAssignedGood, NullString
  <2>7. StrVal(m3, b) = StrVal(m2, Temp) /\ Reads(m2, m3, {b, Temp})
    BY <1>0, <1>t, <2>2, <2>3, MoveAssignedReads
  <2>5. Reads(m3, n, {Temp})
    BY <1>0, <1>t, <2>4, DestroyedReads
  <2> QED
    BY <1>1, <1>3, <1>t, <2>5, <2>6, <2>7 DEF Reads
<1> QED
  BY <1>2, <1>3

(* What an Optional reads as, by its has_value_.                            *)
LEMMA OptReads ==
  ASSUME NEW m, NEW o
  PROVE  /\ m.has[o] = TRUE => OptVal(m, o) = <<StrVal(m, o)>>
         /\ m.has[o] = FALSE => OptVal(m, o) = Nothing
         /\ m.has[o] = Raw => OptVal(m, o) = Absent
<1>1. m.has[o] = TRUE => OptVal(m, o) = <<StrVal(m, o)>>
  BY DEF OptVal
<1>2. m.has[o] = FALSE => OptVal(m, o) = Nothing
  BY DEF OptVal
<1>3. m.has[o] = Raw => OptVal(m, o) = Absent
  BY SlotsAssumption DEF OptVal
<1> QED
  BY <1>1, <1>2, <1>3

(* An Optional whose flag and value are as they were reads as it did.       *)
LEMMA OptReadsAlike ==
  ASSUME NEW m, NEW n, NEW o, n.has[o] = m.has[o], StrVal(n, o) = StrVal(m, o)
  PROVE  OptVal(n, o) = OptVal(m, o)
  BY DEF OptVal

(* Optional(const T& ), Optional(T&&)                                       *)
LEMMA HoldsCopyReads ==
  ASSUME NEW m, NEW o \in AllOpts, NEW s \in Slots, o # s, FreeFor(o, m),
         m.str[s] # Raw, NEW n \in HoldsCopy(m, o, s)
  PROVE  StrVal(n, o) = StrVal(m, s) /\ Reads(m, n, {o})
<1> USE OptsAreSlots
<1>1. PICK c \in CopyConstructed(m, o, s) : n = Has(c, o, TRUE)
  BY DEF HoldsCopy
<1>2. StrVal(c, o) = StrVal(m, s) /\ Reads(m, c, {o})
  BY CopyConstructedReads
<1>3. \A u : StrVal(n, u) = StrVal(c, u)
  BY <1>1 DEF Has, StrVal, Text
<1> QED
  BY <1>2, <1>3 DEF Reads

(* The text is handed over to the value.                                    *)
LEMMA HoldsMovedReads ==
  ASSUME NEW m, NEW o \in AllOpts, NEW s \in Slots, o # s, FreeFor(o, m),
         m.str[s] # Raw, NEW n, n = HoldsMoved(m, o, s)
  PROVE  StrVal(n, o) = StrVal(m, s) /\ StrVal(n, s) = NULL /\ Reads(m, n, {o, s})
<1> USE OptsAreSlots
<1> DEFINE c == MoveConstructed(m, o, s)
<1>1. n = Has(c, o, TRUE)
  BY DEF HoldsMoved
<1>2. StrVal(c, o) = StrVal(m, s) /\ StrVal(c, s) = NULL /\ Reads(m, c, {o, s})
  BY MoveConstructedReads
<1> HIDE DEF c
<1>3. \A u : StrVal(n, u) = StrVal(c, u)
  BY <1>1 DEF Has, StrVal, Text
<1> QED
  BY <1>2, <1>3 DEF Reads

(* A copy of an Optional has an equal value, or none.                       *)
LEMMA OptCopyConstructedReads ==
  ASSUME NEW m, Good(m), NEW o \in AllOpts, NEW p \in AllOpts, o # p,
         OwnsNothing(m, o), Declares(m, p), Live(m, p),
         NEW n \in OptCopyConstructed(m, o, p)
  PROVE  OptVal(n, o) = OptVal(m, p) /\ Reads(m, n, {o})
<1> USE OptsAreSlots
<1>1. CASE m.has[p] = TRUE
  <2>1. n \in HoldsCopy(m, o, p) /\ m.str[p] # Raw
    BY <1>1 DEF OptCopyConstructed, Live
  <2>2. n.has[o] = TRUE /\ StrVal(n, o) = StrVal(m, p) /\ Reads(m, n, {o})
    BY <2>1, NothingThere, HoldsCopyGood, HoldsCopyReads
  <2> QED
    BY <1>1, <2>2, OptReads
<1>2. CASE m.has[p] = FALSE
  <2>1. n = Has(m, o, FALSE)
    BY <1>2 DEF OptCopyConstructed
  <2>2. n.has = [m.has EXCEPT ![o] = FALSE] /\ m.has \in [AllOpts -> BOOLEAN \cup {Raw}]
    BY <2>1, HasFalseGood DEF Good, Memories
  <2>3. n.has[o] = FALSE
    BY <2>2
  <2>4. \A u : StrVal(n, u) = StrVal(m, u)
    BY <2>1 DEF Has, StrVal, Text
  <2>5. Reads(m, n, {o})
    BY <2>4 DEF Reads
  <2> QED
    BY <1>2, <2>3, <2>5, OptReads
<1> QED
  BY <1>1, <1>2 DEF Declares

(* A move hands the value over and leaves none.                             *)
LEMMA OptMoveConstructedReads ==
  ASSUME NEW m, Good(m), NEW o \in AllOpts, NEW p \in AllOpts, o # p,
         OwnsNothing(m, o), Declares(m, p), Live(m, p),
         NEW n, n = OptMoveConstructed(m, o, p)
  PROVE  OptVal(n, o) = OptVal(m, p) /\ OptVal(n, p) = Nothing /\ Reads(m, n, {o, p})
<1> USE OptsAreSlots
<1> DEFINE c == IF m.has[p] THEN HoldsMoved(m, o, p) ELSE Has(m, o, FALSE)
<1>0. n = Has(c, p, FALSE)
  BY DEF OptMoveConstructed
<1>1. m.has \in [AllOpts -> BOOLEAN \cup {Raw}]
  BY DEF Good, Memories
<1>2. CASE m.has[p] = TRUE
  <2>1. c = HoldsMoved(m, o, p) /\ m.str[p] # Raw
    BY <1>2 DEF Live
  <2> HIDE DEF c
  <2>2. /\ Good(c) /\ c.has = [m.has EXCEPT ![o] = TRUE]
        /\ StrVal(c, o) = StrVal(m, p) /\ Reads(m, c, {o, p})
    BY <2>1, NothingThere, HoldsMovedGood, HoldsMovedReads
  <2>3. n.has = [c.has EXCEPT ![p] = FALSE]
    BY <1>0, <2>2, HasFalseGood
  <2>4. n.has[o] = TRUE /\ n.has[p] = FALSE
    BY <1>1, <2>2, <2>3
  <2>5. \A u : StrVal(n, u) = StrVal(c, u)
    BY <1>0 DEF Has, StrVal, Text
  <2>6. Reads(m, n, {o, p}) /\ StrVal(n, o) = StrVal(m, p)
    BY <2>2, <2>5 DEF Reads
  <2> QED
    BY <1>2, <2>4, <2>6, OptReads
<1>3. CASE m.has[p] = FALSE
  <2>1. c = Has(m, o, FALSE)
    BY <1>3
  <2> HIDE DEF c
  <2>2. Good(c) /\ c.has = [m.has EXCEPT ![o] = FALSE]
    BY <2>1, HasFalseGood
  <2>3. n.has = [c.has EXCEPT ![p] = FALSE]
    BY <1>0, <2>2, HasFalseGood
  <2>4. n.has[o] = FALSE /\ n.has[p] = FALSE
    BY <1>1, <2>2, <2>3
  <2>5. \A u : StrVal(c, u) = StrVal(m, u)
    BY <2>1 DEF Has, StrVal, Text
  <2>6. \A u : StrVal(n, u) = StrVal(c, u)
    BY <1>0 DEF Has, StrVal, Text
  <2>7. Reads(m, n, {o, p})
    BY <2>5, <2>6 DEF Reads
  <2> QED
    BY <1>3, <2>4, <2>7, OptReads
<1> QED
  BY <1>2, <1>3 DEF Declares

(* Destroying the value takes nothing away from others.                     *)
LEMMA EmptiedReads ==
  ASSUME NEW m, Good(m), NEW o \in AllOpts, Declares(m, o), Live(m, o),
         NEW n, n = Emptied(m, o)
  PROVE  Reads(m, n, {o})
<1> USE OptsAreSlots
<1>1. CASE m.has[o] = TRUE
  BY <1>1, DestroyedReads DEF Emptied, Live
<1>2. CASE m.has[o] = FALSE
  BY <1>2 DEF Emptied, Reads
<1> QED
  BY <1>1, <1>2 DEF Declares

(* operator=(Optional&&) of another Optional does as the constructor.       *)
LEMMA OptMoveAssignedReads ==
  ASSUME NEW m, Good(m), NEW o \in AllOpts, NEW p \in AllOpts, o # p,
         Declares(m, o), Live(m, o), Declares(m, p), Live(m, p),
         NEW n, n = OptMoveAssigned(m, o, p)
  PROVE  OptVal(n, o) = OptVal(m, p) /\ OptVal(n, p) = Nothing /\ Reads(m, n, {o, p})
<1> USE OptsAreSlots
<1> DEFINE d == Emptied(m, o)
<1>1. n = OptMoveConstructed(d, o, p)
  BY DEF OptMoveAssigned, Emptied
<1>2. Good(d) /\ Same(m, d, {o}) /\ OwnsNothing(d, o) /\ Reads(m, d, {o})
  BY EmptiedGood, EmptiedReads
<1> HIDE DEF d
<1>3. Declares(d, p) /\ Live(d, p)
  BY <1>2 DEF Same, Declares, Live, OwnsNothing
<1>4. OptVal(n, o) = OptVal(d, p) /\ OptVal(n, p) = Nothing /\ Reads(d, n, {o, p})
  BY <1>1, <1>2, <1>3, OptMoveConstructedReads
<1>5. OptVal(d, p) = OptVal(m, p)
  BY <1>2, OptReadsAlike DEF Same, Reads
<1> QED
  BY <1>2, <1>4, <1>5 DEF Reads

(* ~Optional() takes nothing away from others.                              *)
LEMMA OptDestroyedReads ==
  ASSUME NEW m, Good(m), NEW o \in AllOpts, Declares(m, o), Live(m, o),
         NEW n, n = OptDestroyed(m, o)
  PROVE  OptVal(n, o) = Absent /\ Reads(m, n, {o})
<1> USE OptsAreSlots
<1> DEFINE d == Emptied(m, o)
<1>1. n = [d EXCEPT !.has[o] = Raw, !.str[o] = Raw]
  BY DEF OptDestroyed, Emptied
<1>2. Good(d) /\ Reads(m, d, {o})
  BY EmptiedGood, EmptiedReads
<1> HIDE DEF d
<1>3. n.str = [d.str EXCEPT ![o] = Raw] /\ n.heap = d.heap /\ d.str \in [Slots -> Strs \cup {Raw}]
  BY <1>1, <1>2 DEF Good, Memories
<1>4. \A u \in Slots \ {o} : StrVal(n, u) = StrVal(d, u)
  BY <1>3 DEF StrVal, Text
<1>5. n.has[o] = Raw
  BY OptDestroyedGood
<1> QED
  BY <1>2, <1>4, <1>5, OptReads DEF Reads

(* An Optional that a call does not name reads as it did.                   *)
LEMMA OptReadsElsewhere ==
  ASSUME NEW m, NEW n, NEW S, OptSame(m, n, S), Reads(m, n, S), NEW u \in AllOpts \ S
  PROVE  OptVal(n, u) = OptVal(m, u)
  BY OptsAreSlots, OptReadsAlike DEF OptSame, Reads

(* operator=(const Optional& ) leaves an equal value, or none.              *)
LEMMA OptCopyAssignedReads ==
  ASSUME NEW m, Good(m), NEW o \in AllOpts, NEW p \in AllOpts,
         Declares(m, o), Live(m, o), Declares(m, p), Live(m, p),
         NEW n \in OptCopyAssigned(m, o, p)
  PROVE  OptVal(n, o) = OptVal(m, p) /\ Reads(m, n, {o})
<1> USE OptsAreSlots
<1>0. m.has \in [AllOpts -> BOOLEAN \cup {Raw}]
  BY DEF Good, Memories
<1>1. CASE o = p
  <2>1. n = m
    BY <1>1 DEF OptCopyAssigned
  <2> QED
    BY <1>1, <2>1 DEF Reads
<1>2. CASE o # p /\ m.has[o] = TRUE /\ m.has[p] = TRUE
  <2>1. n \in CopyAssigned(m, o, p) /\ m.str[o] # Raw /\ m.str[p] # Raw
    BY <1>2 DEF OptCopyAssigned, Live
  <2>2. n.has = m.has
    BY <2>1, CopyAssignedGood DEF Same
  <2>3. StrVal(n, o) = StrVal(m, p) /\ Reads(m, n, {o})
    BY <2>1, CopyAssignedReads
  <2> QED
    BY <1>2, <2>2, <2>3, OptReads
<1>3. CASE o # p /\ m.has[o] = TRUE /\ m.has[p] = FALSE
  <2> DEFINE d == Destroyed(m, o)
  <2>1. n = Has(d, o, FALSE) /\ m.str[o] # Raw
    BY <1>3 DEF OptCopyAssigned, Live
  <2>2. Good(d) /\ Same(m, d, {o})
    BY <2>1, DestroyedGood
  <2>3. Reads(m, d, {o})
    BY <2>1, DestroyedReads
  <2> HIDE DEF d
  <2>4. n.has = [d.has EXCEPT ![o] = FALSE]
    BY <2>1, <2>2, HasFalseGood
  <2>5. n.has[o] = FALSE
    BY <1>0, <2>2, <2>4 DEF Same
  <2>6. \A u : StrVal(n, u) = StrVal(d, u)
    BY <2>1 DEF Has, StrVal, Text
  <2>7. Reads(m, n, {o})
    BY <2>3, <2>6 DEF Reads
  <2> QED
    BY <1>3, <2>5, <2>7, OptReads
<1>4. CASE o # p /\ m.has[o] = FALSE /\ m.has[p] = TRUE
  <2>1. n \in HoldsCopy(m, o, p) /\ m.str[p] # Raw /\ OwnsNothing(m, o)
    BY <1>4 DEF OptCopyAssigned, Live
  <2>2. FreeFor(o, m)
    BY <2>1, NothingThere
  <2>3. n.has[o] = TRUE
    BY <1>4, <2>1, <2>2, HoldsCopyGood
  <2>4. StrVal(n, o) = StrVal(m, p) /\ Reads(m, n, {o})
    BY <1>4, <2>1, <2>2, HoldsCopyReads
  <2> QED
    BY <1>4, <2>3, <2>4, OptReads
<1>5. CASE o # p /\ m.has[o] = FALSE /\ m.has[p] = FALSE
  <2>1. n = m
    BY <1>5 DEF OptCopyAssigned
  <2> QED
    BY <1>5, <2>1, OptReads DEF Reads
<1> QED
  BY <1>1, <1>2, <1>3, <1>4, <1>5 DEF Declares

(* my::swap exchanges the values, also of one that has none.                *)
LEMMA OptSwappedReads ==
  ASSUME NEW m, Good(m), NEW a \in Optionals, NEW b \in Optionals,
         Declares(m, a), Live(m, a), Declares(m, b), Live(m, b),
         m.str[Temp] = Raw, NEW n, n = OptSwapped(m, a, b)
  PROVE  OptVal(n, a) = OptVal(m, b) /\ OptVal(n, b) = OptVal(m, a) /\ Reads(m, n, {a, b, Temp})
<1> DEFINE m1 == OptMoveConstructed(m, Temp, a)
           m2 == OptMoveAssigned(m1, a, b)
           m3 == OptMoveAssigned(m2, b, Temp)
<1>0. /\ m1 = OptMoveConstructed(m, Temp, a) /\ m2 = OptMoveAssigned(m1, a, b)
      /\ m3 = OptMoveAssigned(m2, b, Temp) /\ n = OptDestroyed(m3, Temp)
  BY DEF OptSwapped
<1> HIDE DEF m1, m2, m3
<1>t. /\ Temp \in AllOpts /\ a \in AllOpts /\ b \in AllOpts /\ Temp # a /\ Temp # b
      /\ AllOpts \subseteq Slots
  BY SlotsAssumption, OptsAreSlots DEF AllOpts
<1>1. OwnsNothing(m, Temp)
  BY DEF OwnsNothing
<1>2. /\ Good(m1) /\ OptSame(m, m1, {Temp, a})
      /\ Declares(m1, Temp) /\ Live(m1, Temp) /\ Declares(m1, a) /\ Live(m1, a)
  BY <1>0, <1>1, <1>t, OptMoveConstructedGood
<1>3. OptVal(m1, Temp) = OptVal(m, a) /\ Reads(m, m1, {Temp, a})
  BY <1>0, <1>1, <1>t, OptMoveConstructedReads
<1>4. Declares(m1, b) /\ Live(m1, b)
  BY <1>2, <1>t DEF OptSame, Declares, Live, OwnsNothing
<1>5. /\ Good(m2) /\ OptSame(m1, m2, {a, b})
      /\ Declares(m2, a) /\ Live(m2, a) /\ Declares(m2, b) /\ Live(m2, b)
  BY <1>0, <1>2, <1>4, <1>t, OptMoveAssignedGood
<1>6. Declares(m2, Temp) /\ Live(m2, Temp)
  BY <1>2, <1>5, <1>t DEF OptSame, Declares, Live, OwnsNothing
<1>7. /\ Good(m3) /\ OptSame(m2, m3, {b, Temp})
      /\ Live(m3, b) /\ Declares(m3, Temp) /\ Live(m3, Temp)
  BY <1>0, <1>5, <1>6, <1>t, OptMoveAssignedGood
<1>8. OptVal(m3, b) = OptVal(m2, Temp) /\ Reads(m2, m3, {b, Temp})
  BY <1>0, <1>5, <1>6, <1>t, OptMoveAssignedReads
<1>9. OptSame(m3, n, {Temp}) /\ Reads(m3, n, {Temp})
  BY <1>0, <1>7, <1>t, OptDestroyedGood, OptDestroyedReads
<1>10. OptVal(n, b) = OptVal(m2, Temp)
  BY <1>8, <1>9, <1>t, OptReadsElsewhere
<1>11. CASE a = b
  <2>1. m2 = m1
    BY <1>0, <1>11 DEF OptMoveAssigned
  <2> QED
    BY <1>3, <1>8, <1>9, <1>10, <1>11, <2>1 DEF Reads
<1>12. CASE a # b
  <2>1. OptVal(m2, a) = OptVal(m1, b) /\ Reads(m1, m2, {a, b})
    BY <1>0, <1>2, <1>4, <1>12, <1>t, OptMoveAssignedReads
  <2>2. OptVal(m2, Temp) = OptVal(m1, Temp)
    BY <1>5, <1>t, <2>1, OptReadsElsewhere
  <2>3. OptVal(m1, b) = OptVal(m, b)
    BY <1>2, <1>3, <1>12, <1>t, OptReadsElsewhere
  <2>4. OptVal(m3, a) = OptVal(m2, a)
    BY <1>7, <1>8, <1>12, <1>t, OptReadsElsewhere
  <2>5. OptVal(n, a) = OptVal(m3, a)
    BY <1>9, <1>t, OptReadsElsewhere
  <2>6. Reads(m, n, {a, b, Temp})
    BY <1>3, <1>8, <1>9, <2>1 DEF Reads
  <2> QED
    BY <1>3, <1>10, <2>1, <2>2, <2>3, <2>4, <2>5, <2>6
<1> QED
  BY <1>11, <1>12

-----------------------------------------------------------------------------
(* What the program's variables hold before a call and after it.            *)
Variables == Strings \cup Optionals

(* A string holds its text, an Optional its value or none.                  *)
LEMMA ContentsAre ==
  ASSUME NEW m
  PROVE  /\ \A s \in Strings : Contents(m)[s] = StrVal(m, s)
         /\ \A o \in Optionals : Contents(m)[o] = OptVal(m, o)
         /\ DOMAIN Contents(m) = Variables
         /\ Contents(m) = [v \in Variables |-> Contents(m)[v]]
<1>1. \A s \in Strings : Contents(m)[s] = StrVal(m, s)
  BY DEF Contents
<1>2. \A o \in Optionals : Contents(m)[o] = OptVal(m, o)
  BY SlotsAssumption DEF Contents
<1> QED
  BY <1>1, <1>2 DEF Contents, Variables

(* All variables but v and w hold what they did.                            *)
Elsewhere(v, w) == /\ Reads(mem, mem', {v, w, Temp})
                   /\ \A o \in Optionals \ {v, w} : mem'.has[o] = mem.has[o]

(* Then their contents are the same.                                        *)
LEMMA ElsewhereSame ==
  ASSUME NEW v, NEW w, Elsewhere(v, w)
  PROVE  \A u \in Variables \ {v, w} : Contents(mem')[u] = Contents(mem)[u]
<1>1. \A u \in Variables \ {v, w} : StrVal(mem', u) = StrVal(mem, u)
  BY SlotsAssumption DEF Elsewhere, Reads, Variables
<1>2. \A o \in Optionals \ {v, w} : OptVal(mem', o) = OptVal(mem, o)
  BY <1>1, OptReadsAlike DEF Elsewhere, Variables
<1> QED
  BY <1>1, <1>2, ContentsAre DEF Variables

(* A call that names two variables, or one.                                 *)
LEMMA TwoBecome ==
  ASSUME NEW v \in Variables, NEW w \in Variables, Elsewhere(v, w),
         NEW x, NEW y, Contents(mem')[v] = x, Contents(mem')[w] = y
  PROVE  Become(v, x, w, y)
<1>1. \A u \in Variables \ {v, w} : Contents(mem')[u] = Contents(mem)[u]
  BY ElsewhereSame
<1>2. /\ DOMAIN Contents(mem) = Variables
      /\ Contents(mem) = [u \in Variables |-> Contents(mem)[u]]
      /\ Contents(mem') = [u \in Variables |-> Contents(mem')[u]]
  BY ContentsAre
<1> DEFINE C == [Contents(mem) EXCEPT ![v] = x, ![w] = y]
<1>3. /\ C = [u \in Variables |-> C[u]] /\ C[w] = y /\ (v # w => C[v] = x)
      /\ \A u \in Variables \ {v, w} : C[u] = Contents(mem)[u]
  BY <1>2
<1> HIDE DEF C
<1>4. \A u \in Variables : C[u] = Contents(mem')[u]
  BY <1>1, <1>3
<1>5. C = Contents(mem')
  BY <1>2, <1>3, <1>4
<1> QED
  BY <1>5 DEF C, Become

(* The same for one.                                                        *)
LEMMA OneBecomes ==
  ASSUME NEW v \in Variables, Elsewhere(v, v), NEW x, Contents(mem')[v] = x
  PROVE  Becomes(v, x)
<1>1. Become(v, x, v, x)
  BY TwoBecome
<1>2. [Contents(mem) EXCEPT ![v] = x, ![v] = x] = [Contents(mem) EXCEPT ![v] = x]
  BY ContentsAre
<1> QED
  BY <1>1, <1>2 DEF Become, Becomes

(* All but one variable hold what they did.                                 *)
LEMMA OneChanges == ASSUME NEW v, Elsewhere(v, v) PROVE OnlyChanges(v)
  BY ElsewhereSame DEF OnlyChanges, Variables

(* What a call on strings leaves alone.                                     *)
LEMMA StringElsewhere ==
  ASSUME NEW s, NEW t, Reads(mem, mem', {s, t}) \/ Reads(mem, mem', {s, t, Temp}),
         mem'.has = mem.has
  PROVE  Elsewhere(s, t)
  BY DEF Elsewhere, Reads

(* What a call on Optionals leaves alone.                                   *)
LEMMA OptElsewhere ==
  ASSUME NEW o, NEW p, Reads(mem, mem', {o, p, Temp}), OptSame(mem, mem', {o, p, Temp})
  PROVE  Elsewhere(o, p)
  BY SlotsAssumption DEF Elsewhere, OptSame, AllOpts

(* The member functions of MyString, and swap.                              *)
LEMMA StringCalls == AtRest(mem) => StringValues
<1> SUFFICES ASSUME AtRest(mem), NEW s \in Strings
             PROVE  LET C == Contents(mem)
                    IN  /\ EndScope(s) => Becomes(s, Absent)
                        /\ Declare(s) => OnlyChanges(s)
                        /\ \A t \in Strings :
                             /\ DeclareCopy(s, t) \/ Assign(s, t) => Becomes(s, C[t])
                             /\ (DeclareMoved(s, t) \/ AssignMoved(s, t)) /\ s # t =>
                                  Become(s, C[t], t, NULL)
                             /\ AssignFails(s, t) => OnlyChanges(s)
                             /\ Swap(s, t) => Become(s, C[t], t, C[s])
  BY DEF StringValues
<1>1. Strings \subseteq Slots /\ Strings \subseteq Variables
  BY SlotsAssumption DEF Variables
<1>2. Good(mem) /\ mem.str[Temp] = Raw
  BY DEF AtRest
<1>3. ~Declared(s) => FreeFor(s, mem)
  BY <1>1, <1>2, NothingThere DEF Declared, OwnsNothing
<1>4. ASSUME EndScope(s) PROVE Becomes(s, Absent)
  <2>1. mem.str[s] # Raw /\ mem' = Destroyed(mem, s)
    BY <1>4 DEF EndScope, Declared
  <2>2. mem'.has = mem.has
    BY <1>1, <1>2, <2>1, DestroyedGood DEF Same
  <2>3. StrVal(mem', s) = Absent /\ Reads(mem, mem', {s})
    BY <1>1, <1>2, <2>1, DestroyedReads
  <2>4. Elsewhere(s, s) /\ Contents(mem')[s] = Absent
    BY <2>2, <2>3, ContentsAre DEF Elsewhere, Reads
  <2> QED
    BY <1>1, <2>4, OneBecomes
<1>5. ASSUME Declare(s) PROVE OnlyChanges(s)
  <2>1. PICK text \in Texts \cup {NULL} : mem' \in FromText(mem, s, text)
    BY <1>5 DEF Declare
  <2>2. mem'.has = mem.has
    BY <1>1, <1>3, <1>5, <2>1, FromTextGood DEF Same, Declare
  <2>3. Reads(mem, mem', {s})
    BY <1>1, <1>3, <1>5, <2>1, FromTextReads DEF Declare
  <2>4. Elsewhere(s, s)
    BY <2>2, <2>3 DEF Elsewhere, Reads
  <2> QED
    BY <2>4, OneChanges
<1>6. ASSUME NEW t \in Strings, DeclareCopy(s, t) PROVE Becomes(s, Contents(mem)[t])
  <2>1. s # t /\ FreeFor(s, mem) /\ mem.str[t] # Raw /\ mem' \in CopyConstructed(mem, s, t)
    BY <1>3, <1>6 DEF DeclareCopy, Declared
  <2>2. mem'.has = mem.has
    BY <1>1, <2>1, CopyConstructedGood DEF Same
  <2>3. StrVal(mem', s) = StrVal(mem, t) /\ Reads(mem, mem', {s})
    BY <1>1, <2>1, CopyConstructedReads
  <2>4. Elsewhere(s, s) /\ Contents(mem')[s] = Contents(mem)[t]
    BY <2>2, <2>3, ContentsAre DEF Elsewhere, Reads
  <2> QED
    BY <1>1, <2>4, OneBecomes
<1>7. ASSUME NEW t \in Strings, Assign(s, t) PROVE Becomes(s, Contents(mem)[t])
  <2>1. mem.str[s] # Raw /\ mem.str[t] # Raw /\ mem' \in CopyAssigned(mem, s, t)
    BY <1>7 DEF Assign, Declared
  <2>2. mem'.has = mem.has
    BY <1>1, <1>2, <2>1, CopyAssignedGood DEF Same
  <2>3. StrVal(mem', s) = StrVal(mem, t) /\ Reads(mem, mem', {s})
    BY <1>1, <1>2, <2>1, CopyAssignedReads
  <2>4. Elsewhere(s, s) /\ Contents(mem')[s] = Contents(mem)[t]
    BY <2>2, <2>3, ContentsAre DEF Elsewhere, Reads
  <2> QED
    BY <1>1, <2>4, OneBecomes
<1>8. ASSUME NEW t \in Strings, DeclareMoved(s, t) \/ AssignMoved(s, t), s # t
      PROVE  Become(s, Contents(mem)[t], t, NULL)
  <2>1. mem'.has = mem.has
    <3>1. CASE DeclareMoved(s, t)
      BY <1>1, <1>3, <1>8, <3>1, MoveConstructedGood DEF Same, DeclareMoved, Declared
    <3>2. CASE AssignMoved(s, t)
      BY <1>1, <1>2, <1>8, <3>2, MoveAssignedGood DEF Same, AssignMoved, Declared
    <3> QED
      BY <1>8, <3>1, <3>2
  <2>2. StrVal(mem', s) = StrVal(mem, t) /\ StrVal(mem', t) = NULL /\ Reads(mem, mem', {s, t})
    <3>1. CASE DeclareMoved(s, t)
      BY <1>1, <1>3, <1>8, <3>1, MoveConstructedReads DEF DeclareMoved, Declared
    <3>2. CASE AssignMoved(s, t)
      BY <1>1, <1>2, <1>8, <3>2, MoveAssignedReads DEF AssignMoved, Declared
    <3> QED
      BY <1>8, <3>1, <3>2
  <2>3. /\ Elsewhere(s, t) /\ Contents(mem')[s] = Contents(mem)[t]
        /\ Contents(mem')[t] = NULL
    BY <2>1, <2>2, StringElsewhere, ContentsAre
  <2> QED
    BY <1>1, <2>3, TwoBecome
<1>9. ASSUME NEW t \in Strings, AssignFails(s, t) PROVE OnlyChanges(s)
  <2>1. mem.str[s] # Raw /\ mem.str[t] # Raw /\ mem' = HalfAssigned(mem, s, t)
    BY <1>9 DEF AssignFails, Declared
  <2>2. mem'.has = mem.has
    BY <1>1, <1>2, <2>1, HalfAssignedTears DEF Same
  <2>3. Reads(mem, mem', {s})
    BY <1>1, <1>2, <2>1, HalfAssignedReads
  <2>4. Elsewhere(s, s)
    BY <2>2, <2>3 DEF Elsewhere, Reads
  <2> QED
    BY <2>4, OneChanges
<1>10. ASSUME NEW t \in Strings, Swap(s, t)
       PROVE  Become(s, Contents(mem)[t], t, Contents(mem)[s])
  <2>1. mem.str[s] # Raw /\ mem.str[t] # Raw /\ mem' = Swapped(mem, s, t)
    BY <1>10 DEF Swap, Declared
  <2>2. mem'.has = mem.has
    BY <1>2, <2>1, SwappedGood DEF Same
  <2>3. /\ StrVal(mem', s) = StrVal(mem, t) /\ StrVal(mem', t) = StrVal(mem, s)
        /\ Reads(mem, mem', {s, t, Temp})
    BY <1>2, <2>1, SwappedReads
  <2>4. Elsewhere(s, t)
    BY <2>2, <2>3, StringElsewhere
  <2>5. Contents(mem')[s] = Contents(mem)[t] /\ Contents(mem')[t] = Contents(mem)[s]
    BY <2>3, ContentsAre
  <2> QED
    BY <1>1, <2>4, <2>5, TwoBecome
<1> QED
  BY <1>4, <1>5, <1>6, <1>7, <1>8, <1>9, <1>10

(* The member functions of Optional, and swap.                              *)
LEMMA OptionalCalls == AtRest(mem) => OptionalValues
<1> SUFFICES ASSUME AtRest(mem), NEW o \in Optionals
             PROVE  LET C == Contents(mem)
                    IN  /\ OptEndScope(o) => Becomes(o, Absent)
                        /\ OptDeclare(o) => Becomes(o, Nothing)
                        /\ \A p \in Optionals :
                             /\ OptDeclareCopy(o, p) \/ OptAssign(o, p) => Becomes(o, C[p])
                             /\ (OptDeclareMoved(o, p) \/ OptAssignMoved(o, p)) /\ o # p =>
                                  Become(o, C[p], p, Nothing)
                             /\ OptAssignFails(o, p) => OnlyChanges(o)
                             /\ OptSwap(o, p) => Become(o, C[p], p, C[o])
  BY DEF OptionalValues
<1>1. Optionals \subseteq AllOpts /\ Optionals \subseteq Slots /\ Optionals \subseteq Variables
  BY SlotsAssumption DEF Variables, AllOpts
<1>2. Good(mem) /\ mem.str[Temp] = Raw /\ \A p \in Optionals : Live(mem, p)
  BY DEF AtRest
<1>3. \A p \in Optionals : OptDeclared(p) <=> Declares(mem, p)
  BY <1>1, <1>2, SlotsAssumption DEF OptDeclared, Declares, Good, Memories
<1>4. ~OptDeclared(o) => OwnsNothing(mem, o)
  BY <1>2, SlotsAssumption DEF OptDeclared, Live
<1>5. ASSUME OptEndScope(o) PROVE Becomes(o, Absent)
  <2>1. Declares(mem, o) /\ mem' = OptDestroyed(mem, o)
    BY <1>3, <1>5 DEF OptEndScope
  <2>2. OptSame(mem, mem', {o})
    BY <1>1, <1>2, <2>1, OptDestroyedGood
  <2>3. OptVal(mem', o) = Absent /\ Reads(mem, mem', {o})
    BY <1>1, <1>2, <2>1, OptDestroyedReads
  <2>4. Elsewhere(o, o) /\ Contents(mem')[o] = Absent
    BY <2>2, <2>3, <1>1, ContentsAre DEF Elsewhere, Reads, OptSame
  <2> QED
    BY <1>1, <2>4, OneBecomes
<1>6. ASSUME OptDeclare(o) PROVE Becomes(o, Nothing)
  <2>1. mem' = Has(mem, o, FALSE)
    BY <1>6 DEF OptDeclare
  <2>2. mem'.has = [mem.has EXCEPT ![o] = FALSE] /\ mem.has \in [AllOpts -> BOOLEAN \cup {Raw}]
    BY <1>1, <1>2, <2>1, HasFalseGood DEF Good, Memories
  <2>3. mem'.has[o] = FALSE /\ \A p \in Optionals \ {o} : mem'.has[p] = mem.has[p]
    BY <1>1, <2>2
  <2>4. \A u : StrVal(mem', u) = StrVal(mem, u)
    BY <2>1 DEF Has, StrVal, Text
  <2>5. Elsewhere(o, o) /\ OptVal(mem', o) = Nothing
    BY <2>3, <2>4, OptReads DEF Elsewhere, Reads
  <2> QED
    BY <1>1, <2>5, ContentsAre, OneBecomes
<1>7. ASSUME NEW p \in Optionals, OptDeclareCopy(o, p) \/ OptAssign(o, p)
      PROVE  Becomes(o, Contents(mem)[p])
  <2>1. OptSame(mem, mem', {o})
    <3>1. CASE OptDeclareCopy(o, p)
      BY <1>1, <1>2, <1>3, <1>4, <3>1, OptCopyConstructedGood DEF OptDeclareCopy
    <3>2. CASE OptAssign(o, p)
      BY <1>1, <1>2, <1>3, <3>2, OptCopyAssignedGood DEF OptAssign
    <3> QED
      BY <1>7, <3>1, <3>2
  <2>2. OptVal(mem', o) = OptVal(mem, p) /\ Reads(mem, mem', {o})
    <3>1. CASE OptDeclareCopy(o, p)
      BY <1>1, <1>2, <1>3, <1>4, <3>1, OptCopyConstructedReads DEF OptDeclareCopy
    <3>2. CASE OptAssign(o, p)
      BY <1>1, <1>2, <1>3, <3>2, OptCopyAssignedReads DEF OptAssign
    <3> QED
      BY <1>7, <3>1, <3>2
  <2>3. Elsewhere(o, o) /\ Contents(mem')[o] = Contents(mem)[p]
    BY <2>1, <2>2, <1>1, ContentsAre DEF Elsewhere, Reads, OptSame
  <2> QED
    BY <1>1, <2>3, OneBecomes
<1>8. ASSUME NEW p \in Optionals, OptDeclareMoved(o, p) \/ OptAssignMoved(o, p), o # p
      PROVE  Become(o, Contents(mem)[p], p, Nothing)
  <2>1. OptSame(mem, mem', {o, p})
    <3>1. CASE OptDeclareMoved(o, p)
      BY <1>1, <1>2, <1>3, <1>4, <1>8, <3>1, OptMoveConstructedGood DEF OptDeclareMoved
    <3>2. CASE OptAssignMoved(o, p)
      BY <1>1, <1>2, <1>3, <1>8, <3>2, OptMoveAssignedGood DEF OptAssignMoved
    <3> QED
      BY <1>8, <3>1, <3>2
  <2>2. /\ OptVal(mem', o) = OptVal(mem, p) /\ OptVal(mem', p) = Nothing
        /\ Reads(mem, mem', {o, p})
    <3>1. CASE OptDeclareMoved(o, p)
      BY <1>1, <1>2, <1>3, <1>4, <1>8, <3>1, OptMoveConstructedReads DEF OptDeclareMoved
    <3>2. CASE OptAssignMoved(o, p)
      BY <1>1, <1>2, <1>3, <1>8, <3>2, OptMoveAssignedReads DEF OptAssignMoved
    <3> QED
      BY <1>8, <3>1, <3>2
  <2>3. Elsewhere(o, p)
    BY <1>1, <2>1, <2>2 DEF Elsewhere, Reads, OptSame
  <2> QED
    BY <1>1, <2>2, <2>3, ContentsAre, TwoBecome
<1>9. ASSUME NEW p \in Optionals, OptAssignFails(o, p) PROVE OnlyChanges(o)
  <2>1. mem.str[o] # Raw /\ mem.str[p] # Raw /\ mem' = HalfAssigned(mem, o, p)
    BY <1>2, <1>9 DEF OptAssignFails, HasValue, Live
  <2>2. mem'.has = mem.has
    BY <1>1, <1>2, <2>1, HalfAssignedTears DEF Same
  <2>3. Reads(mem, mem', {o})
    BY <1>1, <1>2, <2>1, HalfAssignedReads
  <2>4. Elsewhere(o, o)
    BY <2>2, <2>3 DEF Elsewhere, Reads
  <2> QED
    BY <2>4, OneChanges
<1>10. ASSUME NEW p \in Optionals, OptSwap(o, p)
       PROVE  Become(o, Contents(mem)[p], p, Contents(mem)[o])
  <2>1. Declares(mem, o) /\ Declares(mem, p) /\ mem' = OptSwapped(mem, o, p)
    BY <1>3, <1>10 DEF OptSwap
  <2>2. OptSame(mem, mem', {o, p, Temp})
    BY <1>2, <2>1, OptSwappedGood
  <2>3. /\ OptVal(mem', o) = OptVal(mem, p) /\ OptVal(mem', p) = OptVal(mem, o)
        /\ Reads(mem, mem', {o, p, Temp})
    BY <1>2, <2>1, OptSwappedReads
  <2>4. Elsewhere(o, p)
    BY <2>2, <2>3, OptElsewhere
  <2>5. Contents(mem')[o] = Contents(mem)[p] /\ Contents(mem')[p] = Contents(mem)[o]
    BY <2>3, ContentsAre
  <2> QED
    BY <1>1, <2>4, <2>5, TwoBecome
<1> QED
  BY <1>5, <1>6, <1>7, <1>8, <1>9, <1>10

(* What goes between a string and an Optional.                              *)
LEMMA ExchangeCalls == AtRest(mem) => ExchangedValues
<1> SUFFICES ASSUME AtRest(mem), NEW s \in Strings, NEW o \in Optionals
             PROVE  LET C == Contents(mem)
                    IN  /\ OptHold(o, s) => \E left \in {C[s], NULL} : Become(o, <<C[s]>>, s, left)
                        /\ Value(s, o) => \E left \in {C[o], <<NULL>>} : Become(s, C[o][1], o, left)
                        /\ \A d \in Strings : ValueOr(s, o, d) =>
                             IF HasValue(o) THEN Becomes(s, C[o][1]) ELSE Become(s, C[d], d, NULL)
  BY DEF ExchangedValues
<1>1. /\ o \in AllOpts /\ o \in Slots /\ o \in Variables /\ s # o
      /\ Strings \subseteq Slots /\ Strings \subseteq Variables
  BY SlotsAssumption DEF Variables, AllOpts
<1>2. Good(mem) /\ Live(mem, o)
  BY DEF AtRest
<1>3. ~Declared(s) => FreeFor(s, mem)
  BY <1>1, <1>2, NothingThere DEF Declared, OwnsNothing
<1>4. HasValue(o) => /\ mem.str[o] # Raw /\ Contents(mem)[o] = <<StrVal(mem, o)>>
                     /\ Contents(mem)[o][1] = StrVal(mem, o)
  <2>1. HasValue(o) => Contents(mem)[o] = <<StrVal(mem, o)>>
    BY ContentsAre, OptReads DEF HasValue
  <2> QED
    BY <1>2, <2>1 DEF Live, HasValue
<1>5. ASSUME OptHold(o, s)
      PROVE  \E left \in {Contents(mem)[s], NULL} : Become(o, <<Contents(mem)[s]>>, s, left)
  <2>1. FreeFor(o, mem) /\ mem.str[s] # Raw
    BY <1>1, <1>2, <1>5, NothingThere, SlotsAssumption DEF OptHold, OptDeclared, Declared, Live
  <2>2. mem.has \in [AllOpts -> BOOLEAN \cup {Raw}]
    BY <1>2 DEF Good, Memories
  <2>3. CASE mem' \in HoldsCopy(mem, o, s)
    <3>1. mem'.has[o] = TRUE /\ OptSame(mem, mem', {o})
      BY <1>1, <2>1, <2>3, HoldsCopyGood
    <3>2. StrVal(mem', o) = StrVal(mem, s) /\ Reads(mem, mem', {o})
      BY <1>1, <2>1, <2>3, HoldsCopyReads
    <3>3. Elsewhere(o, s)
      BY <3>1, <3>2 DEF Elsewhere, Reads, OptSame, AllOpts
    <3>4. StrVal(mem', s) = StrVal(mem, s)
      BY <1>1, <3>2 DEF Reads
    <3>5. OptVal(mem', o) = <<StrVal(mem, s)>>
      BY <3>1, <3>2, OptReads
    <3>6. Contents(mem')[o] = <<Contents(mem)[s]>> /\ Contents(mem')[s] = Contents(mem)[s]
      BY <3>4, <3>5, ContentsAre
    <3> QED
      BY <1>1, <3>3, <3>6, TwoBecome
  <2>4. CASE mem' = HoldsMoved(mem, o, s)
    <3>1. mem'.has = [mem.has EXCEPT ![o] = TRUE]
      BY <1>1, <2>1, <2>4, HoldsMovedGood
    <3>2. StrVal(mem', o) = StrVal(mem, s) /\ StrVal(mem', s) = NULL /\ Reads(mem, mem', {o, s})
      BY <1>1, <2>1, <2>4, HoldsMovedReads
    <3>3. mem'.has[o] = TRUE /\ \A p \in Optionals \ {o} : mem'.has[p] = mem.has[p]
      BY <1>1, <2>2, <3>1 DEF AllOpts
    <3>4. Elsewhere(o, s)
      BY <3>2, <3>3 DEF Elsewhere, Reads
    <3>5. OptVal(mem', o) = <<StrVal(mem, s)>>
      BY <3>2, <3>3, OptReads
    <3>6. Contents(mem')[o] = <<Contents(mem)[s]>> /\ Contents(mem')[s] = NULL
      BY <3>2, <3>5, ContentsAre
    <3> QED
      BY <1>1, <3>4, <3>6, TwoBecome
  <2> QED
    BY <1>5, <2>3, <2>4 DEF OptHold
<1>6. ASSUME Value(s, o)
      PROVE  \E left \in {Contents(mem)[o], <<NULL>>} : Become(s, Contents(mem)[o][1], o, left)
  <2>1. FreeFor(s, mem) /\ mem.has[o] = TRUE /\ mem.str[o] # Raw
    BY <1>3, <1>4, <1>6 DEF Value, HasValue
  <2>2. CASE mem' \in CopyConstructed(mem, s, o)
    <3>1. mem'.has = mem.has
      BY <1>1, <2>1, <2>2, CopyConstructedGood DEF Same
    <3>2. StrVal(mem', s) = StrVal(mem, o) /\ Reads(mem, mem', {s})
      BY <1>1, <2>1, <2>2, CopyConstructedReads
    <3>3. Elsewhere(s, o)
      BY <3>1, <3>2 DEF Elsewhere, Reads
    <3>4. OptVal(mem', o) = OptVal(mem, o)
      BY <1>1, <3>1, <3>2, OptReadsAlike DEF Reads
    <3>5. Contents(mem')[s] = Contents(mem)[o][1] /\ Contents(mem')[o] = Contents(mem)[o]
      BY <1>4, <1>6, <3>2, <3>4, ContentsAre DEF Value
    <3> QED
      BY <1>1, <3>3, <3>5, TwoBecome
  <2>3. CASE mem' = MoveConstructed(mem, s, o)
    <3>1. mem'.has = mem.has
      BY <1>1, <2>1, <2>3, MoveConstructedGood DEF Same
    <3>2. StrVal(mem', s) = StrVal(mem, o) /\ StrVal(mem', o) = NULL /\ Reads(mem, mem', {s, o})
      BY <1>1, <2>1, <2>3, MoveConstructedReads
    <3>3. Elsewhere(s, o)
      BY <3>1, <3>2 DEF Elsewhere, Reads
    <3>4. OptVal(mem', o) = <<NULL>>
      BY <2>1, <3>1, <3>2, OptReads
    <3>5. Contents(mem')[s] = Contents(mem)[o][1] /\ Contents(mem')[o] = <<NULL>>
      BY <1>4, <1>6, <3>2, <3>4, ContentsAre DEF Value
    <3> QED
      BY <1>1, <3>3, <3>5, TwoBecome
  <2> QED
    BY <1>6, <2>2, <2>3 DEF Value
<1>7. ASSUME NEW d \in Strings, ValueOr(s, o, d), HasValue(o)
      PROVE  Becomes(s, Contents(mem)[o][1])
  <2>1. FreeFor(s, mem) /\ mem.str[o] # Raw /\ mem' \in CopyConstructed(mem, s, o)
    BY <1>3, <1>4, <1>7 DEF ValueOr
  <2>2. mem'.has = mem.has
    BY <1>1, <2>1, CopyConstructedGood DEF Same
  <2>3. StrVal(mem', s) = StrVal(mem, o) /\ Reads(mem, mem', {s})
    BY <1>1, <2>1, CopyConstructedReads
  <2>4. Elsewhere(s, s) /\ Contents(mem')[s] = Contents(mem)[o][1]
    BY <1>4, <1>7, <2>2, <2>3, ContentsAre DEF Elsewhere, Reads
  <2> QED
    BY <1>1, <2>4, OneBecomes
<1>8. ASSUME NEW d \in Strings, ValueOr(s, o, d), ~HasValue(o)
      PROVE  Become(s, Contents(mem)[d], d, NULL)
  <2>1. s # d /\ FreeFor(s, mem) /\ mem.str[d] # Raw /\ mem' = MoveConstructed(mem, s, d)
    BY <1>3, <1>8 DEF ValueOr, Declared
  <2>2. mem'.has = mem.has
    BY <1>1, <2>1, MoveConstructedGood DEF Same
  <2>3. StrVal(mem', s) = StrVal(mem, d) /\ StrVal(mem', d) = NULL /\ Reads(mem, mem', {s, d})
    BY <1>1, <2>1, MoveConstructedReads
  <2>4. Elsewhere(s, d)
    BY <2>2, <2>3, StringElsewhere
  <2>5. Contents(mem')[s] = Contents(mem)[d] /\ Contents(mem')[d] = NULL
    BY <2>3, ContentsAre
  <2> QED
    BY <1>1, <2>4, <2>5, TwoBecome
<1> QED
  BY <1>5, <1>6, <1>7, <1>8

-----------------------------------------------------------------------------
(* The index beside the map of objects.                                     *)

(* The positions of a list up to and including i, among some of them.       *)
UpTo(at, i) == {j \in at : j <= i}

(* Counting up to each position numbers the positions from 1 on, without    *)
(* gaps and in their order.                                                 *)
LEMMA Numbered ==
  ASSUME NEW n \in Nat, NEW at \in SUBSET (1..n)
  PROVE  /\ Cardinality(at) \in Nat
         /\ \A i \in at : Cardinality(UpTo(at, i)) \in 1..Cardinality(at)
         /\ \A i, j \in at : Cardinality(UpTo(at, i)) = Cardinality(UpTo(at, j)) => i = j
         /\ \A k \in 1..Cardinality(at) : \E i \in at : Cardinality(UpTo(at, i)) = k
<1>1. IsFiniteSet(at)
  <2>1. IsFiniteSet(1..n)
    BY FS_Interval
  <2> QED
    BY <2>1, FS_Subset
<1>2. Cardinality(at) \in Nat
  BY <1>1, FS_CardinalityType
<1>3. \A i \in at : UpTo(at, i) \in SUBSET at /\ UpTo(at, i) # {}
  BY DEF UpTo
<1>4. \A i \in at : /\ IsFiniteSet(UpTo(at, i)) /\ Cardinality(UpTo(at, i)) \in Nat
                    /\ Cardinality(UpTo(at, i)) <= Cardinality(at)
                    /\ Cardinality(UpTo(at, i)) # 0
  BY <1>1, <1>3, FS_Subset, FS_CardinalityType, FS_EmptySet
<1>5. \A i \in at : Cardinality(UpTo(at, i)) \in 1..Cardinality(at)
  BY <1>2, <1>4
<1>6. ASSUME NEW i \in at, NEW j \in at,
             Cardinality(UpTo(at, i)) = Cardinality(UpTo(at, j))
      PROVE  i = j
  <2>1. i \in Int /\ j \in Int
    OBVIOUS
  <2>2. ASSUME NEW a \in at, NEW b \in at, a <= b,
               Cardinality(UpTo(at, a)) = Cardinality(UpTo(at, b))
        PROVE  b <= a
    <3>1. UpTo(at, a) \in SUBSET UpTo(at, b)
      <4>1. a \in Int /\ b \in Int /\ \A x \in at : x \in Int
        OBVIOUS
      <4>2. \A x \in at : x <= a => x <= b
        BY <2>2, <4>1
      <4> QED
        BY <4>2 DEF UpTo
    <3>2. UpTo(at, b) = UpTo(at, a)
      BY <1>4, <2>2, <3>1, FS_Subset
    <3>3. b \in UpTo(at, b)
      BY DEF UpTo
    <3> QED
      BY <3>2, <3>3 DEF UpTo
  <2> QED
    BY <1>6, <2>1, <2>2
<1>7. ASSUME NEW k \in 1..Cardinality(at)
      PROVE  \E i \in at : Cardinality(UpTo(at, i)) = k
  <2> DEFINE rank == [i \in at |-> Cardinality(UpTo(at, i))]
  <2>1. rank \in Injection(at, 1..Cardinality(at))
    BY <1>5, <1>6 DEF Injection, IsInjective
  <2>2. /\ IsFiniteSet(1..Cardinality(at))
        /\ Cardinality(1..Cardinality(at)) = Cardinality(at)
    BY <1>2, FS_Interval
  <2>3. rank \in Surjection(at, 1..Cardinality(at))
    BY <2>1, <2>2, FS_Injection
  <2> QED
    BY <2>3 DEF Surjection
<1> QED
  BY <1>2, <1>5, <1>6, <1>7

(* What is kept of a list: the elements that are in S, each as often as it  *)
(* was listed.                                                              *)
LEMMA KeptElements ==
  ASSUME NEW list \in Seq(Oids), NEW S
  PROVE  /\ Kept(list, S) \in Seq(Oids)
         /\ Seqs!ToSet(Kept(list, S)) = Seqs!ToSet(list) \cap S
         /\ \A T : (\A i, j \in DOMAIN list : list[i] = list[j] /\ list[i] \in S \ T => i = j)
                   => \A i, j \in DOMAIN Kept(list, S) :
                        Kept(list, S)[i] = Kept(list, S)[j] /\ Kept(list, S)[i] \notin T => i = j
<1> DEFINE at == {i \in DOMAIN list : list[i] \in S}
           Nth(k) == CHOOSE i \in at : Cardinality({j \in at : j <= i}) = k
<1>1. DOMAIN list = 1..Len(list) /\ Len(list) \in Nat /\ \A i \in DOMAIN list : list[i] \in Oids
  OBVIOUS
<1>2. at \in SUBSET (1..Len(list))
  BY <1>1
<1>3. Kept(list, S) = [k \in 1..Cardinality(at) |-> list[Nth(k)]]
  BY DEF Kept
<1>4. at \in SUBSET DOMAIN list /\ \A i \in DOMAIN list : i \in at <=> list[i] \in S
  OBVIOUS
<1>5. \A i, k : (Cardinality({j \in at : j <= i}) = k) <=> (Cardinality(UpTo(at, i)) = k)
  BY DEF UpTo
<1> HIDE DEF at
<1>6. /\ Cardinality(at) \in Nat
      /\ \A k \in 1..Cardinality(at) : \E i \in at : Cardinality(UpTo(at, i)) = k
  <2>1. Len(list) \in Nat
    BY <1>1
  <2> HIDE DEF Nth
  <2> QED
    BY <1>2, <2>1, Numbered
<1>7. \A k \in 1..Cardinality(at) : Nth(k) \in at /\ Cardinality(UpTo(at, Nth(k))) = k
  <2> SUFFICES ASSUME NEW k \in 1..Cardinality(at)
               PROVE  Nth(k) \in at /\ Cardinality(UpTo(at, Nth(k))) = k
    OBVIOUS
  <2>1. \E i \in at : Cardinality(UpTo(at, i)) = k
    BY <1>6
  <2>2. \E i \in at : Cardinality({j \in at : j <= i}) = k
    BY <2>1, <1>5, Zenon
  <2> QED
    BY <2>2, <1>5, Zenon
<1>8. \A i \in at : \E k \in 1..Cardinality(at) : Nth(k) = i
  <2> SUFFICES ASSUME NEW i \in at PROVE \E k \in 1..Cardinality(at) : Nth(k) = i
    OBVIOUS
  <2>1. Cardinality(UpTo(at, i)) \in 1..Cardinality(at)
    BY <1>1, <1>2, Numbered
  <2>2. Nth(Cardinality(UpTo(at, i))) = i
    BY <1>1, <1>2, <1>7, <2>1, Numbered
  <2> QED
    BY <2>1, <2>2
<1>9. \A j, k \in 1..Cardinality(at) : Nth(j) = Nth(k) => j = k
  BY <1>7
<1> HIDE DEF Nth
<1>10. \A k \in 1..Cardinality(at) : list[Nth(k)] \in Oids /\ list[Nth(k)] \in S
  BY <1>1, <1>4, <1>7
<1>11. Kept(list, S) \in Seq(Oids)
  <2>1. Kept(list, S) \in [1..Cardinality(at) -> Oids]
    BY <1>3, <1>10
  <2> QED
    BY <1>6, <2>1
<1>12. /\ DOMAIN Kept(list, S) = 1..Cardinality(at)
       /\ \A k \in 1..Cardinality(at) : Kept(list, S)[k] = list[Nth(k)]
  BY <1>3
<1>13. Seqs!ToSet(Kept(list, S)) = Seqs!ToSet(list) \cap S
  BY <1>4, <1>7, <1>8, <1>12 DEF Seqs!ToSet
<1>14. ASSUME NEW T,
              \A i, j \in DOMAIN list : list[i] = list[j] /\ list[i] \in S \ T => i = j,
              NEW j \in 1..Cardinality(at), NEW k \in 1..Cardinality(at),
              list[Nth(j)] = list[Nth(k)], list[Nth(j)] \notin T
       PROVE  j = k
  <2>1. Nth(j) = Nth(k)
    BY <1>4, <1>7, <1>10, <1>14
  <2> QED
    BY <1>9, <2>1
<1> QED
  BY <1>11, <1>12, <1>13, <1>14

(* The two maps position by position: an object that was not created over   *)
(* is listed where it is located, nowhere else and once, or nowhere at all  *)
(* if its create threw; any object whose last create returned is listed     *)
(* where it is located. This is what create and remove preserve.            *)
Listed(o, l) == \E i \in DOMAIN locator_index[l] : locator_index[l][i] = o
ListedWhereLocated ==
  \A o \in Oids \ again : \A l \in AllLocators :
    Listed(o, l) <=> o \in DOMAIN objects \ unlisted /\ objects[o] = l
ListedOnce ==
  \A l \in AllLocators : \A i, j \in DOMAIN locator_index[l] :
    locator_index[l][i] = locator_index[l][j] /\ locator_index[l][i] \notin again => i = j
LocatedIsListed == \A o \in DOMAIN objects \ unlisted : Listed(o, objects[o])
IndexInductive == IndexTypeOK /\ ListedWhereLocated /\ ListedOnce /\ LocatedIsListed

(* The two maps as the lists show them.                                     *)
LEMMA IndexImplied == IndexInductive => IndexInv
<1> SUFFICES ASSUME IndexInductive PROVE IndexInv
  OBVIOUS
<1>1. /\ DOMAIN objects \subseteq Oids /\ \A o \in DOMAIN objects : objects[o] \in AllLocators
      /\ \A l \in AllLocators : locator_index[l] \in Seq(Oids)
  BY DEF IndexInductive, IndexTypeOK
<1>2. ASSUME NEW l \in AllLocators
      PROVE  \A o : o \in Seqs!ToSet(locator_index[l]) <=> o \in Oids /\ Listed(o, l)
  <2>1. locator_index[l] \in Seq(Oids)
    BY <1>1
  <2>2. \A i \in DOMAIN locator_index[l] : locator_index[l][i] \in Oids
    BY <2>1
  <2> QED
    BY <2>2 DEF Listed, Seqs!ToSet
<1>3. IndexExact
  <2> SUFFICES ASSUME NEW l \in AllLocators
               PROVE  LET list == Kept(locator_index[l], Oids \ again) IN
                        /\ Seqs!ToSet(list) =
                             {o \in DOMAIN objects \ (again \cup unlisted) : objects[o] = l}
                        /\ Seqs!IsInjective(list)
    BY DEF IndexExact
  <2>1. locator_index[l] \in Seq(Oids)
    BY <1>1
  <2>2. Seqs!ToSet(Kept(locator_index[l], Oids \ again)) =
          Seqs!ToSet(locator_index[l]) \cap (Oids \ again)
    BY <2>1, KeptElements
  <2>3. Seqs!IsInjective(Kept(locator_index[l], Oids \ again))
    <3>1. \A i, j \in DOMAIN locator_index[l] :
            locator_index[l][i] = locator_index[l][j] /\ locator_index[l][i] \in (Oids \ again) \ {}
              => i = j
      BY DEF IndexInductive, ListedOnce
    <3> QED
      BY <2>1, <3>1, KeptElements DEF Seqs!IsInjective
  <2>4. \A o : o \in Seqs!ToSet(locator_index[l]) \cap (Oids \ again) <=>
                 o \in DOMAIN objects \ (again \cup unlisted) /\ objects[o] = l
    BY <1>1, <1>2 DEF IndexInductive, ListedWhereLocated
  <2> QED
    BY <2>2, <2>3, <2>4
<1>4. IndexComplete
  <2> SUFFICES ASSUME NEW o \in DOMAIN objects \ unlisted
               PROVE  o \in Seqs!ToSet(Kept(locator_index[objects[o]], DOMAIN objects))
    BY DEF IndexComplete, ListByLocator
  <2>1. objects[o] \in AllLocators /\ o \in Oids
    BY <1>1
  <2>2. o \in Seqs!ToSet(locator_index[objects[o]])
    BY <1>2, <2>1 DEF IndexInductive, LocatedIsListed
  <2>3. Seqs!ToSet(Kept(locator_index[objects[o]], DOMAIN objects)) =
          Seqs!ToSet(locator_index[objects[o]]) \cap DOMAIN objects
    BY <1>1, <2>1, KeptElements
  <2> QED
    BY <2>2, <2>3
<1> QED
  BY <1>3, <1>4 DEF IndexInductive, IndexInv

(* What a locator's list has of objects located elsewhere.                  *)
LEMMA StraysImplied ==
  IndexInductive => \A l \in AllLocators : \A o \in Seqs!ToSet(ListByLocator(l)) :
                      objects[o] = l \/ o \in again
<1> SUFFICES ASSUME IndexInductive, NEW l \in AllLocators,
                    NEW o \in Seqs!ToSet(ListByLocator(l)), o \notin again
             PROVE  objects[o] = l
  OBVIOUS
<1>1. locator_index[l] \in Seq(Oids)
  BY DEF IndexInductive, IndexTypeOK
<1>2. o \in Seqs!ToSet(locator_index[l])
  BY <1>1, KeptElements DEF ListByLocator
<1>3. o \in Oids /\ Listed(o, l)
  BY <1>1, <1>2 DEF Listed, Seqs!ToSet
<1> QED
  BY <1>3 DEF IndexInductive, ListedWhereLocated

(* Both maps are empty.                                                     *)
LEMMA InitIndexInductive == IndexInit => IndexInductive
<1> SUFFICES ASSUME IndexInit PROVE IndexInductive
  OBVIOUS
<1>1. DOMAIN objects = {} /\ again = {} /\ unlisted = {}
  BY DEF IndexInit
<1>2. \A l \in AllLocators : locator_index[l] = <<>> /\ DOMAIN locator_index[l] = {}
  BY DEF IndexInit
<1>3. <<>> \in Seq(Oids)
  OBVIOUS
<1>4. locator_index \in [AllLocators -> Seq(Oids)]
  BY <1>3 DEF IndexInit
<1> QED
  BY <1>1, <1>2, <1>4 DEF IndexInductive, IndexTypeOK, ListedWhereLocated, ListedOnce,
     LocatedIsListed, Listed

(* What is appended to a list is listed last.                               *)
LEMMA Appended ==
  ASSUME NEW S, NEW list \in Seq(S), NEW e \in S
  PROVE  /\ Append(list, e) \in Seq(S)
         /\ DOMAIN Append(list, e) = DOMAIN list \cup {Len(list) + 1}
         /\ Len(list) + 1 \notin DOMAIN list
         /\ Append(list, e)[Len(list) + 1] = e
         /\ \A i \in DOMAIN list : Append(list, e)[i] = list[i]
<1>1. DOMAIN list = 1..Len(list) /\ Len(list) \in Nat
  OBVIOUS
<1>2. DOMAIN Append(list, e) = 1..(Len(list) + 1)
  OBVIOUS
<1>3. \A n \in Nat : 1..(n + 1) = (1..n) \cup {n + 1} /\ n + 1 \notin 1..n
  OBVIOUS
<1>4. \A i \in DOMAIN list : Append(list, e)[i] = list[i]
  BY <1>1
<1> QED
  BY <1>1, <1>2, <1>3, <1>4

(* create lists the new object under its locator. If there was one it is    *)
(* exempt from here on, as it may stay listed elsewhere.                    *)
LEMMA CreateInductive ==
  ASSUME IndexInductive, NEW oid \in Oids, NEW locator \in Locators \cup {Default},
         Create(oid, locator)
  PROVE  IndexInductive'
<1> DEFINE l0 == Located(oid, locator)
<1>1. l0 \in AllLocators
  BY DEF Located, AllLocators
<1>2. /\ objects' = [o \in DOMAIN objects \cup {oid} |-> IF o = oid THEN l0 ELSE objects[o]]
      /\ locator_index' = [locator_index EXCEPT ![l0] = Append(locator_index[l0], oid)]
      /\ again' = IF oid \in DOMAIN objects THEN again \cup {oid} ELSE again
      /\ unlisted' = unlisted \ {oid}
  BY DEF Create, Store
<1> HIDE DEF l0
<1>3. /\ DOMAIN objects \subseteq Oids /\ again \in SUBSET Oids
      /\ unlisted \subseteq DOMAIN objects
      /\ \A o \in DOMAIN objects : objects[o] \in AllLocators
      /\ locator_index \in [AllLocators -> Seq(Oids)]
  BY DEF IndexInductive, IndexTypeOK
<1>4. locator_index[l0] \in Seq(Oids)
  BY <1>1, <1>3
<1>5. /\ DOMAIN objects' = DOMAIN objects \cup {oid} /\ objects'[oid] = l0
      /\ \A o \in DOMAIN objects : o # oid => objects'[o] = objects[o]
  BY <1>2
<1>6. /\ locator_index'[l0] = Append(locator_index[l0], oid)
      /\ \A l \in AllLocators : l # l0 => locator_index'[l] = locator_index[l]
  BY <1>1, <1>2, <1>3
<1>7. /\ locator_index'[l0] \in Seq(Oids)
      /\ DOMAIN locator_index'[l0] = DOMAIN locator_index[l0] \cup {Len(locator_index[l0]) + 1}
      /\ locator_index'[l0][Len(locator_index[l0]) + 1] = oid
      /\ \A i \in DOMAIN locator_index[l0] : locator_index'[l0][i] = locator_index[l0][i]
  BY <1>4, <1>6, Appended
<1>8. IndexTypeOK'
  <2>1. locator_index' \in [AllLocators -> Seq(Oids)]
    BY <1>2, <1>3, <1>6, <1>7
  <2>2. again' \in SUBSET Oids
    BY <1>2, <1>3
  <2>3. \A o \in DOMAIN objects' : objects'[o] \in AllLocators
    BY <1>1, <1>3, <1>5
  <2> QED
    BY <1>2, <1>3, <1>5, <2>1, <2>2, <2>3 DEF IndexTypeOK
<1>9. /\ \A o : o # oid => \A l \in AllLocators : Listed(o, l)' <=> Listed(o, l)
      /\ \A l \in AllLocators : l # l0 => (Listed(oid, l)' <=> Listed(oid, l))
      /\ Listed(oid, l0)'
  BY <1>6, <1>7 DEF Listed
<1>10. \A o : o \notin again' => o \notin again
  BY <1>2
<1>11. oid \notin again' => oid \notin DOMAIN objects
  BY <1>2
<1>12. ListedWhereLocated'
  <2> SUFFICES ASSUME NEW o \in Oids, o \notin again', NEW l \in AllLocators
               PROVE  Listed(o, l)' <=> o \in DOMAIN objects' \ unlisted' /\ objects'[o] = l
    BY DEF ListedWhereLocated
  <2>1. Listed(o, l) <=> o \in DOMAIN objects \ unlisted /\ objects[o] = l
    BY <1>10 DEF IndexInductive, ListedWhereLocated
  <2> QED
    BY <1>2, <1>5, <1>9, <1>11, <2>1
<1>13. ListedOnce'
  <2> SUFFICES ASSUME NEW l \in AllLocators, NEW i \in DOMAIN locator_index'[l],
                      NEW j \in DOMAIN locator_index'[l],
                      locator_index'[l][i] = locator_index'[l][j],
                      locator_index'[l][i] \notin again'
               PROVE  i = j
    BY DEF ListedOnce
  <2>1. \A a, b \in DOMAIN locator_index[l] :
          locator_index[l][a] = locator_index[l][b] /\ locator_index[l][a] \notin again => a = b
    BY DEF IndexInductive, ListedOnce
  <2>2. CASE l # l0
    BY <1>6, <1>10, <2>1, <2>2
  <2>3. CASE l = l0
    <3>1. ASSUME oid \notin again', NEW a \in DOMAIN locator_index[l0] PROVE locator_index[l0][a] # oid
      BY <1>1, <1>10, <1>11, <3>1 DEF IndexInductive, ListedWhereLocated, Listed
    <3> QED
      BY <1>7, <1>10, <2>1, <2>3, <3>1
  <2> QED
    BY <2>2, <2>3
<1>14. LocatedIsListed'
  <2>1. \A o \in DOMAIN objects \ unlisted : o # oid => Listed(o, objects[o])'
    BY <1>3, <1>5, <1>9 DEF IndexInductive, LocatedIsListed
  <2> QED
    BY <1>2, <1>5, <1>9, <2>1 DEF LocatedIsListed
<1> QED
  BY <1>8, <1>12, <1>13, <1>14 DEF IndexInductive

(* A create that throws lists nothing: a new object is located somewhere    *)
(* and listed nowhere, an old one stays listed where it may not be now.     *)
LEMMA CreateThrowsInductive ==
  ASSUME IndexInductive, NEW oid \in Oids, NEW locator \in Locators \cup {Default},
         CreateThrows(oid, locator)
  PROVE  IndexInductive'
<1>1. PICK l0 \in AllLocators : Store(oid, l0)
  BY DEF CreateThrows, Located, AllLocators
<1>2. /\ objects' = [o \in DOMAIN objects \cup {oid} |-> IF o = oid THEN l0 ELSE objects[o]]
      /\ again' = IF oid \in DOMAIN objects THEN again \cup {oid} ELSE again
      /\ unlisted' = unlisted \cup {oid} /\ locator_index' = locator_index
  BY <1>1 DEF Store, CreateThrows
<1>3. /\ DOMAIN objects' = DOMAIN objects \cup {oid} /\ objects'[oid] = l0
      /\ \A o \in DOMAIN objects : o # oid => objects'[o] = objects[o]
      /\ unlisted \subseteq DOMAIN objects
  BY <1>2 DEF IndexInductive, IndexTypeOK
<1>4. \A o, l : Listed(o, l)' <=> Listed(o, l)
  BY <1>2 DEF Listed
<1>5. IndexTypeOK'
  BY <1>2, <1>3 DEF IndexInductive, IndexTypeOK
<1>6. ListedWhereLocated'
  <2> SUFFICES ASSUME NEW o \in Oids, o \notin again', NEW l \in AllLocators
               PROVE  Listed(o, l)' <=> o \in DOMAIN objects' \ unlisted' /\ objects'[o] = l
    BY DEF ListedWhereLocated
  <2>1. o \notin again /\ (o = oid => oid \notin DOMAIN objects)
    BY <1>2
  <2>2. Listed(o, l) <=> o \in DOMAIN objects \ unlisted /\ objects[o] = l
    BY <2>1 DEF IndexInductive, ListedWhereLocated
  <2> QED
    BY <1>2, <1>3, <1>4, <2>1, <2>2
<1>7. ListedOnce'
  BY <1>2 DEF IndexInductive, ListedOnce
<1>8. LocatedIsListed'
  BY <1>2, <1>3, <1>4 DEF IndexInductive, LocatedIsListed
<1> QED
  BY <1>5, <1>6, <1>7, <1>8 DEF IndexInductive

(* remove takes an object out of the list of its locator, however often it  *)
(* is there. In another list it can only be if it was created over.         *)
LEMMA RemoveInductive ==
  ASSUME IndexInductive, NEW oid \in Oids, Remove(oid) PROVE IndexInductive'
<1>1. /\ DOMAIN objects \subseteq Oids /\ again \in SUBSET Oids
      /\ unlisted \subseteq DOMAIN objects
      /\ \A o \in DOMAIN objects : objects[o] \in AllLocators
      /\ locator_index \in [AllLocators -> Seq(Oids)]
  BY DEF IndexInductive, IndexTypeOK
<1>2. /\ oid \in DOMAIN objects /\ objects[oid] \in AllLocators
      /\ again' = again /\ unlisted' = unlisted \ {oid}
  BY <1>1 DEF Remove
<1>3. PICK l0 \in AllLocators : l0 = objects[oid]
  BY <1>2
<1> DEFINE list == locator_index[l0]
           left == Kept(list, Oids \ {oid})
<1>4. list \in Seq(Oids)
  BY <1>1, <1>2
<1>5. /\ objects' = [o \in DOMAIN objects \ {oid} |-> objects[o]]
      /\ locator_index' = [locator_index EXCEPT ![l0] = left]
  BY <1>3 DEF Remove
<1>6. /\ left \in Seq(Oids)
      /\ Seqs!ToSet(left) = Seqs!ToSet(list) \cap (Oids \ {oid})
  BY <1>4, KeptElements
<1>7. (\A i, j \in DOMAIN list : list[i] = list[j] /\ list[i] \in (Oids \ {oid}) \ again => i = j) =>
        \A i, j \in DOMAIN left : left[i] = left[j] /\ left[i] \notin again => i = j
  BY <1>4, KeptElements
<1>8. \A o : o \in Seqs!ToSet(left) <=> \E i \in DOMAIN left : left[i] = o
  BY DEF Seqs!ToSet
<1> HIDE DEF left
<1>9. /\ DOMAIN objects' = DOMAIN objects \ {oid}
      /\ \A o \in DOMAIN objects : o # oid => objects'[o] = objects[o]
  BY <1>5
<1>10. /\ locator_index'[l0] = left
       /\ \A l \in AllLocators : l # l0 => locator_index'[l] = locator_index[l]
  BY <1>1, <1>2, <1>5
<1>11. IndexTypeOK'
  <2>1. locator_index' \in [AllLocators -> Seq(Oids)]
    BY <1>1, <1>5, <1>6
  <2> QED
    BY <1>1, <1>2, <1>9, <2>1 DEF IndexTypeOK
<1>12. /\ \A o \in Oids : o # oid => \A l \in AllLocators : Listed(o, l)' <=> Listed(o, l)
       /\ \A l \in AllLocators : l # l0 => (Listed(oid, l)' <=> Listed(oid, l))
       /\ ~Listed(oid, l0)'
  <2>1. \A o : Listed(o, l0)' <=> o \in Seqs!ToSet(left)
    BY <1>10, <1>8 DEF Listed
  <2>2. \A o : Listed(o, l0) <=> o \in Seqs!ToSet(list)
    BY DEF Listed, Seqs!ToSet
  <2>3. \A o : \A l \in AllLocators : l # l0 => (Listed(o, l)' <=> Listed(o, l))
    BY <1>10 DEF Listed
  <2> QED
    BY <1>6, <2>1, <2>2, <2>3
<1> HIDE DEF list
<1>13. ListedWhereLocated'
  <2> SUFFICES ASSUME NEW o \in Oids, o \notin again, NEW l \in AllLocators
               PROVE  Listed(o, l)' <=> o \in DOMAIN objects' \ unlisted' /\ objects'[o] = l
    BY <1>2 DEF ListedWhereLocated
  <2>1. Listed(o, l) <=> o \in DOMAIN objects \ unlisted /\ objects[o] = l
    BY DEF IndexInductive, ListedWhereLocated
  <2>2. CASE o = oid
    <3>1. ~Listed(oid, l)'
      BY <1>2, <1>3, <1>12, <2>1, <2>2
    <3> QED
      BY <1>9, <2>2, <3>1
  <2>3. CASE o # oid
    BY <1>2, <1>9, <1>12, <2>1, <2>3
  <2> QED
    BY <2>2, <2>3
<1>14. ListedOnce'
  <2> SUFFICES ASSUME NEW l \in AllLocators
               PROVE  \A i, j \in DOMAIN locator_index'[l] :
                        locator_index'[l][i] = locator_index'[l][j] /\ locator_index'[l][i] \notin again
                          => i = j
    BY <1>2 DEF ListedOnce
  <2>1. \A i, j \in DOMAIN locator_index[l] :
          locator_index[l][i] = locator_index[l][j] /\ locator_index[l][i] \notin again => i = j
    BY DEF IndexInductive, ListedOnce
  <2>2. CASE l # l0
    BY <1>10, <2>1, <2>2
  <2>3. CASE l = l0
    BY <1>7, <1>10, <2>1, <2>3 DEF list
  <2> QED
    BY <2>2, <2>3
<1>15. LocatedIsListed'
  BY <1>1, <1>2, <1>9, <1>12, <1>3 DEF IndexInductive, LocatedIsListed
<1> QED
  BY <1>11, <1>13, <1>14, <1>15 DEF IndexInductive

(* Nothing else is done to the two maps.                                    *)
LEMMA StepIndexInductive == IndexInductive /\ [IndexNext]_indexVars => IndexInductive'
<1> SUFFICES ASSUME IndexInductive, [IndexNext]_indexVars PROVE IndexInductive'
  OBVIOUS
<1>1. CASE UNCHANGED indexVars
  BY <1>1 DEF indexVars, IndexInductive, IndexTypeOK, ListedWhereLocated, ListedOnce,
     LocatedIsListed, Listed
<1>2. ASSUME NEW oid \in Oids, NEW locator \in Locators \cup {Default}, Create(oid, locator)
      PROVE  IndexInductive'
  BY <1>2, CreateInductive
<1>3. ASSUME NEW oid \in Oids, NEW locator \in Locators \cup {Default},
             CreateThrows(oid, locator)
      PROVE  IndexInductive'
  BY <1>3, CreateThrowsInductive
<1>4. ASSUME NEW oid \in Oids, Remove(oid) PROVE IndexInductive'
  BY <1>4, RemoveInductive
<1>5. ASSUME NEW oid \in Oids, RemoveFalse(oid) PROVE IndexInductive'
  BY <1>1, <1>5 DEF RemoveFalse
<1> QED
  BY <1>1, <1>2, <1>3, <1>4, <1>5 DEF IndexNext

(* The other programs leave the two maps alone.                             *)
LEMMA NextIndex == [Next]_vars => [IndexNext]_indexVars
BY DEF Next, vars, RunStrings, RunFiles, RunPointers, RunSemaphore, RunIndex, indexVars

-----------------------------------------------------------------------------
(* Whatever threads create, copy and destroy pointers: the count is the     *)
(* number of pointers, a Worker lives as long as one points to it, and is   *)
(* deleted with the last (boost_examples.cpp 94-119).                       *)
THEOREM Counted == Spec => []PtrInv
<1>1. Init => PtrInv
  BY InitPtrInv DEF Init
<1>2. PtrInv /\ [Next]_vars => PtrInv'
  <2>1. [Next]_vars => [PtrNext]_ptrVars
    BY DEF Next, vars, RunStrings, RunFiles, RunPointers, RunSemaphore, RunIndex, ptrVars
  <2> QED
    BY <2>1, StepPtrInv
<1> QED
  BY <1>1, <1>2, PTL DEF Spec

(* However Files are constructed, moved and destroyed: a stream that is     *)
(* open belongs to one File, which will close it, and none is closed twice  *)
(* (raii_file.cpp 12-57).                                                   *)
THEOREM FilesOwn == Spec => []StreamsOwned
<1>1. Init => FileInv
  BY InitFileInv DEF Init
<1>2. FileInv /\ [Next]_vars => FileInv'
  <2>1. [Next]_vars => [FileNext]_fileVars
    BY DEF Next, vars, RunStrings, RunFiles, RunPointers, RunSemaphore, RunIndex, fileVars
  <2> QED
    BY <2>1, StepFileInv
<1>3. FileInv => StreamsOwned
  BY DEF FileInv
<1> QED
  BY <1>1, <1>2, <1>3, PTL DEF Spec

(* Whenever calls are made and sleeps end: one call at a time has the unit, *)
(* and the calls are served in the order in which they were made, also      *)
(* those that come while a unit is on its way from one to the next          *)
(* (seastar_examples.cpp 84-101).                                           *)
THEOREM SemaphoreFair == Spec => []SemaphoreInv
<1>1. Init => SemInductive
  BY InitSemInductive DEF Init
<1>2. SemInductive /\ [Next]_vars => SemInductive'
  <2>1. [Next]_vars => [SemNext]_semVars
    BY DEF Next, vars, RunStrings, RunFiles, RunPointers, RunSemaphore, RunIndex, semVars
  <2> QED
    BY <2>1, StepSemInductive
<1> QED
  BY <1>1, <1>2, SemImplied, PTL DEF Spec

(* A call that waits, waits for one call: the unit is never idle beside it, *)
(* not even while it is on its way from one call to the next.               *)
WaitsForOne == waiters # <<>> => \E i \in Tasks : HasUnit = {i}

(* So no call is forgotten by the release of the unit (seastar_examples.cpp *)
(* 88-97).                                                                  *)
THEOREM UnitNeverIdle == Spec => []WaitsForOne
<1>1. Init => SemInductive
  BY InitSemInductive DEF Init
<1>2. SemInductive /\ [Next]_vars => SemInductive'
  <2>1. [Next]_vars => [SemNext]_semVars
    BY DEF Next, vars, RunStrings, RunFiles, RunPointers, RunSemaphore, RunIndex, semVars
  <2> QED
    BY <2>1, StepSemInductive
<1>3. SemInductive => WaitsForOne
  BY DEF SemInductive, UnitHeld, WaitsForOne
<1> QED
  BY <1>1, <1>2, <1>3, PTL DEF Spec

(* Whatever a program does with its strings and optionals, with a heap that *)
(* reuses addresses and may have none left: a buffer that is allocated has  *)
(* one owner, which will delete it, and has_value_ claims no value that is  *)
(* gone. Only a string whose assignment threw is worse off                  *)
(* (string_class.cpp 30-94, optional.cpp 26-78, generic_swap.cpp 29-33).    *)
THEOREM NothingIsLost == Spec => []NothingLost
<1>1. Init => StringsInv
  BY InitStringsInv DEF Init
<1>2. StringsInv /\ [Next]_vars => StringsInv'
  <2>1. [Next]_vars => [StringsNext]_stringVars
    BY DEF Next, vars, RunStrings, RunFiles, RunPointers, RunSemaphore, RunIndex
  <2> QED
    BY <2>1, StepStringsInv
<1> QED
  BY <1>1, <1>2, StringsImplied, PTL DEF Spec

(* Values behave as values in any program over any number of MyStrings and  *)
(* Optionals, with any texts and any heap, that may give an address out     *)
(* again as soon as it is deleted: a copy is equal, a move hands over, swap *)
(* exchanges, and no call changes a variable that it does not name, not     *)
(* even one that throws (string_class.cpp 30-94, optional.cpp 26-110,       *)
(* generic_swap.cpp 29-33).                                                 *)
THEOREM ValuesBehave == Spec => ValueSemantics
<1>1. Init => StringsInv
  BY InitStringsInv DEF Init
<1>2. [Next]_vars => [StringsNext]_stringVars
  BY DEF Next, vars, RunStrings, RunFiles, RunPointers, RunSemaphore, RunIndex
<1>3. StringsInv /\ [Next]_vars => StringsInv'
  BY <1>2, StepStringsInv
<1>4. StringsInv /\ [Next]_vars =>
        [StringValues /\ OptionalValues /\ ExchangedValues]_mem
  <2> SUFFICES ASSUME StringsInv, [Next]_vars, mem' # mem
               PROVE  StringValues /\ OptionalValues /\ ExchangedValues
    OBVIOUS
  <2>1. StringsNext
    BY <1>2 DEF stringVars
  <2>2. AtRest(mem)
    BY <2>1, MemoryAssumption DEF StringsNext, StringsInv, NoTear
  <2> QED
    BY <2>2, StringCalls, OptionalCalls, ExchangeCalls
<1> QED
  BY <1>1, <1>3, <1>4, PTL DEF Spec, ValueSemantics

(* Whatever objects are created, created over and removed, and whichever    *)
(* creates run out of memory: an object whose last create returned is found *)
(* under its locator, and the two maps agree exactly about those that were  *)
(* not created over (object_store.cpp 35-59).                               *)
THEOREM MapsAgree == Spec => []IndexInv
<1>1. Init => IndexInductive
  BY InitIndexInductive DEF Init
<1>2. IndexInductive /\ [Next]_vars => IndexInductive'
  BY NextIndex, StepIndexInductive
<1> QED
  BY <1>1, <1>2, IndexImplied, PTL DEF Spec

(* An object that is listed under a locator it is not located at has been   *)
(* created over: nothing else brings a stale id into a listing (line 45;    *)
(* ListsByLocator, which the program breaks that way, holds of all others). *)
THEOREM StrayWasCreatedOver ==
  Spec => [](\A l \in AllLocators : \A o \in Seqs!ToSet(ListByLocator(l)) :
               objects[o] = l \/ o \in again)
<1>1. Init => IndexInductive
  BY InitIndexInductive DEF Init
<1>2. IndexInductive /\ [Next]_vars => IndexInductive'
  BY NextIndex, StepIndexInductive
<1>3. IndexInductive => \A l \in AllLocators : \A o \in Seqs!ToSet(ListByLocator(l)) :
                          objects[o] = l \/ o \in again
  BY StraysImplied
<1> QED
  BY <1>1, <1>2, <1>3, PTL DEF Spec
=============================================================================
