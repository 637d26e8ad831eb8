----------------------------- MODULE IntrusivePtr -----------------------------
(***************************************************************************)
(* The reference count of Worker and the two functions boost's             *)
(* intrusive_ptr calls, 06-boost-library/exercises/boost_examples.cpp,     *)
(* with pointers that several threads create, copy and destroy (the count  *)
(* is atomic). A step is one access to the count. Boost's own part, the    *)
(* raw pointer px in every intrusive_ptr, is external.                     *)
(***************************************************************************)
EXTENDS Naturals, FiniteSets

CONSTANTS Ptrs,       \* intrusive_ptr variables, each in some thread
          Workers,    \* the addresses a Worker can have
          NoWorker

ASSUME PtrsAssumption == IsFiniteSet(Ptrs)
ASSUME PtrNullAssumption == NoWorker \notin Workers /\ NoWorker \notin Ptrs

VARIABLES ref_count,  \* of every address, whether a Worker is there or not
          allocated,  \* where a Worker is
          px,         \* what a pointer points to
          doing,      \* what its thread does with a pointer
          from        \* the pointer a copy in progress is made from

ptrVars == <<ref_count, allocated, px, doing, from>>

PtrInit == /\ ref_count = [w \in Workers |-> 0]
           /\ allocated = {}
           /\ px = [p \in Ptrs |-> NoWorker]
           /\ doing = [p \in Ptrs |-> "nothing"]
           /\ from = [p \in Ptrs |-> NoWorker]

(* Bug variant: a Worker starts with a count of one. *)
CreateWorkerCounted(p) ==
  /\ doing[p] = "nothing" /\ px[p] = NoWorker
  /\ \E w \in Workers \ allocated :
       /\ allocated' = allocated \cup {w}
       /\ ref_count' = [ref_count EXCEPT ![w] = 1]
       /\ px' = [px EXCEPT ![p] = w]
  /\ doing' = [doing EXCEPT ![p] = "adding"]
  /\ UNCHANGED from

(* intrusive_ptr<Worker>(new Worker(...)), up to the call of add_ref. *)
CreateWorker(p) ==
  /\ doing[p] = "nothing" /\ px[p] = NoWorker
  /\ \E w \in Workers \ allocated :
       /\ allocated' = allocated \cup {w}
       /\ ref_count' = [ref_count EXCEPT ![w] = 0]
       /\ px' = [px EXCEPT ![p] = w]
  /\ doing' = [doing EXCEPT ![p] = "adding"]
  /\ UNCHANGED from

(* auto p = q, up to the call of add_ref. *)
CopyPtr(p, q) ==
  /\ doing[p] = "nothing" /\ px[p] = NoWorker
  /\ doing[q] = "nothing" /\ px[q] # NoWorker
  /\ px' = [px EXCEPT ![p] = px[q]]
  /\ from' = [from EXCEPT ![p] = q]
  /\ doing' = [doing EXCEPT ![p] = "adding"]
  /\ UNCHANGED <<ref_count, allocated>>

(* ++w->ref_count *)
AddRef(p) ==
  /\ doing[p] = "adding"
  /\ ref_count' = [ref_count EXCEPT ![px[p]] = @ + 1]
  /\ doing' = [doing EXCEPT ![p] = "nothing"]
  /\ from' = [from EXCEPT ![p] = NoWorker]
  /\ UNCHANGED <<allocated, px>>

(* A thread that copies a pointer has it in scope: it is not destroyed      *)
(* before the copy is made.                                                 *)
InScope(p) == \A q \in Ptrs : from[q] # p

(* --w->ref_count == 0, as the pointer is destroyed. *)
ReleasePtr(p) ==
  /\ doing[p] = "nothing" /\ px[p] # NoWorker
  /\ InScope(p)
  /\ ref_count' = [ref_count EXCEPT ![px[p]] = @ - 1]
  /\ IF ref_count[px[p]] = 1
     THEN doing' = [doing EXCEPT ![p] = "deleting"] /\ UNCHANGED px
     ELSE px' = [px EXCEPT ![p] = NoWorker] /\ UNCHANGED doing
  /\ UNCHANGED <<allocated, from>>

(* delete w *)
DeleteWorker(p) ==
  /\ doing[p] = "deleting"
  /\ allocated' = allocated \ {px[p]}
  /\ px' = [px EXCEPT ![p] = NoWorker]
  /\ doing' = [doing EXCEPT ![p] = "nothing"]
  /\ UNCHANGED <<ref_count, from>>

PtrNext == \E p \in Ptrs :
  \/ CreateWorker(p) \/ AddRef(p) \/ ReleasePtr(p) \/ DeleteWorker(p)
  \/ \E q \in Ptrs : CopyPtr(p, q)

PtrSpec == PtrInit /\ [][PtrNext]_ptrVars

-----------------------------------------------------------------------------
PtrTypeOK ==
  /\ ref_count \in [Workers -> Nat]
  /\ allocated \in SUBSET Workers
  /\ px \in [Ptrs -> Workers \cup {NoWorker}]
  /\ doing \in [Ptrs -> {"nothing", "adding", "deleting"}]
  /\ from \in [Ptrs -> Ptrs \cup {NoWorker}]

(* The pointers that count: those past their add_ref and before their       *)
(* release.                                                                 *)
Holders(w) == {p \in Ptrs : px[p] = w /\ doing[p] = "nothing"}

(* A pointer to a Worker, also one in the middle of add_ref or release      *)
(* (lines 111-119), never outlives it: no other thread has deleted it.      *)
PointeesLive == \A p \in Ptrs : px[p] # NoWorker => px[p] \in allocated

(* The count is the number of pointers, however their threads interleave.   *)
CountExact == \A w \in allocated : ref_count[w] = Cardinality(Holders(w))

(* Whoever takes the count to zero deletes, and is the only one: it is the  *)
(* last pointer of all.                                                     *)
DeletesAlone ==
  \A p \in Ptrs : doing[p] = "deleting" =>
    /\ px[p] # NoWorker
    /\ \A q \in Ptrs : px[q] = px[p] => q = p

(* Whoever adds is the first of all, or copies a pointer that counts.       *)
AddsAlive ==
  \A p \in Ptrs : doing[p] = "adding" =>
    /\ px[p] # NoWorker
    /\ IF from[p] = NoWorker THEN \A q \in Ptrs : px[q] = px[p] => q = p
                         ELSE from[p] \in Holders(px[p])

(* No pointer is held in scope for a copy that has been made. *)
FromInCopy == \A p \in Ptrs : doing[p] # "adding" => from[p] = NoWorker

(* A Worker without a pointer has been deleted. *)
NoWorkerLeaks == \A w \in allocated : \E p \in Ptrs : px[p] = w

(* What a user of Worker relies on (lines 94-119): its memory is there as   *)
(* long as a pointer is, deleted once with the last one, and never lost.    *)
PtrInv == /\ PtrTypeOK /\ PointeesLive /\ CountExact
          /\ DeletesAlone /\ AddsAlive /\ FromInCopy /\ NoWorkerLeaks
=============================================================================
