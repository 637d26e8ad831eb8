------------------------------ MODULE BlockStore ------------------------------
(***************************************************************************)
(* What a block manager promises: an allocation returns an id that is not  *)
(* in use and a block of zeros; a block keeps its id and its contents      *)
(* until it is written or freed, whatever is done to the others.           *)
(***************************************************************************)
EXTENDS Naturals, Sequences

CONSTANT Ids

VARIABLE store      \* the contents of each block in use, by id

Zeros(size) == [k \in 1 .. size |-> 0]

Init == store = <<>>

Allocate(id, size) ==
  /\ id \notin DOMAIN store
  /\ store' = [j \in DOMAIN store \cup {id} |-> IF j = id THEN Zeros(size) ELSE store[j]]

Write(id, block) ==
  /\ Len(block) = Len(store[id])
  /\ store' = [store EXCEPT ![id] = block]

Free(id) == store' = [j \in DOMAIN store \ {id} |-> store[j]]

(* The sizes and contents that a step may choose are those it results in.  *)
Next ==
  \/ \E id \in Ids \ DOMAIN store :
       id \in DOMAIN store' /\ Allocate(id, Len(store'[id]))
  \/ \E id \in DOMAIN store :
       \/ Free(id)
       \/ id \in DOMAIN store' /\ Write(id, store'[id])

Spec == Init /\ [][Next]_store
=============================================================================
