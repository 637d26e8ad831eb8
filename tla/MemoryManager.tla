---------------------------- MODULE MemoryManager ----------------------------
(***************************************************************************)
(* 02-stl-containers/exercises/memory_manager.cpp: blocks of memory behind *)
(* ids that stay valid, and the list of the ids that are free.             *)
(*                                                                         *)
(* Ids count from 1 here. The allocations that the operations make of the  *)
(* heap may throw bad_alloc.                                               *)
(***************************************************************************)
EXTENDS Integers, Sequences, SequencesExt

CONSTANTS Nullopt,
          Sizes,      \* sizes that callers allocate
          Bytes,      \* bytes that callers write
          Args,       \* lengths and offsets that callers pass
          SizeMod,    \* size_t is 0 .. SizeMod - 1
          MaxBlocks   \* the bound of the model on the length of blocks

ASSUME SizesAssumption == Sizes \subseteq 0 .. SizeMod - 1 /\ Args \subseteq 0 .. SizeMod - 1
(* No sum of an offset and a length wraps. The code accepts one that does,  *)
(* and writes outside the block: the model is about callers that keep clear *)
(* of it.                                                                   *)
ASSUME NoWrapAssumption == \A a, b \in Args : a + b < SizeMod
ASSUME BytesAssumption == 0 \in Bytes
ASSUME BoundsAssumption == SizeMod \in Nat \ {0} /\ MaxBlocks \in Nat
ASSUME NulloptAssumption == Nullopt \notin Seq(Bytes)

VARIABLES
  blocks, free_list,
  lost              \* history: the ids that an operation lost when it threw

vars == <<blocks, free_list, lost>>

Zeros(size) == [k \in 1 .. size |-> 0]

(* The ids whose block is in use, and the others. *)
Engaged == {id \in DOMAIN blocks : blocks[id] # Nullopt}
Empty == DOMAIN blocks \ Engaged

Init == blocks = <<>> /\ free_list = <<>> /\ lost = {}

-----------------------------------------------------------------------------
(* allocate *)

(* Bug variant: the id stays in the free list. *)
AllocateReuseNoPop(size) ==
  /\ free_list # <<>>
  /\ blocks' = [blocks EXCEPT ![Last(free_list)] = Zeros(size)]
  /\ UNCHANGED <<free_list, lost>>

(* The id freed last is used again. *)
AllocateReuse(size) ==
  /\ free_list # <<>>
  /\ blocks' = [blocks EXCEPT ![Last(free_list)] = Zeros(size)]
  /\ free_list' = Front(free_list)
  /\ UNCHANGED lost

(* emplace throws: the id has left the free list, its block stays empty. *)
AllocateReuseThrows ==
  /\ free_list # <<>>
  /\ free_list' = Front(free_list)
  /\ lost' = lost \cup {Last(free_list)}
  /\ UNCHANGED blocks

(* There is a new block at the end. (If emplace_back throws, nothing has   *)
(* changed.)                                                               *)
AllocateGrow(size) ==
  /\ free_list = <<>>
  /\ Len(blocks) < MaxBlocks
  /\ blocks' = Append(blocks, Zeros(size))
  /\ UNCHANGED <<free_list, lost>>

-----------------------------------------------------------------------------
(* deallocate *)

(* Bug variant: whether the block is in use is not looked at. *)
DeallocateUnchecked(id) ==
  /\ Len(free_list) <= MaxBlocks
  /\ blocks' = [blocks EXCEPT ![id] = Nullopt]
  /\ free_list' = Append(free_list, id)
  /\ UNCHANGED lost

(* Bug variant: the id is not put on the free list. *)
DeallocateForgets(id) ==
  /\ id \in Engaged
  /\ blocks' = [blocks EXCEPT ![id] = Nullopt]
  /\ UNCHANGED <<free_list, lost>>

Deallocate(id) ==
  /\ id \in Engaged
  /\ blocks' = [blocks EXCEPT ![id] = Nullopt]
  /\ free_list' = Append(free_list, id)
  /\ UNCHANGED lost

(* push_back throws after the reset. *)
DeallocateThrows(id) ==
  /\ id \in Engaged
  /\ blocks' = [blocks EXCEPT ![id] = Nullopt]
  /\ lost' = lost \cup {id}
  /\ UNCHANGED free_list

(* An id that is out of range or free already is ignored. *)
DeallocateNothing(id) == id \notin Engaged /\ UNCHANGED vars

-----------------------------------------------------------------------------
(* write *)

(* The test of copy_from and of read, in the arithmetic of size_t. *)
Accepts(block, len, offset) == (offset + len) % SizeMod <= Len(block)

(* memcpy to data + offset, wherever that is: if it went beyond the end of  *)
(* the block, the block would have places that it was not allocated with.   *)
Write(id, src, offset) ==
  /\ id \in Engaged
  /\ Accepts(blocks[id], Len(src), offset)
  /\ blocks' = [blocks EXCEPT ![id] =
                  [k \in DOMAIN @ \cup {offset + j : j \in DOMAIN src} |->
                     IF k - offset \in DOMAIN src THEN src[k - offset] ELSE @[k]]]
  /\ UNCHANGED <<free_list, lost>>

(* The exceptions of write. *)
WriteThrows(id, len, offset) ==
  /\ id \in Engaged => ~Accepts(blocks[id], len, offset)
  /\ UNCHANGED vars

-----------------------------------------------------------------------------
Next ==
  \/ \E size \in Sizes : AllocateReuse(size) \/ AllocateGrow(size)
  \/ AllocateReuseThrows
  \/ \E id \in 1 .. MaxBlocks + 1 :
       \/ Deallocate(id) \/ DeallocateThrows(id) \/ DeallocateNothing(id)
       \/ \E len, offset \in Args :
            \/ WriteThrows(id, len, offset)
            \/ \E src \in [1 .. len -> Bytes] : Write(id, src, offset)

Spec == Init /\ [][Next]_vars

-----------------------------------------------------------------------------
TypeOK ==
  /\ blocks \in Seq(Seq(Bytes) \cup {Nullopt})
  /\ free_list \in Seq(1 .. Len(blocks))
  /\ lost \subseteq 1 .. Len(blocks)

NoDuplicates == \A i, j \in DOMAIN free_list : free_list[i] = free_list[j] => i = j

(* allocate never hands out an id that is in use, nor one id to two owners: *)
(* the free list holds free ids, each once, however often and with whatever *)
(* ids deallocate was called (lines 37-41, 69-72). It holds all of them but *)
(* those that an operation lost when it threw, which stay free for ever.    *)
FreeListExact ==
  /\ NoDuplicates
  /\ lost \subseteq Empty
  /\ \A i \in DOMAIN free_list : free_list[i] \in Empty \ lost
  /\ \A id \in Empty \ lost : \E i \in DOMAIN free_list : free_list[i] = id

Inv == TypeOK /\ FreeListExact

(* "Allocate a new block, reusing free ids first" (35): blocks grows only   *)
(* when every id is in use, or was lost.                                    *)
GrowsOnlyWhenFull == [][Len(blocks') > Len(blocks) => Empty = lost]_vars

(* Every block keeps its contents while others are allocated, freed and     *)
(* reused (67 and 112), and a reused id starts from zeros.                  *)
Store == INSTANCE BlockStore
           WITH store <- [id \in Engaged |-> blocks[id]], Ids <- 1 .. MaxBlocks
StoreSpec == Store!Spec
=============================================================================
