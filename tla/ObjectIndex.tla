----------------------------- MODULE ObjectIndex -----------------------------
(***************************************************************************)
(* 02-stl-containers/exercises/object_store.cpp: objects by id, and an     *)
(* index from each locator to the ids of its objects. Of an object's info  *)
(* the locator is kept; size and time decide nothing. The allocations of   *)
(* create may throw bad_alloc.                                             *)
(***************************************************************************)
EXTENDS Naturals, Sequences, FiniteSets

CONSTANTS Oids,
          Locators,     \* the locators that callers pass; an oid may be one
          Default,      \* the empty string
          MaxListed     \* the bound of the model on the length of a list

ASSUME LocatorsAssumption == Default \notin Oids \cup Locators
ASSUME MaxListedAssumption == MaxListed \in Nat

Seqs == INSTANCE SequencesExt

VARIABLES objects,        \* the locator of each object, by oid
          locator_index,  \* the list of every locator; empty if it has none
          again,          \* history: the oids created while they existed
          unlisted        \* history: the objects whose last create threw

indexVars == <<objects, locator_index, again, unlisted>>

(* Default is where an object is whose info could not be copied. *)
AllLocators == Oids \cup Locators \cup {Default}

IndexInit == /\ objects = <<>>
             /\ locator_index = [l \in AllLocators |-> <<>>]
             /\ again = {}
             /\ unlisted = {}

(* locator.empty() ? oid : locator *)
Located(oid, locator) == IF locator = Default THEN oid ELSE locator

(* objects[oid] = info *)
Store(oid, l) ==
  /\ objects' = [o \in DOMAIN objects \cup {oid} |-> IF o = oid THEN l ELSE objects[o]]
  /\ again' = IF oid \in DOMAIN objects THEN again \cup {oid} ELSE again

Create(oid, locator) ==
  LET l == Located(oid, locator) IN
    /\ Store(oid, l)
    /\ locator_index' = [locator_index EXCEPT ![l] = Append(@, oid)]
    /\ unlisted' = unlisted \ {oid}

(* create throws, and the object is in no new list: either 45 has no memory *)
(* for the list, or 42 has none for the copy of the info, and a new object  *)
(* stays there with an empty one. If 42 cannot insert, or an object keeps   *)
(* the locator that it had, nothing has changed.                            *)
CreateThrows(oid, locator) ==
  \E l \in {Located(oid, locator), Default} :
    /\ oid \in DOMAIN objects => l \notin {objects[oid], Default}
    /\ Store(oid, l)
    /\ unlisted' = unlisted \cup {oid}
    /\ UNCHANGED locator_index

(* The elements of list that are in S, in their order. SelectSeq says the    *)
(* same by recursion over the list, which the provers cannot unfold.         *)
Kept(list, S) ==
  LET at == {i \in DOMAIN list : list[i] \in S}
      Nth(k) == CHOOSE i \in at : Cardinality({j \in at : j <= i}) = k
  IN  [k \in 1..Cardinality(at) |-> list[Nth(k)]]

(* TLC compares the two on short lists; no proof uses it. *)
ASSUME KeptIsSelectSeq ==
  \A n \in 0..MaxListed : \A list \in [1..n -> Oids], S \in SUBSET Oids :
    Kept(list, S) = SelectSeq(list, LAMBDA o : o \in S)

(* Bug variant: the index is left alone. *)
RemoveKeepsIndex(oid) ==
  /\ oid \in DOMAIN objects
  /\ objects' = [o \in DOMAIN objects \ {oid} |-> objects[o]]
  /\ unlisted' = unlisted \ {oid}
  /\ UNCHANGED <<locator_index, again>>

(* erase(remove(...)) takes every occurrence out of the list. (If 54 cannot *)
(* insert a list where there is none, nothing has changed.)                 *)
Remove(oid) ==
  /\ oid \in DOMAIN objects
  /\ locator_index' = [locator_index EXCEPT ![objects[oid]] =
                         Kept(@, Oids \ {oid})]
  /\ objects' = [o \in DOMAIN objects \ {oid} |-> objects[o]]
  /\ unlisted' = unlisted \ {oid}
  /\ UNCHANGED again

(* There is no such object: false. *)
RemoveFalse(oid) == oid \notin DOMAIN objects /\ UNCHANGED indexVars

IndexNext ==
  \/ \E oid \in Oids : \E locator \in Locators \cup {Default} :
       /\ Len(locator_index[Located(oid, locator)]) < MaxListed
       /\ Create(oid, locator)
  \/ \E oid \in Oids : \E locator \in Locators \cup {Default} : CreateThrows(oid, locator)
  \/ \E oid \in Oids : Remove(oid) \/ RemoveFalse(oid)

IndexSpec == IndexInit /\ [][IndexNext]_indexVars

-----------------------------------------------------------------------------
(* What list_by_locator returns: the listed ids that get finds. *)
ListByLocator(locator) == Kept(locator_index[locator], DOMAIN objects)

IndexTypeOK ==
  /\ DOMAIN objects \subseteq Oids
  /\ \A o \in DOMAIN objects : objects[o] \in AllLocators
  /\ locator_index \in [AllLocators -> Seq(Oids)]
  /\ again \in SUBSET Oids
  /\ unlisted \subseteq DOMAIN objects

(* The two maps agree: each locator's list has exactly its objects, each    *)
(* once, and nothing stays behind that a later create would bring back to   *)
(* life (42-45, 54-57). An object whose create threw is in no list, also    *)
(* when it has been removed. Exempt is an object that was created over      *)
(* itself: it may be listed twice, or under the locator it used to have.    *)
IndexExact ==
  \A l \in AllLocators :
    LET list == Kept(locator_index[l], Oids \ again) IN
      /\ Seqs!ToSet(list) =
           {o \in DOMAIN objects \ (again \cup unlisted) : objects[o] = l}
      /\ Seqs!IsInjective(list)

(* Whatever was created, created over and removed before, and whichever     *)
(* creates threw, an object is found under its locator if the last create   *)
(* that changed it returned.                                                *)
IndexComplete ==
  \A o \in DOMAIN objects \ unlisted : o \in Seqs!ToSet(ListByLocator(objects[o]))

(* What the two maps promise each other (lines 35-59). *)
IndexInv == IndexTypeOK /\ IndexExact /\ IndexComplete

(* "List objects by locator" (68): the objects listed for a locator are     *)
(* located there.                                                           *)
ListsByLocator ==
  \A l \in AllLocators : \A o \in Seqs!ToSet(ListByLocator(l)) : objects[o] = l
=============================================================================
