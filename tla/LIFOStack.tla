------------------------------ MODULE LIFOStack ------------------------------
(***************************************************************************)
(* What a stack promises: a value enters once, on top, and what leaves is  *)
(* the value on top. LockFreeStack implements it as long as one thread     *)
(* pops.                                                                   *)
(***************************************************************************)
EXTENDS Sequences

CONSTANT Values

VARIABLES items,      \* the values in the stack, the top first
          delivered   \* the values that have left, in order

vars == <<items, delivered>>

Entered == {items[i] : i \in DOMAIN items} \cup {delivered[i] : i \in DOMAIN delivered}

Init == items = <<>> /\ delivered = <<>>

Push(v) == /\ v \notin Entered
           /\ items' = <<v>> \o items
           /\ UNCHANGED delivered

Pop == /\ items # <<>>
       /\ delivered' = Append(delivered, Head(items))
       /\ items' = Tail(items)

Next == Pop \/ \E v \in Values : Push(v)

Spec == Init /\ [][Next]_vars
=============================================================================
