------------------------------ MODULE FIFOQueue ------------------------------
(***************************************************************************)
(* What a queue promises its users, whatever its implementation: a value   *)
(* enters once, at the back, and leaves once, from the front.              *)
(* mpsc_queue.cpp and producer_consumer.cpp both implement it.             *)
(***************************************************************************)
EXTENDS Sequences

CONSTANT Values

VARIABLES items,      \* values that have entered and not left, in order
          delivered   \* values that have left, in order

vars == <<items, delivered>>

Entered == {items[i] : i \in DOMAIN items} \cup {delivered[i] : i \in DOMAIN delivered}

Init == /\ items = <<>>
        /\ delivered = <<>>

Enqueue(v) == /\ v \notin Entered
              /\ items' = Append(items, v)
              /\ UNCHANGED delivered

Dequeue == /\ items # <<>>
           /\ delivered' = Append(delivered, Head(items))
           /\ items' = Tail(items)

Next == Dequeue \/ \E v \in Values : Enqueue(v)

Spec == Init /\ [][Next]_vars
=============================================================================
