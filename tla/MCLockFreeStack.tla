--------------------------- MODULE MCLockFreeStack ---------------------------
(* LockFreeStack with interchangeable threads and addresses.                *)
EXTENDS LockFreeStack, TLC

Symmetry == Permutations(Pushers) \cup Permutations(Poppers) \cup Permutations(Nodes)
=============================================================================
