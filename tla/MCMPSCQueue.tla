----------------------------- MODULE MCMPSCQueue -----------------------------
(* MPSCQueue with interchangeable producers and interchangeable addresses. *)
EXTENDS MPSCQueue, TLC

Symmetry == Permutations(Producers) \cup Permutations(Nodes)
=============================================================================
