----------------------------- MODULE MCRuntimeHeap -----------------------------
(* RuntimeHeap on a few regions and pointers.  The chunk capacities are     *)
(* scaled down with the requests: a first chunk holds two small blocks, and *)
(* a large block outgrows it.                                               *)
EXTENDS RuntimeHeap, TLC

Symmetry == Permutations(Region) \cup Permutations(Pointer)
=============================================================================
