-------------------------- MODULE MCAllocationMeta --------------------------
(***************************************************************************)
(* AllocationMeta for TLC: threads and addresses are interchangeable.      *)
(***************************************************************************)
EXTENDS AllocationMeta, TLC

MCSymmetry == Permutations(Threads) \cup Permutations(Chunks \ {First})
=============================================================================
