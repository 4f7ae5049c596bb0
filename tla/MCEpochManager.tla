--------------------------- MODULE MCEpochManager ---------------------------
(* EpochManager for TLC: symmetry of the threads and of the node addresses. *)
EXTENDS EpochManager, TLC

MCSymmetry == Permutations(Threads) \cup Permutations(Nodes)
=============================================================================
