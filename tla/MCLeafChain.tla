---------------------------- MODULE MCLeafChain ----------------------------
(***************************************************************************)
(* LeafChain for TLC: an index with several values to a key, and a unique  *)
(* one, which needs more keys before a leaf splits; one key shows what     *)
(* insertions and deletions make of each other.                            *)
(***************************************************************************)
EXTENDS LeafChain

MCMultiMap == {[keys |-> 1 .. 3, unique |-> FALSE]}
MCOneKey   == {[keys |-> {1}, unique |-> TRUE]}
MCIndexes  == MCMultiMap \cup {[keys |-> 1 .. 4, unique |-> TRUE]}
=============================================================================
