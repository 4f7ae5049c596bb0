------------------------------ MODULE SortedSets ------------------------------
(***************************************************************************)
(* Sets of keys in order: the program keeps them in sorted arrays.         *)
(***************************************************************************)
EXTENDS Integers, FiniteSets

\* The element of a set of numbers that has i elements below it.
Nth(S, i) == CHOOSE k \in S : Cardinality({j \in S : j < k}) = i
\* The elements of a set of numbers in order.
Sorted(S) == [i \in 1 .. Cardinality(S) |-> Nth(S, i - 1)]

\* A set of items, at most one for a key, in the order of their keys.
KeysIn(items) == {item[1] : item \in items}
SortedByKey(items) ==
  [i \in 1 .. Cardinality(KeysIn(items)) |->
     CHOOSE item \in items : item[1] = Nth(KeysIn(items), i - 1)]
=============================================================================
