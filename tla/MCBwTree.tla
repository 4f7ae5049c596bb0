------------------------------ MODULE MCBwTree ------------------------------
(***************************************************************************)
(* BwTree for TLC: the trees the runs start from, each one that operations *)
(* lead to, and the requests their threads make.                           *)
(***************************************************************************)
EXTENDS BwTreeSmo, TLC

MCSymmetry == Permutations(Threads)

End == <<0, INVALID_NODE_ID>>
Leaf(low, high, keys)   == Base("leaf", low, high, [k \in keys |-> INVALID_NODE_ID])
Inner(low, high, items) == Base("inner", low, high, items)
Delta(n)                == [n EXCEPT !.type = "delta", !.depth = 1]
Table(nodes) == [i \in NodeIds |-> IF i \in DOMAIN nodes THEN nodes[i] ELSE NoNode]

\* A root over three leaves of one key each.
MCLeaves ==
  [root |-> 1, next |-> 5,
   mapping |-> Table(<<Inner(LowKey, End, (0 :> 2) @@ (2 :> 3) @@ (3 :> 4)),
                       Leaf(LowKey, <<2, 3>>, {1}), Leaf(2, <<3, 4>>, {2}),
                       Leaf(3, End, {3})>>)]

\* A root over four leaves: the next thread to load it splits it.
MCWide ==
  [root |-> 1, next |-> 6,
   mapping |-> Table(<<Inner(LowKey, End, (0 :> 2) @@ (2 :> 3) @@ (3 :> 4) @@ (4 :> 5)),
                       Leaf(LowKey, <<2, 3>>, {1}), Leaf(2, <<3, 4>>, {2}),
                       Leaf(3, <<4, 5>>, {3}), Leaf(4, End, {4})>>)]

\* MCWide has grown a root, 7, over 1 and 6; leaf 5 was merged into 4 and then
\* 6 into 1, and the separators of both are gone.  The thread that deleted 6
\* from the root has not come to consolidate 1, which still has the merge delta.
\* Then leaf 4 was split again, and keys 3 and 4 were deleted.
MCMerged ==
  [root |-> 7, next |-> 9,
   mapping |-> Table(
     <<[Delta(Inner(LowKey, End, (0 :> 2) @@ (2 :> 3) @@ (3 :> 4) @@ (4 :> 8)))
          EXCEPT !.merges = TRUE],
       Leaf(LowKey, <<2, 3>>, {1}), Leaf(2, <<3, 4>>, {2}), Delta(Leaf(3, <<4, 8>>, {})),
       RemoveNode(Leaf(4, End, {})), RemoveNode(Inner(3, End, 3 :> 4)),
       Delta(Inner(LowKey, End, 0 :> 1)), Delta(Leaf(4, End, {}))>>)]

\* MCWide after its root split into 1 and 6 under a new root, 7.
MCTall ==
  [root |-> 7, next |-> 8,
   mapping |-> Table(
     <<Inner(LowKey, <<3, 6>>, (0 :> 2) @@ (2 :> 3)),
       Leaf(LowKey, <<2, 3>>, {1}), Leaf(2, <<3, 4>>, {2}),
       Leaf(3, <<4, 5>>, {3}), Leaf(4, End, {5}),
       Inner(3, End, (3 :> 4) @@ (4 :> 5)), Inner(LowKey, End, (0 :> 1) @@ (3 :> 6))>>)]

Updates == {"insert", "delete"}
MCShrink == {<<"insert", 4>>, <<"delete", 3>>, <<"delete", 4>>}

Scenario(tree, calls, n) ==
  [tree |-> tree, cache |-> <<>>, requests |-> calls, ops |-> n]

\* Leaves that split, are removed and merged, and are read.
MCLeafWork ==
  Scenario(MCLeaves, {<<"delete", 1>>, <<"delete", 2>>, <<"delete", 3>>, <<"insert", 2>>,
                      <<"insert", 4>>, <<"get", 3>>}, 5)
\* Inner nodes that do.
MCInnerWork  == Scenario(MCWide, MCShrink, 5)
MCMergedWork == Scenario(MCMerged, MCShrink, 5)
\* An iterator over leaves that split and merge.
MCScanWork ==
  Scenario(MCLeaves, {<<"scan", 1>>, <<"delete", 2>>, <<"delete", 3>>, <<"insert", 4>>}, 4)
\* Insert_LRU() with the node that was over key 4 before the root split.
MCCacheWork ==
  [Scenario(MCTall, {<<"insertLRU", 4>>, <<"insertLRU", 3>>, <<"delete", 4>>, <<"delete", 3>>},
            4) EXCEPT !.cache = <<<<4, 1>>>>]

MCAll     == {MCLeafWork, MCInnerWork, MCMergedWork, MCScanWork, MCCacheWork}
MCUpdates == {Scenario(MCWide, MCShrink, 4)}
MCReads   ==
  {Scenario(MCLeaves, ((Updates \cup {"get"}) \X {4}) \cup {<<"get", 3>>}, 4)}
MCStale   == {Scenario(MCMerged, Updates \X {4}, 2)}

\* The trees are coherent: the leaves are on level 0, and the nodes with a remove
\* delta on top have been merged.
MCLevel(tree) ==
  LET level[i \in NodeIds] ==
        LET n == tree.mapping[i] IN
        IF i \notin InUse(tree.next) \/ IsLeaf(n) THEN 0 ELSE 1 + level[n.items[n.low]]
  IN  level
MCNodes(tree) == {i \in InUse(tree.next) : tree.mapping[i].type # "remove"}

ASSUME MCCoherent ==
  \A s \in Scenarios :
    Coherent(s.tree.mapping, s.tree.next, s.tree.root, MCLevel(s.tree), MCNodes(s.tree))
=============================================================================
