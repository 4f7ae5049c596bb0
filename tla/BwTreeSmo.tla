----------------------------- MODULE BwTreeSmo -----------------------------
(***************************************************************************)
(* Half-done structure modifications of the Bw-Tree: what is true of the   *)
(* tree and of every thread while splits, removals and merges are under    *)
(* way.  nodes is the ids whose node is not merged into its left sibling   *)
(* yet, level says how far above the leaves a node is; nothing in the      *)
(* program holds either.                                                   *)
(***************************************************************************)
EXTENDS BwTree

-----------------------------------------------------------------------------
(* The tree.                                                               *)

Item(n, k, x) == k \in Seps(n) /\ n.items[k] = x
Covers(n, k)  == n.low <= k /\ InRange(n, k)

\* An item for k leads to x; a merge delta has put x away at k; x is what a split
\* delta on top has just made.
Posted(m, nodes, k, x)  == \E p \in nodes : ~IsLeaf(m[p]) /\ Item(m[p], k, x)
Merging(m, nodes, k, x) ==
  \E l \in nodes : m[l].type = "merge" /\ m[l].sep = k /\ m[l].other = x
SplitOff(m, nodes, x)   == \E l \in nodes : m[l].type = "split" /\ m[l].other = x

\* Children are one level down, siblings and merged siblings on the same.
Ranked(level, id, n) ==
  /\ ~IsLeaf(n) => \A k \in Seps(n) : level[n.items[k]] + 1 = level[id]
  /\ GetNextNodeID(n) # INVALID_NODE_ID => level[GetNextNodeID(n)] = level[id]
  /\ n.type = "merge" => level[n.other] = level[id] /\ InRange(n, n.sep)

\* On every level the nodes are linked and their ranges do not overlap.
Layered(m, next, root, level, nodes) ==
  /\ level \in [NodeIds -> Nat] /\ nodes \subseteq InUse(next) /\ root \in nodes
  /\ \A i \in InUse(next) : Ranked(level, i, m[i]) /\ level[i] <= level[root]
  /\ \A i \in nodes : GetNextNodeID(m[i]) \in nodes \cup {INVALID_NODE_ID}
  /\ \A i \in nodes : \A j \in nodes \ {i} :
       level[i] = level[j] /\ m[i].low <= m[j].low => ~InRange(m[i], m[j].low)

\* A merged node has a remove delta on top, and its item is there at most until
\* the merge delta is finished.  No leftmost child has a remove delta on top, and
\* a node has none while it is split off and its item is missing.
Removals(m, next, root, level, nodes) ==
  /\ \A i \in InUse(next) \ nodes : m[i].type = "remove"
  /\ \A i \in nodes : level[i] = level[root] => m[i].type # "remove"
  /\ \A i \in InUse(next) : m[i].type = "merge" => m[i].other \notin nodes
  /\ \A p \in nodes : ~IsLeaf(m[p]) =>
       /\ \A k \in Seps(m[p]) :
            m[p].items[k] \in nodes \/ Merging(m, nodes, k, m[p].items[k])
       /\ m[m[p].items[m[p].low]].type # "remove"
  /\ \A x \in nodes : m[x].type = "remove" =>
       Posted(m, nodes, m[x].low, x) \/ ~SplitOff(m, nodes, x)

\* No more of a tree is half done than that.
Coherent(m, next, root, level, nodes) ==
  Layered(m, next, root, level, nodes) /\ Removals(m, next, root, level, nodes)

\* An execution starts from such trees.
CoherentScenarios ==
  \A s \in Scenarios : \E level, nodes :
    Coherent(s.tree.mapping, s.tree.next, s.tree.root, level, nodes)

\* A released id is merged and no item leads to it.
Gone(m, next, nodes, ids) ==
  /\ ids \subseteq InUse(next)
  /\ \A x \in ids : x \notin nodes /\ \A k : ~Posted(m, nodes, k, x)

-----------------------------------------------------------------------------
(* The threads.                                                            *)

\* A fresh snapshot is the table's node, and a merge delta on top is finished.
Settled(m, nodes, s) ==
  s.fresh => /\ s.node = m[s.id]
             /\ s.node.type = "merge" => ~Posted(m, nodes, s.node.sep, s.node.other)

\* The node a Context is at or goes to; its parent, if fresh, has the item of the
\* node, unless the node is not split off any more.
Target(c) == IF c.pc = "jump" THEN c.to ELSE c.cur.id
Handed(m, nodes, c, id) ==
  c.par.fresh => Item(c.par.node, m[id].low, id) \/ ~SplitOff(m, nodes, id)

ParentAt(m, level, nodes, c, id) ==
  HasParentNode(c) =>
    /\ Ranked(level, c.par.id, c.par.node) /\ c.par.node.type # "remove"
    /\ InRange(c.par.node, c.key) /\ Settled(m, nodes, c.par)
    /\ id \in NodeIds /\ level[c.par.id] = level[id] + 1 /\ Handed(m, nodes, c, id)

NodeClaim(m, level, nodes, c) ==
  c.cur.id \in NodeIds =>
    /\ Ranked(level, c.cur.id, c.cur.node)
    /\ c.cur.node.type = "merge" => c.cur.node.other \notin nodes
    /\ c.cur.fresh /\ c.pc # "abortUndo" => c.cur.node = m[c.cur.id]

PendingClaim(m, c) == \A i \in 1 .. Len(c.pending) : m[c.pending[i][1]] = c.pending[i][2]

\* What Handed() says of the right sibling, should the parent reach so far.
NextClaim(m, nodes, c) ==
  HasParentNode(c) /\ GetNextNodeID(c.cur.node) # INVALID_NODE_ID
    /\ InRange(c.par.node, c.cur.node.high[1]) => Handed(m, nodes, c, GetNextNodeID(c.cur.node))

\* Where the topmost delta of the node is finished, and where a parent is blocked.
Past    == {"mergePost", "consolidate", "tryConsolidate", "probe", "split", "abortPost",
            "removePost", "op"}
Locking == {"removePost", "abortUndo"}

\* What else holds of a thread by where it is.
PlaceClaim(m, root, level, nodes, blk, c) ==
  LET n == c.cur.node IN
  /\ c.pc \in Past => Settled(m, nodes, c.cur)
  /\ c.pc \in Past \cup {"mergeCheck", "postDelete"} => NextClaim(m, nodes, c)
  /\ c.pc \in {"removeCheck", "parentConsolidate"} => m[c.cur.id] = n
  /\ c.pc \in {"mergeCheck", "postDelete"} /\ c.par.fresh /\ n.sep \in Seps(c.par.node) =>
       c.par.node.items[n.sep] = n.other
  /\ c.pc = "postInsert" /\ c.par.fresh => n.other \in nodes
  /\ c.pc = "newRoot" /\ root = c.cur.id => n.other \in nodes
  /\ c.pc = "removePost" => c.par.fresh
  /\ c.pc \in Locking => c.par.id \in blk
  /\ c.pc = "take" /\ c.cur.id \in NodeIds =>
       /\ level[c.to] + 1 = level[c.cur.id] /\ Item(n, m[c.to].low, c.to) /\ InRange(n, c.key)
       /\ c.op # "get" => n.type # "remove" /\ Settled(m, nodes, c.cur)

Claims(m, root, level, nodes, blk, c) ==
  /\ ParentAt(m, level, nodes, c, Target(c)) /\ NodeClaim(m, level, nodes, c)
  /\ PendingClaim(m, c) /\ PlaceClaim(m, root, level, nodes, blk, c)

\* Two threads do not block the same parent, and one that is about to post the
\* item of a node keeps others from merging that node: from where it would have
\* to be merged to, there is an item in between.
Locks(c, d) == c.pc \in Locking /\ d.pc \in Locking => c.par.id # d.par.id
Inserts(m, c, d) ==
  c.pc = "postInsert" /\ c.par.fresh =>
    /\ \A i \in 1 .. Len(d.pending) : d.pending[i][1] = c.cur.node.other =>
         \E s \in Seps(c.par.node) : m[Target(d)].low < s /\ s < c.cur.node.sep
    /\ d.pc = "parentConsolidate" /\ d.cur.id = c.cur.node.other =>
         d.par.id = c.par.id /\ d.par.fresh

-----------------------------------------------------------------------------
(* The invariant, and what the theorems assume of the steps.               *)

SmoInv(level, nodes) ==
  /\ Coherent(mapping, next_unused_node_id, root_id, level, nodes)
  /\ Gone(mapping, next_unused_node_id, nodes, released)
  /\ \A t \in Threads : Claims(mapping, root_id, level, nodes, blocked, ctx[t])
  /\ \A t \in Threads : \A u \in Threads \ {t} :
       Locks(ctx[t], ctx[u]) /\ Inserts(mapping, ctx[t], ctx[u])

Smo == \E level, nodes : SmoInv(level, nodes)

\* The leftmost child of the new half has still not been removed when an inner
\* node is split: the code looks before the split, but not again.
SplitsHold ==
  \A t \in Threads : LET n == ctx[t].cur.node IN
    PostSplitNode(t) /\ Current(ctx[t].cur) /\ ~IsLeaf(n) => MaySplitAt(n.items[SplitKey(n)])

\* Insert_LRU() meets no remove or merge delta on top of a node that it has cached.
HitsWhole ==
  \A t \in Threads : CacheHit(t) => mapping[ctx[t].to].type \notin {"remove", "merge"}
=============================================================================
