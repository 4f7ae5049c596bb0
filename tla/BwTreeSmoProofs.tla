-------------------------- MODULE BwTreeSmoProofs --------------------------
(***************************************************************************)
(* What holds of half-done structure modifications of the Bw-Tree for any  *)
(* tree, any number of threads and any thresholds: a merge delta takes out *)
(* of the parent the item of the node it has merged, which has been        *)
(* removed, and an id given to the epoch manager is not reached from a     *)
(* live node.  The invariant is SmoInv() of module BwTreeSmo.              *)
(***************************************************************************)
EXTENDS BwTreeSmo, BwTreeProofs

-----------------------------------------------------------------------------
(* Where ranges, links and items meet.                                     *)

LEMMA TableNode ==
  ASSUME NEW m, NEW next, NEW root, TreeOK(m, next, root), NEW i \in InUse(next)
  PROVE  /\ i \in NodeIds /\ Sound(m, next, m[i]) /\ m[i] \in AnyNode /\ m[i].low \in Nat
         /\ Seps(m[i]) \in SUBSET Nat /\ m[i].high[1] \in Nat
         /\ GetNextNodeID(m[i]) \in 0 .. MaxId /\ next \in Nat /\ next <= MaxId + 1
<1>1. i \in NodeIds /\ next \in Nat /\ next <= MaxId + 1 /\ Sound(m, next, m[i])
  BY MaxIdType DEF TreeOK, InUse, NodeIds
<1>2. m[i] \in AnyNode
  BY <1>1, IsNodeDef DEF TreeOK
<1> QED
  BY <1>1, <1>2, NodeFacts

LEMMA CoversLow ==
  ASSUME NEW m, NEW next, NEW n, Sound(m, next, n)
  PROVE  Covers(n, n.low) /\ n.low \in Nat /\ n \in AnyNode
<1>1. n \in AnyNode
  BY IsNodeDef DEF Sound
<1> QED
  BY <1>1, NodeFacts DEF Sound, SoundSibling, Covers, InRange, INVALID_NODE_ID

\* Where an item leads, and the link to the right.
LEMMA ItemBelow ==
  ASSUME NEW m, NEW next, NEW level, NEW id, NEW n, Sound(m, next, n), Ranked(level, id, n),
         ~IsLeaf(n), NEW k, NEW x, Item(n, k, x)
  PROVE  /\ x \in InUse(next) /\ m[x].low = k /\ k \in Nat
         /\ level[x] + 1 = level[id] /\ Covers(n, k)
<1>1. Seps(n) \in SUBSET Nat
  BY IsNodeDef, NodeFacts DEF Sound
<1> QED
  BY <1>1 DEF Sound, SoundItems, SoundChildren, StartsAt, Ranked, Item, Covers

LEMMA NextBeside ==
  ASSUME NEW m, NEW next, NEW level, NEW id, NEW n, Sound(m, next, n), Ranked(level, id, n),
         GetNextNodeID(n) # INVALID_NODE_ID
  PROVE  LET x == GetNextNodeID(n) IN
         /\ x \in InUse(next) /\ m[x].low = n.high[1] /\ n.low < m[x].low /\ m[x].low \in Nat
         /\ level[x] = level[id] /\ m[x].kind = n.kind
<1>1. n.high[1] \in Nat
  BY IsNodeDef, NodeFacts DEF Sound
<1> QED
  BY <1>1 DEF Sound, SoundSibling, StartsAt, Ranked

LEMMA OneCovers ==
  ASSUME NEW m, NEW next, NEW root, TreeOK(m, next, root),
         NEW level, NEW nodes, Layered(m, next, root, level, nodes),
         NEW i \in nodes, NEW j \in nodes, level[i] = level[j],
         NEW k \in Nat, Covers(m[i], k), Covers(m[j], k)
  PROVE  i = j
<1> SUFFICES ASSUME i # j PROVE FALSE
  OBVIOUS
<1>1. \A l \in nodes : m[l].low \in Nat /\ m[l].high[1] \in Nat
  BY TableNode DEF Layered
<1>2. ASSUME NEW a \in nodes, NEW b \in nodes, a # b, level[a] = level[b], m[a].low <= m[b].low,
             Covers(m[a], k), Covers(m[b], k)
      PROVE  FALSE
  <2>1. ~InRange(m[a], m[b].low)
    BY <1>2 DEF Layered
  <2> QED
    BY <1>1, <1>2, <2>1 DEF InRange, Covers
<1> QED
  BY <1>1, <1>2

LEMMA OneLinks ==
  ASSUME NEW m, NEW next, NEW root, TreeOK(m, next, root),
         NEW level, NEW nodes, Layered(m, next, root, level, nodes),
         NEW i \in nodes, NEW j \in nodes, GetNextNodeID(m[i]) = GetNextNodeID(m[j]),
         GetNextNodeID(m[i]) # INVALID_NODE_ID
  PROVE  i = j
<1> SUFFICES ASSUME i # j PROVE FALSE
  OBVIOUS
<1> DEFINE x == GetNextNodeID(m[i])
<1>1. \A l \in nodes : /\ Sound(m, next, m[l]) /\ Ranked(level, l, m[l])
                       /\ m[l].low \in Nat /\ m[l].high[1] \in Nat
  BY TableNode DEF Layered
<1>2. \A l \in {i, j} : level[x] = level[l] /\ m[l].low < m[l].high[1] /\ m[x].low = m[l].high[1]
  BY <1>1, NextBeside
<1>3. ASSUME NEW a \in {i, j}, NEW b \in {i, j}, a # b, m[a].low <= m[b].low
      PROVE  FALSE
  <2>1. ~InRange(m[a], m[b].low)
    BY <1>2, <1>3 DEF Layered
  <2> QED
    BY <1>1, <1>2, <1>3, <2>1 DEF InRange
<1> QED
  BY <1>1, <1>3

\* i is one level below p; p has an item; i covers a key; i has a merge delta on top.
Under(level, i, p)   == level[i] + 1 = level[p]
HasItem(m, p, k, x)  == ~IsLeaf(m[p]) /\ Item(m[p], k, x)
CoversAt(m, i, k)    == Covers(m[i], k)
MergesAt(m, i, k, x) == m[i].type = "merge" /\ m[i].sep = k /\ m[i].other = x

\* Who has an item is who covers its key.
LEMMA PostedWhere ==
  ASSUME NEW m, NEW next, NEW root, TreeOK(m, next, root),
         NEW level, NEW nodes, Layered(m, next, root, level, nodes),
         NEW p \in nodes, NEW x, Under(level, x, p),
         NEW k, CoversAt(m, p, k), Posted(m, nodes, k, x)
  PROVE  HasItem(m, p, k, x)
<1>1. PICK q \in nodes : ~IsLeaf(m[q]) /\ Item(m[q], k, x)
  BY DEF Posted
<1>2. Sound(m, next, m[q]) /\ Ranked(level, q, m[q])
  BY TableNode DEF Layered
<1>3. level[x] + 1 = level[q] /\ Covers(m[q], k) /\ k \in Nat
  BY <1>1, <1>2, ItemBelow
<1>4. level[q] = level[p]
  BY <1>3 DEF Under
<1>5. q = p
  BY <1>3, <1>4, OneCovers DEF CoversAt
<1> QED
  BY <1>1, <1>5 DEF HasItem

\* An item whose key a node one level down covers leads to that node, or to one
\* that was merged into it at that key.
LEMMA ItemUnder ==
  ASSUME NEW m, NEW next, NEW root, TreeOK(m, next, root),
         NEW level, NEW nodes, Coherent(m, next, root, level, nodes),
         NEW p \in nodes, NEW k, NEW y, HasItem(m, p, k, y),
         NEW i \in nodes, Under(level, i, p), CoversAt(m, i, k)
  PROVE  y = i \/ (y \notin nodes /\ MergesAt(m, i, k, y))
<1>0. /\ Layered(m, next, root, level, nodes) /\ Removals(m, next, root, level, nodes)
      /\ ~IsLeaf(m[p]) /\ Item(m[p], k, y) /\ Covers(m[i], k)
  BY DEF Coherent, HasItem, CoversAt
<1>1. \A l \in nodes : l \in InUse(next) /\ Sound(m, next, m[l]) /\ Ranked(level, l, m[l])
  BY <1>0, TableNode DEF Layered
<1>2. y \in InUse(next) /\ m[y].low = k /\ k \in Nat /\ level[y] + 1 = level[p]
  BY <1>0, <1>1, ItemBelow
<1>3. level[y] = level[i]
  <2>1. level[y] \in Nat /\ level[i] \in Nat
    BY <1>0, <1>1, <1>2, TableNode DEF Layered
  <2> QED
    BY <1>2, <2>1 DEF Under
<1>4. CASE y \in nodes
  <2>1. Covers(m[y], k)
    BY <1>1, <1>2, <1>4, CoversLow
  <2> QED
    BY <1>0, <1>2, <1>3, <1>4, <2>1, OneCovers
<1>5. CASE y \notin nodes
  <2>1. Merging(m, nodes, k, y)
    BY <1>0, <1>5 DEF Removals, Item
  <2>2. PICK l \in nodes : m[l].type = "merge" /\ m[l].sep = k /\ m[l].other = y
    BY <2>1 DEF Merging
  <2>3. level[y] = level[l] /\ Covers(m[l], k)
    <3>1. m[l].low < m[l].sep /\ m[l].low \in Nat /\ m[l].sep \in Nat
      BY <1>1, <1>2, <2>2, CoversLow DEF Sound, SoundDelta
    <3>2. level[m[l].other] = level[l] /\ InRange(m[l], m[l].sep)
      BY <1>1, <2>2 DEF Ranked
    <3> QED
      BY <2>2, <3>1, <3>2 DEF Covers
  <2>4. k \in Nat /\ level[l] = level[i]
    BY <1>2, <1>3, <2>3
  <2>5. l = i
    BY <1>0, <2>3, <2>4, OneCovers
  <2> QED
    BY <1>5, <2>2, <2>5 DEF MergesAt
<1> QED
  BY <1>4, <1>5

-----------------------------------------------------------------------------
(* Changes of the tree, and what they leave as it was.                     *)

\* Of the ids in use: a removed node does not change, no node is split off once
\* more, and no item leads to a merged node once more.
Tame(m, next, level, nodes, m2, level2, nodes2) ==
  /\ \A i \in InUse(next) : /\ m2[i].low = m[i].low /\ level2[i] = level[i]
                            /\ m[i].type = "remove" => m2[i] = m[i]
  /\ \A i \in InUse(next) : i \in nodes2 => i \in nodes
  /\ \A x \in InUse(next) : SplitOff(m2, nodes2, x) => SplitOff(m, nodes, x)
  /\ \A x \in InUse(next) \ nodes : \A k : Posted(m2, nodes2, k, x) => Posted(m, nodes, k, x)

\* What may take the place of a node that has not been removed, the merge delta on
\* top of which is finished.
Replaces(m, level, nodes, id, n) ==
  /\ Kin(m[id], n) /\ n.high = m[id].high /\ n.type \in {"base", "delta", "remove"}
  /\ m[id].type # "remove"
  /\ m[id].type = "merge" => ~Posted(m, nodes, m[id].sep, m[id].other)
  /\ ~IsLeaf(n) =>
       /\ n.items[n.low] = m[id].items[n.low]
       /\ \A k \in Seps(n) : \/ Item(m[id], k, n.items[k])
                             \/ n.items[k] \in nodes /\ level[n.items[k]] + 1 = level[id]
       /\ \A k \in Seps(m[id]) : Item(n, k, m[id].items[k]) \/ m[id].items[k] \notin nodes

\* Where a node may be removed.
Removable(m, root, level, nodes, id) ==
  /\ level[id] # level[root]
  /\ \A p \in nodes : ~IsLeaf(m[p]) => m[p].items[m[p].low] # id
  /\ Posted(m, nodes, m[id].low, id) \/ ~SplitOff(m, nodes, id)

\* What Coherent() says of a node, one fact at a time.
LEMMA CoherentFacts ==
  ASSUME NEW m, NEW next, NEW root, TreeOK(m, next, root),
         NEW level, NEW nodes, Coherent(m, next, root, level, nodes)
  PROVE  /\ Layered(m, next, root, level, nodes) /\ Removals(m, next, root, level, nodes)
         /\ \A i \in InUse(next) : /\ Sound(m, next, m[i]) /\ Ranked(level, i, m[i])
                                   /\ i \in NodeIds /\ level[i] \in Nat /\ i # INVALID_NODE_ID
                                   /\ m[i].type # "remove" => i \in nodes
         /\ \A i \in nodes : i \in InUse(next)
         /\ \A p \in nodes : ~IsLeaf(m[p]) =>
              /\ m[p].low \in Seps(m[p])
              /\ \A k \in Seps(m[p]) : /\ m[p].items[k] \in InUse(next)
                                       /\ level[m[p].items[k]] + 1 = level[p]
                                       /\ m[m[p].items[k]].low = k
<1>1. Layered(m, next, root, level, nodes) /\ Removals(m, next, root, level, nodes)
  BY DEF Coherent
<1>2. \A i \in nodes : i \in InUse(next)
  BY <1>1 DEF Layered
<1>3. \A i \in InUse(next) : i \in NodeIds /\ Sound(m, next, m[i]) /\ i # INVALID_NODE_ID
  BY TableNode, MaxIdType DEF InUse
<1>4. \A i \in InUse(next) : /\ Ranked(level, i, m[i]) /\ level[i] \in Nat
                             /\ m[i].type # "remove" => i \in nodes
  BY <1>1, <1>3 DEF Layered, Removals
<1>5. ASSUME NEW p \in nodes, ~IsLeaf(m[p])
      PROVE  /\ m[p].low \in Seps(m[p])
             /\ \A k \in Seps(m[p]) : /\ m[p].items[k] \in InUse(next)
                                      /\ level[m[p].items[k]] + 1 = level[p]
                                      /\ m[m[p].items[k]].low = k
  <2>1. Sound(m, next, m[p]) /\ Ranked(level, p, m[p])
    BY <1>2, <1>3, <1>4
  <2> QED
    BY <1>5, <2>1 DEF Sound, SoundChildren, StartsAt, Ranked
<1> QED
  BY <1>1, <1>2, <1>3, <1>4, <1>5

LEMMA ReplaceItems ==
  ASSUME NEW m, NEW next, NEW root, TreeOK(m, next, root),
         NEW level, NEW nodes, Coherent(m, next, root, level, nodes),
         NEW id \in nodes, NEW m2, \A i \in InUse(next) \ {id} : m2[i] = m[i],
         Replaces(m, level, nodes, id, m2[id])
  PROVE  /\ Tame(m, next, level, nodes, m2, level, nodes)
         /\ \A x \in nodes : \A k : Posted(m, nodes, k, x) => Posted(m2, nodes, k, x)
<1>0. /\ \A i \in nodes : i \in InUse(next)
      /\ Removals(m, next, root, level, nodes)
  BY CoherentFacts
<1>1. \A i \in nodes \ {id} : m2[i] = m[i]
  BY <1>0
<1>2. IsLeaf(m2[id]) = IsLeaf(m[id]) /\ m2[id].low = m[id].low
  BY DEF Replaces, Kin, IsLeaf
<1>3. ASSUME NEW x \in InUse(next), SplitOff(m2, nodes, x)
      PROVE  SplitOff(m, nodes, x)
  BY <1>1, <1>3 DEF SplitOff, Replaces
<1>4. ASSUME NEW x \in InUse(next) \ nodes, NEW k, Posted(m2, nodes, k, x)
      PROVE  Posted(m, nodes, k, x)
  <2>1. PICK p \in nodes : ~IsLeaf(m2[p]) /\ Item(m2[p], k, x)
    BY <1>4 DEF Posted
  <2>2. CASE p = id
    BY <1>2, <1>4, <2>1, <2>2 DEF Replaces, Item, Posted
  <2>3. CASE p # id
    BY <1>1, <2>1, <2>3 DEF Posted
  <2> QED
    BY <2>2, <2>3
<1>5. ASSUME NEW x \in nodes, NEW k, Posted(m, nodes, k, x)
      PROVE  Posted(m2, nodes, k, x)
  <2>1. PICK p \in nodes : ~IsLeaf(m[p]) /\ Item(m[p], k, x)
    BY <1>5 DEF Posted
  <2>2. CASE p = id
    BY <1>2, <1>5, <2>1, <2>2 DEF Replaces, Item, Posted
  <2>3. CASE p # id
    BY <1>1, <2>1, <2>3 DEF Posted
  <2> QED
    BY <2>2, <2>3
<1>6. \A i \in InUse(next) : m2[i].low = m[i].low /\ (m[i].type = "remove" => m2[i] = m[i])
  BY <1>2 DEF Replaces
<1> QED
  BY <1>3, <1>4, <1>5, <1>6 DEF Tame

LEMMA ReplaceCoherent ==
  ASSUME NEW m, NEW next, NEW root, TreeOK(m, next, root),
         NEW level, NEW nodes, Coherent(m, next, root, level, nodes),
         NEW id \in nodes, NEW m2, \A i \in InUse(next) \ {id} : m2[i] = m[i],
         Replaces(m, level, nodes, id, m2[id]), Sound(m2, next, m2[id]),
         m2[id].type = "remove" => Removable(m, root, level, nodes, id)
  PROVE  Coherent(m2, next, root, level, nodes)
<1> DEFINE n == m2[id]
<1>0. /\ Layered(m, next, root, level, nodes) /\ Removals(m, next, root, level, nodes)
      /\ \A i \in nodes : i \in InUse(next)
      /\ Tame(m, next, level, nodes, m2, level, nodes)
      /\ \A x \in nodes : \A k : Posted(m, nodes, k, x) => Posted(m2, nodes, k, x)
  BY CoherentFacts, ReplaceItems
<1>1. \A i \in nodes \ {id} : m2[i] = m[i]
  BY <1>0
<1>2. /\ IsLeaf(n) = IsLeaf(m[id]) /\ n.low = m[id].low /\ n.high = m[id].high
      /\ n.type \in {"base", "delta", "remove"}
  BY DEF Replaces, Kin, IsLeaf
<1>3. \A i \in InUse(next) : m2[i].low = m[i].low /\ GetNextNodeID(m2[i]) = GetNextNodeID(m[i])
                             /\ m2[i].high = m[i].high /\ IsLeaf(m2[i]) = IsLeaf(m[i])
  BY <1>2 DEF GetNextNodeID
<1>4. Layered(m2, next, root, level, nodes)
  <2>1. Ranked(level, id, n)
    <3>1. Ranked(level, id, m[id])
      BY <1>0 DEF Layered
    <3>2. ~IsLeaf(n) => \A k \in Seps(n) : level[n.items[k]] + 1 = level[id]
      BY <1>2, <3>1 DEF Ranked, Replaces, Item
    <3> QED
      BY <1>2, <3>1, <3>2 DEF Ranked, GetNextNodeID
  <2>2. \A i \in InUse(next) : Ranked(level, i, m2[i]) /\ level[i] <= level[root]
    BY <1>0, <2>1 DEF Layered
  <2>3. \A i \in nodes : \A j \in nodes \ {i} :
          level[i] = level[j] /\ m2[i].low <= m2[j].low => ~InRange(m2[i], m2[j].low)
    BY <1>0, <1>3 DEF Layered, InRange
  <2> QED
    BY <1>0, <1>3, <2>2, <2>3 DEF Layered
<1>5. Removals(m2, next, root, level, nodes)
  <2>1. /\ \A i \in InUse(next) \ nodes : m2[i].type = "remove"
        /\ \A i \in nodes : level[i] = level[root] => m2[i].type # "remove"
        /\ \A i \in InUse(next) : m2[i].type = "merge" => m2[i].other \notin nodes
    BY <1>0, <1>2 DEF Removals, Removable
  <2>2. ASSUME NEW p \in nodes, ~IsLeaf(m2[p])
        PROVE  /\ \A k \in Seps(m2[p]) :
                    m2[p].items[k] \in nodes \/ Merging(m2, nodes, k, m2[p].items[k])
               /\ m2[m2[p].items[m2[p].low]].type # "remove"
    <3>1. ASSUME NEW k \in Seps(m2[p]), m2[p].items[k] \notin nodes
          PROVE  Merging(m2, nodes, k, m2[p].items[k])
      <4>1. k \in Seps(m[p]) /\ m2[p].items[k] = m[p].items[k]
        BY <1>1, <1>2, <2>2, <3>1 DEF Replaces, Item
      <4>2. Merging(m, nodes, k, m[p].items[k]) /\ Posted(m, nodes, k, m[p].items[k])
        BY <1>0, <1>3, <2>2, <3>1, <4>1 DEF Removals, Posted, Item
      <4>3. PICK l \in nodes : m[l].type = "merge" /\ m[l].sep = k /\ m[l].other = m[p].items[k]
        BY <4>2 DEF Merging
      <4>4. l # id
        BY <4>2, <4>3 DEF Replaces
      <4> QED
        BY <1>1, <4>1, <4>3, <4>4 DEF Merging
    <3>2. m2[p].low = m[p].low /\ m2[p].items[m2[p].low] = m[p].items[m[p].low]
      BY <1>1, <1>2, <2>2 DEF Replaces
    <3>3. m[m[p].items[m[p].low]].type # "remove" /\ m[p].items[m[p].low] \in InUse(next)
      BY <1>0, <1>3, <2>2, CoherentFacts DEF Removals
    <3>4. ~IsLeaf(m[p])
      BY <1>0, <1>3, <2>2
    <3> QED
      BY <3>1, <3>2, <3>3, <3>4 DEF Removable
  <2>3. ASSUME NEW x \in nodes, m2[x].type = "remove"
        PROVE  Posted(m2, nodes, m2[x].low, x) \/ ~SplitOff(m2, nodes, x)
    <3>1. Posted(m, nodes, m[x].low, x) \/ ~SplitOff(m, nodes, x)
      BY <1>0, <1>1, <2>3 DEF Removals, Removable
    <3> QED
      BY <1>0, <1>3, <3>1 DEF Tame
  <2> QED
    BY <2>1, <2>2, <2>3 DEF Removals
<1> QED
  BY <1>4, <1>5 DEF Coherent

LEMMA MergedFacts ==
  ASSUME NEW n \in AnyNode, NEW right \in AnyNode, NEW id \in NodeIds,
         NEW n2, n2 = MergeNode(n, right, id)
  PROVE  /\ n2.type = "merge" /\ n2.low = n.low /\ IsLeaf(n2) = IsLeaf(n) /\ Kin(n, n2)
         /\ n2.high = right.high /\ n2.sep = n.high[1] /\ n2.other = id
         /\ Seps(n2) = Seps(n) \cup Seps(right)
         /\ \A s \in Seps(n) : n2.items[s] = n.items[s]
         /\ \A s \in Seps(right) \ Seps(n) : n2.items[s] = right.items[s]
<1> DEFINE r     == MergeNode(n, right, id)
           items == WithItemsOf(n, right)
           depth == n.depth + right.depth
<1>1. r = [n EXCEPT !.type = "merge", !.high = right.high, !.sep = n.high[1], !.other = id,
                    !.items = items, !.depth = depth, !.merges = ~IsLeaf(n)]
  BY DEF MergeNode, AnyNode
<1> HIDE DEF r, items, depth
<1>2. /\ r.type = "merge" /\ Kin(n, r) /\ r.high = right.high
      /\ r.sep = n.high[1] /\ r.other = id /\ r.items = items
  <2>1. /\ r.type = "merge" /\ r.high = right.high /\ r.sep = n.high[1] /\ r.other = id
        /\ r.items = items
    BY <1>1 DEF AnyNode
  <2>2. r.kind = n.kind /\ r.low = n.low
    BY <1>1 DEF AnyNode
  <2> QED
    BY <2>1, <2>2 DEF Kin
<1>3. Seps(r) = Seps(n) \cup Seps(right)
  <2>1. DOMAIN items = Seps(n) \cup Seps(right)
    BY WithItemsOfType DEF items
  <2> QED
    BY <1>2, <2>1 DEF Seps
<1>4. /\ \A s \in Seps(n) : r.items[s] = n.items[s]
      /\ \A s \in Seps(right) \ Seps(n) : r.items[s] = right.items[s]
  <2>1. /\ \A s \in Seps(n) : items[s] = n.items[s]
        /\ \A s \in Seps(right) \ Seps(n) : items[s] = right.items[s]
    BY WithItemsOfType DEF items
  <2> QED
    BY <1>2, <2>1
<1>5. n2 = r
  BY DEF r
<1> QED
  BY <1>2, <1>3, <1>4, <1>5 DEF Kin, IsLeaf

\* The merge: X, removed, is merged into its left sibling.
LEMMA MergeItems ==
  ASSUME NEW m, NEW next, NEW root, TreeOK(m, next, root),
         NEW level, NEW nodes, Coherent(m, next, root, level, nodes),
         NEW id \in nodes, m[id].type # "remove", NEW x \in nodes, m[x].type = "remove",
         GetNextNodeID(m[id]) = x, IsLeaf(m[id]) = IsLeaf(m[x]),
         NEW m2, \A i \in InUse(next) \ {id} : m2[i] = m[i], m2[id] = MergeNode(m[id], m[x], x),
         NEW nodes2, nodes2 = nodes \ {x}
  PROVE  /\ Tame(m, next, level, nodes, m2, level, nodes2)
         /\ \A y \in nodes : \A k : Posted(m, nodes, k, y) => Posted(m2, nodes2, k, y)
         /\ \A y, k : Posted(m2, nodes2, k, y) => Posted(m, nodes, k, y)
<1> DEFINE n == m2[id]
<1>0. /\ \A i \in nodes : i \in InUse(next)
      /\ m[id] \in AnyNode /\ m[x] \in AnyNode /\ x \in NodeIds /\ id # x
  BY CoherentFacts, TableNode
<1>1. /\ n.type = "merge" /\ n.low = m[id].low
      /\ Seps(n) = Seps(m[id]) \cup Seps(m[x]) /\ IsLeaf(n) = IsLeaf(m[id])
  BY <1>0, MergedFacts
<1>2. /\ \A s \in Seps(m[id]) : n.items[s] = m[id].items[s]
      /\ \A s \in Seps(m[x]) \ Seps(m[id]) : n.items[s] = m[x].items[s]
  BY <1>0, MergedFacts
<1>3. \A i \in nodes \ {id} : m2[i] = m[i]
  BY <1>0
<1>4. \A s \in Seps(m[x]) : s \notin Seps(m[id])
  <2>1. /\ m[x].low = m[id].high[1] /\ m[id].high[1] \in Nat
        /\ Sound(m, next, m[id]) /\ Sound(m, next, m[x])
    BY <1>0, CoherentFacts, NextBeside, NodeFacts, MaxIdType DEF NodeIds
  <2>2. \A s \in Seps(m[x]) : s \in Nat /\ m[x].low <= s
    BY <1>0, <2>1, NodeFacts DEF Sound, SoundItems
  <2>3. \A s \in Seps(m[id]) : s < m[id].high[1]
    BY <1>0, <2>1, MaxIdType DEF Sound, SoundItems, InRange, NodeIds
  <2> QED
    BY <2>1, <2>2, <2>3
<1>5. ASSUME NEW y, NEW k, Posted(m2, nodes2, k, y)
      PROVE  Posted(m, nodes, k, y)
  <2>1. PICK p \in nodes2 : ~IsLeaf(m2[p]) /\ Item(m2[p], k, y)
    BY <1>5 DEF Posted
  <2>2. CASE p = id
    BY <1>0, <1>1, <1>2, <2>1, <2>2 DEF Item, Posted
  <2>3. CASE p # id
    BY <1>3, <2>1, <2>3 DEF Posted
  <2> QED
    BY <2>2, <2>3
<1>6. ASSUME NEW y \in nodes, NEW k, Posted(m, nodes, k, y)
      PROVE  Posted(m2, nodes2, k, y)
  <2>1. PICK p \in nodes : ~IsLeaf(m[p]) /\ Item(m[p], k, y)
    BY <1>6 DEF Posted
  <2>2. CASE p \in {id, x}
    <3>1. Item(n, k, y) /\ ~IsLeaf(n) /\ id \in nodes2
      BY <1>0, <1>1, <1>2, <1>4, <2>1, <2>2 DEF Item
    <3> QED
      BY <3>1 DEF Posted
  <2>3. CASE p \notin {id, x}
    BY <1>3, <2>1, <2>3 DEF Posted
  <2> QED
    BY <2>2, <2>3
<1>7. ASSUME NEW y \in InUse(next), SplitOff(m2, nodes2, y)
      PROVE  SplitOff(m, nodes, y)
  BY <1>1, <1>3, <1>7 DEF SplitOff
<1>8. \A i \in InUse(next) : m2[i].low = m[i].low /\ (m[i].type = "remove" => m2[i] = m[i])
  BY <1>1
<1> QED
  BY <1>5, <1>6, <1>7, <1>8 DEF Tame

LEMMA MergeCoherent ==
  ASSUME NEW m, NEW next, NEW root, TreeOK(m, next, root),
         NEW level, NEW nodes, Coherent(m, next, root, level, nodes),
         NEW id \in nodes, m[id].type # "remove", NEW x \in nodes, m[x].type = "remove",
         GetNextNodeID(m[id]) = x, IsLeaf(m[id]) = IsLeaf(m[x]),
         m[id].type = "merge" => ~Posted(m, nodes, m[id].sep, m[id].other),
         NEW m2, \A i \in InUse(next) \ {id} : m2[i] = m[i], m2[id] = MergeNode(m[id], m[x], x),
         NEW nodes2, nodes2 = nodes \ {x}
  PROVE  Coherent(m2, next, root, level, nodes2) /\ Ranked(level, id, m2[id])
<1> DEFINE n == m2[id]
<1>0. /\ Layered(m, next, root, level, nodes) /\ Removals(m, next, root, level, nodes)
      /\ \A i \in nodes : i \in InUse(next)
      /\ Tame(m, next, level, nodes, m2, level, nodes2)
      /\ \A y \in nodes : \A k : Posted(m, nodes, k, y) => Posted(m2, nodes2, k, y)
      /\ \A y, k : Posted(m2, nodes2, k, y) => Posted(m, nodes, k, y)
  <2>1. /\ Tame(m, next, level, nodes, m2, level, nodes2)
        /\ \A y \in nodes : \A k : Posted(m, nodes, k, y) => Posted(m2, nodes2, k, y)
        /\ \A y, k : Posted(m2, nodes2, k, y) => Posted(m, nodes, k, y)
    BY MergeItems
  <2> QED
    BY <2>1, CoherentFacts
<1>1. /\ m[id] \in AnyNode /\ m[x] \in AnyNode /\ x \in NodeIds /\ id # x
      /\ x # INVALID_NODE_ID /\ Sound(m, next, m[id]) /\ Sound(m, next, m[x])
      /\ Ranked(level, id, m[id]) /\ Ranked(level, x, m[x])
  BY <1>0, CoherentFacts, TableNode
<1>2. /\ n.type = "merge" /\ n.low = m[id].low /\ IsLeaf(n) = IsLeaf(m[id])
      /\ Seps(n) = Seps(m[id]) \cup Seps(m[x])
      /\ n.high = m[x].high /\ n.sep = m[id].high[1] /\ n.other = x
  BY <1>1, MergedFacts
<1>3. /\ \A s \in Seps(m[id]) : n.items[s] = m[id].items[s]
      /\ \A s \in Seps(m[x]) \ Seps(m[id]) : n.items[s] = m[x].items[s]
  BY <1>1, MergedFacts
<1>4. \A i \in nodes \ {id} : m2[i] = m[i]
  BY <1>0
<1>5. /\ m[x].low = m[id].high[1] /\ m[id].low < m[x].low /\ m[x].low \in Nat
      /\ level[x] = level[id]
  BY <1>1, NextBeside
<1>6. /\ GetNextNodeID(m[x]) \in nodes \cup {INVALID_NODE_ID}
      /\ GetNextNodeID(m[x]) # INVALID_NODE_ID =>
           m[x].low < m[x].high[1] /\ GetNextNodeID(m[x]) # x
  <2>1. GetNextNodeID(m[x]) \in nodes \cup {INVALID_NODE_ID}
    BY <1>0 DEF Layered
  <2>2. GetNextNodeID(m[x]) # INVALID_NODE_ID =>
          /\ m[GetNextNodeID(m[x])].low = m[x].high[1]
          /\ m[x].low < m[GetNextNodeID(m[x])].low
    BY <1>1, NextBeside
  <2> QED
    BY <1>5, <2>1, <2>2
<1>7. Layered(m2, next, root, level, nodes2)
  <2>1. Ranked(level, id, n)
    <3>1. ~IsLeaf(n) => \A k \in Seps(n) : level[n.items[k]] + 1 = level[id]
      BY <1>1, <1>2, <1>3, <1>5 DEF Ranked
    <3>2. GetNextNodeID(n) # INVALID_NODE_ID => level[GetNextNodeID(n)] = level[id]
      BY <1>1, <1>2, <1>5 DEF Ranked, GetNextNodeID
    <3>3. InRange(n, n.sep)
      BY <1>2, <1>5, <1>6 DEF InRange, GetNextNodeID
    <3> QED
      BY <1>2, <1>5, <3>1, <3>2, <3>3 DEF Ranked
  <2>2. \A i \in InUse(next) : Ranked(level, i, m2[i]) /\ level[i] <= level[root]
    BY <1>0, <2>1 DEF Layered
  <2>3. root \in nodes2
    BY <1>0 DEF Layered, Removals
  <2>4. ASSUME NEW i \in nodes2
        PROVE  GetNextNodeID(m2[i]) \in nodes2 \cup {INVALID_NODE_ID}
    <3>1. CASE i = id
      BY <1>2, <1>6, <3>1 DEF GetNextNodeID
    <3>2. CASE i # id
      <4>1. GetNextNodeID(m[i]) # x
        BY <1>0, <1>1, <3>2, OneLinks
      <4> QED
        BY <1>0, <1>4, <3>2, <4>1 DEF Layered
    <3> QED
      BY <3>1, <3>2
  <2>5. ASSUME NEW i \in nodes2, NEW j \in nodes2 \ {i}, level[i] = level[j], m2[i].low <= m2[j].low
        PROVE  ~InRange(m2[i], m2[j].low)
    <3>1. m2[i].low = m[i].low /\ m2[j].low = m[j].low /\ m[j].low \in Nat /\ j # x
      BY <1>0, <2>5, TableNode DEF Tame
    <3>2. ~InRange(m[i], m[j].low)
      BY <1>0, <2>5, <3>1 DEF Layered
    <3>3. CASE i = id
      <4>1. m[x].low <= m[j].low
        BY <1>1, <1>5, <3>1, <3>2, <3>3 DEF InRange
      <4>2. ~InRange(m[x], m[j].low)
        BY <1>0, <1>5, <2>5, <3>1, <3>3, <4>1 DEF Layered
      <4> QED
        BY <1>2, <3>1, <3>3, <4>2 DEF InRange, GetNextNodeID
    <3>4. CASE i # id
      BY <1>4, <3>1, <3>2, <3>4
    <3> QED
      BY <3>3, <3>4
  <2> QED
    BY <1>0, <2>2, <2>3, <2>4, <2>5 DEF Layered
<1>8. Removals(m2, next, root, level, nodes2)
  <2>1. /\ \A i \in InUse(next) \ nodes2 : m2[i].type = "remove"
        /\ \A i \in nodes2 : level[i] = level[root] => m2[i].type # "remove"
        /\ \A i \in InUse(next) : m2[i].type = "merge" => m2[i].other \notin nodes2
    BY <1>0, <1>1, <1>2 DEF Removals
  <2>2. ASSUME NEW p \in nodes2, ~IsLeaf(m2[p])
        PROVE  /\ \A k \in Seps(m2[p]) :
                    m2[p].items[k] \in nodes2 \/ Merging(m2, nodes2, k, m2[p].items[k])
               /\ m2[m2[p].items[m2[p].low]].type # "remove"
    <3>1. ~IsLeaf(m[p])
      BY <1>2, <1>4, <2>2
    <3>2. ASSUME NEW k \in Seps(m2[p]), m2[p].items[k] \notin nodes2
          PROVE  Merging(m2, nodes2, k, m2[p].items[k])
      <4> DEFINE y == m2[p].items[k]
      <4>0. Posted(m2, nodes2, k, y)
        BY <2>2, <3>2 DEF Posted, Item
      <4>1. PICK q \in nodes : ~IsLeaf(m[q]) /\ Item(m[q], k, y)
        BY <1>0, <4>0 DEF Posted
      <4>2. m[y].low = k
        BY <4>1, CoherentFacts DEF Item
      <4>3. CASE y = x
        BY <1>1, <1>2, <1>5, <4>2, <4>3 DEF Merging
      <4>4. CASE y # x
        <5>1. Merging(m, nodes, k, y)
          BY <1>0, <3>2, <4>1, <4>4 DEF Removals, Item
        <5>2. PICK l \in nodes : m[l].type = "merge" /\ m[l].sep = k /\ m[l].other = y
          BY <5>1 DEF Merging
        <5>3. l # id /\ l # x
          BY <4>1, <5>2 DEF Posted
        <5> QED
          BY <1>4, <5>2, <5>3 DEF Merging
      <4> QED
        BY <4>3, <4>4
    <3>3. m2[p].low = m[p].low /\ m2[p].items[m2[p].low] = m[p].items[m[p].low]
      BY <1>2, <1>3, <1>4, <2>2, <3>1, CoherentFacts
    <3>4. m[m[p].items[m[p].low]].type # "remove" /\ m[p].items[m[p].low] \in InUse(next)
      BY <1>0, <2>2, <3>1, CoherentFacts DEF Removals
    <3>5. m2[m[p].items[m[p].low]].type # "remove"
      BY <1>2, <3>4
    <3> QED
      BY <3>2, <3>3, <3>5
  <2>3. ASSUME NEW y \in nodes2, m2[y].type = "remove"
        PROVE  Posted(m2, nodes2, m2[y].low, y) \/ ~SplitOff(m2, nodes2, y)
    <3>1. y # id /\ m2[y] = m[y] /\ y \in InUse(next)
      BY <1>0, <1>2, <1>4, <2>3
    <3>2. Posted(m, nodes, m[y].low, y) \/ ~SplitOff(m, nodes, y)
      BY <1>0, <2>3, <3>1 DEF Removals
    <3> QED
      BY <1>0, <3>1, <3>2 DEF Tame
  <2> QED
    BY <2>1, <2>2, <2>3 DEF Removals
<1> QED
  BY <1>0, <1>7, <1>8 DEF Coherent, Layered

\* The split: next is the new right half of id.
LEMMA HalvesFacts ==
  ASSUME NEW n, SoundItems(n), n \in AnyNode, MaySplit(n), NEW next \in NodeIds,
         NEW a, a = SplitNode(n, next), NEW b, b = SplitSibling(n)
  PROVE  LET K == SplitKey(n) IN
         /\ K \in Seps(n) /\ K \in Nat /\ n.low < K /\ n.low \in Nat /\ InRange(n, K)
         /\ a.type = "split" /\ a.low = n.low /\ IsLeaf(a) = IsLeaf(n)
         /\ a.high[1] = K /\ GetNextNodeID(a) = next /\ a.other = next
         /\ Seps(a) = {k \in Seps(n) : k < K} /\ \A k \in Seps(a) : a.items[k] = n.items[k]
         /\ b.type = "base" /\ b.low = K /\ IsLeaf(b) = IsLeaf(n)
         /\ b.high = n.high /\ GetNextNodeID(b) = GetNextNodeID(n)
         /\ Seps(b) = {k \in Seps(n) : k >= K} /\ \A k \in Seps(b) : b.items[k] = n.items[k]
         /\ \A k \in Seps(n) : k \in Seps(a) \/ k \in Seps(b)
<1> DEFINE K == SplitKey(n)
           a2 == SplitNode(n, next)
           b2 == SplitSibling(n)
           S == {k \in Seps(n) : k < K}
           R == {k \in Seps(n) : k >= K}
<1>1. /\ K \in Seps(n) /\ K \in Nat /\ n.low < K /\ InRange(n, K)
      /\ n.low \in Nat /\ Seps(n) \in SUBSET Nat
  BY SplitKeyProperties, NodeFacts
<1>2. next \in 0 .. MaxId
  BY MaxIdType DEF NodeIds
<1>3. /\ a2.type = "split" /\ Kin(n, a2) /\ a2.high = <<K, next>> /\ a2.other = next
      /\ a2.items = Part(n, S) /\ Seps(a2) = S
  BY <1>2, SplitNodeFields
<1>4. /\ b2.type = "base" /\ b2.kind = n.kind /\ b2.low = K /\ b2.high = n.high
      /\ b2.items = Part(n, R) /\ Seps(b2) = R
  BY SplitSiblingFields
<1> HIDE DEF a2, b2, K
<1>5. /\ \A k \in S : a2.items[k] = n.items[k]
      /\ \A k \in R : b2.items[k] = n.items[k]
  BY <1>3, <1>4 DEF Part
<1>6. a = a2 /\ b = b2
  BY DEF a2, b2
<1>7. \A k \in Seps(n) : k \in S \/ k \in R
  BY <1>1
<1> HIDE DEF S, R
<1>8. /\ a.type = "split" /\ a.low = n.low /\ IsLeaf(a) = IsLeaf(n)
      /\ a.high[1] = K /\ GetNextNodeID(a) = next /\ a.other = next
      /\ Seps(a) = S /\ \A k \in Seps(a) : a.items[k] = n.items[k]
  BY <1>3, <1>5, <1>6 DEF Kin, IsLeaf, GetNextNodeID
<1>9. /\ b.type = "base" /\ b.low = K /\ IsLeaf(b) = IsLeaf(n)
      /\ b.high = n.high /\ GetNextNodeID(b) = GetNextNodeID(n)
      /\ Seps(b) = R /\ \A k \in Seps(b) : b.items[k] = n.items[k]
  BY <1>4, <1>5, <1>6 DEF IsLeaf, GetNextNodeID
<1> QED
  BY <1>1, <1>7, <1>8, <1>9 DEF S, R, K

\* One more node, on level l.
Levels(level, next, l, level2) ==
  /\ level2 \in [NodeIds -> Nat] /\ level2[next] = l
  /\ \A i \in InUse(next) : level2[i] = level[i]

LEMMA LevelsMore ==
  ASSUME NEW next \in NodeIds, NEW level \in [NodeIds -> Nat], NEW l \in Nat
  PROVE  /\ Levels(level, next, l, [level EXCEPT ![next] = l])
         /\ InUse(next + 1) = InUse(next) \cup {next} /\ next \notin InUse(next)
         /\ next # INVALID_NODE_ID
BY MaxIdType DEF NodeIds, InUse, Levels

LEMMA RankedMore ==
  ASSUME NEW m, NEW next, NEW n, Sound(m, next, n),
         NEW id \in InUse(next), NEW level, Ranked(level, id, n),
         NEW level2, \A i \in InUse(next) : level2[i] = level[i]
  PROVE  Ranked(level2, id, n)
<1>2. ~IsLeaf(n) => \A k \in Seps(n) : n.items[k] \in InUse(next)
  BY DEF Sound, SoundChildren, StartsAt
<1>3. GetNextNodeID(n) # INVALID_NODE_ID => GetNextNodeID(n) \in InUse(next)
  BY DEF Sound, SoundSibling, StartsAt
<1>4. n.type = "merge" => n.other \in InUse(next)
  BY DEF Sound, SoundDelta
<1> QED
  BY <1>2, <1>3, <1>4 DEF Ranked

LEMMA SplitItems ==
  ASSUME NEW m, NEW next, NEW root, TreeOK(m, next, root), next \in NodeIds,
         NEW level, NEW nodes, Coherent(m, next, root, level, nodes),
         NEW id \in nodes, m[id].type = "base", MaySplit(m[id]),
         NEW m2, \A i \in InUse(next) \ {id} : m2[i] = m[i],
         m2[id] = SplitNode(m[id], next), m2[next] = SplitSibling(m[id]),
         NEW level2, Levels(level, next, level[id], level2),
         NEW nodes2, nodes2 = nodes \cup {next}
  PROVE  /\ Tame(m, next, level, nodes, m2, level2, nodes2)
         /\ \A x, k : Posted(m, nodes, k, x) => Posted(m2, nodes2, k, x)
         /\ \A x, k : Posted(m2, nodes2, k, x) => Posted(m, nodes, k, x)
<1>0. /\ \A i \in nodes : i \in InUse(next) /\ i # next
      /\ Layered(m, next, root, level, nodes) /\ level[id] \in Nat /\ Ranked(level, id, m[id])
      /\ Sound(m, next, m[id]) /\ m[id] \in AnyNode
      /\ \A i \in InUse(next) : level2[i] = level[i] /\ i # next
  <2>1. /\ \A i \in nodes : i \in InUse(next)
        /\ Layered(m, next, root, level, nodes) /\ level[id] \in Nat
        /\ Ranked(level, id, m[id]) /\ Sound(m, next, m[id]) /\ m[id] \in AnyNode
    BY CoherentFacts, TableNode
  <2>2. \A i \in InUse(next) : level2[i] = level[i] /\ i # next
    BY <2>1, LevelsMore DEF Layered, Levels
  <2> QED
    BY <2>1, <2>2
<1>1. /\ m2[id].type = "split" /\ m2[id].low = m[id].low /\ IsLeaf(m2[id]) = IsLeaf(m[id])
      /\ m2[id].other = next /\ m2[next].type = "base" /\ IsLeaf(m2[next]) = IsLeaf(m[id])
      /\ Seps(m2[id]) \subseteq Seps(m[id]) /\ Seps(m2[next]) \subseteq Seps(m[id])
      /\ \A k \in Seps(m2[id]) : m2[id].items[k] = m[id].items[k]
      /\ \A k \in Seps(m2[next]) : m2[next].items[k] = m[id].items[k]
      /\ \A k \in Seps(m[id]) : k \in Seps(m2[id]) \/ k \in Seps(m2[next])
  BY <1>0, HalvesFacts DEF Sound
<1>2. \A i \in nodes \ {id} : m2[i] = m[i]
  BY <1>0
<1>3. ASSUME NEW x, NEW k, Posted(m, nodes, k, x)
      PROVE  Posted(m2, nodes2, k, x)
  <2>1. PICK p \in nodes : ~IsLeaf(m[p]) /\ Item(m[p], k, x)
    BY <1>3 DEF Posted
  <2>2. CASE p = id
    <3>1. PICK q \in {id, next} : Item(m2[q], k, x)
      BY <1>1, <2>1, <2>2 DEF Item
    <3> QED
      BY <1>1, <2>1, <2>2, <3>1 DEF Posted
  <2>3. CASE p # id
    BY <1>2, <2>1, <2>3 DEF Posted
  <2> QED
    BY <2>2, <2>3
<1>4. ASSUME NEW x, NEW k, Posted(m2, nodes2, k, x)
      PROVE  Posted(m, nodes, k, x)
  <2>1. PICK p \in nodes2 : ~IsLeaf(m2[p]) /\ Item(m2[p], k, x)
    BY <1>4 DEF Posted
  <2>2. CASE p \in {id, next}
    <3>1. Item(m[id], k, x) /\ ~IsLeaf(m[id])
      BY <1>1, <2>1, <2>2 DEF Item
    <3> QED
      BY <3>1 DEF Posted
  <2>3. CASE p \notin {id, next}
    BY <1>2, <2>1, <2>3 DEF Posted
  <2> QED
    BY <2>2, <2>3
<1>5. ASSUME NEW x \in InUse(next), SplitOff(m2, nodes2, x)
      PROVE  SplitOff(m, nodes, x)
  <2>1. PICK l \in nodes2 : m2[l].type = "split" /\ m2[l].other = x
    BY <1>5 DEF SplitOff
  <2>2. l # id /\ l # next
    BY <1>0, <1>1, <1>5, <2>1
  <2> QED
    BY <1>2, <2>1, <2>2 DEF SplitOff
<1>6. \A i \in InUse(next) : m2[i].low = m[i].low /\ (m[i].type = "remove" => m2[i] = m[i])
  BY <1>1
<1>7. \A i \in InUse(next) : i \in nodes2 => i \in nodes
  BY <1>0
<1> QED
  BY <1>0, <1>3, <1>4, <1>5, <1>6, <1>7 DEF Tame

LEMMA SplitCoherent ==
  ASSUME NEW m, NEW next, NEW root, TreeOK(m, next, root), next \in NodeIds,
         NEW level, NEW nodes, Coherent(m, next, root, level, nodes),
         NEW id \in nodes, m[id].type = "base", MaySplit(m[id]),
         ~IsLeaf(m[id]) => m[m[id].items[SplitKey(m[id])]].type # "remove",
         NEW m2, \A i \in InUse(next) \ {id} : m2[i] = m[i],
         m2[id] = SplitNode(m[id], next), m2[next] = SplitSibling(m[id]),
         NEW level2, Levels(level, next, level[id], level2),
         NEW nodes2, nodes2 = nodes \cup {next}
  PROVE  Coherent(m2, next + 1, root, level2, nodes2)
<1> DEFINE n == m[id]
           a == m2[id]
           b == m2[next]
           K == SplitKey(n)
<1>0. /\ \A i \in nodes : i \in InUse(next)
      /\ Layered(m, next, root, level, nodes) /\ Removals(m, next, root, level, nodes)
      /\ \A i \in InUse(next) : /\ Sound(m, next, m[i]) /\ Ranked(level, i, m[i])
                                /\ m[i].low \in Nat /\ i # INVALID_NODE_ID
      /\ n \in AnyNode /\ level \in [NodeIds -> Nat] /\ level[id] \in Nat
  BY CoherentFacts, TableNode DEF Layered
<1>1. /\ Tame(m, next, level, nodes, m2, level2, nodes2)
      /\ \A x, k : Posted(m, nodes, k, x) => Posted(m2, nodes2, k, x)
      /\ \A x, k : Posted(m2, nodes2, k, x) => Posted(m, nodes, k, x)
  BY SplitItems
<1>2. /\ K \in Seps(n) /\ K \in Nat /\ n.low < K /\ n.low \in Nat /\ InRange(n, K)
      /\ a.type = "split" /\ a.low = n.low /\ IsLeaf(a) = IsLeaf(n)
      /\ a.high[1] = K /\ GetNextNodeID(a) = next /\ a.other = next
      /\ Seps(a) = {k \in Seps(n) : k < K} /\ \A k \in Seps(a) : a.items[k] = n.items[k]
      /\ b.type = "base" /\ b.low = K /\ IsLeaf(b) = IsLeaf(n)
      /\ b.high = n.high /\ GetNextNodeID(b) = GetNextNodeID(n)
      /\ Seps(b) = {k \in Seps(n) : k >= K} /\ \A k \in Seps(b) : b.items[k] = n.items[k]
  BY <1>0, HalvesFacts DEF Sound
<1>3. /\ level2 \in [NodeIds -> Nat] /\ level2[next] = level[id]
      /\ \A i \in InUse(next) : level2[i] = level[i] /\ Ranked(level2, i, m[i])
      /\ InUse(next + 1) = InUse(next) \cup {next} /\ next \notin InUse(next)
      /\ next # INVALID_NODE_ID
  BY <1>0, LevelsMore, RankedMore DEF Levels
<1> HIDE DEF K
<1>4. \A i \in nodes \ {id} : m2[i] = m[i]
  BY <1>0
<1>5. \A i \in nodes : level2[i] = level[i] /\ i # next /\ m2[i].low = m[i].low
  BY <1>0, <1>1, <1>3 DEF Tame
<1>6. Layered(m2, next + 1, root, level2, nodes2)
  <2>1. Ranked(level2, id, a) /\ Ranked(level2, next, b)
    <3>1. Ranked(level2, id, n) /\ level2[id] = level2[next]
      BY <1>0, <1>3
    <3>2. /\ ~IsLeaf(a) => \A k \in Seps(a) : level2[a.items[k]] + 1 = level2[id]
          /\ ~IsLeaf(b) => \A k \in Seps(b) : level2[b.items[k]] + 1 = level2[next]
      BY <1>2, <3>1 DEF Ranked
    <3> QED
      BY <1>2, <3>1, <3>2 DEF Ranked
  <2>2. \A i \in InUse(next + 1) : Ranked(level2, i, m2[i]) /\ level2[i] <= level2[root]
    BY <1>0, <1>3, <2>1 DEF Layered
  <2>3. \A i \in nodes2 : GetNextNodeID(m2[i]) \in nodes2 \cup {INVALID_NODE_ID}
    BY <1>0, <1>2, <1>4 DEF Layered
  <2>4. ASSUME NEW i \in nodes2, NEW j \in nodes2 \ {i}, level2[i] = level2[j], m2[i].low <= m2[j].low
        PROVE  ~InRange(m2[i], m2[j].low)
    <3>1. CASE i = id /\ j = next
      BY <1>2, <1>3, <3>1 DEF InRange
    <3>2. CASE i = next /\ j = id
      BY <1>2, <2>4, <3>2
    <3>3. CASE i = id /\ j # next
      <4>1. ~InRange(n, m[j].low) /\ m[j].low \in Nat
        BY <1>0, <1>5, <2>4, <3>3 DEF Layered
      <4>2. K <= m[j].low
        BY <1>0, <1>2, <4>1, NodeFacts DEF InRange
      <4> QED
        BY <1>2, <1>3, <1>5, <3>3, <4>1, <4>2 DEF InRange
    <3>4. CASE i = next /\ j # id
      <4>1. j \in nodes /\ level[id] = level[j] /\ m2[j].low = m[j].low /\ m[j].low \in Nat
        BY <1>0, <1>3, <1>5, <2>4, <3>4
      <4>2. ~InRange(n, m[j].low)
        BY <1>0, <1>2, <2>4, <3>4, <4>1 DEF Layered
      <4> QED
        BY <1>2, <3>4, <4>1, <4>2 DEF InRange
    <3>5. CASE i \notin {id, next} /\ j = next
      <4>1. i \in nodes /\ level[i] = level[id] /\ m2[i] = m[i] /\ m[i].low \in Nat
            /\ m[i].high[1] \in Nat
        BY <1>0, <1>3, <1>4, <2>4, <3>5, TableNode
      <4>2. m[i].low <= n.low => ~InRange(m[i], n.low)
        BY <1>0, <3>5, <4>1 DEF Layered
      <4>3. n.low <= m[i].low => ~InRange(n, m[i].low)
        BY <1>0, <3>5, <4>1 DEF Layered
      <4>4. m[i].low <= K
        BY <1>2, <2>4, <3>5, <4>1
      <4>5. m[i].low <= n.low
        BY <1>2, <4>1, <4>3, <4>4, NodeFacts, <1>0 DEF InRange
      <4> QED
        BY <1>2, <3>5, <4>1, <4>2, <4>5 DEF InRange
    <3>6. CASE i \notin {id, next} /\ j # next
      BY <1>0, <1>4, <1>5, <2>4, <3>6 DEF Layered
    <3> QED
      BY <3>1, <3>2, <3>3, <3>4, <3>5, <3>6
  <2>5. nodes2 \subseteq InUse(next + 1) /\ root \in nodes2
    BY <1>0, <1>3 DEF Layered
  <2> QED
    BY <1>3, <2>2, <2>3, <2>4, <2>5 DEF Layered
<1>7. Removals(m2, next + 1, root, level2, nodes2)
  <2>1. \A i \in InUse(next + 1) \ nodes2 : m2[i].type = "remove"
    BY <1>0, <1>3 DEF Removals
  <2>2. \A i \in nodes2 : level2[i] = level2[root] => m2[i].type # "remove"
    BY <1>0, <1>2, <1>3, <1>4 DEF Removals, Layered
  <2>3. ASSUME NEW i \in InUse(next + 1), m2[i].type = "merge"
        PROVE  m2[i].other \notin nodes2
    <3>1. i \in InUse(next) /\ m2[i] = m[i]
      BY <1>2, <1>3, <2>3
    <3>2. m[i].other \notin nodes /\ m[i].other \in InUse(next)
      BY <1>0, <2>3, <3>1 DEF Removals, Sound, SoundDelta
    <3> QED
      BY <1>3, <3>1, <3>2
  <2>4. ASSUME NEW p \in nodes2, ~IsLeaf(m2[p])
        PROVE  /\ \A k \in Seps(m2[p]) :
                    m2[p].items[k] \in nodes2 \/ Merging(m2, nodes2, k, m2[p].items[k])
               /\ m2[m2[p].items[m2[p].low]].type # "remove"
    <3>1. ASSUME NEW k \in Seps(m2[p]), m2[p].items[k] \notin nodes2
          PROVE  Merging(m2, nodes2, k, m2[p].items[k])
      <4> DEFINE y == m2[p].items[k]
      <4>1. Posted(m2, nodes2, k, y)
        BY <2>4, <3>1 DEF Posted, Item
      <4>2. PICK q \in nodes : ~IsLeaf(m[q]) /\ Item(m[q], k, y)
        BY <1>1, <4>1 DEF Posted
      <4>3. Merging(m, nodes, k, y)
        BY <1>0, <3>1, <4>2 DEF Removals, Item
      <4>4. PICK l \in nodes : m[l].type = "merge" /\ m[l].sep = k /\ m[l].other = y
        BY <4>3 DEF Merging
      <4> QED
        BY <1>4, <4>4 DEF Merging
    <3>2. PICK q \in nodes : /\ ~IsLeaf(m[q]) /\ m2[p].low \in Seps(m[q])
                             /\ m2[p].items[m2[p].low] = m[q].items[m2[p].low]
                             /\ m[m[q].items[m2[p].low]].type # "remove"
                             /\ m[q].items[m2[p].low] \in InUse(next)
      <4>1. CASE p = id
        <5>1. ~IsLeaf(n) /\ n.low \in Seps(n) /\ n.items[n.low] \in InUse(next)
              /\ m[n.items[n.low]].type # "remove"
          BY <1>0, <1>2, <2>4, <4>1, CoherentFacts DEF Removals
        <5>2. n.low \in Seps(a) /\ a.items[a.low] = n.items[n.low]
          BY <1>2, <5>1
        <5> QED
          BY <1>2, <4>1, <5>1, <5>2
      <4>2. CASE p = next
        <5>1. ~IsLeaf(n) /\ n.items[K] \in InUse(next) /\ m[n.items[K]].type # "remove"
          BY <1>2, <2>4, <4>2, CoherentFacts DEF K
        <5>2. K \in Seps(b) /\ b.items[b.low] = n.items[K]
          BY <1>2
        <5> QED
          BY <1>2, <4>2, <5>1, <5>2
      <4>3. CASE p \notin {id, next}
        <5>1. p \in nodes /\ m2[p] = m[p]
          BY <1>4, <4>3
        <5> QED
          BY <1>0, <2>4, <5>1, CoherentFacts DEF Removals
      <4> QED
        BY <4>1, <4>2, <4>3
    <3>3. m2[m2[p].items[m2[p].low]].type # "remove"
      BY <1>2, <3>2
    <3> QED
      BY <3>1, <3>3
  <2>5. ASSUME NEW x \in nodes2, m2[x].type = "remove"
        PROVE  Posted(m2, nodes2, m2[x].low, x) \/ ~SplitOff(m2, nodes2, x)
    <3>1. x \in nodes /\ m2[x] = m[x]
      BY <1>2, <1>4, <2>5
    <3>2. Posted(m, nodes, m[x].low, x) \/ ~SplitOff(m, nodes, x)
      BY <1>0, <2>5, <3>1 DEF Removals
    <3> QED
      BY <1>0, <1>1, <3>1, <3>2 DEF Tame
  <2> QED
    BY <2>1, <2>2, <2>3, <2>4, <2>5 DEF Removals
<1> QED
  BY <1>6, <1>7 DEF Coherent

\* A new root over the old one and its right half.
LEMMA RootCoherent ==
  ASSUME NEW m, NEW next, NEW root, TreeOK(m, next, root), next \in NodeIds,
         NEW level, NEW nodes, Coherent(m, next, root, level, nodes),
         NEW other \in nodes, level[other] = level[root], NEW sep \in Nat, LowKey < sep,
         NEW m2, \A i \in InUse(next) : m2[i] = m[i], Sound(m2, next + 1, m2[next]),
         m2[next] = Base("inner", LowKey, <<0, INVALID_NODE_ID>>,
                         [s \in {LowKey, sep} |-> IF s = LowKey THEN root ELSE other]),
         NEW level2, Levels(level, next, level[root] + 1, level2),
         NEW nodes2, nodes2 = nodes \cup {next}
  PROVE  /\ Coherent(m2, next + 1, next, level2, nodes2)
         /\ Tame(m, next, level, nodes, m2, level2, nodes2)
<1> DEFINE n == m2[next]
<1>0. /\ \A i \in nodes : i \in InUse(next)
      /\ Layered(m, next, root, level, nodes) /\ Removals(m, next, root, level, nodes)
      /\ \A i \in InUse(next) : /\ Sound(m, next, m[i]) /\ Ranked(level, i, m[i])
                                /\ m[i].low \in Nat /\ level[i] \in Nat
      /\ level \in [NodeIds -> Nat] /\ root \in nodes
  BY CoherentFacts, TableNode DEF Layered
<1>1. /\ n.type = "base" /\ n.low = LowKey /\ ~IsLeaf(n) /\ GetNextNodeID(n) = INVALID_NODE_ID
      /\ Seps(n) = {LowKey, sep} /\ n.items[LowKey] = root /\ n.items[sep] = other
  BY MaxIdType DEF Base, IsLeaf, GetNextNodeID, Seps
<1>2. /\ InUse(next + 1) = InUse(next) \cup {next} /\ next \notin InUse(next)
      /\ next # INVALID_NODE_ID
      /\ \A i \in InUse(next) : level2[i] = level[i] /\ Ranked(level2, i, m2[i])
      /\ level2 \in [NodeIds -> Nat] /\ level2[next] = level[root] + 1
  BY <1>0, LevelsMore, RankedMore DEF Levels
<1> HIDE DEF n
<1>3. Layered(m2, next + 1, next, level2, nodes2)
  <2>1. Ranked(level2, next, n)
    BY <1>0, <1>1, <1>2 DEF Ranked
  <2>2. \A i \in InUse(next + 1) : Ranked(level2, i, m2[i]) /\ level2[i] <= level2[next]
    BY <1>0, <1>2, <2>1 DEF Layered, n
  <2>3. \A i \in nodes2 : GetNextNodeID(m2[i]) \in nodes2 \cup {INVALID_NODE_ID}
    BY <1>0, <1>1 DEF Layered, n
  <2>4. ASSUME NEW i \in nodes2, NEW j \in nodes2 \ {i}, level2[i] = level2[j], m2[i].low <= m2[j].low
        PROVE  ~InRange(m2[i], m2[j].low)
    <3>1. \A l \in nodes : level[l] <= level[root] /\ level2[l] = level[l] /\ level[l] \in Nat
      BY <1>0, <1>2 DEF Layered
    <3>2. i \in nodes /\ j \in nodes
      BY <1>0, <1>2, <2>4, <3>1
    <3> QED
      BY <1>0, <2>4, <3>1, <3>2 DEF Layered
  <2> QED
    BY <1>0, <1>2, <2>2, <2>3, <2>4 DEF Layered
<1>4. ASSUME NEW k, NEW x, Posted(m2, nodes2, k, x)
      PROVE  Posted(m, nodes, k, x) \/ x \in nodes
  <2>1. PICK p \in nodes2 : ~IsLeaf(m2[p]) /\ Item(m2[p], k, x)
    BY <1>4 DEF Posted
  <2>2. CASE p = next
    BY <1>0, <1>1, <2>1, <2>2 DEF Item, n
  <2>3. CASE p # next
    BY <1>0, <2>1, <2>3 DEF Posted
  <2> QED
    BY <2>2, <2>3
<1>5. Removals(m2, next + 1, next, level2, nodes2)
  <2>1. /\ \A i \in InUse(next + 1) \ nodes2 : m2[i].type = "remove"
        /\ \A i \in nodes2 : level2[i] = level2[next] => m2[i].type # "remove"
    <3>1. \A i \in nodes : level2[i] # level2[next]
      BY <1>0, <1>2 DEF Layered
    <3> QED
      BY <1>0, <1>1, <1>2, <3>1 DEF Removals, n
  <2>2. ASSUME NEW i \in InUse(next + 1), m2[i].type = "merge"
        PROVE  m2[i].other \notin nodes2
    <3>1. i \in InUse(next) /\ m2[i] = m[i]
      BY <1>1, <1>2, <2>2 DEF n
    <3>2. m[i].other \notin nodes /\ m[i].other \in InUse(next)
      BY <1>0, <2>2, <3>1 DEF Removals, Sound, SoundDelta
    <3> QED
      BY <1>2, <3>2, <3>1
  <2>3. ASSUME NEW p \in nodes2, ~IsLeaf(m2[p])
        PROVE  /\ \A k \in Seps(m2[p]) :
                    m2[p].items[k] \in nodes2 \/ Merging(m2, nodes2, k, m2[p].items[k])
               /\ m2[m2[p].items[m2[p].low]].type # "remove"
    <3>1. CASE p = next
      <4>1. m[root].type # "remove"
        BY <1>0 DEF Removals
      <4> QED
        BY <1>0, <1>1, <3>1, <4>1 DEF n
    <3>2. CASE p # next
      <4>1. p \in nodes /\ m2[p] = m[p] /\ ~IsLeaf(m[p])
        BY <1>0, <2>3, <3>2
      <4>2. \A k \in Seps(m[p]) : Merging(m, nodes, k, m[p].items[k])
                                  => Merging(m2, nodes2, k, m[p].items[k])
        BY <1>0 DEF Merging
      <4>3. m[p].items[m[p].low] \in InUse(next)
        BY <4>1, CoherentFacts
      <4> QED
        BY <1>0, <4>1, <4>2, <4>3 DEF Removals
    <3> QED
      BY <3>1, <3>2
  <2>4. ASSUME NEW x \in nodes2, m2[x].type = "remove"
        PROVE  Posted(m2, nodes2, m2[x].low, x) \/ ~SplitOff(m2, nodes2, x)
    <3>1. x \in nodes /\ m2[x] = m[x]
      BY <1>0, <1>1, <2>4 DEF n
    <3>2. Posted(m, nodes, m[x].low, x) \/ ~SplitOff(m, nodes, x)
      BY <1>0, <2>4, <3>1 DEF Removals
    <3>3. Posted(m, nodes, m[x].low, x) => Posted(m2, nodes2, m2[x].low, x)
      BY <1>0, <3>1 DEF Posted
    <3>4. SplitOff(m2, nodes2, x) => SplitOff(m, nodes, x)
      BY <1>0, <1>1 DEF SplitOff, n
    <3> QED
      BY <3>2, <3>3, <3>4
  <2> QED
    BY <2>1, <2>2, <2>3, <2>4 DEF Removals
<1>6. \A x : SplitOff(m2, nodes2, x) => SplitOff(m, nodes, x)
  BY <1>0, <1>1 DEF SplitOff, n
<1> QED
  BY <1>0, <1>2, <1>3, <1>4, <1>5, <1>6 DEF Coherent, Tame

-----------------------------------------------------------------------------
(* What such a change leaves of a thread's claims.                         *)

\* d is c after the nodes of ids have changed.
Stale(c, d, ids) ==
  /\ SameView(c, d)
  /\ d.cur.fresh = (c.cur.fresh /\ c.cur.id \notin ids)
  /\ d.par.fresh = (c.par.fresh /\ c.par.id \notin ids)

LEMMA SettledKept ==
  ASSUME NEW m, NEW next, NEW root, TreeOK(m, next, root),
         NEW level, NEW nodes, Coherent(m, next, root, level, nodes),
         NEW m2, NEW level2, NEW nodes2, Tame(m, next, level, nodes, m2, level2, nodes2),
         NEW ids, \A i \in InUse(next) \ ids : m2[i] = m[i],
         NEW s, Taken(m, next, s.id, s.node), Settled(m, nodes, s),
         NEW s2, s2.id = s.id, s2.node = s.node, s2.fresh => s.fresh /\ s.id \notin ids
  PROVE  Settled(m2, nodes2, s2)
<1> SUFFICES ASSUME s2.fresh PROVE /\ s2.node = m2[s2.id]
                                   /\ s2.node.type = "merge" => ~Posted(m2, nodes2, s2.node.sep, s2.node.other)
  BY DEF Settled
<1>1. s.fresh /\ s.id \in InUse(next) /\ s.node = m[s.id] /\ m2[s.id] = m[s.id]
  BY DEF Taken, Settled
<1>2. ASSUME s.node.type = "merge"
      PROVE  ~Posted(m2, nodes2, s.node.sep, s.node.other)
  <2>1. s.node.other \in InUse(next) \ nodes
    BY <1>1, <1>2, CoherentFacts DEF Removals, Taken, Sound, SoundDelta
  <2>2. ~Posted(m, nodes, s.node.sep, s.node.other)
    BY <1>1, <1>2 DEF Settled
  <2> QED
    BY <2>1, <2>2 DEF Tame
<1> QED
  BY <1>1, <1>2

LEMMA HandedKept ==
  ASSUME NEW m, NEW next, NEW level, NEW nodes, NEW m2, NEW level2, NEW nodes2,
         Tame(m, next, level, nodes, m2, level2, nodes2),
         NEW c, NEW id \in InUse(next), Handed(m, nodes, c, id),
         NEW d, d.par.node = c.par.node, d.par.fresh => c.par.fresh
  PROVE  Handed(m2, nodes2, d, id)
BY DEF Handed, Tame

LEMMA ParentKept ==
  ASSUME NEW m, NEW next, NEW root, TreeOK(m, next, root),
         NEW level, NEW nodes, Coherent(m, next, root, level, nodes),
         NEW m2, NEW level2, NEW nodes2, Tame(m, next, level, nodes, m2, level2, nodes2),
         NEW ids, \A i \in InUse(next) \ ids : m2[i] = m[i],
         NEW c, Holds(m, next, c), NEW id, ParentAt(m, level, nodes, c, id),
         HasParentNode(c) => id \in InUse(next),
         NEW d, Stale(c, d, ids)
  PROVE  ParentAt(m2, level2, nodes2, d, id)
<1> SUFFICES ASSUME HasParentNode(d) PROVE ParentAt(m2, level2, nodes2, d, id)
  BY DEF ParentAt
<1>1. HasParentNode(c) /\ Taken(m, next, c.par.id, c.par.node) /\ id \in InUse(next)
  BY DEF Stale, SameView, HasParentNode, Holds
<1>2. /\ d.par.id = c.par.id /\ d.par.node = c.par.node /\ d.key = c.key
      /\ d.par.fresh => c.par.fresh /\ c.par.id \notin ids
  BY DEF Stale, SameView
<1>3. /\ Ranked(level, c.par.id, c.par.node) /\ c.par.node.type # "remove"
      /\ InRange(c.par.node, c.key) /\ Settled(m, nodes, c.par)
      /\ level[c.par.id] = level[id] + 1 /\ Handed(m, nodes, c, id) /\ id \in NodeIds
  BY <1>1 DEF ParentAt
<1>4. c.par.id \in InUse(next) /\ \A i \in InUse(next) : level2[i] = level[i]
  BY <1>1 DEF Taken, Tame
<1>5. Ranked(level2, c.par.id, c.par.node)
  BY <1>1, <1>3, <1>4, RankedMore DEF Taken
<1>6. Settled(m2, nodes2, d.par)
  BY <1>1, <1>2, <1>3, SettledKept
<1>7. Handed(m2, nodes2, d, id)
  BY <1>1, <1>2, <1>3, HandedKept
<1> QED
  BY <1>1, <1>2, <1>3, <1>4, <1>5, <1>6, <1>7 DEF ParentAt

LEMMA NodeKept ==
  ASSUME NEW m, NEW next, NEW root, TreeOK(m, next, root),
         NEW level, NEW nodes, Coherent(m, next, root, level, nodes),
         NEW m2, NEW level2, NEW nodes2, Tame(m, next, level, nodes, m2, level2, nodes2),
         NEW ids, \A i \in InUse(next) \ ids : m2[i] = m[i],
         NEW c, Holds(m, next, c), NodeClaim(m, level, nodes, c), PendingClaim(m, c),
         NEW d, Stale(c, d, ids)
  PROVE  NodeClaim(m2, level2, nodes2, d) /\ PendingClaim(m2, d)
<1>1. /\ d.cur.id = c.cur.id /\ d.cur.node = c.cur.node /\ d.pc = c.pc
      /\ d.pending = c.pending
      /\ d.cur.fresh => c.cur.fresh /\ c.cur.id \notin ids
  BY DEF Stale, SameView
<1>2. ASSUME c.cur.id \in NodeIds
      PROVE  /\ Ranked(level2, c.cur.id, c.cur.node)
             /\ c.cur.node.type = "merge" => c.cur.node.other \notin nodes2
             /\ d.cur.fresh /\ c.pc # "abortUndo" => c.cur.node = m2[c.cur.id]
  <2>1. /\ Taken(m, next, c.cur.id, c.cur.node) /\ Ranked(level, c.cur.id, c.cur.node)
        /\ c.cur.node.type = "merge" => c.cur.node.other \notin nodes
        /\ c.cur.fresh /\ c.pc # "abortUndo" => c.cur.node = m[c.cur.id]
    BY <1>2 DEF Holds, NodeClaim
  <2>2. c.cur.id \in InUse(next) /\ \A i \in InUse(next) : level2[i] = level[i]
    BY <2>1 DEF Taken, Tame
  <2>3. Ranked(level2, c.cur.id, c.cur.node)
    BY <2>1, <2>2, RankedMore DEF Taken
  <2>4. c.cur.node.type = "merge" => c.cur.node.other \in InUse(next)
    BY <2>1 DEF Taken, Sound, SoundDelta
  <2>5. c.cur.node.type = "merge" => c.cur.node.other \notin nodes2
    BY <2>1, <2>4 DEF Tame
  <2>6. d.cur.fresh /\ c.pc # "abortUndo" => c.cur.node = m2[c.cur.id]
    BY <1>1, <2>1, <2>2
  <2> QED
    BY <2>3, <2>5, <2>6
<1>3. ASSUME NEW i \in 1 .. Len(c.pending)
      PROVE  m2[c.pending[i][1]] = c.pending[i][2]
  <2>1. /\ c.pending[i][1] \in InUse(next) /\ c.pending[i][2].type = "remove"
        /\ m[c.pending[i][1]] = c.pending[i][2]
    BY DEF PendingClaim, Holds, Taken
  <2> QED
    BY <2>1 DEF Tame
<1> QED
  BY <1>1, <1>2, <1>3 DEF NodeClaim, PendingClaim

\* Where a Context with a parent is or goes to.
LEMMA TargetInUse ==
  ASSUME NEW m, NEW next, NEW level, NEW nodes, NEW c, ContextOK(m, next, c),
         ParentAt(m, level, nodes, c, Target(c)), HasParentNode(c)
  PROVE  Target(c) \in InUse(next)
BY DEF ContextOK, Placed, Holds, Taken, LeadsTo, Target, ParentAt

LEMMA ClaimsKept ==
  ASSUME NEW m, NEW next, NEW root, TreeOK(m, next, root),
         NEW level, NEW nodes, Coherent(m, next, root, level, nodes),
         NEW m2, NEW level2, NEW nodes2, Tame(m, next, level, nodes, m2, level2, nodes2),
         NEW ids, \A i \in InUse(next) \ ids : m2[i] = m[i],
         NEW c, ContextOK(m, next, c), NEW blk, Claims(m, root, level, nodes, blk, c),
         NEW d, Stale(c, d, ids), NEW root2, NEW blk2,
         c.pc \in Locking => c.par.id \in blk2 /\ c.par.id \notin ids,
         c.pc = "postInsert" /\ d.par.fresh => c.cur.node.other \in nodes2,
         c.pc = "newRoot" /\ root2 = c.cur.id => c.cur.node.other \in nodes2
  PROVE  Claims(m2, root2, level2, nodes2, blk2, d)
<1> DEFINE n == c.cur.node
<1>0. /\ Holds(m, next, c) /\ Placed(m, next, c) /\ c \in ContextSet
      /\ ParentAt(m, level, nodes, c, Target(c)) /\ NodeClaim(m, level, nodes, c)
      /\ PendingClaim(m, c) /\ PlaceClaim(m, root, level, nodes, blk, c)
  BY DEF ContextOK, Claims
<1>1. /\ d.pc = c.pc /\ d.op = c.op /\ d.key = c.key /\ d.to = c.to /\ Target(d) = Target(c)
      /\ d.cur.id = c.cur.id /\ d.cur.node = n /\ d.par.id = c.par.id /\ d.par.node = c.par.node
      /\ d.cur.fresh => c.cur.fresh /\ c.cur.id \notin ids
      /\ d.par.fresh => c.par.fresh /\ c.par.id \notin ids
      /\ HasParentNode(d) = HasParentNode(c)
  BY DEF Stale, SameView, Target, HasParentNode
<1>2. ParentAt(m2, level2, nodes2, d, Target(d))
  BY <1>0, <1>1, TargetInUse, ParentKept
<1>3. NodeClaim(m2, level2, nodes2, d) /\ PendingClaim(m2, d)
  BY <1>0, NodeKept
<1>4. c.cur.id \in NodeIds => Taken(m, next, c.cur.id, n)
  BY <1>0 DEF Holds
<1>5. c.pc \in Working => Here(c) /\ Ready(c, c.pc) /\ c.cur.id \in NodeIds
  BY <1>0 DEF Placed, Here
<1>6. c.pc \in Past \cup {"mergeCheck", "postDelete", "removeCheck", "parentConsolidate"}
        => c.pc \in Working
  BY DEF Past, Working
<1>7. ASSUME c.cur.id \in NodeIds, Settled(m, nodes, c.cur)
      PROVE  Settled(m2, nodes2, d.cur)
  BY <1>1, <1>4, <1>7, SettledKept
<1>8. ASSUME c.pc \in Past \cup {"mergeCheck", "postDelete"}
      PROVE  NextClaim(m2, nodes2, d)
  <2>1. NextClaim(m, nodes, c) /\ Taken(m, next, c.cur.id, n)
    BY <1>0, <1>4, <1>5, <1>6, <1>8 DEF PlaceClaim
  <2>2. GetNextNodeID(n) # INVALID_NODE_ID => GetNextNodeID(n) \in InUse(next)
    BY <2>1 DEF Taken, Sound, SoundSibling, StartsAt
  <2>3. \A id \in InUse(next) : Handed(m, nodes, c, id) => Handed(m2, nodes2, d, id)
    BY <1>1, HandedKept
  <2> QED
    BY <1>1, <2>1, <2>2, <2>3 DEF NextClaim
<1>9. ASSUME c.pc \in {"removeCheck", "parentConsolidate"}
      PROVE  m2[c.cur.id] = n
  <2>1. n.type = "remove" /\ m[c.cur.id] = n /\ c.cur.id \in InUse(next)
    BY <1>0, <1>4, <1>5, <1>6, <1>9 DEF PlaceClaim, Ready, Taken
  <2> QED
    BY <2>1 DEF Tame
<1>10. ASSUME c.pc = "take", c.cur.id \in NodeIds
       PROVE  /\ level2[c.to] + 1 = level2[c.cur.id] /\ Item(n, m2[c.to].low, c.to)
              /\ InRange(n, c.key)
              /\ c.op # "get" => n.type # "remove" /\ Settled(m2, nodes2, d.cur)
  <2>1. c.to \in InUse(next) /\ c.cur.id \in InUse(next)
    BY <1>0, <1>4, <1>10 DEF Placed, LeadsTo, Taken
  <2>2. /\ level[c.to] + 1 = level[c.cur.id] /\ Item(n, m[c.to].low, c.to) /\ InRange(n, c.key)
        /\ c.op # "get" => n.type # "remove" /\ Settled(m, nodes, c.cur)
    BY <1>0, <1>10 DEF PlaceClaim
  <2> QED
    BY <1>7, <1>10, <2>1, <2>2 DEF Tame
<1>11. PlaceClaim(m2, root2, level2, nodes2, blk2, d)
  <2>1. /\ c.pc \in Past => Settled(m2, nodes2, d.cur)
        /\ c.pc \in {"mergeCheck", "postDelete"} /\ d.par.fresh /\ n.sep \in Seps(c.par.node) =>
             c.par.node.items[n.sep] = n.other
        /\ c.pc = "removePost" => d.par.fresh
    <3>1. c.pc \in Past => c.cur.id \in NodeIds /\ Settled(m, nodes, c.cur)
      BY <1>0, <1>5, <1>6 DEF PlaceClaim
    <3>2. c.pc = "removePost" => c.par.fresh /\ c.par.id \notin ids
      BY <1>0 DEF PlaceClaim, Locking
    <3> QED
      BY <1>0, <1>1, <1>7, <3>1, <3>2 DEF PlaceClaim, Stale
  <2> QED
    BY <1>1, <1>8, <1>9, <1>10, <2>1 DEF PlaceClaim
<1> QED
  BY <1>2, <1>3, <1>11 DEF Claims

LEMMA PairsKept ==
  ASSUME NEW m, NEW next, NEW level, NEW nodes, NEW m2, NEW level2, NEW nodes2,
         Tame(m, next, level, nodes, m2, level2, nodes2), NEW ids,
         NEW c, NEW d, Locks(c, d), Inserts(m, c, d),
         ContextOK(m, next, d), ParentAt(m, level, nodes, d, Target(d)),
         NEW c2, Stale(c, c2, ids), NEW d2, Stale(d, d2, ids)
  PROVE  Locks(c2, d2) /\ Inserts(m2, c2, d2)
<1>1. /\ c2.pc = c.pc /\ c2.par.id = c.par.id /\ c2.par.node = c.par.node /\ c2.cur.node = c.cur.node
      /\ d2.pc = d.pc /\ d2.par.id = d.par.id /\ d2.cur.id = d.cur.id /\ d2.pending = d.pending
      /\ Target(d2) = Target(d)
  BY DEF Stale, SameView, Target
<1>2. Locks(c2, d2)
  BY <1>1 DEF Locks
<1>3. ASSUME c.pc = "postInsert", c2.par.fresh
      PROVE  /\ \A i \in 1 .. Len(d.pending) : d.pending[i][1] = c.cur.node.other =>
                  \E s \in Seps(c.par.node) : m2[Target(d)].low < s /\ s < c.cur.node.sep
             /\ d.pc = "parentConsolidate" /\ d.cur.id = c.cur.node.other =>
                  d.par.id = c.par.id /\ d2.par.fresh
  <2>1. c.par.fresh /\ c.par.id \notin ids
    BY <1>3 DEF Stale
  <2>2. ASSUME NEW i \in 1 .. Len(d.pending)
        PROVE  m2[Target(d)].low = m[Target(d)].low
    <3>1. HasParentNode(d)
      BY <2>2 DEF ContextOK, Holds, ContextSet
    <3> QED
      BY <3>1, TargetInUse DEF Tame
  <2>3. /\ \A i \in 1 .. Len(d.pending) : d.pending[i][1] = c.cur.node.other =>
             \E s \in Seps(c.par.node) : m[Target(d)].low < s /\ s < c.cur.node.sep
        /\ d.pc = "parentConsolidate" /\ d.cur.id = c.cur.node.other =>
             d.par.id = c.par.id /\ d.par.fresh
    BY <1>3, <2>1 DEF Inserts
  <2>4. d.par.fresh /\ d.par.id = c.par.id => d2.par.fresh
    BY <2>1 DEF Stale
  <2> QED
    BY <2>2, <2>3, <2>4
<1> QED
  BY <1>1, <1>2, <1>3 DEF Inserts

LEMMA GoneKept ==
  ASSUME NEW m, NEW next, NEW level, NEW nodes, NEW m2, NEW next2, NEW level2, NEW nodes2,
         Tame(m, next, level, nodes, m2, level2, nodes2),
         NEW ids, Gone(m, next, nodes, ids), InUse(next) \subseteq InUse(next2)
  PROVE  Gone(m2, next2, nodes2, ids)
BY DEF Gone, Tame

-----------------------------------------------------------------------------
(* What a step of one thread has to show.                                  *)

\* A Context without a node in hand.
Plain(c) ==
  /\ c.cur.id \notin NodeIds /\ ~HasParentNode(c) /\ c.pending = <<>> /\ c.pc \notin Working

LEMMA PlainClaims ==
  ASSUME NEW m, NEW root, NEW level, NEW nodes, NEW blk, NEW c, Plain(c)
  PROVE  Claims(m, root, level, nodes, blk, c)
<1>1. /\ c.pc \notin Past \cup {"mergeCheck", "postDelete", "removeCheck", "parentConsolidate"}
      /\ c.pc \notin {"postInsert", "newRoot", "removePost"} /\ c.pc \notin Locking
  BY DEF Plain, Working, Past, Locking
<1>2. PlaceClaim(m, root, level, nodes, blk, c)
  BY <1>1 DEF PlaceClaim, Plain
<1>3. Len(c.pending) = 0
  BY DEF Plain
<1> QED
  BY <1>2, <1>3 DEF Claims, ParentAt, NodeClaim, PendingClaim, Plain

LEMMA StaleSelf ==
  ASSUME NEW c \in ContextSet
  PROVE  Stale(c, c, {})
BY DEF Stale, SameView, ContextSet, SnapSet

LEMMA OutdatedStale ==
  ASSUME NEW c \in ContextSet, NEW id
  PROVE  Stale(c, Outdated(c, id), {id})
<1>1. SameView(c, Outdated(c, id))
  BY OutdatedFields
<1>2. /\ Outdated(c, id).cur.fresh = (c.cur.fresh /\ c.cur.id # id)
      /\ Outdated(c, id).par.fresh = (c.par.fresh /\ c.par.id # id)
  BY DEF Outdated, ContextSet, SnapSet
<1> QED
  BY <1>1, <1>2 DEF Stale

LEMMA ObserveStale ==
  ASSUME NEW c \in ContextSet, NEW ids, NEW d \in ContextSet, Stale(c, d, ids), NEW k,
         NEW now \in SUBSET Nat
  PROVE  Stale(c, Observe(d, k, now), ids)
<1>1. SameView(d, Observe(d, k, now)) /\ Observe(d, k, now).cur.fresh = d.cur.fresh
  BY ObserveFields
<1>2. Observe(d, k, now).par = d.par
  BY DEF Observe, ContextSet
<1> QED
  BY <1>1, <1>2 DEF Stale, SameView

LEMMA TameSame ==
  ASSUME NEW m, NEW next, NEW level, NEW nodes
  PROVE  Tame(m, next, level, nodes, m, level, nodes)
BY DEF Tame

\* d has no remove delta in hand that c does not have; it locks nothing and posts
\* no item.
Trails(c, d) ==
  /\ d.pc # "parentConsolidate"
  /\ \A i \in 1 .. Len(d.pending) :
       Target(d) = Target(c) /\ \E j \in 1 .. Len(c.pending) : c.pending[j][1] = d.pending[i][1]
Follows(c, d) == d.pc \notin Locking \cup {"postInsert"} /\ Trails(c, d)

LEMMA PlainFollows ==
  ASSUME NEW c, NEW d, Plain(d)
  PROVE  Follows(c, d)
<1>1. Len(d.pending) = 0
  BY DEF Plain
<1> QED
  BY <1>1 DEF Follows, Trails, Plain, Working, Locking

LEMMA TrailsInserts ==
  ASSUME NEW m, NEW next, NEW level, NEW nodes, NEW m2, NEW level2, NEW nodes2,
         Tame(m, next, level, nodes, m2, level2, nodes2), NEW ids,
         NEW c, ContextOK(m, next, c), ParentAt(m, level, nodes, c, Target(c)),
         NEW e, Inserts(m, e, c), NEW e2, Stale(e, e2, ids), NEW d, Trails(c, d)
  PROVE  Inserts(m2, e2, d)
<1>1. /\ e2.pc = e.pc /\ e2.par.node = e.par.node /\ e2.cur.node = e.cur.node
      /\ e2.par.fresh => e.par.fresh
  BY DEF Stale, SameView
<1>2. ASSUME e2.pc = "postInsert", e2.par.fresh, NEW i \in 1 .. Len(d.pending),
             d.pending[i][1] = e2.cur.node.other
      PROVE  \E s \in Seps(e2.par.node) : m2[Target(d)].low < s /\ s < e2.cur.node.sep
  <2>1. PICK j \in 1 .. Len(c.pending) : c.pending[j][1] = d.pending[i][1] /\ Target(d) = Target(c)
    BY <1>2 DEF Trails
  <2>2. \E s \in Seps(e.par.node) : m[Target(c)].low < s /\ s < e.cur.node.sep
    BY <1>1, <1>2, <2>1 DEF Inserts
  <2>3. HasParentNode(c)
    BY <2>1 DEF ContextOK, Holds, ContextSet
  <2>4. m2[Target(c)].low = m[Target(c)].low
    BY <2>3, TargetInUse DEF Tame
  <2> QED
    BY <1>1, <2>1, <2>2, <2>4
<1> QED
  BY <1>2 DEF Inserts, Trails

LEMMA QuietPairs ==
  ASSUME NEW m, NEW next, NEW level, NEW nodes, NEW m2, NEW level2, NEW nodes2,
         Tame(m, next, level, nodes, m2, level2, nodes2), NEW ids,
         NEW c, ContextOK(m, next, c), ParentAt(m, level, nodes, c, Target(c)),
         NEW e, Inserts(m, e, c), NEW e2, Stale(e, e2, ids), NEW d, Follows(c, d)
  PROVE  Locks(d, e2) /\ Locks(e2, d) /\ Inserts(m2, d, e2) /\ Inserts(m2, e2, d)
<1>1. Inserts(m2, e2, d)
  BY TrailsInserts DEF Follows
<1> QED
  BY <1>1 DEF Locks, Inserts, Follows

LEMMA SmoStep ==
  ASSUME StructInv, NEW level, NEW nodes, SmoInv(level, nodes), NEW t \in Threads,
         NEW level2, NEW nodes2,
         Coherent(mapping', next_unused_node_id', root_id', level2, nodes2),
         Tame(mapping, next_unused_node_id, level, nodes, mapping', level2, nodes2),
         Gone(mapping', next_unused_node_id', nodes2, released'),
         NEW ids, \A i \in InUse(next_unused_node_id) \ ids : mapping'[i] = mapping[i],
         \A u \in Threads \ {t} :
           /\ Stale(ctx[u], ctx'[u], ids)
           /\ ctx[u].pc \in Locking => ctx[u].par.id \in blocked' /\ ctx[u].par.id \notin ids
           /\ ctx[u].pc = "postInsert" /\ ctx'[u].par.fresh => ctx[u].cur.node.other \in nodes2
           /\ ctx[u].pc = "newRoot" /\ root_id' = ctx[u].cur.id => ctx[u].cur.node.other \in nodes2,
         Claims(mapping', root_id', level2, nodes2, blocked', ctx'[t]),
         \A u \in Threads \ {t} :
           /\ Locks(ctx'[t], ctx'[u]) /\ Locks(ctx'[u], ctx'[t])
           /\ Inserts(mapping', ctx'[t], ctx'[u]) /\ Inserts(mapping', ctx'[u], ctx'[t])
  PROVE  SmoInv(level2, nodes2)'
<1>1. /\ TreeOK(mapping, next_unused_node_id, root_id)
      /\ Coherent(mapping, next_unused_node_id, root_id, level, nodes)
      /\ \A u \in Threads : /\ ContextOK(mapping, next_unused_node_id, ctx[u])
                            /\ Claims(mapping, root_id, level, nodes, blocked, ctx[u])
  BY DEF StructInv, SmoInv
<1>2. ASSUME NEW u \in Threads \ {t}
      PROVE  Claims(mapping', root_id', level2, nodes2, blocked', ctx'[u])
  <2>1. /\ Stale(ctx[u], ctx'[u], ids) /\ ContextOK(mapping, next_unused_node_id, ctx[u])
        /\ Claims(mapping, root_id, level, nodes, blocked, ctx[u])
    BY <1>1, <1>2
  <2> QED
    BY <1>1, <1>2, <2>1, ClaimsKept
<1>3. ASSUME NEW u \in Threads \ {t}, NEW v \in Threads \ {t}, u # v
      PROVE  Locks(ctx'[u], ctx'[v]) /\ Inserts(mapping', ctx'[u], ctx'[v])
  <2>1. /\ Locks(ctx[u], ctx[v]) /\ Inserts(mapping, ctx[u], ctx[v])
        /\ ContextOK(mapping, next_unused_node_id, ctx[v])
        /\ ParentAt(mapping, level, nodes, ctx[v], Target(ctx[v]))
    BY <1>1, <1>3 DEF SmoInv, Claims
  <2> QED
    BY <1>3, <2>1, PairsKept
<1>4. ASSUME NEW u \in Threads, NEW v \in Threads \ {u}
      PROVE  Locks(ctx'[u], ctx'[v]) /\ Inserts(mapping', ctx'[u], ctx'[v])
  <2>1. CASE u = t
    BY <2>1, <1>4
  <2>2. CASE v = t
    BY <2>2, <1>4
  <2>3. CASE u # t /\ v # t
    BY <2>3, <1>3, <1>4
  <2> QED
    BY <2>1, <2>2, <2>3
<1> QED
  BY <1>2, <1>4 DEF SmoInv

\* A step of t that changes no node, after which t goes on as d.
LEMMA SmoLocal ==
  ASSUME StructInv, NEW level, NEW nodes, SmoInv(level, nodes), NEW t \in Threads,
         NEW d, Continue(t, d), UNCHANGED <<root_id, mapping, next_unused_node_id, released>>,
         \A u \in Threads \ {t} : ctx[u].pc \in Locking => ctx[u].par.id \in blocked',
         Claims(mapping, root_id, level, nodes, blocked', d),
         \A u \in Threads \ {t} :
           /\ Locks(d, ctx[u]) /\ Locks(ctx[u], d)
           /\ Inserts(mapping, d, ctx[u]) /\ Inserts(mapping, ctx[u], d)
  PROVE  SmoInv(level, nodes)'
<1>1. /\ ctx'[t] = d /\ \A u \in Threads \ {t} : ctx'[u] = ctx[u]
      /\ mapping' = mapping /\ root_id' = root_id /\ next_unused_node_id' = next_unused_node_id
      /\ released' = released
  BY DEF Continue, StructInv
<1>2. ASSUME NEW u \in Threads \ {t}
      PROVE  /\ Stale(ctx[u], ctx'[u], {})
             /\ ctx[u].pc = "postInsert" /\ ctx'[u].par.fresh => ctx[u].cur.node.other \in nodes
             /\ ctx[u].pc = "newRoot" /\ root_id' = ctx[u].cur.id => ctx[u].cur.node.other \in nodes
  <2>1. ctx[u] \in ContextSet /\ Claims(mapping, root_id, level, nodes, blocked, ctx[u])
    BY <1>2, ThreadFacts DEF SmoInv
  <2> QED
    BY <1>1, <1>2, <2>1, StaleSelf DEF Claims, PlaceClaim
<1>3. /\ Coherent(mapping', next_unused_node_id', root_id', level, nodes)
      /\ Gone(mapping', next_unused_node_id', nodes, released')
      /\ Tame(mapping, next_unused_node_id, level, nodes, mapping', level, nodes)
  BY <1>1, TameSame DEF SmoInv
<1>4. /\ Claims(mapping', root_id', level, nodes, blocked', ctx'[t])
      /\ \A u \in Threads \ {t} :
           /\ Locks(ctx'[t], ctx'[u]) /\ Locks(ctx'[u], ctx'[t])
           /\ Inserts(mapping', ctx'[t], ctx'[u]) /\ Inserts(mapping', ctx'[u], ctx'[t])
  BY <1>1
<1>5. \A u \in Threads \ {t} :
        /\ Stale(ctx[u], ctx'[u], {})
        /\ ctx[u].pc \in Locking => ctx[u].par.id \in blocked' /\ ctx[u].par.id \notin {}
        /\ ctx[u].pc = "postInsert" /\ ctx'[u].par.fresh => ctx[u].cur.node.other \in nodes
        /\ ctx[u].pc = "newRoot" /\ root_id' = ctx[u].cur.id => ctx[u].cur.node.other \in nodes
  BY <1>2
<1>6. \A i \in InUse(next_unused_node_id) \ {} : mapping'[i] = mapping[i]
  BY <1>1
<1> QED
  BY <1>3, <1>4, <1>5, <1>6, SmoStep

\* The same if no other thread need know.
LEMMA SmoQuiet ==
  ASSUME StructInv, NEW level, NEW nodes, SmoInv(level, nodes), NEW t \in Threads,
         NEW d, Continue(t, d),
         UNCHANGED <<root_id, mapping, next_unused_node_id, released, blocked>>,
         Claims(mapping, root_id, level, nodes, blocked, d), Follows(ctx[t], d)
  PROVE  SmoInv(level, nodes)'
<1>1. ASSUME NEW u \in Threads \ {t}
      PROVE  /\ Locks(d, ctx[u]) /\ Locks(ctx[u], d)
             /\ Inserts(mapping, d, ctx[u]) /\ Inserts(mapping, ctx[u], d)
  <2>1. /\ ContextOK(mapping, next_unused_node_id, ctx[t])
        /\ ParentAt(mapping, level, nodes, ctx[t], Target(ctx[t]))
        /\ Inserts(mapping, ctx[u], ctx[t]) /\ ctx[u] \in ContextSet
    BY <1>1, ThreadFacts DEF SmoInv, Claims, StructInv
  <2>2. Stale(ctx[u], ctx[u], {})
        /\ Tame(mapping, next_unused_node_id, level, nodes, mapping, level, nodes)
    BY <2>1, StaleSelf, TameSame
  <2> QED
    BY <2>1, <2>2, QuietPairs
<1>2. \A u \in Threads \ {t} : ctx[u].pc \in Locking => ctx[u].par.id \in blocked'
  BY DEF SmoInv, Claims, PlaceClaim
<1> QED
  BY <1>1, <1>2, SmoLocal

LEMMA AbortPlain ==
  ASSUME NEW c \in ContextSet
  PROVE  Plain(Abort(c))
BY AbortFields, SnapTypes DEF Plain, Working

LEMMA SmoAbort ==
  ASSUME StructInv, NEW level, NEW nodes, SmoInv(level, nodes), NEW t \in Threads,
         Continue(t, Abort(ctx[t])),
         UNCHANGED <<root_id, mapping, next_unused_node_id, released, blocked>>
  PROVE  SmoInv(level, nodes)'
<1>1. ctx[t] \in ContextSet
  BY ThreadFacts
<1>2. /\ Claims(mapping, root_id, level, nodes, blocked, Abort(ctx[t]))
      /\ Follows(ctx[t], Abort(ctx[t]))
  BY <1>1, AbortPlain, PlainClaims, PlainFollows
<1> QED
  BY <1>2, SmoQuiet

\* What the replacement of a node leaves of the claims.
LEMMA ReplaceKeeps ==
  ASSUME StructInv, NEW level, NEW nodes, SmoInv(level, nodes), NEW id \in nodes, id \notin blocked,
         NEW m2, \A i \in InUse(next_unused_node_id) \ {id} : m2[i] = mapping[i],
         Replaces(mapping, level, nodes, id, m2[id]), Sound(m2, next_unused_node_id, m2[id]),
         m2[id].type = "remove" => Removable(mapping, root_id, level, nodes, id)
  PROVE  /\ Coherent(m2, next_unused_node_id, root_id, level, nodes)
         /\ Tame(mapping, next_unused_node_id, level, nodes, m2, level, nodes)
         /\ Gone(m2, next_unused_node_id, nodes, released)
         /\ \A u \in Threads : \A d : Stale(ctx[u], d, {id}) =>
              Claims(m2, root_id, level, nodes, blocked, d)
<1>1. /\ TreeOK(mapping, next_unused_node_id, root_id)
      /\ Coherent(mapping, next_unused_node_id, root_id, level, nodes)
      /\ Gone(mapping, next_unused_node_id, nodes, released)
  BY DEF StructInv, SmoInv
<1>2. Coherent(m2, next_unused_node_id, root_id, level, nodes)
  BY <1>1, ReplaceCoherent
<1>3. Tame(mapping, next_unused_node_id, level, nodes, m2, level, nodes)
  BY <1>1, ReplaceItems
<1>4. Gone(m2, next_unused_node_id, nodes, released)
  BY <1>1, <1>3, GoneKept
<1>5. ASSUME NEW u \in Threads, NEW d, Stale(ctx[u], d, {id})
      PROVE  Claims(m2, root_id, level, nodes, blocked, d)
  <2>1. /\ ContextOK(mapping, next_unused_node_id, ctx[u])
        /\ Claims(mapping, root_id, level, nodes, blocked, ctx[u])
    BY DEF StructInv, SmoInv
  <2>2. ctx[u].pc \in Locking => ctx[u].par.id \in blocked /\ ctx[u].par.id \notin {id}
    BY <2>1 DEF Claims, PlaceClaim
  <2>3. ctx[u].pc = "postInsert" /\ d.par.fresh => ctx[u].cur.node.other \in nodes
    BY <1>5, <2>1 DEF Claims, PlaceClaim, Stale
  <2>4. ctx[u].pc = "newRoot" /\ root_id = ctx[u].cur.id => ctx[u].cur.node.other \in nodes
    BY <2>1 DEF Claims, PlaceClaim
  <2>5. \A i \in InUse(next_unused_node_id) \ {id} : m2[i] = mapping[i]
    OBVIOUS
  <2> HIDE DEF Claims, Stale
  <2> QED
    BY <1>1, <1>3, <1>5, <2>1, <2>2, <2>3, <2>4, <2>5, ClaimsKept
<1> QED
  BY <1>2, <1>3, <1>4, <1>5

\* A step of t that replaces a node.
LEMMA SmoReplace ==
  ASSUME StructInv, NEW level, NEW nodes, SmoInv(level, nodes), NEW t \in Threads,
         NEW id \in nodes, id \notin blocked,
         \A i \in InUse(next_unused_node_id) \ {id} : mapping'[i] = mapping[i],
         Replaces(mapping, level, nodes, id, mapping'[id]),
         Sound(mapping', next_unused_node_id, mapping'[id]),
         mapping'[id].type = "remove" => Removable(mapping, root_id, level, nodes, id),
         UNCHANGED <<root_id, next_unused_node_id, blocked>>,
         Gone(mapping', next_unused_node_id, nodes, released'),
         \A u \in Threads \ {t} : Stale(ctx[u], ctx'[u], {id}),
         Claims(mapping', root_id, level, nodes, blocked, ctx'[t]),
         \/ Follows(ctx[t], ctx'[t])
         \/ \A u \in Threads \ {t} :
              /\ Locks(ctx'[t], ctx'[u]) /\ Locks(ctx'[u], ctx'[t])
              /\ Inserts(mapping', ctx'[t], ctx'[u]) /\ Inserts(mapping', ctx'[u], ctx'[t])
  PROVE  SmoInv(level, nodes)'
<1>1. /\ Coherent(mapping', next_unused_node_id, root_id, level, nodes)
      /\ Tame(mapping, next_unused_node_id, level, nodes, mapping', level, nodes)
  BY ReplaceKeeps
<1>2. ASSUME NEW u \in Threads \ {t}
      PROVE  /\ Stale(ctx[u], ctx'[u], {id})
             /\ ctx[u].pc \in Locking => ctx[u].par.id \in blocked' /\ ctx[u].par.id \notin {id}
             /\ ctx[u].pc = "postInsert" /\ ctx'[u].par.fresh => ctx[u].cur.node.other \in nodes
             /\ ctx[u].pc = "newRoot" /\ root_id' = ctx[u].cur.id => ctx[u].cur.node.other \in nodes
  <2>1. Stale(ctx[u], ctx'[u], {id}) /\ PlaceClaim(mapping, root_id, level, nodes, blocked, ctx[u])
    BY <1>2 DEF SmoInv, Claims
  <2> QED
    BY <2>1 DEF PlaceClaim, Stale
<1>3. ASSUME NEW u \in Threads \ {t}
      PROVE  /\ Locks(ctx'[t], ctx'[u]) /\ Locks(ctx'[u], ctx'[t])
             /\ Inserts(mapping', ctx'[t], ctx'[u]) /\ Inserts(mapping', ctx'[u], ctx'[t])
  <2>1. /\ ContextOK(mapping, next_unused_node_id, ctx[t])
        /\ ParentAt(mapping, level, nodes, ctx[t], Target(ctx[t]))
        /\ Inserts(mapping, ctx[u], ctx[t]) /\ Stale(ctx[u], ctx'[u], {id})
    BY <1>3 DEF SmoInv, Claims, StructInv
  <2> QED
    BY <1>1, <1>3, <2>1, QuietPairs
<1>4. /\ Coherent(mapping', next_unused_node_id', root_id', level, nodes)
      /\ Gone(mapping', next_unused_node_id', nodes, released')
      /\ Claims(mapping', root_id', level, nodes, blocked', ctx'[t])
  BY <1>1
<1> QED
  BY <1>1, <1>2, <1>3, <1>4, SmoStep

-----------------------------------------------------------------------------
(* What the code between two accesses claims.                              *)

LEMMA ChildForItem ==
  ASSUME NEW m, NEW next, NEW n, Sound(m, next, n), ~IsLeaf(n), NEW k \in Nat, n.low <= k
  PROVE  Item(n, m[ChildFor(n, k)].low, ChildFor(n, k))
<1> DEFINE S == {s \in Seps(n) : s <= k}
<1>1. Seps(n) \in SUBSET Nat /\ IsFiniteSet(Seps(n)) /\ n.low \in Seps(n)
  BY IsNodeDef, NodeFacts DEF Sound, SoundItems, SoundChildren
<1>2. S \in SUBSET Nat /\ S # {} /\ IsFiniteSet(S)
  <2>1. S \in SUBSET Seps(n) /\ n.low \in S
    BY <1>1
  <2> QED
    BY <1>1, <2>1, FS_Subset
<1>3. Max(S) \in S
  <2> HIDE DEF S
  <2> QED
    BY <1>2, MaxIn
<1>4. ChildFor(n, k) = n.items[Max(S)]
  BY DEF ChildFor
<1>5. StartsAt(m, next, n.items[Max(S)], Max(S)) /\ Max(S) \in Seps(n)
  BY <1>1, <1>3 DEF Sound, SoundChildren
<1> QED
  BY <1>4, <1>5 DEF StartsAt, Item

LEMMA DonePlain ==
  ASSUME NEW c \in ContextSet, NEW res \in BOOLEAN, c.pending = <<>>
  PROVE  Plain(Done(c, res))
BY DoneFields, SnapTypes DEF Plain, Working

LEMMA AnswersPlain ==
  ASSUME NEW c \in ContextSet, SoundItems(c.cur.node), c.pending = <<>>, NEW d, Answers(c, d)
  PROVE  Plain(d)
<1>1. CASE c.op = "scan" /\ d = LowerBound(c)
  <2>1. /\ Paged(c) \in ContextSet /\ Paged(c).pending = <<>> /\ NextPage(c) \in ContextSet
        /\ d = Done(Paged(c), TRUE) \/ d = Abort(NextPage(c))
    BY <1>1, PageFields
  <2> QED
    BY <2>1, DonePlain, AbortPlain
<1>2. CASE d = Done(c, c.key \in Seps(c.cur.node))
  <2> DEFINE res == c.key \in Seps(c.cur.node)
  <2>1. res \in BOOLEAN /\ d = Done(c, res)
    BY <1>2
  <2> HIDE DEF res
  <2> QED
    BY <2>1, DonePlain
<1>3. CASE d = Done(c, FALSE)
  <2>1. FALSE \in BOOLEAN
    OBVIOUS
  <2> QED
    BY <1>3, <2>1, DonePlain
<1> QED
  BY <1>1, <1>2, <1>3 DEF Answers

\* What a Context with a node in hand claims, wherever it goes on.
InHand(m, next, level, nodes, c) ==
  /\ c \in ContextSet /\ Holds(m, next, c) /\ Here(c) /\ c.pc # "abortUndo"
  /\ ParentAt(m, level, nodes, c, c.cur.id) /\ NodeClaim(m, level, nodes, c)
  /\ PendingClaim(m, c)

\* The topmost delta of its node is finished, if need be.
Finished(m, nodes, c) ==
  /\ c.cur.node.type # "remove" /\ Settled(m, nodes, c.cur) /\ NextClaim(m, nodes, c)

\* b is where the Context was before it had the node.
CameFrom(b, c) == c.pending = b.pending /\ (c.pending # <<>> => Target(b) = c.cur.id)

\* A Context that goes on to pc as it is.
LEMMA AtClaims ==
  ASSUME NEW m, NEW next, NEW level, NEW nodes, NEW c, InHand(m, next, level, nodes, c),
         NEW pc \in PCs \ {"jump"}, NEW root, NEW blk,
         PlaceClaim(m, root, level, nodes, blk, At(c, pc))
  PROVE  /\ Claims(m, root, level, nodes, blk, At(c, pc))
         /\ \A b : CameFrom(b, c) /\ pc # "parentConsolidate" =>
              /\ Trails(b, At(c, pc))
              /\ pc \notin Locking \cup {"postInsert"} => Follows(b, At(c, pc))
<1> DEFINE d == At(c, pc)
<1>1. /\ d \in ContextSet /\ d.pc = pc /\ d.op = c.op /\ d.key = c.key
      /\ d.cur = c.cur /\ d.par = c.par /\ d.pending = c.pending /\ d.to = c.to
  BY AtFields DEF InHand
<1>2. PlaceClaim(m, root, level, nodes, blk, d)
  OBVIOUS
<1> HIDE DEF d
<1>3. Target(d) = c.cur.id
  BY <1>1 DEF Target
<1>4. ParentAt(m, level, nodes, d, Target(d))
  BY <1>1, <1>3 DEF InHand, ParentAt, HasParentNode, Handed
<1>5. NodeClaim(m, level, nodes, d) /\ PendingClaim(m, d)
  BY <1>1 DEF InHand, NodeClaim, PendingClaim
<1>6. ASSUME NEW b, CameFrom(b, c), pc # "parentConsolidate"
      PROVE  Trails(b, d) /\ (pc \notin Locking \cup {"postInsert"} => Follows(b, d))
  <2>1. ASSUME NEW i \in 1 .. Len(d.pending)
        PROVE  /\ Target(d) = Target(b)
               /\ \E j \in 1 .. Len(b.pending) : b.pending[j][1] = d.pending[i][1]
    BY <1>1, <1>3, <1>6, <2>1 DEF CameFrom
  <2> QED
    BY <1>1, <1>6, <2>1 DEF Follows, Trails
<1>7. Claims(m, root, level, nodes, blk, d)
  BY <1>2, <1>4, <1>5 DEF Claims
<1> QED
  BY <1>6, <1>7 DEF d

LEMMA OnwardClaims ==
  ASSUME NEW m, NEW next, NEW root, TreeOK(m, next, root),
         NEW level, NEW nodes, Coherent(m, next, root, level, nodes),
         NEW c, InHand(m, next, level, nodes, c),
         NEW pcs, (pcs = Onward /\ Finished(m, nodes, c)) \/ (pcs = {"op"} /\ c.op = "get"),
         NEW d, OutcomeIn(pcs, c, d), NEW b, CameFrom(b, c), NEW blk
  PROVE  Claims(m, root, level, nodes, blk, d) /\ Follows(b, d)
<1> DEFINE n == c.cur.node
           x == GetNextNodeID(n)
           y == ChildFor(n, c.key)
<1>0. /\ c \in ContextSet /\ Holds(m, next, c) /\ Here(c) /\ c.key \in Nat
      /\ c.cur.id \in NodeIds /\ Taken(m, next, c.cur.id, n) /\ n.low <= c.key
      /\ Sound(m, next, n) /\ Ranked(level, c.cur.id, n) /\ next \in 1 .. MaxId + 1
      /\ c.op = "get" => ~HasParentNode(c)
      /\ c.cur.id \in InUse(next) /\ InUse(next) \subseteq NodeIds
      /\ c.op # "get" => Finished(m, nodes, c)
  BY MaxIdType DEF InHand, Here, Holds, Taken, NodeClaim, TreeOK, ContextSet, InUse, NodeIds
<1>1. CASE Plain(d)
  BY <1>1, PlainClaims, PlainFollows
<1>2. CASE d = Abort(c)
  BY <1>0, <1>1, <1>2, AbortPlain
<1>3. CASE d = At(c, "undefined")
  <2>1. "undefined" \in PCs \ {"jump"} /\ "undefined" \notin Past \cup Locking
    BY DEF PCs, Past, Locking
  <2>2. At(c, "undefined").pc = "undefined"
    BY <1>0, <2>1, AtFields
  <2>3. PlaceClaim(m, root, level, nodes, blk, At(c, "undefined"))
    BY <2>1, <2>2 DEF PlaceClaim
  <2> QED
    BY <1>3, <2>1, <2>3, AtClaims
<1>4. CASE \E pc \in pcs : Ready(c, pc) /\ d = At(c, pc)
  <2>1. PICK pc \in Onward : Ready(c, pc) /\ d = At(c, pc) /\ Finished(m, nodes, c)
    BY <1>4 DEF Onward, Ready
  <2>2. /\ pc \in PCs \ {"jump", "take"} /\ pc \notin Locking
        /\ pc \notin {"removeCheck", "parentConsolidate", "mergeCheck", "postDelete",
                      "postInsert", "newRoot", "removePost"}
    BY DEF Onward, PCs, Locking
  <2>3. /\ d.pc = pc /\ d.cur = c.cur /\ d.par = c.par /\ d.op = c.op
    BY <1>0, <2>1, <2>2, AtFields
  <2>4. Settled(m, nodes, d.cur) /\ NextClaim(m, nodes, d)
    BY <2>1, <2>3 DEF Finished, NextClaim, HasParentNode, Handed
  <2>5. PlaceClaim(m, root, level, nodes, blk, d)
    BY <2>2, <2>3, <2>4 DEF PlaceClaim
  <2> QED
    BY <2>1, <2>2, <2>5, AtClaims
<1>5. CASE ~InRange(n, c.key) /\ c.pending = <<>> /\ d = GoTo(c, "jump", x)
  <2>1. /\ x # INVALID_NODE_ID /\ n.high[1] <= c.key /\ n.high[1] \in Nat
        /\ x \in InUse(next) /\ x \in NodeIds /\ x \in 0 .. MaxId /\ level[x] = level[c.cur.id]
    BY <1>0, <1>5, CoversLow, NodeFacts, NextBeside, MaxIdType DEF InRange, InUse, NodeIds
  <2>2. "jump" \in PCs
    BY DEF PCs
  <2>3. /\ d.pc = "jump" /\ d.op = c.op /\ d.key = c.key
        /\ d.cur = c.cur /\ d.par = c.par /\ d.pending = <<>> /\ d.to = x
    BY <1>0, <1>5, <2>1, <2>2, GoToFields
  <2>4. ASSUME HasParentNode(c)
        PROVE  ParentAt(m, level, nodes, d, x)
    <3>1. /\ Ranked(level, c.par.id, c.par.node) /\ c.par.node.type # "remove"
          /\ InRange(c.par.node, c.key) /\ Settled(m, nodes, c.par)
          /\ level[c.par.id] = level[c.cur.id] + 1
      BY <2>4 DEF InHand, ParentAt
    <3>2. c.par.node \in AnyNode
      BY <2>4, CoversLow, <1>0 DEF Holds, Taken
    <3>3. InRange(c.par.node, n.high[1])
      BY <1>0, <2>1, <3>1, <3>2, NodeFacts DEF InRange
    <3>4. Handed(m, nodes, c, x)
      BY <1>0, <2>1, <2>4, <3>3 DEF Finished, NextClaim
    <3> QED
      BY <2>1, <2>3, <3>1, <3>4 DEF ParentAt, Handed
  <2>5. ParentAt(m, level, nodes, d, Target(d))
    BY <2>3, <2>4 DEF ParentAt, Target, HasParentNode
  <2>6. NodeClaim(m, level, nodes, d) /\ PendingClaim(m, d) /\ Follows(b, d)
    BY <2>3 DEF InHand, NodeClaim, PendingClaim, Follows, Trails, Locking
  <2>7. PlaceClaim(m, root, level, nodes, blk, d)
    BY <2>3 DEF PlaceClaim, Past, Locking
  <2> QED
    BY <2>5, <2>6, <2>7 DEF Claims
<1>6. CASE InRange(n, c.key) /\ ~IsLeaf(n) /\ c.pending = <<>> /\ d = GoTo(c, "take", y)
  <2>1. Item(n, m[y].low, y)
    BY <1>0, <1>6, ChildForItem
  <2>2. y \in InUse(next) /\ y \in 0 .. MaxId /\ level[y] + 1 = level[c.cur.id]
    BY <1>0, <1>6, <2>1, ItemBelow, MaxIdType DEF InUse, NodeIds
  <2>3. "take" \in PCs
    BY DEF PCs
  <2>4. /\ d.pc = "take" /\ d.op = c.op /\ d.key = c.key
        /\ d.cur = c.cur /\ d.par = c.par /\ d.pending = <<>> /\ d.to = y
    BY <1>0, <1>6, <2>2, <2>3, GoToFields
  <2>5. ParentAt(m, level, nodes, d, Target(d))
    BY <2>4 DEF InHand, ParentAt, Target, HasParentNode, Handed
  <2>6. NodeClaim(m, level, nodes, d) /\ PendingClaim(m, d) /\ Follows(b, d)
    BY <2>4 DEF InHand, NodeClaim, PendingClaim, Follows, Trails, Locking
  <2>7. c.op # "get" => n.type # "remove" /\ Settled(m, nodes, c.cur)
    BY <1>0 DEF Finished
  <2>8. PlaceClaim(m, root, level, nodes, blk, d)
    BY <1>6, <2>1, <2>2, <2>4, <2>7 DEF PlaceClaim, Past, Locking
  <2> QED
    BY <2>5, <2>6, <2>8 DEF Claims
<1>7. CASE InRange(n, c.key) /\ IsLeaf(n) /\ c.pending = <<>> /\ n.type # "remove"
             /\ Answers(c, d)
  <2>1. SoundItems(n)
    BY <1>0 DEF Sound
  <2> QED
    BY <1>0, <1>1, <1>7, <2>1, AnswersPlain
<1> QED
  BY <1>2, <1>3, <1>4, <1>5, <1>6, <1>7 DEF OutcomeIn

-----------------------------------------------------------------------------
(* FinishPartialSMO().                                                     *)

LEMMA FreshNext ==
  ASSUME NEW m, NEW next, NEW root, TreeOK(m, next, root),
         NEW level, NEW nodes, Coherent(m, next, root, level, nodes),
         NEW i \in nodes, m[i].type # "split", GetNextNodeID(m[i]) # INVALID_NODE_ID
  PROVE  ~SplitOff(m, nodes, GetNextNodeID(m[i]))
<1> SUFFICES ASSUME NEW l \in nodes, m[l].type = "split", m[l].other = GetNextNodeID(m[i])
             PROVE  FALSE
  BY DEF SplitOff
<1>1. Layered(m, next, root, level, nodes) /\ Sound(m, next, m[l])
  BY CoherentFacts
<1>2. GetNextNodeID(m[l]) = m[l].other
  BY <1>1 DEF Sound, SoundDelta, GetNextNodeID
<1>3. i = l
  BY <1>1, <1>2, OneLinks
<1> QED
  BY <1>3

LEMMA NextKnown ==
  ASSUME NEW m, NEW next, NEW root, TreeOK(m, next, root),
         NEW level, NEW nodes, Coherent(m, next, root, level, nodes),
         NEW c, c.cur.id \in nodes, c.cur.node = m[c.cur.id], c.cur.node.type # "split"
  PROVE  NextClaim(m, nodes, c)
BY FreshNext DEF NextClaim, Handed

\* A split delta's new node.
LEMMA SplitOther ==
  ASSUME NEW m, NEW next, NEW root, TreeOK(m, next, root),
         NEW level, NEW nodes, Coherent(m, next, root, level, nodes),
         NEW i \in InUse(next), m[i].type = "split"
  PROVE  LET x == m[i].other IN
         /\ i \in nodes /\ x \in nodes /\ x = GetNextNodeID(m[i]) /\ x # INVALID_NODE_ID
         /\ m[i].high[1] = m[i].sep /\ m[x].low = m[i].sep /\ m[i].low < m[i].sep
         /\ level[x] = level[i] /\ SplitOff(m, nodes, x) /\ m[i].sep \in Nat
<1>1. /\ i \in nodes /\ Sound(m, next, m[i]) /\ Ranked(level, i, m[i])
      /\ Layered(m, next, root, level, nodes)
  BY CoherentFacts
<1>2. /\ GetNextNodeID(m[i]) = m[i].other /\ m[i].high[1] = m[i].sep
      /\ m[i].other # INVALID_NODE_ID
  BY <1>1 DEF Sound, SoundDelta, GetNextNodeID
<1>3. m[i].other \in nodes
  BY <1>1, <1>2 DEF Layered
<1>4. LET x == m[i].other IN /\ m[x].low = m[i].sep /\ m[i].low < m[i].sep /\ level[x] = level[i]
                             /\ m[i].sep \in Nat
  BY <1>1, <1>2, NextBeside
<1> QED
  BY <1>1, <1>2, <1>3, <1>4 DEF SplitOff

\* The item at a merged node's key, from above.
LEMMA ItemAtMerge ==
  ASSUME NEW m, NEW next, NEW root, TreeOK(m, next, root),
         NEW level, NEW nodes, Coherent(m, next, root, level, nodes),
         NEW p \in nodes, ~IsLeaf(m[p]), NEW i \in nodes, Under(level, i, p),
         m[i].type = "merge", NEW k, k = m[i].sep, k \in Seps(m[p])
  PROVE  m[p].items[k] = m[i].other
<1> DEFINE y == m[p].items[k]
<1>1. Sound(m, next, m[i]) /\ Ranked(level, i, m[i])
  BY CoherentFacts
<1>2. m[i].low < k /\ InRange(m[i], k) /\ m[i].low \in Nat /\ k \in Nat
  BY <1>1, CoversLow DEF Sound, SoundDelta, Ranked, AnyNode
<1>3. CoversAt(m, i, k)
  BY <1>2 DEF Covers, CoversAt
<1>4. HasItem(m, p, k, y)
  BY DEF Item, HasItem
<1>5. m[y].low = k
  BY CoherentFacts
<1>6. y # i
  BY <1>2, <1>5
<1> HIDE DEF y
<1>7. y = i \/ MergesAt(m, i, k, y)
  BY <1>3, <1>4, ItemUnder
<1>8. m[i].other = y
  BY <1>6, <1>7 DEF MergesAt
<1> QED
  BY <1>8 DEF y

\* The item of a merge delta just met.
LEMMA MergeItem ==
  ASSUME NEW m, NEW next, NEW root, TreeOK(m, next, root),
         NEW level, NEW nodes, Coherent(m, next, root, level, nodes),
         NEW c, InHand(m, next, level, nodes, c), HasParentNode(c), c.par.fresh,
         c.cur.node = m[c.cur.id], c.cur.node.type = "merge", c.cur.node.sep \in Seps(c.par.node)
  PROVE  c.par.node.items[c.cur.node.sep] = c.cur.node.other
<1> DEFINE i == c.cur.id
           p == c.par.id
<1>1. /\ i \in NodeIds /\ Taken(m, next, i, c.cur.node) /\ Taken(m, next, p, c.par.node)
      /\ ~IsLeaf(c.par.node) /\ c.par.node.type # "remove" /\ c.par.node = m[p]
      /\ Under(level, i, p)
  BY DEF InHand, Here, Holds, ParentAt, Settled, Under
<1>2. i \in nodes /\ p \in nodes
  BY <1>1, CoherentFacts DEF Taken
<1>3. ~IsLeaf(m[p]) /\ m[i].type = "merge" /\ m[i].sep \in Seps(m[p])
  BY <1>1
<1>4. m[p].items[m[i].sep] = m[i].other
  <2> HIDE DEF i, p
  <2> QED
    BY <1>1, <1>2, <1>3, ItemAtMerge
<1> QED
  BY <1>1, <1>4

LEMMA FinishOutcome ==
  ASSUME NEW c \in ContextSet, NEW d, d = FinishPartialSMO(c)
  PROVE  LET n == c.cur.node
             p == c.par.node IN
         \/ d = Abort(c) \/ d = At(c, "undefined")
         \/ n.type = "remove" /\ HasParentNode(c) /\ d = At(c, "removeCheck")
         \/ n.type = "merge" /\ HasParentNode(c) /\ d = At(c, "mergeCheck")
         \/ n.type = "split" /\ d = At(c, "newRoot")
         \/ /\ n.type = "split" /\ HasParentNode(c) /\ InRange(p, n.sep) /\ ~Found(p, n.sep)
            /\ d = At(c, "postInsert")
         \/ /\ n.type = "split" /\ HasParentNode(c) /\ OutcomeIn(Onward, c, d)
            /\ ~InRange(p, n.sep) \/ Item(p, n.sep, n.other)
         \/ n.type \notin {"remove", "merge", "split"} /\ OutcomeIn(Onward, c, d)
<1> DEFINE n == c.cur.node
           p == c.par.node
<1>1. CASE n.type = "remove"
  <2>1. d = FinishRemove(c)
    BY <1>1 DEF FinishPartialSMO
  <2> QED
    BY <1>1, <2>1 DEF FinishRemove, WithParent
<1>2. CASE n.type = "merge"
  <2>1. d = FinishMerge(c)
    BY <1>2 DEF FinishPartialSMO
  <2> QED
    BY <1>2, <2>1 DEF FinishMerge, WithParent
<1>3. CASE n.type = "split"
  <2>1. d = FinishSplit(c)
    BY <1>3 DEF FinishPartialSMO
  <2>2. OutcomeIn(Onward, c, TryConsolidateNode(c))
    BY <1>3, TryConsolidateNodeOutcome
  <2>3. CASE IsOnRootNode(c)
    BY <1>3, <2>1, <2>3 DEF FinishSplit
  <2>4. CASE ~IsOnRootNode(c) /\ ~HasParentNode(c)
    BY <1>3, <2>1, <2>4 DEF FinishSplit, WithParent
  <2>5. CASE ~IsOnRootNode(c) /\ HasParentNode(c)
    <3>1. d = IF ~InRange(p, n.sep) THEN TryConsolidateNode(c)
              ELSE IF ~Found(p, n.sep) THEN At(c, "postInsert")
              ELSE IF p.items[n.sep] # n.other THEN Abort(c)
              ELSE TryConsolidateNode(c)
      BY <2>1, <2>5 DEF FinishSplit, WithParent
    <3>2. Found(p, n.sep) /\ p.items[n.sep] = n.other => Item(p, n.sep, n.other)
      BY DEF Found, Item
    <3> QED
      BY <1>3, <2>2, <2>5, <3>1, <3>2
  <2> QED
    BY <2>3, <2>4, <2>5
<1>4. CASE n.type \notin {"remove", "merge", "split"}
  <2>1. d = TryConsolidateNode(c)
    BY <1>4 DEF FinishPartialSMO
  <2> QED
    BY <1>4, <2>1, TryConsolidateNodeOutcome
<1> QED
  BY <1>1, <1>2, <1>3, <1>4

LEMMA FinishClaims ==
  ASSUME NEW m, NEW next, NEW root, TreeOK(m, next, root),
         NEW level, NEW nodes, Coherent(m, next, root, level, nodes),
         NEW c, InHand(m, next, level, nodes, c), c.cur.fresh,
         NEW d, d = FinishPartialSMO(c), NEW b, CameFrom(b, c), NEW blk
  PROVE  /\ Claims(m, root, level, nodes, blk, d) /\ Trails(b, d)
         /\ \/ Follows(b, d)
            \/ /\ d = At(c, "postInsert") /\ HasParentNode(c) /\ c.cur.node.type = "split"
               /\ InRange(c.par.node, c.cur.node.sep) /\ ~Found(c.par.node, c.cur.node.sep)
<1> DEFINE n == c.cur.node
           p == c.par.node
           x == GetNextNodeID(n)
<1>0. /\ c \in ContextSet /\ Holds(m, next, c) /\ c.cur.id \in NodeIds /\ n = m[c.cur.id]
      /\ c.cur.id \in InUse(next) /\ (n.type # "remove" => c.cur.id \in nodes)
  BY CoherentFacts DEF InHand, Here, Holds, NodeClaim, Taken
<1>1. ASSUME NEW pc \in PCs \ {"jump", "take"}, d = At(c, pc),
             PlaceClaim(m, root, level, nodes, blk, d), pc # "parentConsolidate"
      PROVE  /\ Claims(m, root, level, nodes, blk, d) /\ Trails(b, d)
             /\ pc \notin Locking \cup {"postInsert"} => Follows(b, d)
  BY <1>1, AtClaims
<1>2. ASSUME NEW pc \in PCs
      PROVE  At(c, pc).pc = pc /\ At(c, pc).cur = c.cur /\ At(c, pc).par = c.par
  BY <1>0, AtFields
<1>3. CASE d = Abort(c)
  BY <1>0, <1>3, AbortPlain, PlainClaims, PlainFollows DEF Follows
<1>4. CASE d = At(c, "undefined")
  <2>1. "undefined" \in PCs /\ "undefined" \notin Past \cup Locking
    BY DEF PCs, Past, Locking
  <2>2. PlaceClaim(m, root, level, nodes, blk, d)
    BY <1>2, <1>4, <2>1 DEF PlaceClaim
  <2> QED
    BY <1>1, <1>4, <2>1, <2>2
<1>5. CASE n.type = "remove" /\ d = At(c, "removeCheck")
  <2>1. "removeCheck" \in PCs /\ "removeCheck" \notin Past \cup Locking
    BY DEF PCs, Past, Locking
  <2>2. PlaceClaim(m, root, level, nodes, blk, d)
    BY <1>0, <1>2, <1>5, <2>1 DEF PlaceClaim
  <2> QED
    BY <1>1, <1>5, <2>1, <2>2
<1>6. CASE n.type = "merge" /\ HasParentNode(c) /\ d = At(c, "mergeCheck")
  <2>1. "mergeCheck" \in PCs /\ "mergeCheck" \notin Past \cup Locking
    BY DEF PCs, Past, Locking
  <2>2. NextClaim(m, nodes, d)
    BY <1>0, <1>2, <1>6, <2>1, NextKnown
  <2>3. c.par.fresh /\ n.sep \in Seps(p) => p.items[n.sep] = n.other
    BY <1>0, <1>6, MergeItem
  <2>4. PlaceClaim(m, root, level, nodes, blk, d)
    BY <1>2, <1>6, <2>1, <2>2, <2>3 DEF PlaceClaim
  <2> QED
    BY <1>1, <1>6, <2>1, <2>4
<1>7. CASE n.type = "split" /\ d = At(c, "newRoot")
  <2>1. "newRoot" \in PCs /\ "newRoot" \notin Past \cup Locking
    BY DEF PCs, Past, Locking
  <2>2. PlaceClaim(m, root, level, nodes, blk, d)
    BY <1>0, <1>2, <1>7, <2>1, SplitOther DEF PlaceClaim
  <2> QED
    BY <1>1, <1>7, <2>1, <2>2
<1>8. CASE /\ n.type = "split" /\ HasParentNode(c) /\ InRange(p, n.sep) /\ ~Found(p, n.sep)
           /\ d = At(c, "postInsert")
  <2>1. "postInsert" \in PCs /\ "postInsert" \notin Past \cup Locking
    BY DEF PCs, Past, Locking
  <2>2. PlaceClaim(m, root, level, nodes, blk, d)
    BY <1>0, <1>2, <1>8, <2>1, SplitOther DEF PlaceClaim
  <2> QED
    BY <1>1, <1>8, <2>1, <2>2
<1>9. CASE /\ n.type = "split" /\ HasParentNode(c) /\ OutcomeIn(Onward, c, d)
           /\ ~InRange(p, n.sep) \/ Item(p, n.sep, n.other)
  <2>1. n.high[1] = n.sep /\ x = n.other /\ m[x].low = n.sep
    BY <1>0, <1>9, SplitOther
  <2>2. NextClaim(m, nodes, c)
    BY <1>9, <2>1 DEF NextClaim, Handed
  <2>3. Finished(m, nodes, c)
    BY <1>0, <1>9, <2>2 DEF Finished, Settled
  <2>4. Claims(m, root, level, nodes, blk, d) /\ Follows(b, d)
    BY <1>9, <2>3, OnwardClaims
  <2> QED
    BY <2>4 DEF Follows
<1>10. CASE n.type \notin {"remove", "merge", "split"} /\ OutcomeIn(Onward, c, d)
  <2>1. NextClaim(m, nodes, c)
    BY <1>0, <1>10, NextKnown
  <2>2. Finished(m, nodes, c)
    BY <1>0, <1>10, <2>1 DEF Finished, Settled
  <2>3. Claims(m, root, level, nodes, blk, d) /\ Follows(b, d)
    BY <1>10, <2>2, OnwardClaims
  <2> QED
    BY <2>3 DEF Follows
<1> QED
  BY <1>0, <1>3, <1>4, <1>5, <1>6, <1>7, <1>8, <1>9, <1>10, FinishOutcome

\* A node that covers a key further right starts right of this one's.
LEMMA RightOf ==
  ASSUME NEW m, NEW next, NEW root, TreeOK(m, next, root),
         NEW level, NEW nodes, Coherent(m, next, root, level, nodes),
         NEW p \in nodes, NEW q \in nodes, p # q, level[p] = level[q],
         NEW a \in Nat, CoversAt(m, p, a), NEW b \in Nat, CoversAt(m, q, b), a < b
  PROVE  a < m[q].low
<1>1. Layered(m, next, root, level, nodes) /\ m[q].low \in Nat /\ m[q].high[1] \in Nat
      /\ InRange(m[q], b) /\ m[q].low <= b /\ Covers(m[p], a)
  BY CoherentFacts, TableNode DEF CoversAt, Covers
<1> SUFFICES ASSUME m[q].low <= a PROVE FALSE
  BY <1>1
<1>2. InRange(m[q], a)
  BY <1>1 DEF InRange
<1>3. Covers(m[q], a)
  BY <1>2 DEF Covers
<1> QED
  BY <1>1, <1>3, OneCovers

LEMMA ItemAt ==
  ASSUME NEW m, NEW next, NEW root, TreeOK(m, next, root),
         NEW level, NEW nodes, Coherent(m, next, root, level, nodes),
         NEW p \in nodes, NEW k, NEW x, HasItem(m, p, k, x)
  PROVE  /\ x \in InUse(next) /\ m[x].low = k /\ k \in Nat /\ Under(level, x, p)
         /\ CoversAt(m, p, k) /\ k \in Seps(m[p]) /\ m[p].items[k] = x
<1>1. Sound(m, next, m[p]) /\ Ranked(level, p, m[p]) /\ ~IsLeaf(m[p]) /\ Item(m[p], k, x)
  BY CoherentFacts DEF HasItem
<1>2. x \in InUse(next) /\ m[x].low = k /\ k \in Nat /\ level[x] + 1 = level[p]
      /\ Covers(m[p], k)
  BY <1>1, ItemBelow
<1> QED
  BY <1>1, <1>2 DEF Under, CoversAt, Item

LEMMA SameRank ==
  ASSUME NEW m, NEW next, NEW root, TreeOK(m, next, root),
         NEW level, NEW nodes, Coherent(m, next, root, level, nodes)
  PROVE  /\ \A i, j \in InUse(next) : \A p : Under(level, i, p) /\ Under(level, j, p) => level[i] = level[j]
         /\ \A i : \A p, q : Under(level, i, p) /\ Under(level, i, q) => level[p] = level[q]
         /\ \A i, j, p : Under(level, i, p) /\ level[i] = level[j] => Under(level, j, p)
<1>1. \A i \in InUse(next) : level[i] \in Nat
  BY CoherentFacts
<1> QED
  BY <1>1 DEF Under

\* A merge delta whose key the parent does not have is finished.
LEMMA MergeUnposted ==
  ASSUME NEW m, NEW next, NEW root, TreeOK(m, next, root),
         NEW level, NEW nodes, Coherent(m, next, root, level, nodes),
         NEW p \in nodes, NEW i \in nodes, Under(level, i, p),
         NEW s, NEW x, MergesAt(m, i, s, x), ~Found(m[p], s),
         CoversAt(m, p, m[i].low)
  PROVE  ~Posted(m, nodes, s, x)
<1>0. /\ Sound(m, next, m[i]) /\ Ranked(level, i, m[i]) /\ i \in InUse(next)
      /\ m[i].type = "merge" /\ m[i].sep = s /\ m[i].other = x
  BY CoherentFacts DEF MergesAt
<1>1. /\ m[i].low < s /\ m[i].low \in Nat /\ s \in Nat /\ InRange(m[i], s)
      /\ x \in InUse(next) /\ level[x] = level[i]
  BY <1>0, CoversLow DEF Sound, SoundDelta, Ranked, AnyNode
<1>2. x \notin nodes
  BY <1>0, CoherentFacts DEF Removals
<1> SUFFICES ASSUME NEW q \in nodes, HasItem(m, q, s, x) PROVE FALSE
  BY DEF Posted, HasItem
<1>3. /\ CoversAt(m, q, s) /\ Under(level, x, q) /\ s \in Seps(m[q]) /\ m[q].items[s] = x
      /\ ~IsLeaf(m[q]) /\ m[q].low \in Nat /\ m[q].low <= s
  <2>1. CoversAt(m, q, s) /\ Under(level, x, q) /\ s \in Seps(m[q]) /\ m[q].items[s] = x
    BY ItemAt
  <2>2. ~IsLeaf(m[q]) /\ m[q].low <= s
    BY <2>1 DEF HasItem, CoversAt, Covers
  <2>3. q \in InUse(next)
    BY CoherentFacts
  <2>4. m[q].low \in Nat
    BY <2>3, TableNode
  <2> QED
    BY <2>1, <2>2, <2>4
<1>4. level[p] = level[q] /\ Under(level, i, q)
  BY <1>1, <1>3, SameRank
<1>5. m[p].low <= m[i].low /\ m[p].low \in Nat
  BY CoherentFacts, TableNode DEF CoversAt, Covers
<1>6. q # p
  BY <1>1, <1>3, <1>5 DEF Found
<1>7. m[i].low < m[q].low
  BY <1>1, <1>3, <1>4, <1>6, RightOf
<1>8. m[q].low # s
  <2> SUFFICES ASSUME m[q].low = s PROVE FALSE
    OBVIOUS
  <2>1. m[x].type # "remove"
    BY <1>3, CoherentFacts DEF Removals
  <2> QED
    BY <1>1, <1>2, <2>1, CoherentFacts DEF Removals
<1>9. InRange(m[i], m[q].low)
  <2>1. m[i].high[1] \in Nat
    BY <1>0, TableNode
  <2> QED
    BY <1>1, <1>3, <2>1 DEF InRange
<1> DEFINE k == m[q].low
           y == m[q].items[k]
<1>10. CoversAt(m, i, k)
  BY <1>1, <1>3, <1>7, <1>9 DEF CoversAt, Covers
<1>11. HasItem(m, q, k, y) /\ m[y].low = k
  BY <1>3, CoherentFacts DEF HasItem, Item
<1>12. k # s /\ y # i
  BY <1>1, <1>7, <1>8, <1>11
<1> HIDE DEF k, y
<1>13. y = i \/ MergesAt(m, i, k, y)
  BY <1>4, <1>10, <1>11, ItemUnder
<1> QED
  BY <1>0, <1>12, <1>13 DEF MergesAt

-----------------------------------------------------------------------------
(* The steps.                                                              *)

LEMMA SmoPlain ==
  ASSUME StructInv, NEW level, NEW nodes, SmoInv(level, nodes), NEW t \in Threads,
         NEW d, Continue(t, d), Plain(d),
         UNCHANGED <<root_id, mapping, next_unused_node_id, released, blocked>>
  PROVE  SmoInv(level, nodes)'
<1>1. Claims(mapping, root_id, level, nodes, blocked, d) /\ Follows(ctx[t], d)
  BY PlainClaims, PlainFollows
<1> QED
  BY <1>1, SmoQuiet

LEMMA BeginPlain ==
  ASSUME NEW m, NEW next, next \in 1 .. MaxId + 1, NEW c \in ContextSet,
         NEW cache, CacheOK(m, next, cache)
  PROVE  Plain(Begin(c, cache))
<1> DEFINE d == Begin(c, cache)
<1>1. d.cur = NoSnap /\ d.pending = <<>> /\ ~HasParentNode(d) /\ d.pc \in {"root", "hit"}
  BY BeginFields
<1> HIDE DEF d
<1>2. Plain(d)
  BY <1>1, SnapTypes DEF Plain, Working
<1> QED
  BY <1>2 DEF d

LEMMA StartSmo ==
  ASSUME StructInv, NEW level, NEW nodes, SmoInv(level, nodes), NEW t \in Threads, Start(t)
  PROVE  SmoInv(level, nodes)'
<1>1. PICK r \in requests : Continue(t, Begin(Called(r[1], r[2]), lru_cache[t]))
  BY DEF Start
<1>2. r[1] \in Ops /\ r[2] \in Nat
  BY DEF StructInv
<1>3. Called(r[1], r[2]) \in ContextSet
  BY <1>2, CalledType DEF StructInv
<1>4. Plain(Begin(Called(r[1], r[2]), lru_cache[t]))
  BY <1>3, ThreadFacts, BeginPlain
<1>5. UNCHANGED <<root_id, mapping, next_unused_node_id, released, blocked>>
  BY DEF Start, shared
<1> QED
  BY <1>1, <1>4, <1>5, SmoPlain

LEMMA ReturnSmo ==
  ASSUME StructInv, NEW level, NEW nodes, SmoInv(level, nodes), NEW t \in Threads, Return(t)
  PROVE  SmoInv(level, nodes)'
<1>1. Continue(t, IdleContext) /\ UNCHANGED <<root_id, mapping, next_unused_node_id, released, blocked>>
  BY DEF Return, shared
<1>2. Plain(IdleContext)
  BY SnapTypes DEF Plain, IdleContext, HasParentNode, Working
<1> QED
  BY <1>1, <1>2, SmoPlain

LEMMA LoadRootSmo ==
  ASSUME StructInv, NEW level, NEW nodes, SmoInv(level, nodes), NEW t \in Threads, LoadRoot(t)
  PROVE  SmoInv(level, nodes)'
<1> DEFINE c == ctx[t]
           d == GoTo(c, "take", root_id)
<1>1. /\ c.pc = "root" /\ Continue(t, d)
      /\ UNCHANGED <<root_id, mapping, next_unused_node_id, released, blocked>>
  BY DEF LoadRoot, GoTo, shared
<1>2. /\ c \in ContextSet /\ c.cur.id \notin NodeIds /\ c.pending = <<>> /\ ~HasParentNode(c)
      /\ root_id \in 0 .. MaxId /\ "take" \in PCs
  BY <1>1, ThreadFacts, SnapTypes, MaxIdType
  DEF Placed, StructInv, TreeOK, InnerId, InUse, PCs
<1> HIDE DEF c
<1>3. d.pc = "take" /\ d.cur = c.cur /\ d.par = c.par /\ d.pending = c.pending
  BY <1>2, GoToFields
<1>4. Plain(d)
  BY <1>2, <1>3 DEF Plain, HasParentNode, Working
<1> QED
  BY <1>1, <1>4, SmoPlain

\* A node just loaded.
LEMMA LoadedNode ==
  ASSUME NEW m, NEW next, NEW root, TreeOK(m, next, root),
         NEW level, NEW nodes, Coherent(m, next, root, level, nodes),
         NEW c, c.cur.id \in InUse(next), c.cur.node = m[c.cur.id]
  PROVE  NodeClaim(m, level, nodes, c)
<1>1. Ranked(level, c.cur.id, c.cur.node)
  BY CoherentFacts
<1>2. c.cur.node.type = "merge" => c.cur.node.other \notin nodes
  BY CoherentFacts DEF Removals
<1> QED
  BY <1>1, <1>2 DEF NodeClaim

LEMMA CacheHitSmo ==
  ASSUME StructInv, NEW level, NEW nodes, SmoInv(level, nodes), NEW t \in Threads, CacheHit(t),
         HitsWhole
  PROVE  SmoInv(level, nodes)'
<1> DEFINE c == ctx[t]
           id == c.to
           snap == [Snapshot(id) EXCEPT !.fresh = id \notin blocked]
           d == WithSnap(c, snap)
<1>1. /\ c.pc = "hit" /\ UNCHANGED <<root_id, mapping, next_unused_node_id, released, blocked>>
      /\ Continue(t, Navigate(d)) \/ Continue(t, At(d, "undefined"))
      /\ mapping[id].type \notin {"remove", "merge"}
  BY DEF CacheHit, WithSnap, shared, HitsWhole
<1>2. /\ c \in ContextSet /\ Holds(mapping, next_unused_node_id, c)
      /\ InnerId(mapping, next_unused_node_id, id)
      /\ LeadsTo(mapping, next_unused_node_id, id, c.key)
      /\ c.pending = <<>> /\ ~HasParentNode(c)
  BY <1>1, ThreadFacts DEF Placed
<1>3. snap = [id |-> id, node |-> mapping[id], fresh |-> snap.fresh] /\ snap.fresh \in BOOLEAN
  BY DEF Snapshot
<1> HIDE DEF c
<1>4. /\ d \in ContextSet /\ Holds(mapping, next_unused_node_id, d) /\ Here(d)
  <2> HIDE DEF snap
  <2> QED
    BY <1>2, <1>3, ThreadFacts, LoadOK
<1>5. /\ d.pending = <<>> /\ d.cur.node = mapping[id] /\ d.cur.id = id /\ d.pc = "hit"
      /\ ~HasParentNode(d)
  <2>1. snap \in SnapSet /\ snap.node = mapping[id] /\ snap.id = id
    <3>1. id \in NodeIds /\ id \in UNSET .. MaxId /\ mapping[id] \in AnyNode
      BY <1>2, ThreadFacts, MaxIdType DEF InnerId, InUse, NodeIds, UNSET
    <3> HIDE DEF id
    <3> QED
      BY <3>1 DEF SnapSet, Snapshot
  <2> HIDE DEF snap
  <2>2. d.pc = c.pc /\ d.pending = c.pending /\ d.cur = snap /\ d.par = c.par
    BY <1>2, <2>1, WithSnapFields
  <2> QED
    BY <1>1, <1>2, <2>1, <2>2 DEF HasParentNode, c
<1> HIDE DEF d, id
<1>6. InHand(mapping, next_unused_node_id, level, nodes, d)
  <2>1. /\ d.cur.id \in InUse(next_unused_node_id) /\ d.cur.node = mapping[d.cur.id]
    BY <1>2, <1>5 DEF InnerId
  <2>2. NodeClaim(mapping, level, nodes, d)
    BY <2>1, ThreadFacts, LoadedNode DEF SmoInv
  <2>3. ParentAt(mapping, level, nodes, d, d.cur.id) /\ PendingClaim(mapping, d)
    BY <1>5 DEF ParentAt, PendingClaim
  <2> QED
    BY <1>4, <1>5, <2>2, <2>3 DEF InHand
<1>7. Finished(mapping, nodes, d) /\ CameFrom(c, d)
  BY <1>1, <1>2, <1>5 DEF Finished, Settled, NextClaim, CameFrom
<1>8. PICK e : Continue(t, e) /\ OutcomeIn(Onward, d, e)
  <2>1. OutcomeIn(Onward, d, Navigate(d))
    BY <1>1, <1>4, <1>5, NavigateOutcome, OnwardOutcome
  <2>2. OutcomeIn(Onward, d, At(d, "undefined"))
    BY DEF OutcomeIn
  <2> QED
    BY <1>1, <2>1, <2>2
<1>9. Claims(mapping, root_id, level, nodes, blocked, e) /\ Follows(c, e)
  BY <1>6, <1>7, <1>8, ThreadFacts, OnwardClaims DEF SmoInv
<1> QED
  BY <1>1, <1>8, <1>9, SmoQuiet DEF c

\* A node whose item is to be posted has not been removed.
LEMMA SplitUnremoved ==
  ASSUME NEW m, NEW next, NEW root, TreeOK(m, next, root),
         NEW level, NEW nodes, Coherent(m, next, root, level, nodes),
         NEW p \in nodes, NEW i \in nodes, Under(level, i, p), m[i].type = "split",
         NEW s, s = m[i].sep, NEW x, x = m[i].other,
         ~Found(m[p], s), CoversAt(m, p, m[i].low), CoversAt(m, p, s)
  PROVE  m[x].type # "remove"
<1> SUFFICES ASSUME m[x].type = "remove"
             PROVE  FALSE
  OBVIOUS
<1>1. i \in InUse(next) /\ Layered(m, next, root, level, nodes) /\ Removals(m, next, root, level, nodes)
  BY CoherentFacts
<1>2. /\ x \in nodes /\ m[x].low = s /\ level[x] = level[i] /\ SplitOff(m, nodes, x)
      /\ m[i].low < s /\ s \in Nat
  BY <1>1, SplitOther
<1>3. Posted(m, nodes, s, x)
  BY <1>1, <1>2 DEF Removals
<1>4. Under(level, x, p)
  BY <1>2 DEF Under
<1>5. HasItem(m, p, s, x)
  BY <1>1, <1>3, <1>4, PostedWhere
<1>6. m[p].low <= m[i].low /\ m[p].low \in Nat /\ m[i].low \in Nat
  BY <1>1, CoherentFacts, TableNode DEF CoversAt, Covers
<1> QED
  BY <1>2, <1>5, <1>6 DEF HasItem, Item, Found

\* No other thread has a removed node in hand that this one posts the item of.
LEMMA InsertAlone ==
  ASSUME NEW m, NEW next, NEW root, NEW level, NEW nodes, NEW blk,
         NEW c, c.pc = "postInsert" /\ c.par.fresh => m[c.cur.node.other].type # "remove",
         NEW d, ContextOK(m, next, d), Claims(m, root, level, nodes, blk, d)
  PROVE  Inserts(m, c, d)
<1> SUFFICES ASSUME m[c.cur.node.other].type # "remove"
             PROVE  Inserts(m, c, d)
  BY DEF Inserts
<1>1. ASSUME NEW i \in 1 .. Len(d.pending)
      PROVE  d.pending[i][1] # c.cur.node.other
  BY <1>1 DEF Claims, PendingClaim, ContextOK, Holds
<1>2. ASSUME d.pc = "parentConsolidate"
      PROVE  d.cur.id # c.cur.node.other
  <2>1. "parentConsolidate" \in Working
    BY DEF Working
  <2>2. d.cur.node.type = "remove"
    BY <1>2, <2>1 DEF ContextOK, Placed, Ready
  <2>3. m[d.cur.id] = d.cur.node
    BY <1>2 DEF Claims, PlaceClaim
  <2> QED
    BY <2>2, <2>3
<1> QED
  BY <1>1, <1>2 DEF Inserts

LEMMA FinishSmo ==
  ASSUME StructInv, NEW level, NEW nodes, SmoInv(level, nodes), NEW t \in Threads,
         NEW c, InHand(mapping, next_unused_node_id, level, nodes, c), c.cur.fresh,
         CameFrom(ctx[t], c), NEW d, d = FinishPartialSMO(c), Continue(t, d),
         UNCHANGED <<root_id, mapping, next_unused_node_id, released, blocked>>
  PROVE  SmoInv(level, nodes)'
<1>0. /\ TreeOK(mapping, next_unused_node_id, root_id)
      /\ Coherent(mapping, next_unused_node_id, root_id, level, nodes)
  BY ThreadFacts DEF SmoInv
<1>1. /\ Claims(mapping, root_id, level, nodes, blocked, d) /\ Trails(ctx[t], d)
      /\ \/ Follows(ctx[t], d)
         \/ /\ d = At(c, "postInsert") /\ HasParentNode(c) /\ c.cur.node.type = "split"
            /\ InRange(c.par.node, c.cur.node.sep) /\ ~Found(c.par.node, c.cur.node.sep)
  BY <1>0, FinishClaims
<1>2. CASE Follows(ctx[t], d)
  BY <1>1, <1>2, SmoQuiet
<1>3. CASE /\ d = At(c, "postInsert") /\ HasParentNode(c) /\ c.cur.node.type = "split"
           /\ InRange(c.par.node, c.cur.node.sep) /\ ~Found(c.par.node, c.cur.node.sep)
  <2> DEFINE i == c.cur.id
             p == c.par.id
             s == mapping[i].sep
             x == mapping[i].other
  <2>1. c \in ContextSet /\ "postInsert" \in PCs
    BY DEF InHand, PCs
  <2>2. d.pc = "postInsert" /\ d.cur = c.cur /\ d.par = c.par
    BY <1>3, <2>1, AtFields
  <2>3. ASSUME c.par.fresh
        PROVE  mapping[x].type # "remove"
    <3>1. /\ c.cur.node = mapping[i] /\ c.par.node = mapping[p] /\ c.par.node.type # "remove"
          /\ Taken(mapping, next_unused_node_id, i, c.cur.node)
          /\ Taken(mapping, next_unused_node_id, p, c.par.node)
          /\ Under(level, i, p) /\ c.par.node.low <= c.cur.node.low
      BY <1>3, <2>3 DEF InHand, Here, Holds, NodeClaim, ParentAt, Settled, Under
    <3>2. i \in nodes /\ p \in nodes
      BY <1>0, <1>3, <3>1, CoherentFacts DEF Taken
    <3>3. /\ mapping[i].type = "split" /\ InRange(mapping[p], s) /\ ~Found(mapping[p], s)
          /\ mapping[p].low <= mapping[i].low
      BY <1>3, <3>1
    <3>4. i \in InUse(next_unused_node_id) /\ p \in InUse(next_unused_node_id)
      BY <3>1 DEF Taken
    <3> HIDE DEF i, p
    <3>5. mapping[i].low < s /\ s \in Nat /\ mapping[i].low \in Nat /\ mapping[p].low \in Nat
          /\ mapping[p].high[1] \in Nat
      BY <1>0, <3>2, <3>3, <3>4, SplitOther, TableNode
    <3>6. CoversAt(mapping, p, s) /\ CoversAt(mapping, p, mapping[i].low)
      BY <3>3, <3>5 DEF CoversAt, Covers, InRange
    <3> HIDE DEF s, x
    <3>7. s = mapping[i].sep /\ x = mapping[i].other
      BY DEF s, x
    <3> QED
      BY <1>0, <3>1, <3>2, <3>3, <3>6, <3>7, SplitUnremoved
  <2>4. d.par.fresh => mapping[d.cur.node.other].type # "remove"
    BY <2>2, <2>3, <1>3 DEF InHand, NodeClaim, Here
  <2>5. ASSUME NEW u \in Threads \ {t}
        PROVE  /\ Locks(d, ctx[u]) /\ Locks(ctx[u], d)
               /\ Inserts(mapping, d, ctx[u]) /\ Inserts(mapping, ctx[u], d)
    <3>1. /\ ContextOK(mapping, next_unused_node_id, ctx[t]) /\ ctx[u] \in ContextSet
          /\ ContextOK(mapping, next_unused_node_id, ctx[u])
          /\ ParentAt(mapping, level, nodes, ctx[t], Target(ctx[t]))
          /\ Inserts(mapping, ctx[u], ctx[t])
          /\ Claims(mapping, root_id, level, nodes, blocked, ctx[u])
      BY <2>5, ThreadFacts DEF SmoInv, Claims, StructInv
    <3>2. Stale(ctx[u], ctx[u], {})
          /\ Tame(mapping, next_unused_node_id, level, nodes, mapping, level, nodes)
      BY <3>1, StaleSelf, TameSame
    <3>3. Inserts(mapping, ctx[u], d)
      BY <1>1, <3>1, <3>2, TrailsInserts
    <3>4. Inserts(mapping, d, ctx[u])
      BY <2>4, <3>1, InsertAlone
    <3> QED
      BY <2>2, <3>3, <3>4 DEF Locks, Locking
  <2>6. \A u \in Threads \ {t} : ctx[u].pc \in Locking => ctx[u].par.id \in blocked'
    BY DEF SmoInv, Claims, PlaceClaim
  <2>7. Claims(mapping, root_id, level, nodes, blocked', d)
    BY <1>1
  <2> QED
    BY <2>5, <2>6, <2>7, SmoLocal
<1> QED
  BY <1>1, <1>2, <1>3

LEMMA LoadNodeIDSmo ==
  ASSUME StructInv, NEW level, NEW nodes, SmoInv(level, nodes), NEW t \in Threads, LoadNodeID(t)
  PROVE  SmoInv(level, nodes)'
<1> DEFINE c == ctx[t]
           d == IF Reading(c) THEN WithSnap(c, Snapshot(c.to))
                ELSE WithSnap(Down(c), Snapshot(c.to))
           e == IF Reading(c) THEN FinishPartialSMOReadOptimized(d) ELSE FinishPartialSMO(d)
<1>1. c.pc = "take" /\ UNCHANGED <<root_id, mapping, next_unused_node_id, released, blocked>>
  BY DEF LoadNodeID, shared
<1>2. /\ d \in ContextSet /\ Holds(mapping, next_unused_node_id, d) /\ Here(d)
      /\ d.pending = <<>> /\ d.cur = Snapshot(c.to) /\ d.op = c.op /\ d.key = c.key /\ d.pc = "take"
  BY <1>1, TakenContext
<1>3. /\ c \in ContextSet /\ c.pending = <<>> /\ Claims(mapping, root_id, level, nodes, blocked, c)
      /\ c.to \in InUse(next_unused_node_id) /\ c.to \in NodeIds
  BY <1>1, ThreadFacts, MaxIdType DEF SmoInv, Placed, LeadsTo, InUse, NodeIds
<1>4. Continue(t, e)
  <2>1. CASE Reading(c)
    <3>1. Reading(d)
      BY <1>2, <2>1 DEF Reading
    <3>2. d = [c EXCEPT !.cur = Snapshot(c.to), !.to = INVALID_NODE_ID]
      BY <2>1 DEF WithSnap
    <3> QED
      BY <2>1, <3>1, <3>2 DEF LoadNodeID
  <2>2. CASE ~Reading(c)
    <3> DEFINE b == [c EXCEPT !.cur = Snapshot(c.to), !.to = INVALID_NODE_ID]
    <3>1. ~Reading(b)
      BY <1>3, <2>2 DEF Reading, ContextSet
    <3>2. d = [b EXCEPT !.par = c.cur]
      BY <1>3, <2>2 DEF WithSnap, Down, ContextSet
    <3> QED
      BY <2>2, <3>1, <3>2 DEF LoadNodeID
  <2> QED
    BY <2>1, <2>2
<1>5. ~Reading(c) => d.par = c.cur
  <2> DEFINE snap == Snapshot(c.to)
  <2>1. snap \in SnapSet
    <3>1. c.to \in UNSET .. MaxId /\ mapping[c.to] \in AnyNode
      BY <1>3, ThreadFacts, MaxIdType DEF InUse, NodeIds, UNSET
    <3> HIDE DEF c
    <3> QED
      BY <3>1 DEF SnapSet, Snapshot
  <2>2. Down(c) \in ContextSet /\ Down(c).par = c.cur
    BY <1>3, DownFields
  <2> HIDE DEF snap, c
  <2>3. WithSnap(Down(c), snap).par = Down(c).par
    BY <2>1, <2>2, WithSnapFields
  <2> QED
    BY <2>2, <2>3 DEF snap, c
<1>6. Reading(c) => ~HasParentNode(d)
  BY <1>2 DEF Holds, Reading
<1>7. d.cur.id = c.to /\ d.cur.node = mapping[c.to] /\ d.cur.fresh
  BY <1>2 DEF Snapshot
<1> HIDE DEF d
<1>8. InHand(mapping, next_unused_node_id, level, nodes, d)
  <2>1. NodeClaim(mapping, level, nodes, d)
    BY <1>3, <1>7, ThreadFacts, LoadedNode DEF SmoInv
  <2>2. ASSUME HasParentNode(d)
        PROVE  ParentAt(mapping, level, nodes, d, c.to)
    <3>1. d.par = c.cur /\ c.cur.id \in NodeIds /\ c.op # "get"
      BY <1>5, <1>6, <2>2 DEF HasParentNode, Reading
    <3>2. Ranked(level, c.cur.id, c.cur.node)
      BY <1>3, <3>1 DEF Claims, NodeClaim
    <3>3. /\ Under(level, c.to, c.cur.id) /\ Item(c.cur.node, mapping[c.to].low, c.to)
          /\ InRange(c.cur.node, c.key) /\ c.cur.node.type # "remove"
          /\ Settled(mapping, nodes, c.cur)
      BY <1>1, <1>3, <3>1 DEF Claims, PlaceClaim, Under
    <3> HIDE DEF c
    <3>4. level[c.cur.id] = level[c.to] + 1
      BY <3>3 DEF Under
    <3>5. Handed(mapping, nodes, d, c.to)
      BY <3>1, <3>3 DEF Handed
    <3> QED
      BY <1>2, <1>3, <3>1, <3>2, <3>3, <3>4, <3>5 DEF ParentAt
  <2>3. ParentAt(mapping, level, nodes, d, d.cur.id)
    BY <1>7, <2>2 DEF ParentAt
  <2>4. PendingClaim(mapping, d)
    BY <1>2 DEF PendingClaim
  <2> QED
    BY <1>2, <2>1, <2>3, <2>4 DEF InHand
<1>9. CameFrom(c, d)
  BY <1>2, <1>3 DEF CameFrom
<1>10. CASE Reading(c)
  <2>1. OutcomeIn({"op"}, d, e)
    BY <1>2, <1>10, NavigateOutcome DEF FinishPartialSMOReadOptimized, OutcomeIn
  <2>2. Claims(mapping, root_id, level, nodes, blocked, e) /\ Follows(c, e)
    BY <1>2, <1>8, <1>9, <1>10, <2>1, ThreadFacts, OnwardClaims DEF SmoInv, Reading
  <2> QED
    BY <1>1, <1>4, <2>2, SmoQuiet
<1>11. CASE ~Reading(c)
  BY <1>1, <1>4, <1>7, <1>8, <1>9, <1>11, FinishSmo
<1> QED
  BY <1>10, <1>11

LEMMA JumpToNodeIDSmo ==
  ASSUME StructInv, NEW level, NEW nodes, SmoInv(level, nodes), NEW t \in Threads, JumpToNodeID(t)
  PROVE  SmoInv(level, nodes)'
<1> DEFINE c == ctx[t]
           d == WithSnap(c, Snapshot(c.to))
<1>1. /\ c.pc = "jump" /\ UNCHANGED <<root_id, mapping, next_unused_node_id, released, blocked>>
      /\ Continue(t, FinishPartialSMO(d))
  BY DEF JumpToNodeID, WithSnap, shared
<1>2. /\ d \in ContextSet /\ Holds(mapping, next_unused_node_id, d) /\ Here(d)
      /\ d.pending = c.pending /\ d.cur = Snapshot(c.to) /\ d.key = c.key /\ d.pc = "jump"
  BY <1>1, JumpedContext
<1>3. /\ c \in ContextSet /\ Claims(mapping, root_id, level, nodes, blocked, c)
      /\ c.to \in InUse(next_unused_node_id) /\ c.to \in NodeIds
  BY <1>1, ThreadFacts, MaxIdType DEF SmoInv, Placed, LeadsTo, InUse, NodeIds
<1>4. d.par = c.par
  <2> DEFINE snap == Snapshot(c.to)
  <2>1. snap \in SnapSet
    <3>1. c.to \in UNSET .. MaxId /\ mapping[c.to] \in AnyNode
      BY <1>3, ThreadFacts, MaxIdType DEF InUse, NodeIds, UNSET
    <3> HIDE DEF c
    <3> QED
      BY <3>1 DEF SnapSet, Snapshot
  <2> HIDE DEF snap, c
  <2>2. WithSnap(c, snap).par = c.par
    BY <1>3, <2>1, WithSnapFields
  <2> QED
    BY <2>2 DEF snap, c
<1>5. d.cur.id = c.to /\ d.cur.node = mapping[c.to] /\ d.cur.fresh
  BY <1>2 DEF Snapshot
<1> HIDE DEF d
<1>6. InHand(mapping, next_unused_node_id, level, nodes, d)
  <2>1. NodeClaim(mapping, level, nodes, d)
    BY <1>3, <1>5, ThreadFacts, LoadedNode DEF SmoInv
  <2>2. ParentAt(mapping, level, nodes, c, c.to)
    BY <1>1, <1>3 DEF Claims, Target
  <2>3. ParentAt(mapping, level, nodes, d, d.cur.id)
    BY <1>2, <1>4, <1>5, <2>2 DEF ParentAt, HasParentNode, Handed
  <2>4. PendingClaim(mapping, d)
    BY <1>2, <1>3 DEF PendingClaim, Claims
  <2> QED
    BY <1>2, <2>1, <2>3, <2>4 DEF InHand
<1>7. CameFrom(c, d)
  BY <1>1, <1>2, <1>5 DEF CameFrom, Target
<1> QED
  BY <1>1, <1>5, <1>6, <1>7, FinishSmo

-----------------------------------------------------------------------------
(* The way to the left sibling.                                            *)

LEMMA LeftOfItem ==
  ASSUME NEW m, NEW next, NEW n, Sound(m, next, n), ~IsLeaf(n), NEW k \in Nat,
         Cardinality(LeftSeps(n, k)) >= 2
  PROVE  LET y == LeftOf(n, k) IN
         /\ y \in InUse(next) /\ Item(n, m[y].low, y) /\ m[y].low \in Nat
         /\ \E r \in Seps(n) : r \in Nat /\ r <= k /\ m[y].low < r
<1> DEFINE S == LeftSeps(n, k)
           T == S \ {Max(S)}
<1>1. Seps(n) \in SUBSET Nat /\ IsFiniteSet(Seps(n))
  BY IsNodeDef, NodeFacts DEF Sound, SoundItems
<1>2. S \in SUBSET Nat /\ IsFiniteSet(S) /\ S \in SUBSET Seps(n)
  <2>1. S \in SUBSET Seps(n)
    BY DEF LeftSeps
  <2> QED
    BY <1>1, <2>1, FS_Subset
<1>3. S # {}
  BY FS_EmptySet
<1>4. Max(S) \in S /\ \A y \in S : Max(S) >= y
  <2> HIDE DEF S
  <2> QED
    BY <1>2, <1>3, MaxIn
<1>5. T \in SUBSET Nat /\ IsFiniteSet(T) /\ T # {}
  <2>1. T \in SUBSET S /\ IsFiniteSet(T) /\ Cardinality(T) = Cardinality(S) - 1
    <3> HIDE DEF S
    <3> QED
      BY <1>2, <1>4, FS_RemoveElement
  <2>2. Cardinality(S) >= 2 /\ Cardinality(S) \in Nat
    BY <1>2, FS_CardinalityType
  <2>3. Cardinality(T) # 0
    <3> HIDE DEF S, T
    <3> QED
      BY <2>1, <2>2
  <2> QED
    BY <1>2, <2>1, <2>3, FS_EmptySet
<1>6. Max(T) \in T
  <2> HIDE DEF T
  <2> QED
    BY <1>5, MaxIn
<1>7. LeftOf(n, k) = n.items[Max(T)]
  BY DEF LeftOf
<1>8. Max(T) \in Seps(n) /\ Max(T) \in Nat /\ Max(T) < Max(S)
      /\ Max(S) \in Seps(n) /\ Max(S) \in Nat /\ Max(S) <= k
  <2>1. Max(T) \in S /\ Max(T) # Max(S)
    BY <1>6
  <2>2. Max(T) \in Nat /\ Max(S) \in Nat /\ Max(S) >= Max(T)
    BY <1>2, <1>4, <2>1
  <2>3. Max(S) <= k
    BY <1>4 DEF LeftSeps
  <2> QED
    BY <1>2, <1>4, <2>1, <2>2, <2>3
<1> HIDE DEF S, T
<1>9. StartsAt(m, next, n.items[Max(T)], Max(T))
  BY <1>8 DEF Sound, SoundChildren
<1> QED
  BY <1>7, <1>8, <1>9 DEF StartsAt, Item

\* Of two threads that have the same split-off and removed node in hand.
SharesParent(e, c) ==
  e.pc = "postInsert" /\ e.par.fresh /\ e.cur.node.other = c.cur.id =>
    /\ e.par.node = c.par.node /\ e.cur.node.sep = c.cur.node.low
    /\ e.cur.node.sep \notin Seps(e.par.node)

LEMMA JumpLeftFields ==
  ASSUME NEW m, NEW next, NEW c \in ContextSet, Holds(m, next, c), Here(c), HasParentNode(c),
         NEW d, d = JumpLeft(c)
  PROVE  \/ d = At(c, "undefined")
         \/ LET y == LeftOf(c.par.node, c.cur.node.low) IN
            /\ Cardinality(LeftSeps(c.par.node, c.cur.node.low)) >= 2
            /\ d.pc = "jump" /\ d.to = y /\ d.cur = c.cur /\ d.par = c.par
            /\ d.op = c.op /\ d.key = c.key
            /\ \A i \in 1 .. Len(d.pending) :
                 \/ d.pending[i] = <<c.cur.id, c.cur.node>>
                 \/ \E j \in 1 .. Len(c.pending) : d.pending[i] = c.pending[j]
<1> DEFINE n  == c.cur.node
           p  == c.par.node
           y == LeftOf(p, n.low)
           ps == <<<<c.cur.id, n>>>> \o c.pending
<1>1. /\ c.cur.id \in NodeIds /\ n \in AnyNode /\ n.low \in Nat /\ Sound(m, next, p)
  BY NodeFacts DEF Holds, Here, Taken, ContextSet, SnapSet
<1>2. CASE Cardinality(LeftSeps(p, n.low)) < 2
  BY <1>2 DEF JumpLeft
<1>3. CASE ~(Cardinality(LeftSeps(p, n.low)) < 2)
  <2>1. Cardinality(LeftSeps(p, n.low)) >= 2
    <3>1. IsFiniteSet(LeftSeps(p, n.low))
      <4>1. LeftSeps(p, n.low) \in SUBSET Seps(p) /\ IsFiniteSet(Seps(p))
        BY <1>1 DEF LeftSeps, Sound, SoundItems
      <4> QED
        BY <4>1, FS_Subset
    <3>2. Cardinality(LeftSeps(p, n.low)) \in Nat
      BY <3>1, FS_CardinalityType
    <3> QED
      BY <3>2, <1>3
  <2>2. \A i \in 1 .. Len(ps) : \/ ps[i] = <<c.cur.id, n>>
                                \/ \E j \in 1 .. Len(c.pending) : ps[i] = c.pending[j]
    <3> TAKE i \in 1 .. Len(ps)
    <3>1. Len(c.pending) \in Nat /\ Len(ps) = Len(c.pending) + 1
      BY DEF ContextSet
    <3>2. CASE i = 1
      BY <3>2 DEF ContextSet
    <3>3. CASE i # 1
      <4>1. i - 1 \in 1 .. Len(c.pending) /\ ps[i] = c.pending[i - 1]
        BY <3>1, <3>3 DEF ContextSet
      <4> QED
        BY <4>1
    <3> QED
      BY <3>2, <3>3
  <2>3. d = [c EXCEPT !.pc = "jump", !.to = y, !.pending = ps]
    BY <1>3 DEF JumpLeft
  <2> HIDE DEF ps, y
  <2>4. /\ d.pc = "jump" /\ d.to = y /\ d.cur = c.cur /\ d.par = c.par
        /\ d.op = c.op /\ d.key = c.key /\ d.pending = ps
    BY <2>3 DEF ContextSet
  <2> QED
    BY <2>1, <2>2, <2>4 DEF y
<1> QED
  BY <1>2, <1>3

LEMMA JumpLeftClaims ==
  ASSUME NEW m, NEW next, NEW root, TreeOK(m, next, root), NEW level, NEW nodes,
         NEW c, InHand(m, next, level, nodes, c), HasParentNode(c), m[c.cur.id] = c.cur.node,
         NEW d, d = JumpLeft(c), NEW blk
  PROVE  /\ Claims(m, root, level, nodes, blk, d) /\ d.pc \in {"jump", "undefined"}
         /\ \A e \in ContextSet :
              Inserts(m, e, c) /\ Target(c) = c.cur.id /\ SharesParent(e, c) => Inserts(m, e, d)
<1> DEFINE p == c.par.node
           k == c.cur.node.low
           y == LeftOf(p, k)
<1>1. /\ c \in ContextSet /\ Holds(m, next, c) /\ Here(c) /\ Sound(m, next, p) /\ ~IsLeaf(p)
      /\ k \in Nat /\ c.cur.id \in NodeIds /\ m[c.cur.id].low = k
  BY NodeFacts DEF InHand, Holds, Here, Taken, ContextSet, SnapSet
<1>2. CASE d = At(c, "undefined")
  <2>1. "undefined" \in PCs \ {"jump"} /\ "undefined" \notin Past \cup Locking
    BY DEF PCs, Past, Locking
  <2>2. d.pc = "undefined" /\ d.pending = c.pending /\ d.cur = c.cur
    BY <1>1, <1>2, <2>1, AtFields
  <2>3. PlaceClaim(m, root, level, nodes, blk, d)
    BY <2>1, <2>2 DEF PlaceClaim
  <2>4. Claims(m, root, level, nodes, blk, d)
    BY <1>2, <2>1, <2>3, AtClaims
  <2>5. ASSUME NEW e \in ContextSet, Inserts(m, e, c), Target(c) = c.cur.id
        PROVE  Inserts(m, e, d)
    BY <2>2, <2>5 DEF Inserts, Target
  <2> QED
    BY <2>2, <2>4, <2>5
<1>3. CASE /\ Cardinality(LeftSeps(p, k)) >= 2
           /\ d.pc = "jump" /\ d.to = y /\ d.cur = c.cur /\ d.par = c.par
           /\ d.op = c.op /\ d.key = c.key
           /\ \A i \in 1 .. Len(d.pending) :
                \/ d.pending[i] = <<c.cur.id, c.cur.node>>
                \/ \E j \in 1 .. Len(c.pending) : d.pending[i] = c.pending[j]
  <2> HIDE DEF p, k
  <2>1. /\ y \in InUse(next) /\ Item(p, m[y].low, y) /\ m[y].low \in Nat
        /\ \E r \in Seps(p) : r \in Nat /\ r <= k /\ m[y].low < r
    BY <1>1, <1>3, LeftOfItem
  <2> HIDE DEF y
  <2>2. PICK r \in Seps(p) : r \in Nat /\ r <= k /\ m[y].low < r
    BY <2>1
  <2>3. y \in NodeIds
    BY <2>1, MaxIdType DEF TreeOK, InUse, NodeIds
  <2>4. /\ Ranked(level, c.par.id, p) /\ p.type # "remove" /\ InRange(p, c.key)
        /\ Settled(m, nodes, c.par)
    BY DEF InHand, ParentAt, p
  <2>5. level[c.par.id] = level[y] + 1
    BY <1>1, <2>1, <2>4 DEF Ranked, Item
  <2>6. ParentAt(m, level, nodes, d, y)
    BY <1>3, <2>1, <2>3, <2>4, <2>5 DEF ParentAt, Handed, p
  <2>7. ParentAt(m, level, nodes, d, Target(d))
    BY <1>3, <2>6 DEF Target
  <2>8. NodeClaim(m, level, nodes, d)
    BY <1>3 DEF InHand, NodeClaim
  <2>9. PendingClaim(m, d)
    BY <1>3 DEF InHand, PendingClaim
  <2>10. PlaceClaim(m, root, level, nodes, blk, d)
    BY <1>3 DEF PlaceClaim, Past, Locking
  <2>11. ASSUME NEW e \in ContextSet, Inserts(m, e, c), Target(c) = c.cur.id, SharesParent(e, c)
         PROVE  Inserts(m, e, d)
    <3>1. SUFFICES ASSUME e.pc = "postInsert", e.par.fresh, NEW i \in 1 .. Len(d.pending),
                          d.pending[i][1] = e.cur.node.other
                   PROVE  \E s \in Seps(e.par.node) : m[y].low < s /\ s < e.cur.node.sep
      BY <1>3 DEF Inserts, Target
    <3>2. CASE d.pending[i] = <<c.cur.id, c.cur.node>>
      <4>1. e.par.node = p /\ e.cur.node.sep = k /\ k \notin Seps(p)
        BY <2>11, <3>1, <3>2 DEF SharesParent, p, k
      <4>2. r < k
        BY <1>1, <2>2, <4>1
      <4> QED
        BY <2>2, <4>1, <4>2
    <3>3. CASE \E j \in 1 .. Len(c.pending) : d.pending[i] = c.pending[j]
      <4>1. PICK s \in Seps(e.par.node) : k < s /\ s < e.cur.node.sep
        BY <1>1, <2>11, <3>1, <3>3 DEF Inserts
      <4>2. s \in Nat
        BY NodeFacts DEF ContextSet, SnapSet
      <4>3. m[y].low < s
        BY <1>1, <2>1, <2>2, <4>1, <4>2
      <4> QED
        BY <4>1, <4>3
    <3> QED
      BY <1>3, <3>2, <3>3
  <2> QED
    BY <1>3, <2>7, <2>8, <2>9, <2>10, <2>11 DEF Claims
<1> QED
  BY <1>1, <1>2, <1>3, JumpLeftFields

\* A thread with a node in hand.
LEMMA WorkInHand ==
  ASSUME StructInv, NEW level, NEW nodes, SmoInv(level, nodes), NEW t \in Threads,
         ctx[t].pc \in Working \ {"abortUndo"}
  PROVE  /\ InHand(mapping, next_unused_node_id, level, nodes, ctx[t])
         /\ CameFrom(ctx[t], ctx[t]) /\ Target(ctx[t]) = ctx[t].cur.id
         /\ Ready(ctx[t], ctx[t].pc) /\ ctx[t] \in ContextSet
         /\ PlaceClaim(mapping, root_id, level, nodes, blocked, ctx[t])
         /\ TreeOK(mapping, next_unused_node_id, root_id)
         /\ Coherent(mapping, next_unused_node_id, root_id, level, nodes)
<1>1. Target(ctx[t]) = ctx[t].cur.id
  BY DEF Target, Working
<1>2. ctx[t] \in ContextSet /\ Holds(mapping, next_unused_node_id, ctx[t])
      /\ Here(ctx[t]) /\ Ready(ctx[t], ctx[t].pc) /\ TreeOK(mapping, next_unused_node_id, root_id)
  BY ThreadFacts, AtWork
<1>3. Claims(mapping, root_id, level, nodes, blocked, ctx[t])
      /\ Coherent(mapping, next_unused_node_id, root_id, level, nodes)
  BY DEF SmoInv
<1> QED
  BY <1>1, <1>2, <1>3 DEF Claims, InHand, CameFrom

\* A fresh parent is in the table, one level up, where the node is.
LEMMA FreshParent ==
  ASSUME NEW m, NEW next, NEW root, TreeOK(m, next, root),
         NEW level, NEW nodes, Coherent(m, next, root, level, nodes),
         NEW c, InHand(m, next, level, nodes, c), HasParentNode(c), c.par.fresh
  PROVE  /\ c.par.id \in nodes /\ m[c.par.id] = c.par.node /\ c.par.id \in InUse(next)
         /\ c.cur.id \in InUse(next) /\ Under(level, c.cur.id, c.par.id)
         /\ CoversAt(m, c.par.id, c.cur.node.low) /\ c.cur.node.low = m[c.cur.id].low
         /\ ~IsLeaf(c.par.node) /\ c.par.node.type # "remove" /\ c.cur.node.low \in Nat
         /\ c.par.id # c.cur.id
<1>1. /\ Taken(m, next, c.par.id, c.par.node) /\ ~IsLeaf(c.par.node)
      /\ Taken(m, next, c.cur.id, c.cur.node)
      /\ c.par.node.low <= c.cur.node.low /\ c.cur.node.low <= c.key
  BY DEF InHand, Holds, Here
<1>2. /\ c.par.node.type # "remove" /\ InRange(c.par.node, c.key)
      /\ m[c.par.id] = c.par.node /\ Under(level, c.cur.id, c.par.id)
  BY DEF InHand, ParentAt, Settled, Under
<1>3. c.par.id \in InUse(next) /\ c.cur.id \in InUse(next) /\ c.cur.node.low = m[c.cur.id].low
  BY <1>1 DEF Taken, Kin
<1>4. c.par.id \in nodes
  BY <1>2, <1>3, CoherentFacts
<1>5. c.cur.node.low \in Nat /\ c.par.node.low \in Nat /\ c.par.node.high[1] \in Nat /\ c.key \in Nat
  BY <1>2, <1>3, TableNode DEF InHand, ContextSet
<1>6. Covers(c.par.node, c.cur.node.low)
  BY <1>1, <1>2, <1>5 DEF Covers, InRange
<1>7. c.par.id # c.cur.id
  <2>1. level[c.cur.id] \in Nat
    BY <1>3, CoherentFacts
  <2> QED
    BY <1>2, <2>1 DEF Under
<1> QED
  BY <1>1, <1>2, <1>3, <1>4, <1>5, <1>6, <1>7 DEF CoversAt

\* A thread that goes on from a finished node.
LEMMA SmoOnward ==
  ASSUME StructInv, NEW level, NEW nodes, SmoInv(level, nodes), NEW t \in Threads,
         NEW c, InHand(mapping, next_unused_node_id, level, nodes, c),
         Finished(mapping, nodes, c), CameFrom(ctx[t], c),
         NEW d, OutcomeIn(Onward, c, d), Continue(t, d),
         UNCHANGED <<root_id, mapping, next_unused_node_id, released, blocked>>
  PROVE  SmoInv(level, nodes)'
<1>1. Claims(mapping, root_id, level, nodes, blocked, d) /\ Follows(ctx[t], d)
  BY ThreadFacts, OnwardClaims DEF SmoInv
<1> QED
  BY <1>1, SmoQuiet

\* Where the topmost delta is finished.
LEMMA PastFinished ==
  ASSUME NEW m, NEW root, NEW level, NEW nodes, NEW blk, NEW c,
         PlaceClaim(m, root, level, nodes, blk, c), c.pc \in Past, Ready(c, c.pc)
  PROVE  Finished(m, nodes, c)
<1>1. c.pc \notin {"removeCheck", "parentConsolidate"}
  BY DEF Past
<1>2. c.cur.node.type # "remove"
  BY <1>1 DEF Ready
<1> QED
  BY <1>2 DEF Finished, PlaceClaim

LEMMA ProbeSplitChildSmo ==
  ASSUME StructInv, NEW level, NEW nodes, SmoInv(level, nodes), NEW t \in Threads,
         ProbeSplitChild(t)
  PROVE  SmoInv(level, nodes)'
<1> DEFINE c == ctx[t]
           child == c.cur.node.items[SplitKey(c.cur.node)]
           d == IF MaySplitAt(child) THEN At(c, "split") ELSE Loaded(c)
<1>1. /\ c.pc = "probe" /\ Continue(t, d)
      /\ UNCHANGED <<root_id, mapping, next_unused_node_id, released, blocked>>
  BY DEF ProbeSplitChild, shared
<1>2. c.pc \in Working \ {"abortUndo"} /\ c.pc \in Past
  BY <1>1 DEF Working, Past
<1>3. /\ InHand(mapping, next_unused_node_id, level, nodes, c) /\ CameFrom(c, c)
      /\ Ready(c, "probe") /\ c \in ContextSet
      /\ PlaceClaim(mapping, root_id, level, nodes, blocked, c)
  BY <1>1, <1>2, WorkInHand
<1>4. Finished(mapping, nodes, c)
  BY <1>1, <1>2, <1>3, PastFinished
<1>5. OutcomeIn(Onward, c, At(c, "split"))
  BY <1>3 DEF Ready, OutcomeIn, Onward
<1>6. OutcomeIn(Onward, c, Loaded(c))
  BY <1>3, <1>4, LoadedOutcome DEF Finished
<1>7. OutcomeIn(Onward, c, d)
  BY <1>5, <1>6
<1> QED
  BY <1>1, <1>3, <1>4, <1>7, SmoOnward

LEMMA CheckMergeSmo ==
  ASSUME StructInv, NEW level, NEW nodes, SmoInv(level, nodes), NEW t \in Threads, CheckMerge(t)
  PROVE  SmoInv(level, nodes)'
<1> DEFINE c == ctx[t]
<1>1. /\ c.pc = "mergeCheck"
      /\ UNCHANGED <<root_id, mapping, next_unused_node_id, released, blocked>>
      /\ \/ Continue(t, Abort(c))
         \/ Current(c.par) /\ Found(c.par.node, c.cur.node.sep) /\ Continue(t, At(c, "postDelete"))
         \/ /\ Current(c.par) /\ ~Found(c.par.node, c.cur.node.sep)
            /\ Continue(t, TryConsolidateNode(c))
  BY DEF CheckMerge, shared, ParentKnown
<1>2. c.pc \in Working \ {"abortUndo"}
  BY <1>1 DEF Working
<1>3. /\ InHand(mapping, next_unused_node_id, level, nodes, c) /\ CameFrom(c, c)
      /\ Ready(c, "mergeCheck") /\ c \in ContextSet
      /\ PlaceClaim(mapping, root_id, level, nodes, blocked, c)
      /\ TreeOK(mapping, next_unused_node_id, root_id)
      /\ Coherent(mapping, next_unused_node_id, root_id, level, nodes)
  BY <1>1, <1>2, WorkInHand
<1>4. CASE Continue(t, Abort(c))
  BY <1>1, <1>4, SmoAbort
<1>5. CASE Continue(t, At(c, "postDelete"))
  <2>1. "postDelete" \in PCs \ {"jump"} /\ "postDelete" \notin Past \cup Locking
    BY DEF PCs, Past, Locking
  <2>2. LET d == At(c, "postDelete") IN
        d.pc = "postDelete" /\ d.cur = c.cur /\ d.par = c.par
    BY <1>3, <2>1, AtFields
  <2>3. NextClaim(mapping, nodes, c)
    BY <1>1, <1>3 DEF PlaceClaim
  <2>4. NextClaim(mapping, nodes, At(c, "postDelete"))
    BY <2>2, <2>3 DEF NextClaim, HasParentNode, Handed
  <2>5. c.par.fresh /\ c.cur.node.sep \in Seps(c.par.node) =>
          c.par.node.items[c.cur.node.sep] = c.cur.node.other
    BY <1>1, <1>3 DEF PlaceClaim
  <2> HIDE DEF c
  <2>6. PlaceClaim(mapping, root_id, level, nodes, blocked, At(c, "postDelete"))
    BY <2>1, <2>2, <2>4, <2>5 DEF PlaceClaim
  <2>7. /\ Claims(mapping, root_id, level, nodes, blocked, At(c, "postDelete"))
        /\ Follows(c, At(c, "postDelete"))
    BY <1>3, <2>1, <2>6, AtClaims
  <2> QED
    BY <1>1, <1>5, <2>7, SmoQuiet DEF c
<1>6. CASE /\ Current(c.par) /\ ~Found(c.par.node, c.cur.node.sep)
           /\ Continue(t, TryConsolidateNode(c))
  <2> DEFINE i == c.cur.id
             p == c.par.id
             s == c.cur.node.sep
             x == c.cur.node.other
  <2>1. c.par.fresh /\ HasParentNode(c) /\ c.cur.node.type = "merge"
    BY <1>3, <1>6 DEF Current, Ready
  <2>2. /\ p \in nodes /\ mapping[p] = c.par.node /\ i \in InUse(next_unused_node_id)
        /\ Under(level, i, p) /\ CoversAt(mapping, p, mapping[i].low)
    BY <1>3, <2>1, FreshParent
  <2>3. Settled(mapping, nodes, c.cur)
    <3>1. SUFFICES ASSUME c.cur.fresh
                   PROVE  c.cur.node = mapping[i] /\ ~Posted(mapping, nodes, s, x)
      BY DEF Settled
    <3>2. c.cur.node = mapping[i]
      BY <1>1, <1>3, <3>1 DEF InHand, Here, NodeClaim
    <3>3. MergesAt(mapping, i, s, x) /\ ~Found(mapping[p], s)
      BY <1>6, <2>1, <2>2, <3>2 DEF MergesAt
    <3>4. i \in nodes
      BY <1>3, <2>1, <2>2, <3>2, CoherentFacts
    <3> HIDE DEF i, p, s, x
    <3> QED
      BY <1>3, <2>2, <3>2, <3>3, <3>4, MergeUnposted DEF i
  <2>4. Finished(mapping, nodes, c)
    BY <1>1, <1>3, <2>1, <2>3 DEF Finished, PlaceClaim
  <2>5. OutcomeIn(Onward, c, TryConsolidateNode(c))
    BY <1>3, <2>1, TryConsolidateNodeOutcome
  <2> QED
    BY <1>1, <1>3, <1>6, <2>4, <2>5, SmoOnward
<1> QED
  BY <1>1, <1>4, <1>5, <1>6

LEMMA PostAbortOnParentSmo ==
  ASSUME StructInv, NEW level, NEW nodes, SmoInv(level, nodes), NEW t \in Threads,
         PostAbortOnParent(t)
  PROVE  SmoInv(level, nodes)'
<1> DEFINE c == ctx[t]
           d == At(c, "removePost")
<1>1. /\ c.pc = "abortPost" /\ UNCHANGED <<root_id, mapping, next_unused_node_id, released>>
      /\ \/ Current(c.par) /\ blocked' = blocked \cup {c.par.id} /\ Continue(t, d)
         \/ UNCHANGED blocked /\ Continue(t, Abort(c))
  BY DEF PostAbortOnParent
<1>2. c.pc \in Working \ {"abortUndo"} /\ c.pc \in Past
  BY <1>1 DEF Working, Past
<1>3. /\ InHand(mapping, next_unused_node_id, level, nodes, c) /\ CameFrom(c, c)
      /\ c \in ContextSet /\ PlaceClaim(mapping, root_id, level, nodes, blocked, c)
  BY <1>1, <1>2, WorkInHand
<1>4. CASE UNCHANGED blocked /\ Continue(t, Abort(c))
  BY <1>1, <1>4, SmoAbort
<1>5. CASE Current(c.par) /\ blocked' = blocked \cup {c.par.id} /\ Continue(t, d)
  <2>1. "removePost" \in PCs \ {"jump"} /\ "removePost" \in Past /\ "removePost" \in Locking
    BY DEF PCs, Past, Locking
  <2>2. d.pc = "removePost" /\ d.cur = c.cur /\ d.par = c.par
    BY <1>3, <2>1, AtFields
  <2>3. NextClaim(mapping, nodes, d) /\ Settled(mapping, nodes, d.cur)
    BY <1>2, <1>3, <2>2 DEF PlaceClaim, NextClaim, HasParentNode, Handed
  <2>4. c.par.fresh /\ c.par.id \notin blocked /\ c.par.id \in blocked'
    BY <1>5 DEF Current
  <2>5. PlaceClaim(mapping, root_id, level, nodes, blocked', d)
    <3> HIDE DEF c, d
    <3> QED
      BY <2>1, <2>2, <2>3, <2>4 DEF PlaceClaim
  <2>6. Claims(mapping, root_id, level, nodes, blocked', d) /\ Trails(c, d)
    BY <1>3, <2>1, <2>5, AtClaims
  <2>7. ASSUME NEW u \in Threads \ {t}
        PROVE  /\ Locks(d, ctx[u]) /\ Locks(ctx[u], d)
               /\ Inserts(mapping, d, ctx[u]) /\ Inserts(mapping, ctx[u], d)
    <3>1. /\ ContextOK(mapping, next_unused_node_id, c)
          /\ ParentAt(mapping, level, nodes, c, Target(c))
          /\ Inserts(mapping, ctx[u], c) /\ ctx[u] \in ContextSet
          /\ ctx[u].pc \in Locking => ctx[u].par.id \in blocked
      BY <2>7, ThreadFacts DEF SmoInv, Claims, StructInv, PlaceClaim
    <3>2. Stale(ctx[u], ctx[u], {})
          /\ Tame(mapping, next_unused_node_id, level, nodes, mapping, level, nodes)
      BY <3>1, StaleSelf, TameSame
    <3>3. Inserts(mapping, ctx[u], d)
      BY <2>6, <3>1, <3>2, TrailsInserts
    <3>4. Inserts(mapping, d, ctx[u])
      BY <2>2 DEF Inserts
    <3> QED
      BY <2>2, <2>4, <3>1, <3>3, <3>4 DEF Locks
  <2>8. \A u \in Threads \ {t} : ctx[u].pc \in Locking => ctx[u].par.id \in blocked'
    BY <1>5 DEF SmoInv, Claims, PlaceClaim
  <2> QED
    BY <1>1, <1>5, <2>6, <2>7, <2>8, SmoLocal
<1> QED
  BY <1>1, <1>4, <1>5

LEMMA RemoveAbortOnParentSmo ==
  ASSUME StructInv, NEW level, NEW nodes, SmoInv(level, nodes), NEW t \in Threads,
         RemoveAbortOnParent(t)
  PROVE  SmoInv(level, nodes)'
<1> DEFINE c == ctx[t]
           d == Abort(c)
<1>1. /\ c.pc = "abortUndo" /\ UNCHANGED <<root_id, mapping, next_unused_node_id, released>>
      /\ blocked' = blocked \ {c.par.id} /\ Continue(t, d)
  BY DEF RemoveAbortOnParent
<1>2. c \in ContextSet
  BY ThreadFacts
<1>3. /\ Claims(mapping, root_id, level, nodes, blocked', d) /\ Follows(c, d)
  BY <1>2, AbortPlain, PlainClaims, PlainFollows
<1>4. ASSUME NEW u \in Threads \ {t}
      PROVE  /\ Locks(d, ctx[u]) /\ Locks(ctx[u], d)
             /\ Inserts(mapping, d, ctx[u]) /\ Inserts(mapping, ctx[u], d)
             /\ ctx[u].pc \in Locking => ctx[u].par.id \in blocked'
  <2>1. /\ ContextOK(mapping, next_unused_node_id, c)
        /\ ParentAt(mapping, level, nodes, c, Target(c))
        /\ Inserts(mapping, ctx[u], c) /\ ctx[u] \in ContextSet
        /\ ctx[u].pc \in Locking => ctx[u].par.id \in blocked
        /\ Locks(c, ctx[u])
    BY <1>4, ThreadFacts DEF SmoInv, Claims, StructInv, PlaceClaim
  <2>2. Stale(ctx[u], ctx[u], {})
        /\ Tame(mapping, next_unused_node_id, level, nodes, mapping, level, nodes)
    BY <2>1, StaleSelf, TameSame
  <2>3. ctx[u].pc \in Locking => ctx[u].par.id \in blocked'
    BY <1>1, <2>1 DEF Locks, Locking
  <2> QED
    BY <1>3, <2>1, <2>2, <2>3, QuietPairs
<1> QED
  BY <1>1, <1>3, <1>4, SmoLocal

\* Two threads below the same split-off node have the same parent.
LEMMA SameParent ==
  ASSUME NEW m, NEW next, NEW root, TreeOK(m, next, root),
         NEW level, NEW nodes, Coherent(m, next, root, level, nodes),
         NEW e, InHand(m, next, level, nodes, e), HasParentNode(e), e.par.fresh,
         e.cur.node.type = "split", InRange(e.par.node, e.cur.node.sep),
         ~Found(e.par.node, e.cur.node.sep),
         NEW c, InHand(m, next, level, nodes, c), HasParentNode(c), c.par.fresh,
         e.cur.node.other = c.cur.id
  PROVE  /\ e.par.id = c.par.id /\ e.par.node = c.par.node
         /\ e.cur.node.sep = c.cur.node.low /\ e.cur.node.sep \notin Seps(e.par.node)
<1> DEFINE n == e.cur.node
           x == n.other
           s == n.sep
           p == e.par.id
           q == c.par.id
<1>1. /\ p \in nodes /\ m[p] = e.par.node /\ Under(level, e.cur.id, p)
      /\ q \in nodes /\ m[q] = c.par.node /\ Under(level, x, q)
      /\ CoversAt(m, q, c.cur.node.low) /\ c.cur.node.low = m[x].low /\ p \in InUse(next)
  BY FreshParent
<1>2. Sound(m, next, n) /\ Ranked(level, e.cur.id, n) /\ e.par.node.low <= n.low
  BY DEF InHand, Here, Holds, NodeClaim, Taken
<1>3. GetNextNodeID(n) = x /\ GetNextNodeID(n) # INVALID_NODE_ID /\ n.high[1] = s
  BY <1>2 DEF Sound, SoundDelta, GetNextNodeID
<1>4. m[x].low = s /\ n.low < s /\ s \in Nat /\ level[x] = level[e.cur.id]
  BY <1>2, <1>3, NextBeside
<1>5. n.low \in Nat /\ m[p].low \in Nat /\ m[p].high[1] \in Nat
  BY <1>1, <1>2, CoversLow, TableNode
<1>6. CoversAt(m, p, s) /\ m[p].low < s
  BY <1>1, <1>2, <1>4, <1>5 DEF CoversAt, Covers
<1>7. s \notin Seps(m[p])
  BY <1>1, <1>4, <1>5, <1>6 DEF Found
<1>8. Under(level, x, p)
  BY <1>1, <1>4 DEF Under
<1>9. CoversAt(m, q, s) /\ s = c.cur.node.low
  BY <1>1, <1>4
<1>10. level[p] = level[q]
  BY <1>1, <1>8, SameRank
<1>11. p = q
  <2> HIDE DEF p, q, s
  <2> QED
    BY <1>1, <1>4, <1>6, <1>9, <1>10, OneCovers, CoherentFacts DEF CoversAt
<1> QED
  BY <1>1, <1>7, <1>9, <1>11

LEMMA PairParent ==
  ASSUME StructInv, NEW level, NEW nodes, SmoInv(level, nodes), NEW t \in Threads,
         ctx[t].pc \in {"removeCheck", "parentConsolidate"}, NEW u \in Threads \ {t}
  PROVE  /\ ctx[t].par.fresh \/ ctx[t].pc = "parentConsolidate" => SharesParent(ctx[u], ctx[t])
         /\ ctx[t].par.fresh /\ ctx[u].pc = "postInsert" /\ ctx[u].par.fresh
              /\ ctx[u].cur.node.other = ctx[t].cur.id => ctx[u].par.id = ctx[t].par.id
<1> DEFINE c == ctx[t]
           e == ctx[u]
<1>1. SUFFICES ASSUME e.pc = "postInsert", e.par.fresh, e.cur.node.other = c.cur.id,
                      c.par.fresh \/ c.pc = "parentConsolidate"
               PROVE  /\ e.par.id = c.par.id /\ e.par.node = c.par.node
                      /\ e.cur.node.sep = c.cur.node.low
                      /\ e.cur.node.sep \notin Seps(e.par.node)
  BY DEF SharesParent
<1>2. c.par.fresh
  BY <1>1 DEF SmoInv, Inserts
<1>3. c.pc \in Working \ {"abortUndo"} /\ e.pc \in Working \ {"abortUndo"} /\ u \in Threads
  BY <1>1 DEF Working
<1>4. /\ InHand(mapping, next_unused_node_id, level, nodes, c) /\ Ready(c, c.pc)
      /\ InHand(mapping, next_unused_node_id, level, nodes, e) /\ Ready(e, e.pc)
      /\ TreeOK(mapping, next_unused_node_id, root_id)
      /\ Coherent(mapping, next_unused_node_id, root_id, level, nodes)
  BY <1>3, WorkInHand
<1>5. /\ HasParentNode(c) /\ HasParentNode(e) /\ e.cur.node.type = "split"
      /\ InRange(e.par.node, e.cur.node.sep) /\ ~Found(e.par.node, e.cur.node.sep)
  BY <1>1, <1>4 DEF Ready
<1> HIDE DEF c, e
<1> QED
  BY <1>1, <1>2, <1>4, <1>5, SameParent

\* A step of t that changes no node and locks nothing.
LEMMA SmoUnlocked ==
  ASSUME StructInv, NEW level, NEW nodes, SmoInv(level, nodes), NEW t \in Threads,
         NEW d, Continue(t, d),
         UNCHANGED <<root_id, mapping, next_unused_node_id, released, blocked>>,
         Claims(mapping, root_id, level, nodes, blocked, d), d.pc \notin Locking \cup {"postInsert"},
         \A u \in Threads \ {t} : Inserts(mapping, ctx[u], d)
  PROVE  SmoInv(level, nodes)'
<1>1. \A u \in Threads \ {t} :
        /\ Locks(d, ctx[u]) /\ Locks(ctx[u], d)
        /\ Inserts(mapping, d, ctx[u]) /\ Inserts(mapping, ctx[u], d)
  BY DEF Locks, Inserts
<1>2. \A u \in Threads \ {t} : ctx[u].pc \in Locking => ctx[u].par.id \in blocked'
  BY DEF SmoInv, Claims, PlaceClaim
<1> QED
  BY <1>1, <1>2, SmoLocal

LEMMA JumpToLeftSiblingSmo ==
  ASSUME StructInv, NEW level, NEW nodes, SmoInv(level, nodes), NEW t \in Threads,
         JumpToLeftSibling(t)
  PROVE  SmoInv(level, nodes)'
<1> DEFINE c == ctx[t]
<1>1. /\ c.pc = "removeCheck"
      /\ UNCHANGED <<root_id, mapping, next_unused_node_id, released, blocked>>
      /\ \/ Continue(t, Abort(c))
         \/ Current(c.par) /\ Continue(t, At(c, "parentConsolidate"))
         \/ Current(c.par) /\ Continue(t, JumpLeft(c))
  BY DEF JumpToLeftSibling, shared
<1>2. c.pc \in Working \ {"abortUndo"}
  BY <1>1 DEF Working
<1>3. /\ InHand(mapping, next_unused_node_id, level, nodes, c) /\ HasParentNode(c)
      /\ c \in ContextSet /\ mapping[c.cur.id] = c.cur.node /\ Target(c) = c.cur.id
      /\ TreeOK(mapping, next_unused_node_id, root_id)
  BY <1>1, <1>2, WorkInHand DEF Ready, PlaceClaim
<1>4. CASE Continue(t, Abort(c))
  BY <1>1, <1>4, SmoAbort
<1>5. ASSUME Current(c.par), NEW u \in Threads \ {t}
      PROVE  /\ ctx[u] \in ContextSet /\ Inserts(mapping, ctx[u], c) /\ SharesParent(ctx[u], c)
             /\ ctx[u].pc = "postInsert" /\ ctx[u].par.fresh
                  /\ ctx[u].cur.node.other = c.cur.id => ctx[u].par.id = c.par.id
  BY <1>1, <1>5, PairParent, ThreadFacts DEF Current, SmoInv
<1>6. CASE Current(c.par) /\ Continue(t, At(c, "parentConsolidate"))
  <2> DEFINE d == At(c, "parentConsolidate")
  <2>1. /\ "parentConsolidate" \in PCs \ {"jump"}
        /\ "parentConsolidate" \notin Past \cup Locking \cup {"postInsert"}
    BY DEF PCs, Past, Locking
  <2>2. d.pc = "parentConsolidate" /\ d.cur = c.cur /\ d.par = c.par /\ d.pending = c.pending
    BY <1>3, <2>1, AtFields
  <2>3. PlaceClaim(mapping, root_id, level, nodes, blocked, d)
    BY <1>3, <2>1, <2>2 DEF PlaceClaim
  <2>4. Claims(mapping, root_id, level, nodes, blocked, d)
    BY <1>3, <2>1, <2>3, AtClaims
  <2>5. \A u \in Threads \ {t} : Inserts(mapping, ctx[u], d)
    BY <1>3, <1>5, <1>6, <2>2 DEF Inserts, Current, Target
  <2> QED
    BY <1>1, <1>6, <2>1, <2>2, <2>4, <2>5, SmoUnlocked
<1>7. CASE Current(c.par) /\ Continue(t, JumpLeft(c))
  <2> DEFINE d == JumpLeft(c)
  <2>1. /\ Claims(mapping, root_id, level, nodes, blocked, d) /\ d.pc \in {"jump", "undefined"}
        /\ \A e \in ContextSet : Inserts(mapping, e, c) /\ Target(c) = c.cur.id
                                   /\ SharesParent(e, c) => Inserts(mapping, e, d)
    BY <1>3, JumpLeftClaims
  <2>2. \A u \in Threads \ {t} : Inserts(mapping, ctx[u], d)
    BY <1>3, <1>5, <1>7, <2>1
  <2>3. d.pc \notin Locking \cup {"postInsert"}
    BY <2>1 DEF Locking
  <2> QED
    BY <1>1, <1>7, <2>1, <2>2, <2>3, SmoUnlocked
<1> QED
  BY <1>1, <1>4, <1>6, <1>7

-----------------------------------------------------------------------------
(* Changes of the parent.                                                  *)

\* The same items and range.
LEMMA ReplacesSame ==
  ASSUME NEW m, NEW level, NEW nodes, NEW id, NEW n, Kin(m[id], n), n.high = m[id].high,
         n.items = m[id].items, n.type \in {"base", "delta", "remove"}, m[id].type # "remove",
         m[id].type = "merge" => ~Posted(m, nodes, m[id].sep, m[id].other)
  PROVE  Replaces(m, level, nodes, id, n)
<1>1. Seps(n) = Seps(m[id]) /\ n.low = m[id].low
  BY DEF Kin, Seps
<1> QED
  BY <1>1 DEF Replaces, Item

Put(m, id, n) == [m EXCEPT ![id] = n]

LEMMA HoldsGrows ==
  ASSUME NEW m, NEW next, NEW m2, NEW next2, Grows(m, next, m2, next2), NEW c, Holds(m, next, c)
  PROVE  Holds(m2, next2, c)
BY TakenGrows DEF Holds

\* What is left of the claims of the thread that replaces its parent.
LEMMA ParentReplaced ==
  ASSUME StructInv, NEW level, NEW nodes, SmoInv(level, nodes), NEW t \in Threads,
         NEW c, c = ctx[t], c.pc \in Working \ {"abortUndo"}, HasParentNode(c), Current(c.par),
         NEW n, Sound(mapping, next_unused_node_id, n), n.type \in {"base", "delta"},
         Replaces(mapping, level, nodes, c.par.id, n),
         Item(c.par.node, c.cur.node.low, c.cur.id) => Item(n, c.cur.node.low, c.cur.id),
         NEW m2, m2 = Put(mapping, c.par.id, n), NEW d, d = WithPar(c, n)
  PROVE  /\ c.par.id \in nodes /\ c.par.id \notin blocked
         /\ m2[c.par.id] = n /\ Sound(m2, next_unused_node_id, n)
         /\ \A i \in InUse(next_unused_node_id) \ {c.par.id} : m2[i] = mapping[i]
         /\ TreeOK(m2, next_unused_node_id, root_id)
         /\ Coherent(m2, next_unused_node_id, root_id, level, nodes)
         /\ Tame(mapping, next_unused_node_id, level, nodes, m2, level, nodes)
         /\ InHand(m2, next_unused_node_id, level, nodes, d)
         /\ d.pc = c.pc /\ d.cur = c.cur /\ d.pending = c.pending
         /\ d.par.id = c.par.id /\ d.par.node = n /\ HasParentNode(d)
         /\ c.par.id # c.cur.id
         /\ m2[c.cur.id] = mapping[c.cur.id]
<1> DEFINE p == c.par.id
           next == next_unused_node_id
<1>1. /\ InHand(mapping, next, level, nodes, c)
      /\ TreeOK(mapping, next, root_id) /\ Coherent(mapping, next, root_id, level, nodes)
      /\ c \in ContextSet /\ Holds(mapping, next, c) /\ Here(c) /\ c.par.fresh /\ p \notin blocked
  BY WorkInHand DEF InHand, Current
<1>2. /\ p \in nodes /\ mapping[p] = c.par.node /\ p \in InUse(next) /\ c.cur.id \in InUse(next)
      /\ c.cur.node.low = mapping[c.cur.id].low /\ p # c.cur.id
  BY <1>1, FreshParent
<1>3. Kin(mapping[p], n) /\ n.high = c.par.node.high
  BY <1>2 DEF Replaces
<1>4. TreeOK(m2, next, root_id) /\ Grows(mapping, next, m2, next)
  BY <1>1, <1>2, <1>3, InstallTreeOK DEF Put
<1>5. m2[p] = n /\ \A i \in InUse(next) \ {p} : m2[i] = mapping[i]
  BY <1>1, <1>2, MaxIdType DEF TreeOK, InUse, NodeIds, Put
<1>6. Sound(m2, next, n)
  BY <1>2, <1>4, <1>5 DEF TreeOK
<1>7. m2[p].type # "remove" /\ Replaces(mapping, level, nodes, p, m2[p])
      /\ Sound(m2, next, m2[p])
  BY <1>5, <1>6
<1>8. /\ Coherent(m2, next, root_id, level, nodes)
      /\ Tame(mapping, next, level, nodes, m2, level, nodes)
      /\ \A u \in Threads : \A f : Stale(ctx[u], f, {p}) =>
           Claims(m2, root_id, level, nodes, blocked, f)
  <2> HIDE DEF p
  <2> QED
    BY <1>1, <1>2, <1>5, <1>7, ReplaceKeeps
<1>9. /\ n \in AnyNode /\ d \in ContextSet /\ Holds(mapping, next, d) /\ Here(d) /\ HasParentNode(d)
  BY <1>1, <1>2, <1>3, WithParOK
<1>10. /\ d.par.id = p /\ d.par.node = n /\ d.pc = c.pc /\ d.op = c.op /\ d.key = c.key
       /\ d.cur = c.cur /\ d.pending = c.pending
  BY <1>1, <1>9, WithParFields
<1>11. Holds(m2, next, d)
  BY <1>4, <1>9, HoldsGrows
<1>12. NodeClaim(m2, level, nodes, d) /\ PendingClaim(m2, d)
  <2> DEFINE f == Outdated(c, p)
  <2>1. Stale(c, f, {p}) /\ SameView(c, f) /\ f.cur.fresh = c.cur.fresh
    <3>1. Stale(c, f, {p}) /\ SameView(c, f) /\ f.cur.fresh = (c.cur.fresh /\ c.cur.id # p)
      BY <1>1, OutdatedStale, OutdatedFields
    <3>2. c.cur.fresh \in BOOLEAN
      BY <1>1 DEF ContextSet, SnapSet
    <3> HIDE DEF f, p
    <3> QED
      BY <1>2, <3>1, <3>2
  <2>2. Claims(m2, root_id, level, nodes, blocked, f)
    BY <1>8, <2>1
  <2> HIDE DEF f
  <2> QED
    BY <1>10, <2>1, <2>2 DEF Claims, NodeClaim, PendingClaim, SameView
<1>13. ParentAt(m2, level, nodes, d, c.cur.id)
  <2>1. /\ InRange(c.par.node, c.key) /\ c.cur.id \in NodeIds
        /\ level[p] = level[c.cur.id] + 1 /\ Handed(mapping, nodes, c, c.cur.id)
    BY <1>1, HasParentNode(c) DEF InHand, ParentAt
  <2>2. Ranked(level, p, n)
    <3>1. Ranked(level, p, m2[p])
      <4> HIDE DEF p
      <4> QED
        BY <1>2, <1>4, <1>8, CoherentFacts
    <3> QED
      BY <1>5, <3>1
  <2>3. InRange(n, c.key)
    <3>1. n.high = c.par.node.high
      BY <1>3
    <3> QED
      BY <2>1, <3>1 DEF InRange, GetNextNodeID
  <2>4. Settled(m2, nodes, d.par) /\ n.type # "remove"
    BY <1>5, <1>10 DEF Settled
  <2>5. Handed(m2, nodes, d, c.cur.id)
    <3>1. Item(c.par.node, c.cur.node.low, c.cur.id) \/ ~SplitOff(mapping, nodes, c.cur.id)
      BY <1>1, <1>2, <2>1 DEF Handed
    <3>2. Item(n, c.cur.node.low, c.cur.id) \/ ~SplitOff(m2, nodes, c.cur.id)
      BY <1>2, <1>8, <3>1 DEF Tame
    <3>3. m2[c.cur.id].low = c.cur.node.low
      BY <1>2, <1>5
    <3> QED
      BY <1>10, <3>2, <3>3 DEF Handed
  <2> QED
    BY <1>10, <2>1, <2>2, <2>3, <2>4, <2>5 DEF ParentAt
<1>14. InHand(m2, next, level, nodes, d)
  BY <1>1, <1>9, <1>10, <1>11, <1>12, <1>13 DEF InHand
<1> QED
  BY <1>1, <1>2, <1>4, <1>5, <1>6, <1>8, <1>9, <1>10, <1>14

\* Where another thread goes on after the replacement of a node.
LEMMA OthersStale ==
  ASSUME StructInv, NEW t \in Threads, NEW id, NEW n, NEW d, Install(t, id, n, d)
  PROVE  /\ ctx'[t] = d /\ mapping' = [mapping EXCEPT ![id] = n]
         /\ \A u \in Threads \ {t} :
              /\ ctx'[u] = Outdated(ctx[u], id) /\ Stale(ctx[u], ctx'[u], {id})
              /\ ctx'[u] \in ContextSet
<1>1. /\ ctx'[t] = d /\ mapping' = [mapping EXCEPT ![id] = n]
      /\ \A u \in Threads \ {t} : ctx'[u] = Outdated(ctx[u], id)
  BY DEF Install
<1> QED
  BY <1>1, ThreadFacts, OutdatedStale, OutdatedFields

LEMMA ConsolidateParentSmo ==
  ASSUME StructInv, NEW level, NEW nodes, SmoInv(level, nodes), NEW t \in Threads,
         ConsolidateParent(t)
  PROVE  SmoInv(level, nodes)'
<1> DEFINE c == ctx[t]
           next == next_unused_node_id
           depth == c.par.node.depth + 1
           n == [Consolidated(c.par.node) EXCEPT !.depth = depth]
           d == WithPar(c, n)
<1>1. /\ c.pc = "parentConsolidate"
      /\ IF Current(c.par) THEN Install(t, c.par.id, n, JumpLeft(d))
         ELSE UNCHANGED mapping /\ Continue(t, JumpLeft(c))
      /\ UNCHANGED <<root_id, blocked, next_unused_node_id, released>>
  BY DEF ConsolidateParent, WithPar
<1>2. c.pc \in Working \ {"abortUndo"}
  BY <1>1 DEF Working
<1>3. /\ InHand(mapping, next, level, nodes, c) /\ HasParentNode(c)
      /\ c \in ContextSet /\ mapping[c.cur.id] = c.cur.node /\ Target(c) = c.cur.id
      /\ TreeOK(mapping, next, root_id) /\ Coherent(mapping, next, root_id, level, nodes)
  BY <1>1, <1>2, WorkInHand DEF Ready, PlaceClaim
<1>4. ASSUME NEW u \in Threads \ {t}
      PROVE  /\ ctx[u] \in ContextSet /\ Inserts(mapping, ctx[u], c) /\ SharesParent(ctx[u], c)
             /\ ContextOK(mapping, next, c)
  BY <1>1, <1>4, PairParent, ThreadFacts DEF SmoInv, StructInv
<1>5. CASE ~Current(c.par)
  <2> DEFINE e == JumpLeft(c)
  <2>1. /\ Claims(mapping, root_id, level, nodes, blocked, e) /\ e.pc \in {"jump", "undefined"}
        /\ \A f \in ContextSet : Inserts(mapping, f, c) /\ Target(c) = c.cur.id
                                   /\ SharesParent(f, c) => Inserts(mapping, f, e)
    BY <1>3, JumpLeftClaims
  <2>2. \A u \in Threads \ {t} : Inserts(mapping, ctx[u], e)
    BY <1>3, <1>4, <2>1
  <2>3. e.pc \notin Locking \cup {"postInsert"}
    BY <2>1 DEF Locking
  <2> QED
    BY <1>1, <1>5, <2>1, <2>2, <2>3, SmoUnlocked
<1>6. CASE Current(c.par)
  <2> DEFINE p == c.par.id
             m2 == [mapping EXCEPT ![p] = n]
             e == JumpLeft(d)
  <2>1. /\ mapping[p] = c.par.node /\ c.par.node.type # "remove" /\ p \in InUse(next)
        /\ c.par.node.type = "merge" =>
             ~Posted(mapping, nodes, c.par.node.sep, c.par.node.other)
    BY <1>3, <1>6, FreshParent DEF Current, InHand, ParentAt, Settled
  <2>2. /\ Sound(mapping, next, n) /\ Kin(mapping[p], n) /\ n.type = "base"
        /\ n.high = mapping[p].high /\ n.items = mapping[p].items
    <3>1. Sound(mapping, next, c.par.node) /\ c.par.node \in AnyNode
      BY <2>1, <1>3, TableNode
    <3>2. depth \in Nat
      BY <3>1 DEF AnyNode
    <3> HIDE DEF c, depth
    <3>3. Sound(mapping, next, n) /\ Kin(c.par.node, n)
      BY <3>1, <3>2, ConsolidatedSound
    <3>4. n.type = "base" /\ n.high = c.par.node.high /\ n.items = c.par.node.items
      BY <3>1, MaxIdType DEF Consolidated, Base, AnyNode
    <3> QED
      BY <2>1, <3>3, <3>4
  <2> HIDE DEF n
  <2>3. Replaces(mapping, level, nodes, p, n)
    BY <2>1, <2>2, ReplacesSame
  <2>4. Item(c.par.node, c.cur.node.low, c.cur.id) => Item(n, c.cur.node.low, c.cur.id)
    BY <2>1, <2>2 DEF Item, Seps
  <2>5. /\ p \in nodes /\ p \notin blocked /\ m2[p] = n /\ Sound(m2, next, n)
        /\ \A i \in InUse(next) \ {p} : m2[i] = mapping[i]
        /\ TreeOK(m2, next, root_id) /\ InHand(m2, next, level, nodes, d)
        /\ Tame(mapping, next, level, nodes, m2, level, nodes)
        /\ d.pc = c.pc /\ d.cur = c.cur /\ d.pending = c.pending
        /\ HasParentNode(d) /\ m2[c.cur.id] = mapping[c.cur.id]
    <3>1. c = ctx[t] /\ m2 = Put(mapping, c.par.id, n) /\ d = WithPar(c, n)
      BY DEF Put
    <3> HIDE DEF c, m2, d
    <3>2. n.type \in {"base", "delta"}
      BY <2>2
    <3> QED
      BY <1>2, <1>3, <1>6, <2>2, <2>3, <2>4, <3>1, <3>2, ParentReplaced
  <2>6. /\ ctx'[t] = e /\ mapping' = m2
        /\ \A u \in Threads \ {t} :
             /\ ctx'[u] = Outdated(ctx[u], p) /\ Stale(ctx[u], ctx'[u], {p}) /\ ctx'[u] \in ContextSet
    BY <1>1, <1>6, OthersStale
  <2> HIDE DEF m2, d
  <2>7. /\ Claims(m2, root_id, level, nodes, blocked, e) /\ e.pc \in {"jump", "undefined"}
        /\ \A f \in ContextSet : Inserts(m2, f, d) /\ Target(d) = d.cur.id
                                   /\ SharesParent(f, d) => Inserts(m2, f, e)
    BY <1>3, <2>5, JumpLeftClaims
  <2>8. Target(d) = d.cur.id
    BY <1>1, <2>5 DEF Target
  <2> HIDE DEF e
  <2>9. ASSUME NEW u \in Threads \ {t}
        PROVE  /\ Locks(ctx'[t], ctx'[u]) /\ Locks(ctx'[u], ctx'[t])
               /\ Inserts(mapping', ctx'[t], ctx'[u]) /\ Inserts(mapping', ctx'[u], ctx'[t])
    <3> DEFINE f == ctx'[u]
    <3>1. /\ f \in ContextSet /\ SameView(ctx[u], f)
          /\ f.par.fresh = (ctx[u].par.fresh /\ ctx[u].par.id # p)
      BY <2>6, <2>9 DEF Stale
    <3>2. ASSUME f.pc = "postInsert", f.par.fresh
          PROVE  /\ ctx[u].pc = "postInsert" /\ ctx[u].par.fresh /\ ctx[u].par.id # p
                 /\ f.cur.node.other # c.cur.id
      BY <1>1, <1>4, <2>9, <3>1, <3>2 DEF SameView, Inserts
    <3>3. SharesParent(f, d)
      BY <2>5, <3>2 DEF SharesParent
    <3>4. m2[Target(d)].low = mapping[Target(c)].low
      BY <1>3, <2>5, <2>8
    <3>5. Inserts(m2, f, d)
      <4>1. /\ Inserts(mapping, ctx[u], c) /\ d.pc = c.pc /\ d.cur = c.cur /\ d.pending = c.pending
            /\ f.cur.node = ctx[u].cur.node /\ f.par.node = ctx[u].par.node
        BY <1>4, <2>5, <2>9, <3>1 DEF SameView
      <4>2. d.pc # "parentConsolidate" \/ f.cur.node.other # d.cur.id \/ ~f.par.fresh \/ f.pc # "postInsert"
        BY <3>2, <4>1
      <4> HIDE DEF f, c
      <4> QED
        BY <3>2, <3>4, <4>1, <4>2 DEF Inserts, f
    <3> HIDE DEF f
    <3>6. Inserts(m2, f, e)
      BY <2>7, <2>8, <3>1, <3>3, <3>5
    <3> QED
      BY <2>6, <2>7, <3>6 DEF Locks, Inserts, Locking, f
  <2>10. Gone(mapping', next, nodes, released')
    <3>1. Gone(mapping, next, nodes, released)
      BY DEF SmoInv
    <3> QED
      BY <1>1, <2>5, <2>6, <3>1, GoneKept
  <2>11. /\ mapping'[p] = n /\ \A i \in InUse(next) \ {p} : mapping'[i] = mapping[i]
         /\ Sound(mapping', next, mapping'[p]) /\ mapping'[p].type # "remove"
         /\ Replaces(mapping, level, nodes, p, mapping'[p])
    BY <2>2, <2>3, <2>5, <2>6
  <2>12. \A u \in Threads \ {t} : Stale(ctx[u], ctx'[u], {p})
    BY <2>6
  <2>13. Claims(mapping', root_id, level, nodes, blocked, ctx'[t])
    BY <2>6, <2>7
  <2>14. UNCHANGED <<root_id, next_unused_node_id, blocked>>
    BY <1>1
  <2>15. p \in nodes /\ p \notin blocked
    BY <2>5
  <2> HIDE DEF p, next
  <2> QED
    BY <2>9, <2>10, <2>11, <2>12, <2>13, <2>14, <2>15, SmoReplace DEF next
<1> QED
  BY <1>5, <1>6

\* The items after an index term is posted or deleted.
LEMMA InnerInsertItems ==
  ASSUME NEW n \in AnyNode, NEW k \in Nat, NEW id \in 0 .. MaxId
  PROVE  LET n2 == InnerInsertNode(n, k, id) IN
         /\ n2.type = "delta" /\ Kin(n, n2) /\ n2.high = n.high /\ Item(n2, k, id)
         /\ \A s, x : s # k => (Item(n2, s, x) <=> Item(n, s, x))
<1> DEFINE items == WithItem(n, k, id)
           n2 == InnerInsertNode(n, k, id)
<1>1. n2 = DataNode(n, items)
  BY DEF InnerInsertNode
<1>2. /\ items \in ItemMaps /\ DOMAIN items = Seps(n) \cup {k} /\ items[k] = id
      /\ \A s \in Seps(n) \ {k} : items[s] = n.items[s]
  BY WithItemType
<1> HIDE DEF items, n2
<1>3. n2.type = "delta" /\ Kin(n, n2) /\ n2.high = n.high /\ n2.items = items
  BY <1>1, <1>2, DataNodeFields
<1>4. Item(n2, k, id) /\ \A s, x : s # k => (Item(n2, s, x) <=> Item(n, s, x))
  BY <1>2, <1>3 DEF Item, Seps
<1> QED
  BY <1>3, <1>4 DEF n2

LEMMA InnerDeleteItems ==
  ASSUME NEW n \in AnyNode, NEW k
  PROVE  LET n2 == InnerDeleteNode(n, k) IN
         /\ n2.type = "delta" /\ Kin(n, n2) /\ n2.high = n.high /\ k \notin Seps(n2)
         /\ \A s, x : s # k => (Item(n2, s, x) <=> Item(n, s, x))
<1> DEFINE S == Seps(n) \ {k}
<1>1. S \in SUBSET Seps(n)
  OBVIOUS
<1>2. /\ Part(n, S) \in ItemMaps /\ DOMAIN Part(n, S) = S
      /\ \A s \in S : Part(n, S)[s] = n.items[s]
  BY <1>1, PartType
<1>3. LET n2 == InnerDeleteNode(n, k) IN
      n2.type = "delta" /\ Kin(n, n2) /\ n2.high = n.high /\ n2.items = Part(n, S)
  BY <1>2, DataNodeFields DEF InnerDeleteNode
<1> QED
  BY <1>2, <1>3 DEF Item, Seps

\* One item more or one less than the parent has.
LEMMA ReplacesItem ==
  ASSUME NEW m, NEW level, NEW nodes, NEW id, NEW n, Kin(m[id], n), n.high = m[id].high,
         n.type \in {"base", "delta"}, m[id].type # "remove",
         m[id].type = "merge" => ~Posted(m, nodes, m[id].sep, m[id].other),
         NEW k, k # m[id].low, n.low \in Seps(n),
         \A s, x : s # k => (Item(n, s, x) <=> Item(m[id], s, x)),
         k \in Seps(n) => n.items[k] \in nodes /\ level[n.items[k]] + 1 = level[id],
         k \in Seps(m[id]) => m[id].items[k] \notin nodes
  PROVE  Replaces(m, level, nodes, id, n)
<1>1. n.low = m[id].low
  BY DEF Kin
<1>2. n.items[n.low] = m[id].items[n.low]
  BY <1>1 DEF Item
<1>3. \A s \in Seps(n) : \/ Item(m[id], s, n.items[s])
                         \/ n.items[s] \in nodes /\ level[n.items[s]] + 1 = level[id]
  BY DEF Item
<1>4. \A s \in Seps(m[id]) : Item(n, s, m[id].items[s]) \/ m[id].items[s] \notin nodes
  BY DEF Item
<1> QED
  BY <1>2, <1>3, <1>4 DEF Replaces

\* A step that gives the parent an item more or less.
LEMMA SmoParentDelta ==
  ASSUME StructInv, NEW level, NEW nodes, SmoInv(level, nodes), NEW t \in Threads,
         NEW c, c = ctx[t], c.pc \in Working \ {"abortUndo"}, c.par.id \in nodes,
         c.par.id \notin blocked, NEW n, Sound(mapping', next_unused_node_id, n), n.type = "delta",
         Replaces(mapping, level, nodes, c.par.id, n), mapping'[c.par.id] = n,
         \A i \in InUse(next_unused_node_id) \ {c.par.id} : mapping'[i] = mapping[i],
         NEW d, InHand(mapping', next_unused_node_id, level, nodes, d),
         d.cur = c.cur, d.pending = c.pending,
         Install(t, c.par.id, n, At(d, "consolidate")),
         Settled(mapping', nodes, d.cur), NextClaim(mapping', nodes, d),
         UNCHANGED <<root_id, next_unused_node_id, blocked>>,
         Gone(mapping', next_unused_node_id, nodes, released')
  PROVE  SmoInv(level, nodes)'
<1> DEFINE e == At(d, "consolidate")
<1>1. "consolidate" \in PCs \ {"jump"} /\ "consolidate" \notin Locking \cup {"postInsert"}
  BY DEF PCs, Locking
<1>2. e.pc = "consolidate" /\ e.cur = d.cur /\ e.par = d.par
  BY <1>1, AtFields DEF InHand
<1>3. NextClaim(mapping', nodes, e)
  BY <1>2 DEF NextClaim, HasParentNode, Handed
<1>4. PlaceClaim(mapping', root_id, level, nodes, blocked, e)
  <2> HIDE DEF e
  <2> QED
    BY <1>1, <1>2, <1>3 DEF PlaceClaim
<1>5. CameFrom(c, d)
  BY DEF CameFrom, Target, Working
<1>6. Claims(mapping', root_id, level, nodes, blocked, e) /\ Follows(c, e)
  BY <1>1, <1>4, <1>5, AtClaims
<1> DEFINE id == c.par.id
<1>7. ctx'[t] = e /\ \A u \in Threads \ {t} : Stale(ctx[u], ctx'[u], {id})
  <2>1. Install(t, id, n, e)
    OBVIOUS
  <2> HIDE DEF id, e
  <2> QED
    <3>1. ctx'[t] = e /\ \A u \in Threads \ {t} : ctx'[u] = Outdated(ctx[u], id)
      BY <2>1 DEF Install
    <3>2. \A u \in Threads \ {t} : ctx[u] \in ContextSet
      BY ThreadFacts
    <3> QED
      BY <3>1, <3>2, OutdatedStale
<1> HIDE DEF e
<1>8. /\ Claims(mapping', root_id, level, nodes, blocked, ctx'[t]) /\ Follows(ctx[t], ctx'[t])
      /\ \A u \in Threads \ {t} : Stale(ctx[u], ctx'[u], {c.par.id})
  BY <1>6, <1>7
<1> DEFINE p == c.par.id
<1>9. /\ mapping'[p].type # "remove" /\ Replaces(mapping, level, nodes, p, mapping'[p])
      /\ Sound(mapping', next_unused_node_id, mapping'[p]) /\ p \in nodes /\ p \notin blocked
      /\ \A i \in InUse(next_unused_node_id) \ {p} : mapping'[i] = mapping[i]
      /\ \A u \in Threads \ {t} : Stale(ctx[u], ctx'[u], {p})
  BY <1>8
<1>10. UNCHANGED <<root_id, next_unused_node_id, blocked>>
  OBVIOUS
<1> HIDE DEF p
<1> QED
  BY <1>8, <1>9, <1>10, SmoReplace

\* What the item of a half-done SMO on top of the node in hand is about.
LEMMA SplitInHand ==
  ASSUME NEW m, NEW next, NEW root, TreeOK(m, next, root),
         NEW level, NEW nodes, Coherent(m, next, root, level, nodes),
         NEW c, InHand(m, next, level, nodes, c), c.cur.node.type = "split"
  PROVE  LET n == c.cur.node IN
         /\ GetNextNodeID(n) = n.other /\ n.high[1] = n.sep /\ n.low < n.sep /\ n.sep \in Nat
         /\ n.other \in InUse(next) /\ m[n.other].low = n.sep /\ level[n.other] = level[c.cur.id]
<1> DEFINE n == c.cur.node
<1>1. Sound(m, next, n) /\ Ranked(level, c.cur.id, n)
  BY DEF InHand, Here, Holds, NodeClaim, Taken
<1>2. GetNextNodeID(n) = n.other /\ GetNextNodeID(n) # INVALID_NODE_ID /\ n.high[1] = n.sep
  BY <1>1 DEF Sound, SoundDelta, GetNextNodeID
<1> QED
  BY <1>1, <1>2, NextBeside

LEMMA PostInnerInsertNodeSmo ==
  ASSUME StructInv, NEW level, NEW nodes, SmoInv(level, nodes), NEW t \in Threads,
         PostInnerInsertNode(t)
  PROVE  SmoInv(level, nodes)'
<1> DEFINE c == ctx[t]
           next == next_unused_node_id
           s == c.cur.node.sep
           x == c.cur.node.other
           p == c.par.id
           n == InnerInsertNode(c.par.node, s, x)
           d == WithPar(c, n)
<1>1. /\ c.pc = "postInsert"
      /\ IF Current(c.par) THEN Install(t, p, n, [c EXCEPT !.par.node = n, !.pc = "consolidate"])
         ELSE UNCHANGED mapping /\ Continue(t, Abort(c))
      /\ UNCHANGED <<root_id, blocked, next_unused_node_id, released>>
  BY DEF PostInnerInsertNode
<1>2. c.pc \in Working \ {"abortUndo"}
  BY <1>1 DEF Working
<1>3. /\ InHand(mapping, next, level, nodes, c) /\ HasParentNode(c) /\ c \in ContextSet
      /\ c.cur.node.type = "split" /\ InRange(c.par.node, s) /\ ~Found(c.par.node, s)
      /\ c.par.fresh => x \in nodes
      /\ TreeOK(mapping, next, root_id) /\ Coherent(mapping, next, root_id, level, nodes)
  BY <1>1, <1>2, WorkInHand DEF Ready, PlaceClaim
<1>4. CASE ~Current(c.par)
  BY <1>1, <1>4, SmoAbort
<1>5. CASE Current(c.par)
  <2>1. /\ mapping[p] = c.par.node /\ c.par.node.type # "remove" /\ p \in InUse(next)
        /\ c.par.node.type = "merge" =>
             ~Posted(mapping, nodes, c.par.node.sep, c.par.node.other)
        /\ ~IsLeaf(c.par.node) /\ Under(level, c.cur.id, p) /\ x \in nodes
    BY <1>3, <1>5, FreshParent DEF Current, InHand, ParentAt, Settled
  <2>2. /\ GetNextNodeID(c.cur.node) = x /\ c.cur.node.high[1] = s /\ c.cur.node.low < s /\ s \in Nat
        /\ x \in InUse(next) /\ mapping[x].low = s /\ level[x] = level[c.cur.id]
    BY <1>3, SplitInHand
  <2>3. x \in 0 .. MaxId /\ Sound(mapping, next, c.par.node) /\ c.par.node \in AnyNode
    BY <1>3, <2>1, <2>2, TableNode DEF NodeIds
  <2>4. c.par.node.low < s /\ c.par.node.low \in Nat /\ c.par.node.low <= s
    <3>1. c.par.node.low \in Nat
      BY <2>3, CoversLow
    <3>2. c.par.node.low <= c.cur.node.low /\ c.cur.node.low \in Nat
      BY <1>3, <1>5, FreshParent DEF Current, CoversAt, Covers
    <3> HIDE DEF c, s
    <3> QED
      BY <2>2, <3>1, <3>2
  <2>5. s \notin Seps(c.par.node) /\ s # c.par.node.low
    <3>1. s \notin Seps(c.par.node)
      BY <1>3, <2>4 DEF Found
    <3> HIDE DEF c, s
    <3> QED
      BY <2>2, <2>4, <3>1
  <2> HIDE DEF x, s, p
  <2>6. /\ n.type = "delta" /\ Kin(c.par.node, n) /\ n.high = c.par.node.high /\ Item(n, s, x)
        /\ \A k, y : k # s => (Item(n, k, y) <=> Item(c.par.node, k, y))
        /\ Sound(mapping, next, n)
    <3>1. StartsAt(mapping, next, x, s)
      BY <2>2 DEF StartsAt
    <3> HIDE DEF c
    <3> QED
      BY <1>3, <2>1, <2>2, <2>3, <2>4, <3>1, InnerInsertItems, InnerInsertNodeSound
  <2> HIDE DEF n
  <2>7. n.low \in Seps(n) /\ n.items[s] = x
    BY <2>1, <2>6 DEF Sound, SoundChildren, Kin, IsLeaf, Item
  <2>8. Replaces(mapping, level, nodes, p, n)
    <3>1. level[x] + 1 = level[p]
      BY <2>1, <2>2 DEF Under
    <3> HIDE DEF c
    <3> QED
      BY <2>1, <2>5, <2>6, <2>7, <3>1, ReplacesItem
  <2>9. Item(c.par.node, c.cur.node.low, c.cur.id) => Item(n, c.cur.node.low, c.cur.id)
    <3>1. c.cur.node.low # s
      BY <1>3, <2>2, FreshParent, CoversLow DEF InHand, Here, Holds, Taken
    <3> QED
      BY <2>6, <3>1
  <2> DEFINE m2 == Put(mapping, p, n)
  <2>10. /\ p \in nodes /\ p \notin blocked /\ m2[p] = n /\ Sound(m2, next, n)
         /\ \A i \in InUse(next) \ {p} : m2[i] = mapping[i]
         /\ InHand(m2, next, level, nodes, d)
         /\ Tame(mapping, next, level, nodes, m2, level, nodes)
         /\ d.pc = c.pc /\ d.cur = c.cur /\ d.pending = c.pending /\ d.par.node = n
         /\ m2[c.cur.id] = mapping[c.cur.id]
    <3>1. c = ctx[t] /\ p = c.par.id /\ m2 = Put(mapping, c.par.id, n) /\ d = WithPar(c, n)
          /\ n.type \in {"base", "delta"} /\ Replaces(mapping, level, nodes, c.par.id, n)
      BY <2>6, <2>8 DEF p
    <3> HIDE DEF c, m2, d
    <3> QED
      BY <1>2, <1>3, <1>5, <2>6, <2>9, <3>1, ParentReplaced
  <2>11. [c EXCEPT !.par.node = n, !.pc = "consolidate"] = At(d, "consolidate")
    BY <1>3 DEF At, WithPar, ContextSet
  <2>12. Install(t, p, n, At(d, "consolidate")) /\ mapping' = m2
    <3>1. Install(t, p, n, At(d, "consolidate"))
      BY <1>1, <1>5, <2>11 DEF n
    <3> QED
      BY <3>1 DEF Install, Put
  <2> HIDE DEF m2, d
  <2>13. Settled(m2, nodes, d.cur)
    BY <1>1, <1>3, <2>10 DEF InHand, Here, NodeClaim, Settled
  <2>14. NextClaim(m2, nodes, d)
    <3>1. m2[x].low = s
      BY <2>2, <2>10 DEF Tame
    <3> QED
      BY <2>2, <2>6, <2>10, <3>1 DEF NextClaim, Handed
  <2>15. Gone(m2, next, nodes, released)
    BY <2>10, GoneKept DEF SmoInv
  <2> DEFINE q == c.par.id
  <2>16. p = q
    BY DEF p
  <2>17. /\ q \in nodes /\ q \notin blocked /\ Sound(mapping', next, n)
         /\ Replaces(mapping, level, nodes, q, n) /\ mapping'[q] = n
         /\ \A i \in InUse(next) \ {q} : mapping'[i] = mapping[i]
         /\ InHand(mapping', next, level, nodes, d) /\ Install(t, q, n, At(d, "consolidate"))
         /\ Settled(mapping', nodes, d.cur) /\ NextClaim(mapping', nodes, d)
         /\ Gone(mapping', next, nodes, released')
    BY <1>1, <2>8, <2>10, <2>12, <2>13, <2>14, <2>15, <2>16
  <2>18. UNCHANGED <<root_id, next_unused_node_id, blocked>>
    BY <1>1
  <2>19. c = ctx[t] /\ n.type = "delta" /\ d.cur = c.cur /\ d.pending = c.pending
    BY <2>6, <2>10
  <2> HIDE DEF c
  <2> QED
    BY <1>2, <2>17, <2>18, <2>19, SmoParentDelta
<1> QED
  BY <1>4, <1>5

\* What a merge delta in hand says of its key.
LEMMA MergeInHand ==
  ASSUME NEW m, NEW next, NEW root, TreeOK(m, next, root),
         NEW level, NEW nodes, Coherent(m, next, root, level, nodes),
         NEW c, InHand(m, next, level, nodes, c), c.cur.node.type = "merge"
  PROVE  LET n == c.cur.node IN
         /\ n.low < n.sep /\ n.low \in Nat /\ n.sep \in Nat /\ InRange(n, n.sep)
         /\ n.other \notin nodes /\ n.other \in InUse(next) /\ level[n.other] = level[c.cur.id]
         /\ GetNextNodeID(n) # INVALID_NODE_ID => n.sep < m[GetNextNodeID(n)].low
<1> DEFINE n == c.cur.node
<1>1. Sound(m, next, n) /\ Ranked(level, c.cur.id, n) /\ n.other \notin nodes
  BY DEF InHand, Here, Holds, NodeClaim, Taken
<1>2. n \in AnyNode /\ n.low \in Nat
  BY <1>1, CoversLow
<1>3. n.sep \in Nat
  BY <1>2 DEF AnyNode
<1>4. /\ n.low < n.sep /\ InRange(n, n.sep)
      /\ n.other \in InUse(next) /\ level[n.other] = level[c.cur.id]
  BY <1>1 DEF Sound, SoundDelta, Ranked
<1>5. GetNextNodeID(n) # INVALID_NODE_ID => n.sep < m[GetNextNodeID(n)].low
  <2> SUFFICES ASSUME GetNextNodeID(n) # INVALID_NODE_ID
               PROVE  n.sep < m[GetNextNodeID(n)].low
    OBVIOUS
  <2>1. m[GetNextNodeID(n)].low = n.high[1]
    BY <1>1, NextBeside
  <2> QED
    BY <1>4, <2>1 DEF InRange
<1> QED
  BY <1>1, <1>2, <1>3, <1>4, <1>5

\* Once a node that covers the key of an item has lost it, no other has it.
LEMMA LastItem ==
  ASSUME NEW m, NEW next, NEW root, TreeOK(m, next, root),
         NEW level, NEW nodes, Coherent(m, next, root, level, nodes),
         NEW p \in nodes, NEW s, NEW x, HasItem(m, p, s, x),
         NEW m2, s \notin Seps(m2[p]), \A i \in InUse(next) \ {p} : m2[i] = m[i],
         \A k, y : HasItem(m2, p, k, y) => HasItem(m, p, k, y)
  PROVE  \A k : ~Posted(m2, nodes, k, x)
<1> SUFFICES ASSUME NEW k, NEW q \in nodes, HasItem(m2, q, k, x)
             PROVE  FALSE
  BY DEF Posted, HasItem
<1>1. q \in InUse(next)
  BY CoherentFacts
<1>2. HasItem(m, q, k, x)
  <2>1. q # p => m2[q] = m[q]
    BY <1>1
  <2> QED
    BY <2>1 DEF HasItem
<1>3. /\ m[x].low = s /\ s \in Nat /\ Under(level, x, p) /\ CoversAt(m, p, s)
  BY ItemAt
<1>4. /\ m[x].low = k /\ Under(level, x, q) /\ CoversAt(m, q, k)
  BY <1>2, ItemAt
<1>5. level[p] = level[q]
  BY <1>3, <1>4, SameRank
<1>6. p = q /\ k = s
  BY <1>3, <1>4, <1>5, OneCovers, CoherentFacts DEF CoversAt
<1> QED
  BY <1>6 DEF HasItem, Item

LEMMA PostInnerDeleteNodeSmo ==
  ASSUME StructInv, NEW level, NEW nodes, SmoInv(level, nodes), NEW t \in Threads,
         PostInnerDeleteNode(t)
  PROVE  SmoInv(level, nodes)'
<1> DEFINE c == ctx[t]
           next == next_unused_node_id
           s == c.cur.node.sep
           x == c.cur.node.other
           p == c.par.id
           n == InnerDeleteNode(c.par.node, s)
           d == WithPar(c, n)
<1>1. /\ c.pc = "postDelete"
      /\ IF Current(c.par)
         THEN /\ Install(t, p, n, [c EXCEPT !.par.node = n, !.pc = "consolidate"])
              /\ released' = released \cup {x}
         ELSE UNCHANGED <<mapping, released>> /\ Continue(t, Abort(c))
      /\ UNCHANGED <<root_id, blocked, next_unused_node_id>>
  BY DEF PostInnerDeleteNode
<1>2. c.pc \in Working \ {"abortUndo"}
  BY <1>1 DEF Working
<1>3. /\ InHand(mapping, next, level, nodes, c) /\ HasParentNode(c) /\ c \in ContextSet
      /\ c.cur.node.type = "merge" /\ Found(c.par.node, s)
      /\ c.par.fresh /\ s \in Seps(c.par.node) => c.par.node.items[s] = x
      /\ NextClaim(mapping, nodes, c)
      /\ TreeOK(mapping, next, root_id) /\ Coherent(mapping, next, root_id, level, nodes)
  BY <1>1, <1>2, WorkInHand DEF Ready, PlaceClaim
<1>4. CASE ~Current(c.par)
  BY <1>1, <1>4, SmoAbort
<1>5. CASE Current(c.par)
  <2>1. /\ mapping[p] = c.par.node /\ c.par.node.type # "remove" /\ p \in InUse(next)
        /\ c.par.node.type = "merge" =>
             ~Posted(mapping, nodes, c.par.node.sep, c.par.node.other)
        /\ ~IsLeaf(c.par.node) /\ p \in nodes /\ c.cur.id \in InUse(next)
    BY <1>3, <1>5, FreshParent DEF Current, InHand, ParentAt, Settled
  <2>2. /\ c.cur.node.low < s /\ c.cur.node.low \in Nat /\ s \in Nat
        /\ x \notin nodes /\ x \in InUse(next)
        /\ GetNextNodeID(c.cur.node) # INVALID_NODE_ID => s < mapping[GetNextNodeID(c.cur.node)].low
    BY <1>3, MergeInHand
  <2>3. Sound(mapping, next, c.par.node) /\ c.par.node \in AnyNode
    BY <1>3, <2>1, TableNode
  <2>4. s \in Seps(c.par.node) /\ s # c.par.node.low /\ Item(c.par.node, s, x)
    BY <1>3, <1>5 DEF Found, Item, Current
  <2> HIDE DEF x, s, p
  <2>5. /\ n.type = "delta" /\ Kin(c.par.node, n) /\ n.high = c.par.node.high /\ s \notin Seps(n)
        /\ \A k, y : k # s => (Item(n, k, y) <=> Item(c.par.node, k, y))
        /\ Sound(mapping, next, n)
    <3> HIDE DEF c
    <3> QED
      BY <2>1, <2>3, <2>4, InnerDeleteItems, InnerDeleteNodeSound
  <2> HIDE DEF n
  <2>6. n.low \in Seps(n) /\ ~IsLeaf(n)
    BY <2>1, <2>5 DEF Sound, SoundChildren, Kin, IsLeaf
  <2>7. Replaces(mapping, level, nodes, p, n)
    <3>1. c.par.node.items[s] \notin nodes
      BY <2>2, <2>4 DEF Item
    <3> HIDE DEF c
    <3> QED
      BY <2>1, <2>4, <2>5, <2>6, <3>1, ReplacesItem
  <2>8. Item(c.par.node, c.cur.node.low, c.cur.id) => Item(n, c.cur.node.low, c.cur.id)
    BY <2>2, <2>5
  <2> DEFINE m2 == Put(mapping, p, n)
  <2>9. /\ p \in nodes /\ p \notin blocked /\ m2[p] = n /\ Sound(m2, next, n)
        /\ \A i \in InUse(next) \ {p} : m2[i] = mapping[i]
        /\ InHand(m2, next, level, nodes, d)
        /\ Tame(mapping, next, level, nodes, m2, level, nodes)
        /\ d.pc = c.pc /\ d.cur = c.cur /\ d.pending = c.pending /\ d.par.node = n
        /\ m2[c.cur.id] = mapping[c.cur.id]
    <3>1. c = ctx[t] /\ p = c.par.id /\ m2 = Put(mapping, c.par.id, n) /\ d = WithPar(c, n)
          /\ n.type \in {"base", "delta"} /\ Replaces(mapping, level, nodes, c.par.id, n)
      BY <2>5, <2>7 DEF p
    <3> HIDE DEF c, m2, d
    <3> QED
      BY <1>2, <1>3, <1>5, <2>5, <2>8, <3>1, ParentReplaced
  <2>10. [c EXCEPT !.par.node = n, !.pc = "consolidate"] = At(d, "consolidate")
    BY <1>3 DEF At, WithPar, ContextSet
  <2>11. Install(t, p, n, At(d, "consolidate")) /\ mapping' = m2
    <3>1. Install(t, p, n, At(d, "consolidate"))
      BY <1>1, <1>5, <2>10 DEF n
    <3> QED
      BY <3>1 DEF Install, Put
  <2> HIDE DEF m2, d
  <2>12. \A k : ~Posted(m2, nodes, k, x)
    <3>1. HasItem(mapping, p, s, x) /\ s \notin Seps(m2[p])
      BY <2>1, <2>4, <2>5, <2>9 DEF HasItem
    <3>2. \A k, y : HasItem(m2, p, k, y) => HasItem(mapping, p, k, y)
      BY <2>1, <2>5, <2>9 DEF HasItem, Item
    <3> HIDE DEF c
    <3> QED
      BY <1>3, <2>9, <3>1, <3>2, LastItem
  <2>13. Settled(m2, nodes, d.cur)
    BY <1>1, <2>9, <2>12 DEF InHand, Here, NodeClaim, Settled, x
  <2>14. NextClaim(m2, nodes, d)
    <3> DEFINE y == GetNextNodeID(c.cur.node)
    <3>1. SUFFICES ASSUME y # INVALID_NODE_ID, InRange(n, c.cur.node.high[1])
                   PROVE  Handed(m2, nodes, d, y)
      BY <2>9 DEF NextClaim
    <3>2. InRange(c.par.node, c.cur.node.high[1])
      BY <2>5, <3>1 DEF InRange, GetNextNodeID
    <3>3. Handed(mapping, nodes, c, y)
      BY <1>3, <3>1, <3>2 DEF NextClaim
    <3>4. y \in InUse(next) /\ s < mapping[y].low /\ mapping[y].low \in Nat
      <4>1. Sound(mapping, next, c.cur.node) /\ Ranked(level, c.cur.id, c.cur.node)
        BY <1>3 DEF InHand, Here, Holds, NodeClaim, Taken
      <4> QED
        BY <2>2, <3>1, <4>1, NextBeside
    <3> HIDE DEF y
    <3>5. m2[y].low = mapping[y].low /\ (SplitOff(m2, nodes, y) => SplitOff(mapping, nodes, y))
      BY <2>9, <3>4 DEF Tame
    <3>6. mapping[y].low # s
      BY <2>2, <3>4
    <3> QED
      BY <1>5, <2>5, <2>9, <3>3, <3>5, <3>6 DEF Handed, Current
  <2>15. Gone(m2, next, nodes, released')
    <3>1. Gone(m2, next, nodes, released)
      BY <2>9, GoneKept DEF SmoInv
    <3> QED
      BY <1>1, <1>5, <2>2, <2>12, <3>1 DEF Gone
  <2> DEFINE q == c.par.id
  <2>16. p = q
    BY DEF p
  <2>17. /\ q \in nodes /\ q \notin blocked /\ Sound(mapping', next, n)
         /\ Replaces(mapping, level, nodes, q, n) /\ mapping'[q] = n
         /\ \A i \in InUse(next) \ {q} : mapping'[i] = mapping[i]
         /\ InHand(mapping', next, level, nodes, d) /\ Install(t, q, n, At(d, "consolidate"))
         /\ Settled(mapping', nodes, d.cur) /\ NextClaim(mapping', nodes, d)
         /\ Gone(mapping', next, nodes, released')
    BY <2>7, <2>9, <2>11, <2>13, <2>14, <2>15, <2>16
  <2>18. UNCHANGED <<root_id, next_unused_node_id, blocked>>
    BY <1>1
  <2>19. c = ctx[t] /\ n.type = "delta" /\ d.cur = c.cur /\ d.pending = c.pending
    BY <2>5, <2>9
  <2> HIDE DEF c
  <2> QED
    BY <1>2, <2>17, <2>18, <2>19, SmoParentDelta
<1> QED
  BY <1>4, <1>5

-----------------------------------------------------------------------------
(* Changes of the node in hand.                                            *)

\* What is left of the claims of the thread that replaces its node, if the items
\* and the range stay.
LEMMA NodeReplaced ==
  ASSUME StructInv, NEW level, NEW nodes, SmoInv(level, nodes), NEW t \in Threads,
         NEW c, c = ctx[t], c.pc \in Past, Current(c.cur),
         NEW n, Sound(mapping, next_unused_node_id, n), Kin(c.cur.node, n),
         n.type \in {"base", "remove"}, n.high = c.cur.node.high, n.items = c.cur.node.items,
         n.type = "remove" => Removable(mapping, root_id, level, nodes, c.cur.id),
         NEW m2, m2 = Put(mapping, c.cur.id, n), NEW d, d = WithCur(c, n)
  PROVE  /\ c.cur.id \in nodes /\ c.cur.id \notin blocked /\ c.cur.id \in InUse(next_unused_node_id)
         /\ m2[c.cur.id] = n /\ Sound(m2, next_unused_node_id, n)
         /\ \A i \in InUse(next_unused_node_id) \ {c.cur.id} : m2[i] = mapping[i]
         /\ TreeOK(m2, next_unused_node_id, root_id)
         /\ Coherent(m2, next_unused_node_id, root_id, level, nodes)
         /\ Tame(mapping, next_unused_node_id, level, nodes, m2, level, nodes)
         /\ Replaces(mapping, level, nodes, c.cur.id, n)
         /\ InHand(m2, next_unused_node_id, level, nodes, d) /\ d.cur.node = n
         /\ NextClaim(m2, nodes, d) /\ CameFrom(c, d)
         /\ HasParentNode(c) => c.par.id # c.cur.id
<1> DEFINE id == c.cur.id
           next == next_unused_node_id
<1>1. /\ InHand(mapping, next, level, nodes, c) /\ Finished(mapping, nodes, c) /\ c.pc # "jump"
      /\ TreeOK(mapping, next, root_id) /\ Coherent(mapping, next, root_id, level, nodes)
      /\ c \in ContextSet /\ Holds(mapping, next, c) /\ Here(c) /\ c.cur.fresh /\ id \notin blocked
      /\ Target(c) = id /\ CameFrom(c, c)
  <2>1. c.pc \in Working \ {"abortUndo"} /\ c.pc # "jump"
    BY DEF Past, Working
  <2>2. /\ InHand(mapping, next, level, nodes, c) /\ c \in ContextSet /\ Ready(c, c.pc)
        /\ PlaceClaim(mapping, root_id, level, nodes, blocked, c)
        /\ TreeOK(mapping, next, root_id) /\ Coherent(mapping, next, root_id, level, nodes)
        /\ Target(c) = id /\ CameFrom(c, c)
    BY <2>1, WorkInHand
  <2>3. Finished(mapping, nodes, c)
    BY <2>2, PastFinished
  <2> QED
    BY <2>1, <2>2, <2>3 DEF InHand, Current
<1>2. /\ mapping[id] = c.cur.node /\ c.cur.node.type # "remove" /\ id \in InUse(next)
      /\ c.cur.node.type = "merge" => ~Posted(mapping, nodes, c.cur.node.sep, c.cur.node.other)
      /\ id \in nodes /\ Kin(mapping[id], n)
  <2>1. mapping[id] = c.cur.node /\ c.cur.node.type # "remove"
        /\ (c.cur.node.type = "merge" => ~Posted(mapping, nodes, c.cur.node.sep, c.cur.node.other))
    BY <1>1 DEF Finished, Settled
  <2>2. id \in InUse(next)
    BY <1>1 DEF Holds, Here, Taken
  <2> QED
    BY <1>1, <2>1, <2>2, CoherentFacts
<1>3. Replaces(mapping, level, nodes, id, n)
  <2>1. n.high = mapping[id].high /\ n.items = mapping[id].items /\ mapping[id].type # "remove"
        /\ (mapping[id].type = "merge" =>
              ~Posted(mapping, nodes, mapping[id].sep, mapping[id].other))
        /\ n.type \in {"base", "delta", "remove"}
    BY <1>2
  <2> HIDE DEF id
  <2> QED
    BY <1>2, <2>1, ReplacesSame
<1>4. TreeOK(m2, next, root_id) /\ Grows(mapping, next, m2, next)
  BY <1>1, <1>2, InstallTreeOK DEF Put
<1>5. m2[id] = n /\ \A i \in InUse(next) \ {id} : m2[i] = mapping[i]
  BY <1>1, <1>2, MaxIdType DEF TreeOK, InUse, NodeIds, Put
<1>6. Sound(m2, next, n)
  BY <1>2, <1>4, <1>5 DEF TreeOK
<1>7. /\ m2[id].type = "remove" => Removable(mapping, root_id, level, nodes, id)
      /\ Replaces(mapping, level, nodes, id, m2[id]) /\ Sound(m2, next, m2[id])
  BY <1>3, <1>5, <1>6
<1>8. /\ Coherent(m2, next, root_id, level, nodes)
      /\ Tame(mapping, next, level, nodes, m2, level, nodes)
      /\ \A u \in Threads : \A f : Stale(ctx[u], f, {id}) =>
           Claims(m2, root_id, level, nodes, blocked, f)
  <2> HIDE DEF id
  <2> QED
    BY <1>1, <1>2, <1>5, <1>7, ReplaceKeeps
<1>9. n \in AnyNode /\ d \in ContextSet /\ Holds(mapping, next, d) /\ Here(d)
  BY <1>1, <1>2, WithCurOK
<1>10. /\ d.cur.id = id /\ d.cur.node = n /\ d.pc = c.pc /\ d.op = c.op /\ d.key = c.key
       /\ d.par = c.par /\ d.pending = c.pending /\ (HasParentNode(d) <=> HasParentNode(c))
  BY <1>1, <1>9, WithCurFields DEF HasParentNode
<1>11. Holds(m2, next, d)
  BY <1>4, <1>9, HoldsGrows
<1>12. HasParentNode(c) => c.par.id # id
  <2>1. SUFFICES ASSUME HasParentNode(c) PROVE c.par.id # id
    OBVIOUS
  <2>2. level[c.par.id] = level[id] + 1
    BY <1>1, <2>1 DEF InHand, ParentAt
  <2>3. level[id] \in Nat
    BY <1>1, <1>2, CoherentFacts
  <2> QED
    BY <2>2, <2>3
<1> DEFINE f == Outdated(c, id)
<1>13. /\ SameView(c, f) /\ Claims(m2, root_id, level, nodes, blocked, f)
       /\ HasParentNode(c) => f.par.fresh = c.par.fresh
  <2>1. Stale(c, f, {id}) /\ SameView(c, f) /\ f.par.fresh = (c.par.fresh /\ c.par.id # id)
    <3>1. Stale(c, f, {id})
      BY <1>1, OutdatedStale
    <3> HIDE DEF f
    <3> QED
      BY <3>1 DEF Stale
  <2>2. c.par.fresh \in BOOLEAN
    BY <1>1 DEF ContextSet, SnapSet
  <2>3. Claims(m2, root_id, level, nodes, blocked, f)
    BY <1>8, <2>1
  <2> HIDE DEF f
  <2> QED
    BY <1>12, <2>1, <2>2, <2>3
<1>14. NodeClaim(m2, level, nodes, d) /\ PendingClaim(m2, d)
  <2>1. PendingClaim(m2, d)
    BY <1>10, <1>13 DEF Claims, PendingClaim, SameView
  <2>2. Ranked(level, id, m2[id])
    BY <1>2, <1>4, <1>8, CoherentFacts
  <2>3. Ranked(level, id, n) /\ n.type # "merge"
    BY <1>5, <2>2
  <2> QED
    BY <1>5, <1>10, <2>1, <2>3 DEF NodeClaim
<1>15. ParentAt(m2, level, nodes, d, id)
  <2>1. ParentAt(m2, level, nodes, f, id)
    BY <1>1, <1>13 DEF Claims, Target, SameView
  <2> HIDE DEF f, id
  <2>2. SUFFICES ASSUME HasParentNode(c) PROVE ParentAt(m2, level, nodes, d, id)
    BY <1>10 DEF ParentAt
  <2>3. HasParentNode(f) /\ HasParentNode(d)
    BY <1>10, <1>13, <2>2 DEF HasParentNode, SameView
  <2>4. f.par.id = d.par.id /\ f.par.node = d.par.node /\ f.par.fresh = d.par.fresh /\ f.key = d.key
    BY <1>10, <1>13, <2>2 DEF SameView
  <2>5. Settled(m2, nodes, d.par) <=> Settled(m2, nodes, f.par)
    BY <2>4 DEF Settled
  <2>6. Handed(m2, nodes, d, id) <=> Handed(m2, nodes, f, id)
    BY <2>4 DEF Handed
  <2> QED
    BY <2>1, <2>3, <2>4, <2>5, <2>6 DEF ParentAt
<1>16. InHand(m2, next, level, nodes, d)
  BY <1>1, <1>9, <1>10, <1>11, <1>14, <1>15 DEF InHand
<1>17. NextClaim(m2, nodes, d)
  <2>1. SUFFICES ASSUME HasParentNode(d), GetNextNodeID(n) # INVALID_NODE_ID,
                        InRange(d.par.node, n.high[1])
                 PROVE  Handed(m2, nodes, d, GetNextNodeID(n))
    BY <1>10 DEF NextClaim
  <2>2. GetNextNodeID(n) = GetNextNodeID(c.cur.node) /\ n.high[1] = c.cur.node.high[1]
    BY DEF GetNextNodeID
  <2>3. Handed(mapping, nodes, c, GetNextNodeID(n))
    BY <1>1, <1>10, <2>1, <2>2 DEF Finished, NextClaim
  <2>4. GetNextNodeID(n) \in InUse(next)
    BY <1>6, <2>1 DEF Sound, SoundSibling, StartsAt
  <2>5. d.par.node = c.par.node /\ (d.par.fresh => c.par.fresh)
    BY <1>10
  <2> QED
    BY <1>8, <2>3, <2>4, <2>5, HandedKept
<1>18. CameFrom(c, d)
  BY <1>1, <1>10 DEF CameFrom
<1> QED
  BY <1>1, <1>2, <1>3, <1>4, <1>5, <1>6, <1>8, <1>10, <1>12, <1>16, <1>17, <1>18

LEMMA ConsolidateNodeSmo ==
  ASSUME StructInv, NEW level, NEW nodes, SmoInv(level, nodes), NEW t \in Threads,
         ConsolidateNode(t)
  PROVE  SmoInv(level, nodes)'
<1> DEFINE c == ctx[t]
           next == next_unused_node_id
           n == Consolidated(c.cur.node)
           F(d) == IF c.pc = "consolidate" THEN TryConsolidateNode(d) ELSE AdjustNodeSize(d)
           d == WithCur(c, n)
<1>1. /\ c.pc \in {"consolidate", "tryConsolidate"}
      /\ IF Current(c.cur) THEN Install(t, c.cur.id, n, F(d))
         ELSE UNCHANGED mapping /\ Continue(t, F(c))
      /\ UNCHANGED <<root_id, blocked, next_unused_node_id, released>>
  BY DEF ConsolidateNode, WithCur
<1>2. c.pc \in Past /\ c.pc \in Working \ {"abortUndo"}
  BY <1>1 DEF Past, Working
<1>3. /\ InHand(mapping, next, level, nodes, c) /\ c \in ContextSet /\ Ready(c, c.pc)
      /\ PlaceClaim(mapping, root_id, level, nodes, blocked, c) /\ CameFrom(c, c)
      /\ TreeOK(mapping, next, root_id)
  BY <1>2, WorkInHand
<1>4. Finished(mapping, nodes, c)
  BY <1>2, <1>3, PastFinished
<1>5. CASE ~Current(c.cur)
  <2>1. OutcomeIn(Onward, c, F(c))
    <3>1. c.cur.node.type # "remove"
      BY <1>4 DEF Finished
    <3> HIDE DEF c
    <3> QED
      BY <1>3, <3>1, TryConsolidateNodeOutcome, AdjustNodeSizeOutcome
  <2> HIDE DEF F, next
  <2> QED
    BY <1>1, <1>3, <1>4, <1>5, <2>1, SmoOnward DEF next
<1>6. CASE Current(c.cur)
  <2> DEFINE id == c.cur.id
             m2 == [mapping EXCEPT ![id] = n]
  <2>1. /\ Sound(mapping, next, n) /\ Kin(c.cur.node, n) /\ n.type = "base"
        /\ n.high = c.cur.node.high /\ n.items = c.cur.node.items
    <3>1. Sound(mapping, next, c.cur.node)
      BY <1>3 DEF InHand, Holds, Here, Taken
    <3>2. c.cur.node \in AnyNode /\ 0 \in Nat
      BY <3>1, IsNodeDef DEF Sound
    <3> HIDE DEF c
    <3>3. Sound(mapping, next, n) /\ Kin(c.cur.node, n)
      BY <3>1, <3>2, ConsolidatedSound
    <3>4. n.type = "base" /\ n.high = c.cur.node.high /\ n.items = c.cur.node.items
      BY <3>2, MaxIdType DEF Consolidated, Base, AnyNode
    <3> QED
      BY <3>3, <3>4
  <2> HIDE DEF n
  <2>2. /\ id \in nodes /\ id \notin blocked /\ id \in InUse(next)
        /\ m2[id] = n /\ Sound(m2, next, n)
        /\ \A i \in InUse(next) \ {id} : m2[i] = mapping[i]
        /\ TreeOK(m2, next, root_id) /\ Coherent(m2, next, root_id, level, nodes)
        /\ Tame(mapping, next, level, nodes, m2, level, nodes)
        /\ Replaces(mapping, level, nodes, id, n)
        /\ InHand(m2, next, level, nodes, d) /\ d.cur.node = n
        /\ NextClaim(m2, nodes, d) /\ CameFrom(c, d)
    <3>1. c = ctx[t] /\ m2 = Put(mapping, c.cur.id, n) /\ d = WithCur(c, n)
      BY DEF Put
    <3> HIDE DEF c, m2, d
    <3>2. n.type \in {"base", "remove"} /\ n.type # "remove"
      BY <2>1
    <3> QED
      BY <1>2, <1>6, <2>1, <3>1, <3>2, NodeReplaced
  <2>3. /\ ctx'[t] = F(d) /\ mapping' = m2
        /\ \A u \in Threads \ {t} : Stale(ctx[u], ctx'[u], {id})
    <3>1. Install(t, id, n, F(d))
      BY <1>1, <1>6
    <3>2. /\ ctx'[t] = F(d) /\ mapping' = m2
          /\ \A u \in Threads \ {t} : ctx'[u] = Outdated(ctx[u], id)
      BY <3>1 DEF Install
    <3> QED
      BY <3>2, ThreadFacts, OutdatedStale
  <2> HIDE DEF m2, d
  <2>4. Finished(m2, nodes, d)
    <3>1. d.cur.fresh => d.cur.node = m2[d.cur.id]
      BY <2>2 DEF InHand, NodeClaim, Here
    <3> QED
      BY <2>1, <2>2, <3>1 DEF Finished, Settled
  <2>5. OutcomeIn(Onward, d, F(d))
    <3>1. d.cur.node.type # "remove" /\ d \in ContextSet
      BY <2>1, <2>2 DEF InHand
    <3> HIDE DEF c
    <3> QED
      BY <3>1, TryConsolidateNodeOutcome, AdjustNodeSizeOutcome
  <2> DEFINE e == F(d)
  <2>6. OutcomeIn(Onward, d, e)
    BY <2>5
  <2>6a. e = ctx'[t]
    BY <2>3
  <2> HIDE DEF F, e
  <2>7. Claims(m2, root_id, level, nodes, blocked, e) /\ Follows(c, e)
    <3> HIDE DEF c
    <3> QED
      BY <2>2, <2>4, <2>6, OnwardClaims
  <2>8. Gone(mapping', next, nodes, released')
    <3>1. Gone(mapping, next, nodes, released)
      BY DEF SmoInv
    <3> QED
      BY <1>1, <2>2, <2>3, <3>1, GoneKept
  <2>9. /\ \A i \in InUse(next) \ {id} : mapping'[i] = mapping[i]
        /\ Sound(mapping', next, mapping'[id]) /\ mapping'[id].type # "remove"
        /\ Replaces(mapping, level, nodes, id, mapping'[id])
    BY <2>1, <2>2, <2>3
  <2>10. Claims(mapping', root_id, level, nodes, blocked, ctx'[t]) /\ Follows(ctx[t], ctx'[t])
    BY <2>3, <2>6a, <2>7
  <2>11. UNCHANGED <<root_id, next_unused_node_id, blocked>> /\ id \in nodes /\ id \notin blocked
    BY <1>1, <2>2
  <2>12. \A u \in Threads \ {t} : Stale(ctx[u], ctx'[u], {id})
    BY <2>3
  <2> HIDE DEF id, next, c
  <2> QED
    BY <2>8, <2>9, <2>10, <2>11, <2>12, SmoReplace DEF next
<1> QED
  BY <1>5, <1>6

\* Once the parent is blocked the thread claims less of its node.
LEMMA RemoveClaims ==
  ASSUME NEW m, NEW root, NEW level, NEW nodes, NEW blk, NEW c \in ContextSet, c.pc = "removePost",
         NEW ids, c.par.id \notin ids, NEW f, Stale(c, f, ids), Claims(m, root, level, nodes, blk, f),
         NEW d, d = At(c, "abortUndo")
  PROVE  Claims(m, root, level, nodes, blk, d) /\ Trails(c, d)
<1>0. SameView(c, f) /\ f.par.fresh = c.par.fresh
  <2>1. SameView(c, f) /\ f.par.fresh = (c.par.fresh /\ c.par.id \notin ids)
    BY DEF Stale
  <2>2. c.par.fresh \in BOOLEAN
    BY DEF ContextSet, SnapSet
  <2> QED
    BY <2>1, <2>2
<1>1. "abortUndo" \in PCs /\ "removePost" \in Locking /\ "abortUndo" \in Locking
  BY DEF PCs, Locking
<1>2. /\ d.pc = "abortUndo" /\ d.op = c.op /\ d.key = c.key /\ d.cur = c.cur /\ d.par = c.par
      /\ d.pending = c.pending /\ d.to = c.to
  BY <1>1, AtFields
<1>3. Target(f) = c.cur.id /\ Target(d) = c.cur.id /\ Target(c) = c.cur.id
  BY <1>0, <1>2 DEF Target, SameView
<1>4. ParentAt(m, level, nodes, d, c.cur.id)
  <2>1. ParentAt(m, level, nodes, f, c.cur.id)
    BY <1>3 DEF Claims
  <2>2. /\ f.par.id = d.par.id /\ f.par.node = d.par.node /\ f.par.fresh = d.par.fresh
        /\ f.key = d.key /\ (HasParentNode(f) <=> HasParentNode(d))
    BY <1>0, <1>2 DEF SameView, HasParentNode
  <2>3. Settled(m, nodes, d.par) <=> Settled(m, nodes, f.par)
    BY <2>2 DEF Settled
  <2>4. Handed(m, nodes, d, c.cur.id) <=> Handed(m, nodes, f, c.cur.id)
    BY <2>2 DEF Handed
  <2> QED
    BY <2>1, <2>2, <2>3, <2>4 DEF ParentAt
<1>5. NodeClaim(m, level, nodes, d) /\ PendingClaim(m, d)
  BY <1>0, <1>2 DEF Claims, NodeClaim, PendingClaim, SameView
<1>6. PlaceClaim(m, root, level, nodes, blk, d)
  <2>1. d.par.id \in blk
    BY <1>0, <1>1, <1>2 DEF Claims, PlaceClaim, SameView
  <2>2. "abortUndo" \notin Past
    BY DEF Past
  <2> QED
    BY <1>2, <2>1, <2>2 DEF PlaceClaim
<1>7. Trails(c, d)
  BY <1>2, <1>3 DEF Trails
<1> QED
  BY <1>3, <1>4, <1>5, <1>6, <1>7 DEF Claims

\* A node with its parent blocked may be removed.
LEMMA BlockedRemovable ==
  ASSUME NEW m, NEW next, NEW root, TreeOK(m, next, root),
         NEW level, NEW nodes, Coherent(m, next, root, level, nodes),
         NEW c, InHand(m, next, level, nodes, c), HasParentNode(c), c.par.fresh,
         GetLowKeyNodeID(c.par.node) # c.cur.id
  PROVE  Removable(m, root, level, nodes, c.cur.id)
<1> DEFINE x == c.cur.id
           p == c.par.id
<1>1. /\ p \in nodes /\ m[p] = c.par.node /\ p \in InUse(next) /\ x \in InUse(next)
      /\ Under(level, x, p) /\ CoversAt(m, p, m[x].low) /\ ~IsLeaf(m[p])
      /\ GetLowKeyNodeID(m[p]) # x
  BY FreshParent
<1>2. level[x] # level[root]
  <2>1. level[p] <= level[root] /\ level[x] \in Nat /\ level[p] \in Nat /\ level[root] \in Nat
    BY <1>1, CoherentFacts DEF Layered
  <2> QED
    BY <1>1, <2>1 DEF Under
<1>3. ASSUME NEW q \in nodes, ~IsLeaf(m[q]), m[q].items[m[q].low] = x
      PROVE  FALSE
  <2>1. HasItem(m, q, m[q].low, x)
    BY <1>3, CoherentFacts DEF HasItem, Item
  <2>2. /\ m[x].low = m[q].low /\ m[x].low \in Nat /\ Under(level, x, q) /\ CoversAt(m, q, m[x].low)
    <3> HIDE DEF x
    <3> QED
      BY <2>1, ItemAt
  <2>3. level[p] = level[q]
    <3> HIDE DEF x, p
    <3> QED
      BY <1>1, <2>2, SameRank
  <2>4. Layered(m, next, root, level, nodes)
    BY DEF Coherent
  <2>5. p = q
    <3> HIDE DEF x, p
    <3> QED
      BY <1>1, <2>2, <2>3, <2>4, OneCovers DEF CoversAt
  <2> QED
    BY <1>1, <1>3, <2>5 DEF GetLowKeyNodeID
<1>4. Posted(m, nodes, m[x].low, x) \/ ~SplitOff(m, nodes, x)
  <2>1. Item(c.par.node, m[x].low, x) \/ ~SplitOff(m, nodes, x)
    BY DEF InHand, ParentAt, Handed
  <2> QED
    BY <1>1, <2>1 DEF Posted
<1> QED
  BY <1>2, <1>3, <1>4 DEF Removable

LEMMA PostRemoveNodeSmo ==
  ASSUME StructInv, NEW level, NEW nodes, SmoInv(level, nodes), NEW t \in Threads,
         PostRemoveNode(t)
  PROVE  SmoInv(level, nodes)'
<1> DEFINE c == ctx[t]
           next == next_unused_node_id
           n == RemoveNode(c.cur.node)
           d == At(c, "abortUndo")
<1>1. /\ c.pc = "removePost"
      /\ IF Current(c.cur) THEN Install(t, c.cur.id, n, d) ELSE UNCHANGED mapping /\ Continue(t, d)
      /\ UNCHANGED <<root_id, blocked, next_unused_node_id, released>>
  BY DEF PostRemoveNode
<1>2. c.pc \in Past /\ c.pc \in Working \ {"abortUndo"}
  BY <1>1 DEF Past, Working
<1>3. /\ InHand(mapping, next, level, nodes, c) /\ c \in ContextSet /\ HasParentNode(c)
      /\ c.par.fresh /\ GetLowKeyNodeID(c.par.node) # c.cur.id
      /\ TreeOK(mapping, next, root_id) /\ Coherent(mapping, next, root_id, level, nodes)
  BY <1>1, <1>2, WorkInHand DEF Ready, PlaceClaim
<1>4. /\ Claims(mapping, root_id, level, nodes, blocked, c)
      /\ ParentAt(mapping, level, nodes, c, Target(c))
      /\ ContextOK(mapping, next, c)
  BY ThreadFacts DEF SmoInv, StructInv, Claims
<1>4a. d.pc = "abortUndo" /\ d.par = c.par
  <2>1. "abortUndo" \in PCs
    BY DEF PCs
  <2> HIDE DEF c
  <2> QED
    BY <1>3, <2>1, AtFields
<1>5. ASSUME NEW u \in Threads \ {t}, NEW m2, NEW ids, NEW e2, Stale(ctx[u], e2, ids),
             Tame(mapping, next, level, nodes, m2, level, nodes),
             d.pc = "abortUndo", d.par = c.par, Trails(c, d)
      PROVE  /\ Locks(d, e2) /\ Locks(e2, d) /\ Inserts(m2, d, e2) /\ Inserts(m2, e2, d)
  <2>1. Locks(ctx[u], c) /\ Inserts(mapping, ctx[u], c)
    BY <1>5 DEF SmoInv
  <2>2. Inserts(m2, e2, d)
    <3> HIDE DEF c, d, next
    <3> QED
      BY <1>4, <1>5, <2>1, TrailsInserts
  <2>3. Locks(d, e2) /\ Locks(e2, d)
    BY <1>1, <1>5, <2>1 DEF Locks, Stale, SameView, Locking
  <2> QED
    BY <1>5, <2>2, <2>3 DEF Inserts
<1>6. CASE ~Current(c.cur)
  <2>1. Claims(mapping, root_id, level, nodes, blocked, d) /\ Trails(c, d)
    <3>1. /\ Stale(c, c, {}) /\ d = At(c, "abortUndo") /\ c.par.id \notin {}
          /\ c \in ContextSet /\ c.pc = "removePost"
      BY <1>1, <1>3, StaleSelf
    <3> HIDE DEF c, d
    <3> QED
      BY <1>4, <3>1, RemoveClaims
  <2>2. ASSUME NEW u \in Threads \ {t}
        PROVE  /\ Locks(d, ctx[u]) /\ Locks(ctx[u], d)
               /\ Inserts(mapping, d, ctx[u]) /\ Inserts(mapping, ctx[u], d)
    <3>1. Stale(ctx[u], ctx[u], {}) /\ Tame(mapping, next, level, nodes, mapping, level, nodes)
      BY ThreadFacts, StaleSelf, TameSame
    <3> QED
      BY <1>4a, <1>5, <2>1, <3>1
  <2>3. \A u \in Threads \ {t} : ctx[u].pc \in Locking => ctx[u].par.id \in blocked'
    BY <1>1 DEF SmoInv, Claims, PlaceClaim
  <2>4. Claims(mapping, root_id, level, nodes, blocked', d)
    BY <1>1, <2>1
  <2>5. Continue(t, d) /\ UNCHANGED <<root_id, mapping, next_unused_node_id, released>>
    BY <1>1, <1>6
  <2> HIDE DEF d
  <2> QED
    BY <2>2, <2>3, <2>4, <2>5, SmoLocal
<1>7. CASE Current(c.cur)
  <2> DEFINE id == c.cur.id
             m2 == [mapping EXCEPT ![id] = n]
             e == WithCur(c, n)
  <2>1. /\ Sound(mapping, next, n) /\ Kin(c.cur.node, n) /\ n.type = "remove"
        /\ n.high = c.cur.node.high /\ n.items = c.cur.node.items
    <3>1. Sound(mapping, next, c.cur.node)
      BY <1>3 DEF InHand, Holds, Here, Taken
    <3>2. c.cur.node \in AnyNode
      BY <3>1, IsNodeDef DEF Sound
    <3> HIDE DEF c
    <3> QED
      BY <3>1, <3>2, RemoveNodeSound DEF RemoveNode, AnyNode
  <2>2. Removable(mapping, root_id, level, nodes, id)
    <3> HIDE DEF c, next
    <3> QED
      BY <1>3, BlockedRemovable
  <2> HIDE DEF n
  <2>3. /\ id \in nodes /\ id \notin blocked /\ id \in InUse(next)
        /\ m2[id] = n /\ Sound(m2, next, n)
        /\ \A i \in InUse(next) \ {id} : m2[i] = mapping[i]
        /\ Tame(mapping, next, level, nodes, m2, level, nodes)
        /\ Replaces(mapping, level, nodes, id, n) /\ c.par.id # id
    <3>1. c = ctx[t] /\ m2 = Put(mapping, c.cur.id, n) /\ e = WithCur(c, n)
      BY DEF Put
    <3> HIDE DEF c, m2, e
    <3>2. n.type \in {"base", "remove"}
      BY <2>1
    <3> QED
      BY <1>2, <1>3, <1>7, <2>1, <2>2, <3>1, <3>2, NodeReplaced
  <2>4. /\ ctx'[t] = d /\ mapping' = m2
        /\ \A u \in Threads \ {t} : Stale(ctx[u], ctx'[u], {id})
    <3>1. Install(t, id, n, d)
      BY <1>1, <1>7
    <3>2. /\ ctx'[t] = d /\ mapping' = m2
          /\ \A u \in Threads \ {t} : ctx'[u] = Outdated(ctx[u], id)
      BY <3>1 DEF Install
    <3> QED
      BY <3>2, ThreadFacts, OutdatedStale
  <2> HIDE DEF m2
  <2>5. Claims(m2, root_id, level, nodes, blocked, d) /\ Trails(c, d)
    <3> DEFINE f == Outdated(c, id)
    <3>1. Stale(c, f, {id})
      BY <1>3, OutdatedStale
    <3> HIDE DEF f
    <3>4. Claims(m2, root_id, level, nodes, blocked, f)
      <4>1. /\ Replaces(mapping, level, nodes, id, m2[id]) /\ Sound(m2, next, m2[id])
            /\ m2[id].type = "remove" => Removable(mapping, root_id, level, nodes, id)
        BY <2>2, <2>3
      <4> HIDE DEF id, next
      <4>2. \A u \in Threads : \A g : Stale(ctx[u], g, {id}) =>
              Claims(m2, root_id, level, nodes, blocked, g)
        BY <2>3, <4>1, ReplaceKeeps DEF next
      <4> QED
        BY <3>1, <4>2
    <3>5. /\ d = At(c, "abortUndo") /\ c.par.id \notin {id}
          /\ c \in ContextSet /\ c.pc = "removePost"
      BY <1>1, <1>3, <2>3
    <3> HIDE DEF c, d
    <3> QED
      BY <3>1, <3>4, <3>5, RemoveClaims
  <2>6. ASSUME NEW u \in Threads \ {t}
        PROVE  /\ Locks(ctx'[t], ctx'[u]) /\ Locks(ctx'[u], ctx'[t])
               /\ Inserts(mapping', ctx'[t], ctx'[u]) /\ Inserts(mapping', ctx'[u], ctx'[t])
    <3> HIDE DEF c, d, next, id
    <3> QED
      BY <1>4a, <1>5, <2>3, <2>4, <2>5, <2>6
  <2>8. Gone(mapping', next, nodes, released')
    <3>1. Gone(mapping, next, nodes, released)
      BY DEF SmoInv
    <3> QED
      BY <1>1, <2>3, <2>4, <3>1, GoneKept
  <2>9. /\ \A i \in InUse(next) \ {id} : mapping'[i] = mapping[i]
        /\ Sound(mapping', next, mapping'[id])
        /\ Replaces(mapping, level, nodes, id, mapping'[id])
    BY <2>1, <2>3, <2>4
  <2>10. Claims(mapping', root_id, level, nodes, blocked, ctx'[t])
    BY <2>4, <2>5
  <2>11. UNCHANGED <<root_id, next_unused_node_id, blocked>> /\ id \in nodes /\ id \notin blocked
    BY <1>1, <2>3
  <2>12. \A u \in Threads \ {t} : Stale(ctx[u], ctx'[u], {id})
    BY <2>4
  <2> HIDE DEF id, next, c, d
  <2> QED
    BY <2>2, <2>6, <2>8, <2>9, <2>10, <2>11, <2>12, SmoReplace DEF next
<1> QED
  BY <1>6, <1>7

LEMMA PostLeafNodeSmo ==
  ASSUME StructInv, NEW level, NEW nodes, SmoInv(level, nodes), NEW t \in Threads,
         PostLeafNode(t)
  PROVE  SmoInv(level, nodes)'
<1> DEFINE c == ctx[t]
           k == c.key
           next == next_unused_node_id
           inserts == Promised(c.op) = "insert"
           n == IF inserts THEN LeafInsertNode(c.cur.node, k) ELSE LeafDeleteNode(c.cur.node, k)
           d == [c EXCEPT !.seen = {(k \in contents)}]
           id == c.cur.id
<1>1. /\ c.pc = "op"
      /\ IF Current(c.cur)
         THEN /\ mapping' = [mapping EXCEPT ![id] = n]
              /\ contents' = IF inserts THEN contents \cup {k} ELSE contents \ {k}
              /\ ctx' = [u \in Threads |->
                   IF u = t THEN Done(d, TRUE) ELSE Observe(Outdated(ctx[u], id), k, contents')]
         ELSE UNCHANGED mapping /\ Continue(t, Begin(c, lru_cache[t]))
      /\ UNCHANGED <<root_id, blocked, next_unused_node_id, released>>
  BY DEF PostLeafNode
<1>2. c.pc \in Past /\ c.pc \in Working \ {"abortUndo"}
  BY <1>1 DEF Past, Working
<1>3. /\ InHand(mapping, next, level, nodes, c) /\ c \in ContextSet /\ Ready(c, "op")
      /\ TreeOK(mapping, next, root_id) /\ Coherent(mapping, next, root_id, level, nodes)
      /\ Finished(mapping, nodes, c)
  <2>1. /\ InHand(mapping, next, level, nodes, c) /\ c \in ContextSet /\ Ready(c, c.pc)
        /\ PlaceClaim(mapping, root_id, level, nodes, blocked, c)
        /\ TreeOK(mapping, next, root_id) /\ Coherent(mapping, next, root_id, level, nodes)
    BY <1>2, WorkInHand
  <2>2. Finished(mapping, nodes, c)
    BY <1>2, <2>1, PastFinished
  <2> QED
    BY <1>1, <2>1, <2>2
<1>4. k \in Nat /\ c.pending = <<>> /\ IsLeaf(c.cur.node) /\ InRange(c.cur.node, k)
      /\ c.cur.node.low <= k
  BY <1>3 DEF ContextSet, Ready, InHand, Here
<1>5. CASE ~Current(c.cur)
  <2> DEFINE e == Begin(c, lru_cache[t])
  <2>1. next \in 1 .. MaxId + 1 /\ CacheOK(mapping, next, lru_cache[t])
    BY ThreadFacts
  <2>2. Plain(e)
    <3> HIDE DEF c, next
    <3> QED
      BY <1>3, <2>1, BeginPlain
  <2> HIDE DEF e
  <2> QED
    BY <1>1, <1>5, <2>2, SmoPlain DEF e
<1>6. CASE Current(c.cur)
  <2>1. /\ mapping[id] = c.cur.node /\ c.cur.node.type # "remove" /\ id \in InUse(next)
        /\ c.cur.node.type = "merge" => ~Posted(mapping, nodes, c.cur.node.sep, c.cur.node.other)
        /\ id \in nodes /\ id \notin blocked
    <3>1. /\ mapping[id] = c.cur.node /\ c.cur.node.type # "remove" /\ id \notin blocked
          /\ c.cur.node.type = "merge" => ~Posted(mapping, nodes, c.cur.node.sep, c.cur.node.other)
      BY <1>3, <1>6 DEF Finished, Settled, Current
    <3>2. id \in InUse(next)
      BY <1>3 DEF InHand, Holds, Here, Taken
    <3> QED
      BY <1>3, <3>1, <3>2, CoherentFacts
  <2>2. Sound(mapping, next, c.cur.node) /\ c.cur.node \in AnyNode
    BY <1>3, <2>1, TableNode
  <2>3. /\ Sound(mapping, next, n) /\ Kin(c.cur.node, n) /\ n.type = "delta"
        /\ n.high = c.cur.node.high
    <3>1. Sound(mapping, next, n) /\ Kin(c.cur.node, n)
      BY <1>4, <2>2, LeafInsertNodeSound, LeafDeleteNodeSound
    <3>2. n.type = "delta" /\ n.high = c.cur.node.high
      BY <2>2 DEF LeafInsertNode, LeafDeleteNode, DataNode, AnyNode
    <3> QED
      BY <3>1, <3>2
  <2>4. Replaces(mapping, level, nodes, id, n)
    <3>1. IsLeaf(n)
      BY <1>4, <2>3 DEF Kin, IsLeaf
    <3>2. /\ Kin(mapping[id], n) /\ n.high = mapping[id].high /\ mapping[id].type # "remove"
          /\ mapping[id].type = "merge" =>
               ~Posted(mapping, nodes, mapping[id].sep, mapping[id].other)
      BY <2>1, <2>3
    <3> HIDE DEF n, id, c
    <3> QED
      BY <2>3, <3>1, <3>2 DEF Replaces
  <2> HIDE DEF n
  <2>5. /\ TreeOK(mapping', next, root_id) /\ mapping'[id] = n
        /\ \A i \in InUse(next) \ {id} : mapping'[i] = mapping[i]
    <3>1. mapping' = [mapping EXCEPT ![id] = n]
      BY <1>1, <1>6
    <3> HIDE DEF c, id
    <3>2. TreeOK(mapping', next, root_id)
      BY <1>3, <2>1, <2>3, <3>1, InstallTreeOK
    <3>3. mapping'[id] = n /\ \A i \in InUse(next) \ {id} : mapping'[i] = mapping[i]
      BY <1>3, <2>1, <3>1, MaxIdType DEF TreeOK, InUse, NodeIds
    <3> QED
      BY <3>2, <3>3
  <2>6. /\ mapping'[id].type # "remove" /\ Replaces(mapping, level, nodes, id, mapping'[id])
        /\ Sound(mapping', next, mapping'[id])
    BY <2>1, <2>3, <2>4, <2>5 DEF TreeOK
  <2>7. ctx'[t] = Done(d, TRUE) /\ contents' \in SUBSET Nat
    BY <1>1, <1>4, <1>6 DEF StructInv
  <2>8. Plain(ctx'[t])
    <3>1. {(k \in contents)} \in SUBSET BOOLEAN
      OBVIOUS
    <3>2. d \in ContextSet /\ d.pending = c.pending
      <4> HIDE DEF c, k
      <4> QED
        BY <1>3, <3>1 DEF ContextSet
    <3> HIDE DEF d
    <3> QED
      BY <1>4, <2>7, <3>2, DonePlain
  <2>9. ASSUME NEW u \in Threads \ {t} PROVE Stale(ctx[u], ctx'[u], {id})
    <3> DEFINE o == Outdated(ctx[u], id)
               S == contents'
    <3>1. ctx'[u] = Observe(o, k, S)
      BY <1>1, <1>6
    <3>2. ctx[u] \in ContextSet /\ o \in ContextSet /\ Stale(ctx[u], o, {id})
      BY ThreadFacts, OutdatedFields, OutdatedStale
    <3>3. S \in SUBSET Nat
      BY <2>7
    <3> HIDE DEF o, S, k, id
    <3> QED
      BY <3>1, <3>2, <3>3, ObserveStale
  <2>10. Claims(mapping', root_id, level, nodes, blocked, ctx'[t]) /\ Follows(ctx[t], ctx'[t])
    BY <2>8, PlainClaims, PlainFollows
  <2>11. Gone(mapping', next, nodes, released')
    <3>1. Gone(mapping, next, nodes, released)
      BY DEF SmoInv
    <3>2. Tame(mapping, next, level, nodes, mapping', level, nodes)
      <4> HIDE DEF id, next, c
      <4> QED
        BY <1>3, <2>1, <2>5, <2>6, ReplaceItems
    <3> HIDE DEF c
    <3> QED
      BY <1>1, <3>1, <3>2, GoneKept
  <2>12. UNCHANGED <<root_id, next_unused_node_id, blocked>> /\ id \in nodes /\ id \notin blocked
    BY <1>1, <2>1
  <2>13. \A u \in Threads \ {t} : Stale(ctx[u], ctx'[u], {id})
    BY <2>9
  <2> HIDE DEF id, next, c
  <2> QED
    BY <2>5, <2>6, <2>10, <2>11, <2>12, <2>13, SmoReplace DEF next
<1> QED
  BY <1>5, <1>6

-----------------------------------------------------------------------------
(* The merge.                                                              *)

LEMMA ParentAtLike ==
  ASSUME NEW m, NEW level, NEW nodes, NEW c, NEW id, ParentAt(m, level, nodes, c, id),
         NEW d, d.par.id = c.par.id, d.par.node = c.par.node, d.par.fresh = c.par.fresh,
         d.key = c.key
  PROVE  ParentAt(m, level, nodes, d, id)
<1>1. HasParentNode(c) <=> HasParentNode(d)
  BY DEF HasParentNode
<1>2. Settled(m, nodes, d.par) <=> Settled(m, nodes, c.par)
  BY DEF Settled
<1>3. Handed(m, nodes, d, id) <=> Handed(m, nodes, c, id)
  BY DEF Handed
<1> QED
  BY <1>1, <1>2, <1>3 DEF ParentAt

\* The node that the merge removes: the right sibling, as the table has it.
LEMMA MergeInto ==
  ASSUME StructInv, NEW level, NEW nodes, SmoInv(level, nodes), NEW t \in Threads,
         NEW c, c = ctx[t], c.pc = "mergePost", Current(c.cur),
         NEW x, x = Head(c.pending)[1]
  PROVE  LET id == c.cur.id
             next == next_unused_node_id IN
         /\ InHand(mapping, next, level, nodes, c) /\ c \in ContextSet /\ HasParentNode(c)
         /\ TreeOK(mapping, next, root_id) /\ Coherent(mapping, next, root_id, level, nodes)
         /\ ContextOK(mapping, next, c) /\ ParentAt(mapping, level, nodes, c, id) /\ Target(c) = id
         /\ id \in nodes /\ id \in InUse(next) /\ id \notin blocked /\ mapping[id] = c.cur.node
         /\ mapping[id].type # "remove" /\ id # x /\ c.par.id # id
         /\ mapping[id].type = "merge" => ~Posted(mapping, nodes, mapping[id].sep, mapping[id].other)
         /\ x \in nodes /\ mapping[x].type = "remove" /\ mapping[x] = Head(c.pending)[2]
         /\ GetNextNodeID(mapping[id]) = x /\ IsLeaf(mapping[id]) = IsLeaf(mapping[x])
         /\ x \in InUse(next) /\ x # INVALID_NODE_ID /\ Head(c.pending) = c.pending[1]
         /\ 1 \in 1 .. Len(c.pending)
<1> DEFINE id == c.cur.id
           next == next_unused_node_id
<1>1. c.pc \in Past /\ c.pc \in Working \ {"abortUndo"}
  BY DEF Past, Working
<1>2. /\ InHand(mapping, next, level, nodes, c) /\ c \in ContextSet /\ Ready(c, c.pc)
      /\ PlaceClaim(mapping, root_id, level, nodes, blocked, c) /\ Target(c) = id
      /\ TreeOK(mapping, next, root_id) /\ Coherent(mapping, next, root_id, level, nodes)
  BY <1>1, WorkInHand
<1>3. Finished(mapping, nodes, c)
  BY <1>1, <1>2, PastFinished
<1>4. /\ mapping[id] = c.cur.node /\ c.cur.node.type # "remove" /\ id \in InUse(next)
      /\ c.cur.node.type = "merge" => ~Posted(mapping, nodes, c.cur.node.sep, c.cur.node.other)
      /\ id \notin blocked /\ id \in nodes
  <2>1. /\ mapping[id] = c.cur.node /\ c.cur.node.type # "remove"
        /\ c.cur.node.type = "merge" => ~Posted(mapping, nodes, c.cur.node.sep, c.cur.node.other)
        /\ id \notin blocked
    BY <1>3 DEF Finished, Settled, Current
  <2>2. id \in InUse(next)
    BY <1>2 DEF InHand, Holds, Here, Taken
  <2> QED
    BY <1>2, <2>1, <2>2, CoherentFacts
<1>5. /\ c.pending # <<>> /\ GetNextNodeID(c.cur.node) = x /\ HasParentNode(c)
      /\ Head(c.pending) = c.pending[1] /\ 1 \in 1 .. Len(c.pending)
  <2>1. c.pending # <<>> /\ GetNextNodeID(c.cur.node) = x
    BY <1>2 DEF Ready
  <2> QED
    BY <1>2, <2>1, PoppedFields DEF InHand, Holds
<1>6. /\ x \in InUse(next) /\ mapping[x] = Head(c.pending)[2] /\ mapping[x].type = "remove"
  BY <1>2, <1>5 DEF InHand, Holds, Taken, PendingClaim
<1>7. x # INVALID_NODE_ID /\ x \in nodes /\ mapping[x].kind = mapping[id].kind
  <2>1. x # INVALID_NODE_ID /\ Sound(mapping, next, mapping[id]) /\ Ranked(level, id, mapping[id])
    BY <1>2, <1>4, <1>6, CoherentFacts
  <2>2. x \in nodes
    BY <1>2, <1>4, <1>5, <2>1 DEF Coherent, Layered
  <2>3. mapping[x].kind = mapping[id].kind
    BY <1>4, <1>5, <2>1, NextBeside
  <2> QED
    BY <2>1, <2>2, <2>3
<1>8. ContextOK(mapping, next, c) /\ ParentAt(mapping, level, nodes, c, id)
  BY <1>2 DEF StructInv, InHand
<1>9. c.par.id # id
  <2>1. level[c.par.id] = level[id] + 1
    BY <1>5, <1>8 DEF ParentAt
  <2>2. level[id] \in Nat
    BY <1>2, <1>4, CoherentFacts
  <2> QED
    BY <2>1, <2>2
<1> QED
  BY <1>2, <1>4, <1>5, <1>6, <1>7, <1>8, <1>9 DEF IsLeaf

\* Others that have a split delta in hand whose node this is not.
LEMMA MergeOthers ==
  ASSUME StructInv, NEW level, NEW nodes, SmoInv(level, nodes), NEW t \in Threads,
         NEW c, c = ctx[t], c.pc = "mergePost", Current(c.cur),
         NEW x, x = Head(c.pending)[1], NEW u \in Threads \ {t}
  PROVE  /\ ctx[u].pc = "postInsert" /\ ctx[u].par.fresh => ctx[u].cur.node.other \in nodes \ {x}
         /\ ctx[u].pc = "newRoot" /\ root_id = ctx[u].cur.id => ctx[u].cur.node.other \in nodes \ {x}
<1> DEFINE e == ctx[u]
           id == c.cur.id
           next == next_unused_node_id
<1>1. /\ TreeOK(mapping, next, root_id) /\ Coherent(mapping, next, root_id, level, nodes)
      /\ Target(c) = id /\ id \in nodes /\ id \in InUse(next)
      /\ mapping[id].type = "merge" => ~Posted(mapping, nodes, mapping[id].sep, mapping[id].other)
      /\ x \in nodes /\ mapping[x].type = "remove" /\ GetNextNodeID(mapping[id]) = x
      /\ x # INVALID_NODE_ID /\ Head(c.pending) = c.pending[1] /\ 1 \in 1 .. Len(c.pending)
  BY MergeInto
<1>2. /\ mapping[x].low = mapping[id].high[1] /\ level[x] = level[id]
  <2>1. Sound(mapping, next, mapping[id]) /\ Ranked(level, id, mapping[id])
    BY <1>1, CoherentFacts
  <2> QED
    BY <1>1, <2>1, NextBeside
<1>3. ASSUME e.pc \in {"postInsert", "newRoot"}
      PROVE  /\ InHand(mapping, next, level, nodes, e) /\ Ready(e, e.pc)
             /\ PlaceClaim(mapping, root_id, level, nodes, blocked, e)
             /\ mapping[e.cur.node.other].low = e.cur.node.sep /\ e.cur.node.sep \in Nat
             /\ level[e.cur.node.other] = level[e.cur.id]
  <2>1. e.pc \in Working \ {"abortUndo"}
    BY <1>3 DEF Working
  <2>2. /\ InHand(mapping, next, level, nodes, e) /\ Ready(e, e.pc)
        /\ PlaceClaim(mapping, root_id, level, nodes, blocked, e)
    BY <2>1, WorkInHand
  <2>3. e.cur.node.type = "split"
    BY <1>3, <2>2 DEF Ready
  <2> HIDE DEF e
  <2> QED
    BY <1>1, <2>2, <2>3, SplitInHand
<1>4. ASSUME e.pc = "newRoot", root_id = e.cur.id PROVE e.cur.node.other \in nodes \ {x}
  <2>1. e.cur.node.other \in nodes /\ level[e.cur.node.other] = level[root_id]
    BY <1>3, <1>4 DEF PlaceClaim
  <2>2. mapping[e.cur.node.other].type # "remove"
    BY <1>1, <2>1 DEF Coherent, Removals
  <2> QED
    BY <1>1, <2>1, <2>2
<1>5. ASSUME e.pc = "postInsert", e.par.fresh PROVE e.cur.node.other \in nodes \ {x}
  <2>1. e.cur.node.other \in nodes
    BY <1>3, <1>5 DEF PlaceClaim
  <2>2. SUFFICES ASSUME e.cur.node.other = x PROVE FALSE
    BY <2>1
  <2>3. Inserts(mapping, e, c)
    BY DEF SmoInv
  <2>4. PICK s \in Seps(e.par.node) : mapping[id].low < s /\ s < e.cur.node.sep
    BY <1>1, <1>5, <2>2, <2>3 DEF Inserts
  <2> DEFINE q == e.par.id
             y == e.par.node.items[s]
  <2>5. HasParentNode(e)
    BY <1>3, <1>5 DEF Ready
  <2>6. /\ q \in nodes /\ mapping[q] = e.par.node /\ Under(level, e.cur.id, q) /\ ~IsLeaf(e.par.node)
    <3>1. InHand(mapping, next, level, nodes, e)
      BY <1>3, <1>5
    <3> HIDE DEF e
    <3> QED
      BY <1>1, <1>5, <2>5, <3>1, FreshParent
  <2>7. HasItem(mapping, q, s, y)
    BY <2>4, <2>6 DEF HasItem, Item
  <2>8. mapping[y].low = s /\ s \in Nat
    <3> HIDE DEF q, y
    <3> QED
      BY <1>1, <2>6, <2>7, ItemAt
  <2>9. Under(level, id, q)
    BY <1>2, <1>3, <1>5, <2>2, <2>6 DEF Under
  <2>10. CoversAt(mapping, id, s)
    <3>1. s < mapping[id].high[1]
      BY <1>2, <1>3, <1>5, <2>2, <2>4
    <3>2. mapping[id].low \in Nat
      BY <1>1, TableNode
    <3> QED
      BY <2>4, <2>8, <3>1, <3>2 DEF CoversAt, Covers, InRange
  <2>11. y = id \/ MergesAt(mapping, id, s, y)
    <3> HIDE DEF q, y, id
    <3> QED
      BY <1>1, <2>6, <2>7, <2>9, <2>10, ItemUnder
  <2>12. y # id
    <3>1. mapping[id].low \in Nat
      BY <1>1, TableNode
    <3> QED
      BY <2>4, <2>8, <3>1
  <2>13. Posted(mapping, nodes, s, y)
    BY <2>6, <2>7 DEF Posted, HasItem
  <2> QED
    BY <1>1, <2>11, <2>12, <2>13 DEF MergesAt
<1> QED
  BY <1>4, <1>5

\* Where the right sibling x may be merged into id, and what the tree is then.
MergeReady(m, nodes, id, x) ==
  /\ id \in nodes /\ m[id].type # "remove" /\ x \in nodes /\ m[x].type = "remove"
  /\ m[id].type = "merge" => ~Posted(m, nodes, m[id].sep, m[id].other)
  /\ GetNextNodeID(m[id]) = x /\ IsLeaf(m[id]) = IsLeaf(m[x])
MergedAt(m, nodes, id, x) ==
  id \in nodes /\ x \notin nodes /\ m[id].type = "merge" /\ m[id].other = x

LEMMA MergeTree ==
  ASSUME NEW m, NEW next, NEW root, TreeOK(m, next, root),
         NEW level, NEW nodes, Coherent(m, next, root, level, nodes),
         NEW id, NEW x, MergeReady(m, nodes, id, x),
         NEW m2, \A i \in InUse(next) \ {id} : m2[i] = m[i], m2[id] = MergeNode(m[id], m[x], x)
  PROVE  /\ Coherent(m2, next, root, level, nodes \ {x})
         /\ Tame(m, next, level, nodes, m2, level, nodes \ {x})
         /\ MergedAt(m2, nodes \ {x}, id, x) /\ Ranked(level, id, m2[id])
<1> DEFINE nodes2 == nodes \ {x}
<1>1. /\ id \in nodes /\ m[id].type # "remove" /\ x \in nodes /\ m[x].type = "remove"
      /\ m[id].type = "merge" => ~Posted(m, nodes, m[id].sep, m[id].other)
      /\ GetNextNodeID(m[id]) = x /\ IsLeaf(m[id]) = IsLeaf(m[x])
  BY DEF MergeReady
<1>2. nodes2 = nodes \ {x}
  OBVIOUS
<1> HIDE DEF nodes2
<1>3. Coherent(m2, next, root, level, nodes2) /\ Ranked(level, id, m2[id])
  BY <1>1, <1>2, MergeCoherent
<1>4. Tame(m, next, level, nodes, m2, level, nodes2)
  BY <1>1, <1>2, MergeItems
<1>5. MergedAt(m2, nodes2, id, x)
  <2> DEFINE a == m[id]
             b == m[x]
             n == m2[id]
  <2>1. a \in AnyNode /\ b \in AnyNode /\ x \in NodeIds /\ n = MergeNode(a, b, x)
    BY <1>1, CoherentFacts, TableNode
  <2>2. id # x
    BY <1>1
  <2> HIDE DEF a, b, n
  <2>3. n.type = "merge" /\ n.other = x
    BY <2>1, MergedFacts
  <2> QED
    BY <1>1, <1>2, <2>2, <2>3 DEF MergedAt, n
<1> QED
  BY <1>2, <1>3, <1>4, <1>5

\* d goes on from c with the node that m2 has, and one remove delta less.
Popping(m2, c, d) ==
  /\ d.cur.id = c.cur.id /\ d.cur.node = m2[c.cur.id] /\ d.key = c.key /\ d.pc = c.pc
  /\ d.par.id = c.par.id /\ d.par.node = c.par.node /\ d.par.fresh = c.par.fresh
  /\ \A i \in 1 .. Len(d.pending) :
       i + 1 \in 1 .. Len(c.pending) /\ d.pending[i] = c.pending[i + 1]

LEMMA MergedInHand ==
  ASSUME NEW m, NEW next, NEW root, TreeOK(m, next, root),
         NEW level, NEW nodes, Coherent(m, next, root, level, nodes),
         NEW m2, TreeOK(m2, next, root), NEW nodes2, Coherent(m2, next, root, level, nodes2),
         Tame(m, next, level, nodes, m2, level, nodes2),
         NEW c \in ContextSet, InHand(m, next, level, nodes, c),
         \A i \in InUse(next) \ {c.cur.id} : m2[i] = m[i],
         NEW x, MergedAt(m2, nodes2, c.cur.id, x),
         NEW d \in ContextSet, Popping(m2, c, d), Holds(m2, next, d), Here(d)
  PROVE  InHand(m2, next, level, nodes2, d)
<1> DEFINE id == c.cur.id
<1>1. Stale(c, Outdated(c, id), {id})
  BY OutdatedStale
<1>2. id \in nodes2 /\ m2[id].type = "merge" /\ m2[id].other = x /\ x \notin nodes2
  BY DEF MergedAt
<1>3. id \in InUse(next) /\ Ranked(level, id, m2[id]) /\ level[id] \in Nat
  BY <1>2, CoherentFacts
<1>4. Holds(m, next, c) /\ ParentAt(m, level, nodes, c, id) /\ PendingClaim(m, c) /\ c.pc # "abortUndo"
  BY DEF InHand
<1>5. ParentAt(m2, level, nodes2, d, id)
  <2> DEFINE f == Outdated(c, id)
  <2>1. ParentAt(m2, level, nodes2, f, id)
    <3>1. /\ Stale(c, f, {id}) /\ \A i \in InUse(next) \ {id} : m2[i] = m[i]
          /\ HasParentNode(c) => id \in InUse(next)
      BY <1>1, <1>3
    <3> HIDE DEF id, f
    <3> QED
      BY <1>4, <3>1, ParentKept
  <2>2. SameView(c, f) /\ f.par.fresh = (c.par.fresh /\ c.par.id \notin {id})
    BY <1>1 DEF Stale
  <2> HIDE DEF f, id
  <2>3. CASE HasParentNode(c)
    <3>1. level[c.par.id] = level[id] + 1
      BY <1>4, <2>3 DEF ParentAt
    <3>2. c.par.id # id /\ c.par.fresh \in BOOLEAN
      BY <1>3, <3>1 DEF ContextSet, SnapSet
    <3>3. /\ d.par.id = f.par.id /\ d.par.node = f.par.node /\ d.par.fresh = f.par.fresh
          /\ d.key = f.key
      BY <2>2, <3>2 DEF SameView, Popping
    <3> QED
      BY <2>1, <3>3, ParentAtLike
  <2>4. CASE ~HasParentNode(c)
    BY <2>4 DEF ParentAt, HasParentNode, Popping
  <2> QED
    BY <2>3, <2>4
<1>6. NodeClaim(m2, level, nodes2, d)
  BY <1>2, <1>3 DEF NodeClaim, Popping
<1>7. PendingClaim(m2, d)
  <2>1. ASSUME NEW i \in 1 .. Len(d.pending) PROVE m2[d.pending[i][1]] = d.pending[i][2]
    <3> DEFINE j == i + 1
               y == c.pending[j][1]
    <3>1. j \in 1 .. Len(c.pending) /\ d.pending[i] = c.pending[j]
      BY <2>1 DEF Popping
    <3> HIDE DEF j
    <3>2. y \in InUse(next) /\ m[y] = c.pending[j][2] /\ m[y].type = "remove"
      BY <1>4, <3>1 DEF Holds, Taken, PendingClaim
    <3>3. m2[y] = m[y]
      BY <3>2 DEF Tame
    <3> QED
      BY <3>1, <3>2, <3>3
  <2> QED
    BY <2>1 DEF PendingClaim
<1>8. d.cur.id = id /\ d.pc # "abortUndo"
  BY <1>4 DEF Popping
<1> QED
  BY <1>5, <1>6, <1>7, <1>8 DEF InHand

\* The check of the parent comes next.
LEMMA MergedClaims ==
  ASSUME NEW m2, NEW next, NEW root, TreeOK(m2, next, root), NEW level, NEW nodes2,
         Coherent(m2, next, root, level, nodes2), NEW c, NEW x, MergedAt(m2, nodes2, c.cur.id, x),
         NEW d, Popping(m2, c, d), InHand(m2, next, level, nodes2, d), HasParentNode(d),
         Target(c) = c.cur.id, NEW e, e = At(d, "mergeCheck"), NEW blk
  PROVE  Claims(m2, root, level, nodes2, blk, e) /\ Follows(c, e)
<1>1. /\ "mergeCheck" \in PCs \ {"jump"}
      /\ "mergeCheck" \notin Past \cup Locking \cup {"postInsert"}
  BY DEF PCs, Past, Locking
<1>2. /\ d.cur.id \in nodes2 /\ d.cur.node = m2[d.cur.id] /\ d.cur.node.type = "merge"
      /\ d.cur.id = c.cur.id
  BY DEF Popping, MergedAt
<1>3. NextClaim(m2, nodes2, d)
  <2>1. d.cur.node.type # "split"
    BY <1>2
  <2> QED
    BY <1>2, <2>1, NextKnown
<1>4. d.par.fresh /\ d.cur.node.sep \in Seps(d.par.node) =>
        d.par.node.items[d.cur.node.sep] = d.cur.node.other
  BY <1>2, MergeItem
<1>5. d \in ContextSet
  BY DEF InHand
<1>6. e.pc = "mergeCheck" /\ e.cur = d.cur /\ e.par = d.par /\ e.pending = d.pending
  BY <1>1, <1>5, AtFields
<1>7. PlaceClaim(m2, root, level, nodes2, blk, e)
  <2>1. NextClaim(m2, nodes2, e)
    BY <1>3, <1>6 DEF NextClaim, Handed, HasParentNode
  <2> QED
    BY <1>1, <1>4, <1>6, <2>1 DEF PlaceClaim
<1>8. Claims(m2, root, level, nodes2, blk, e)
  BY <1>1, <1>7, AtClaims
<1>9. Follows(c, e)
  <2>1. Target(e) = Target(c)
    BY <1>2, <1>6 DEF Target
  <2>2. \A i \in 1 .. Len(e.pending) :
          \E j \in 1 .. Len(c.pending) : c.pending[j][1] = e.pending[i][1]
    BY <1>6 DEF Popping
  <2> QED
    BY <1>1, <1>6, <2>1, <2>2 DEF Follows, Trails
<1> QED
  BY <1>8, <1>9

LEMMA PostMergeNodeSmo ==
  ASSUME StructInv, NEW level, NEW nodes, SmoInv(level, nodes), NEW t \in Threads,
         PostMergeNode(t)
  PROVE  \E nodes2 : SmoInv(level, nodes2)'
<1> DEFINE c == ctx[t]
           next == next_unused_node_id
           x == Head(c.pending)[1]
           n == MergeNode(c.cur.node, Head(c.pending)[2], x)
           d == Popped(WithCur(c, n))
           e == [c EXCEPT !.cur.node = n, !.pending = Tail(@), !.pc = "mergeCheck"]
           id == c.cur.id
           m2 == mapping'
<1>1. /\ c.pc = "mergePost"
      /\ IF Current(c.cur) THEN Install(t, id, n, e) ELSE UNCHANGED mapping /\ Continue(t, Abort(c))
      /\ UNCHANGED <<root_id, blocked, next_unused_node_id, released>>
  BY DEF PostMergeNode
<1>2. CASE ~Current(c.cur)
  BY <1>1, <1>2, SmoAbort
<1>3. CASE Current(c.cur)
  <2>0. PICK nodes2 : nodes2 = nodes \ {x}
    OBVIOUS
  <2>1. /\ InHand(mapping, next, level, nodes, c) /\ c \in ContextSet /\ HasParentNode(c)
        /\ TreeOK(mapping, next, root_id) /\ Coherent(mapping, next, root_id, level, nodes)
        /\ ContextOK(mapping, next, c) /\ ParentAt(mapping, level, nodes, c, id) /\ Target(c) = id
        /\ id \in InUse(next) /\ id \notin blocked /\ mapping[id] = c.cur.node
        /\ mapping[x] = Head(c.pending)[2] /\ MergeReady(mapping, nodes, id, x)
    <3>1. c = ctx[t] /\ x = Head(c.pending)[1]
      OBVIOUS
    <3> HIDE DEF c, x
    <3> QED
      BY <1>1, <1>3, <3>1, MergeInto DEF MergeReady
  <2>2. /\ Sound(mapping, next, n) /\ n \in AnyNode /\ Kin(mapping[id], n)
        /\ d \in ContextSet /\ Holds(mapping, next, d) /\ Here(d) /\ Ready(d, "mergeCheck")
        /\ d.cur.id = id /\ d.cur.node = n /\ d.key = c.key
        /\ \A i \in 1 .. Len(d.pending) :
             i + 1 \in 1 .. Len(c.pending) /\ d.pending[i] = c.pending[i + 1]
    <3>1. MergedHand(mapping, next, c, n, d)
      BY <1>1, MergedContext
    <3> HIDE DEF c, n, d, id
    <3> QED
      BY <3>1 DEF MergedHand, id
  <2>3. e = At(d, "mergeCheck")
    <3> HIDE DEF c, n
    <3> QED
      BY <2>1 DEF At, Popped, WithCur, ContextSet
  <2>4. d.pc = c.pc /\ d.par = c.par
    <3> DEFINE b == WithCur(c, n)
    <3> HIDE DEF c, n
    <3>1. b \in ContextSet /\ b.pending = c.pending /\ b.pc = c.pc /\ b.par = c.par
      BY <2>1, <2>2, WithCurFields
    <3>2. b.pending # <<>>
      BY <1>1, <2>1, <3>1 DEF ContextOK, Placed, Working, Ready
    <3> HIDE DEF b
    <3>3. Popped(b).pc = b.pc /\ Popped(b).par = b.par
      BY <3>1, <3>2, PoppedFields
    <3> QED
      BY <3>1, <3>3 DEF b
  <2> HIDE DEF e, d
  <2>5. /\ ctx'[t] = e /\ m2 = [mapping EXCEPT ![id] = n]
        /\ \A u \in Threads \ {t} : Stale(ctx[u], ctx'[u], {id})
    <3>1. Install(t, id, n, e)
      BY <1>1, <1>3
    <3> HIDE DEF n
    <3>2. /\ ctx'[t] = e /\ m2 = [mapping EXCEPT ![id] = n]
          /\ \A u \in Threads \ {t} : ctx'[u] = Outdated(ctx[u], id)
      BY <3>1 DEF Install
    <3> QED
      BY <3>2, ThreadFacts, OutdatedStale
  <2>6. m2[id] = n /\ \A i \in InUse(next) \ {id} : m2[i] = mapping[i]
    <3> HIDE DEF n, m2
    <3> QED
      BY <2>1, <2>5, MaxIdType DEF TreeOK, InUse, NodeIds
  <2>7. TreeOK(m2, next, root_id) /\ Grows(mapping, next, m2, next)
    <3> HIDE DEF n, m2, id, c
    <3> QED
      BY <2>1, <2>2, <2>5, InstallTreeOK
  <2>8. /\ Coherent(m2, next, root_id, level, nodes2)
        /\ Tame(mapping, next, level, nodes, m2, level, nodes2)
        /\ MergedAt(m2, nodes2, id, x)
    <3>1. m2[id] = MergeNode(mapping[id], mapping[x], x)
      BY <2>1, <2>6
    <3> HIDE DEF m2, id, x, n, c
    <3> QED
      BY <2>0, <2>1, <2>6, <3>1, MergeTree
  <2>9. Popping(m2, c, d) /\ HasParentNode(d)
    <3> HIDE DEF m2, n, c
    <3> QED
      BY <2>1, <2>2, <2>4, <2>6 DEF Popping, HasParentNode
  <2>10. Holds(m2, next, d)
    <3> HIDE DEF m2
    <3> QED
      BY <2>2, <2>7, HoldsGrows
  <2>11. Claims(m2, root_id, level, nodes2, blocked, e) /\ Follows(c, e)
    <3>1. /\ \A i \in InUse(next) \ {c.cur.id} : m2[i] = mapping[i]
          /\ MergedAt(m2, nodes2, c.cur.id, x) /\ Target(c) = c.cur.id
      BY <2>1, <2>6, <2>8
    <3>2. d \in ContextSet /\ Here(d)
      BY <2>2
    <3> HIDE DEF m2, id, x, n, c
    <3>3. InHand(m2, next, level, nodes2, d)
      BY <2>1, <2>7, <2>8, <2>9, <2>10, <3>1, <3>2, MergedInHand
    <3> QED
      BY <2>3, <2>7, <2>8, <2>9, <3>1, <3>3, MergedClaims
  <2>12. ASSUME NEW u \in Threads \ {t}
         PROVE  /\ Stale(ctx[u], ctx'[u], {id})
                /\ ctx[u].pc \in Locking => ctx[u].par.id \in blocked' /\ ctx[u].par.id \notin {id}
                /\ ctx[u].pc = "postInsert" /\ ctx'[u].par.fresh => ctx[u].cur.node.other \in nodes2
                /\ ctx[u].pc = "newRoot" /\ root_id' = ctx[u].cur.id => ctx[u].cur.node.other \in nodes2
    <3>1. /\ Stale(ctx[u], ctx'[u], {id}) /\ (ctx'[u].par.fresh => ctx[u].par.fresh)
      BY <2>5, <2>12 DEF Stale
    <3>2. ctx[u].pc \in Locking => ctx[u].par.id \in blocked
      BY DEF SmoInv, Claims, PlaceClaim
    <3>3. /\ ctx[u].pc = "postInsert" /\ ctx[u].par.fresh => ctx[u].cur.node.other \in nodes2
          /\ ctx[u].pc = "newRoot" /\ root_id = ctx[u].cur.id => ctx[u].cur.node.other \in nodes2
      <4>1. c = ctx[t] /\ x = Head(c.pending)[1]
        OBVIOUS
      <4> HIDE DEF c, x
      <4> QED
        BY <1>1, <1>3, <2>0, <2>12, <4>1, MergeOthers
    <3> HIDE DEF id
    <3> QED
      BY <1>1, <2>1, <3>1, <3>2, <3>3
  <2>13. ASSUME NEW u \in Threads \ {t}
         PROVE  /\ Locks(ctx'[t], ctx'[u]) /\ Locks(ctx'[u], ctx'[t])
                /\ Inserts(m2, ctx'[t], ctx'[u]) /\ Inserts(m2, ctx'[u], ctx'[t])
    <3>1. Inserts(mapping, ctx[u], c) /\ Stale(ctx[u], ctx'[u], {id})
      BY <2>5, <2>13 DEF SmoInv
    <3>2. ParentAt(mapping, level, nodes, c, Target(c)) /\ ContextOK(mapping, next, c)
      BY <2>1
    <3> HIDE DEF c, id, m2, next
    <3> QED
      BY <2>5, <2>8, <2>11, <3>1, <3>2, QuietPairs
  <2>14. Gone(m2, next', nodes2, released')
    <3>1. Gone(mapping, next, nodes, released)
      BY DEF SmoInv
    <3> HIDE DEF m2
    <3> QED
      BY <1>1, <2>8, <3>1, GoneKept
  <2>15. /\ Coherent(m2, next_unused_node_id', root_id', level, nodes2)
         /\ Tame(mapping, next_unused_node_id, level, nodes, m2, level, nodes2)
         /\ \A i \in InUse(next_unused_node_id) \ {id} : m2[i] = mapping[i]
         /\ Claims(m2, root_id', level, nodes2, blocked', ctx'[t])
    BY <1>1, <2>5, <2>6, <2>8, <2>11
  <2> HIDE DEF id, c
  <2>16. SmoInv(level, nodes2)'
    BY <2>12, <2>13, <2>14, <2>15, SmoStep
  <2> QED
    BY <2>16
<1> QED
  BY <1>2, <1>3

-----------------------------------------------------------------------------
(* Allocations.                                                            *)
\* A step of t that puts a new node into the table and begins t's traversal again.
LEMMA SmoAllocate ==
  ASSUME StructInv, NEW level, NEW nodes, SmoInv(level, nodes), NEW t \in Threads,
         NEW level2, NEW nodes2, nodes \subseteq nodes2,
         Coherent(mapping', next_unused_node_id', root_id', level2, nodes2),
         Tame(mapping, next_unused_node_id, level, nodes, mapping', level2, nodes2),
         InUse(next_unused_node_id) \subseteq InUse(next_unused_node_id'),
         NEW ids, \A i \in InUse(next_unused_node_id) \ ids : mapping'[i] = mapping[i],
         ids \cap blocked = {}, UNCHANGED <<blocked, released>>,
         \A u \in Threads \ {t} :
           /\ Stale(ctx[u], ctx'[u], ids)
           /\ ctx[u].pc = "newRoot" /\ root_id' = ctx[u].cur.id => ctx[u].cur.node.other \in nodes2,
         ctx'[t] = Abort(ctx[t])
  PROVE  SmoInv(level2, nodes2)'
<1> DEFINE c == ctx[t]
           d == Abort(c)
           next == next_unused_node_id
           m == mapping
           m2 == mapping'
<1>1. /\ c \in ContextSet /\ ContextOK(m, next, c)
      /\ Claims(m, root_id, level, nodes, blocked, c) /\ ParentAt(m, level, nodes, c, Target(c))
  BY ThreadFacts DEF SmoInv, StructInv, Claims
<1>2. Plain(d)
  BY <1>1, AbortPlain
<1> HIDE DEF d
<1>3. Claims(m2, root_id', level2, nodes2, blocked', d) /\ Follows(c, d)
  BY <1>2, PlainClaims, PlainFollows
<1>4. ASSUME NEW u \in Threads \ {t}
      PROVE  /\ Locks(d, ctx'[u]) /\ Locks(ctx'[u], d)
             /\ Inserts(m2, d, ctx'[u]) /\ Inserts(m2, ctx'[u], d)
  <2>1. Inserts(m, ctx[u], c) /\ Stale(ctx[u], ctx'[u], ids)
    BY <1>4 DEF SmoInv
  <2> HIDE DEF c, m, m2, next
  <2> QED
    BY <1>1, <1>3, <2>1, QuietPairs DEF m, m2, next
<1>5. ASSUME NEW u \in Threads \ {t}
      PROVE  /\ ctx[u].pc \in Locking => ctx[u].par.id \in blocked' /\ ctx[u].par.id \notin ids
             /\ ctx[u].pc = "postInsert" /\ ctx'[u].par.fresh => ctx[u].cur.node.other \in nodes2
  <2>1. PlaceClaim(m, root_id, level, nodes, blocked, ctx[u])
    BY DEF SmoInv, Claims
  <2>2. ctx'[u].par.fresh => ctx[u].par.fresh
    BY <1>5 DEF Stale
  <2> QED
    BY <2>1, <2>2 DEF PlaceClaim
<1>6. Gone(m2, next_unused_node_id', nodes2, released')
  <2>1. Gone(m, next, nodes, released)
    BY DEF SmoInv
  <2> QED
    BY <2>1, GoneKept
<1>7. \A u \in Threads \ {t} :
        /\ Stale(ctx[u], ctx'[u], ids)
        /\ ctx[u].pc \in Locking => ctx[u].par.id \in blocked' /\ ctx[u].par.id \notin ids
        /\ ctx[u].pc = "postInsert" /\ ctx'[u].par.fresh => ctx[u].cur.node.other \in nodes2
        /\ ctx[u].pc = "newRoot" /\ root_id' = ctx[u].cur.id => ctx[u].cur.node.other \in nodes2
  BY <1>5
<1>8. ctx'[t] = d
  BY DEF d
<1>9. /\ Claims(mapping', root_id', level2, nodes2, blocked', ctx'[t])
      /\ \A u \in Threads \ {t} :
           /\ Locks(ctx'[t], ctx'[u]) /\ Locks(ctx'[u], ctx'[t])
           /\ Inserts(mapping', ctx'[t], ctx'[u]) /\ Inserts(mapping', ctx'[u], ctx'[t])
  BY <1>3, <1>4, <1>8
<1> HIDE DEF c
<1> QED
  BY <1>6, <1>7, <1>9, SmoStep

LEMMA InstallRootNodeSmo ==
  ASSUME StructInv, NEW level, NEW nodes, SmoInv(level, nodes), NEW t \in Threads,
         InstallRootNode(t)
  PROVE  \E level2, nodes2 : SmoInv(level2, nodes2)'
<1> DEFINE c == ctx[t]
           next == next_unused_node_id
           n == RootNode(c)
           m2 == mapping'
           x == c.cur.node.other
           sep == c.cur.node.sep
<1>1. /\ c.pc = "newRoot" /\ Continue(t, Abort(c))
      /\ IF root_id = c.cur.id
         THEN /\ next <= MaxId /\ m2 = [mapping EXCEPT ![next] = n]
              /\ root_id' = next /\ next_unused_node_id' = next + 1
         ELSE UNCHANGED <<mapping, root_id, next_unused_node_id>>
      /\ UNCHANGED <<blocked, released>>
  BY DEF InstallRootNode, RootNode
<1>2. CASE root_id # c.cur.id
  BY <1>1, <1>2, SmoAbort
<1>3. CASE root_id = c.cur.id
  <2>1. /\ InHand(mapping, next, level, nodes, c) /\ c \in ContextSet /\ c.cur.node.type = "split"
        /\ TreeOK(mapping, next, root_id) /\ Coherent(mapping, next, root_id, level, nodes)
        /\ x \in nodes
    <3>1. ctx[t].pc \in Working \ {"abortUndo"}
      BY <1>1 DEF Working
    <3> QED
      BY <1>1, <1>3, <3>1, WorkInHand DEF Ready, PlaceClaim
  <2>2. next \in NodeIds /\ DOMAIN mapping = NodeIds /\ next \in Nat
    <3>1. next \in 1 .. MaxId + 1 /\ DOMAIN mapping = NodeIds
      BY ThreadFacts
    <3> QED
      BY <1>1, <1>3, <3>1, MaxIdType DEF NodeIds
  <2>3. level[x] = level[root_id] /\ sep \in Nat /\ LowKey < sep
    <3>1. /\ level[c.cur.node.other] = level[c.cur.id] /\ c.cur.node.low < c.cur.node.sep
          /\ c.cur.node.sep \in Nat
      <4> HIDE DEF c, next
      <4> QED
        BY <2>1, SplitInHand
    <3>2. c.cur.node.low = mapping[c.cur.id].low
      BY <2>1 DEF InHand, Holds, Here, Taken, Kin
    <3>3. mapping[root_id].low = LowKey
      BY <2>1 DEF TreeOK
    <3> QED
      BY <1>3, <3>1, <3>2, <3>3
  <2>4. TreeOK(m2, next + 1, next)
    <3>1. StructInv'
      BY InstallRootNodeStructInv
    <3> QED
      BY <1>1, <1>3, <3>1 DEF StructInv
  <2>5. /\ InUse(next + 1) = InUse(next) \cup {next} /\ next \notin InUse(next)
        /\ level \in [NodeIds -> Nat] /\ root_id \in InUse(next)
    <3>1. level \in [NodeIds -> Nat] /\ root_id \in InUse(next)
      BY <2>1 DEF Coherent, Layered
    <3> HIDE DEF next
    <3> QED
      BY <2>2, <3>1, LevelsMore
  <2>6. PICK level2 : Levels(level, next, level[root_id] + 1, level2)
    <3>1. level[root_id] + 1 \in Nat
      BY <2>1, <2>5, CoherentFacts
    <3> HIDE DEF next
    <3> QED
      BY <2>2, <2>5, <3>1, LevelsMore
  <2>7. PICK nodes2 : nodes2 = nodes \cup {next}
    OBVIOUS
  <2>8. m2[next] = n /\ \A i \in InUse(next) : m2[i] = mapping[i]
    <3>1. \A i \in InUse(next) : i \in NodeIds /\ i # next
      BY <2>1, <2>5, CoherentFacts
    <3> HIDE DEF n, m2, next
    <3> QED
      BY <1>1, <1>3, <2>2, <3>1
  <2>9. /\ Coherent(m2, next + 1, next, level2, nodes2)
        /\ Tame(mapping, next, level, nodes, m2, level2, nodes2)
    <3>1. m2[next] = Base("inner", LowKey, <<0, INVALID_NODE_ID>>,
                         [s \in {LowKey, sep} |-> IF s = LowKey THEN root_id ELSE x])
      BY <1>3, <2>8 DEF RootNode
    <3>2. Sound(m2, next + 1, m2[next])
      BY <2>4, <2>5 DEF TreeOK
    <3> HIDE DEF m2, next, x, sep, n
    <3> QED
      BY <2>1, <2>2, <2>3, <2>6, <2>7, <2>8, <3>1, <3>2, RootCoherent
  <2>10. ctx'[t] = Abort(c) /\ \A u \in Threads \ {t} : ctx'[u] = ctx[u] /\ ctx[u] \in ContextSet
    BY <1>1, ThreadFacts DEF Continue, StructInv
  <2>11. ASSUME NEW u \in Threads \ {t}
         PROVE  /\ Stale(ctx[u], ctx'[u], {})
                /\ ctx[u].pc = "newRoot" /\ root_id' = ctx[u].cur.id =>
                     ctx[u].cur.node.other \in nodes2
    <3>1. Stale(ctx[u], ctx'[u], {})
      BY <2>10, StaleSelf
    <3>2. ctx[u].pc = "newRoot" => ctx[u].cur.id \in InUse(next)
      <4>1. ctx[u].pc = "newRoot" => ctx[u].pc \in Working \ {"abortUndo"}
        BY DEF Working
      <4>2. ctx[u].pc = "newRoot" => InHand(mapping, next, level, nodes, ctx[u])
        BY <4>1, WorkInHand
      <4> QED
        BY <4>2 DEF InHand, Holds, Here, Taken
    <3> QED
      BY <1>1, <1>3, <2>5, <3>1, <3>2
  <2>12. /\ Coherent(m2, next', root_id', level2, nodes2)
         /\ InUse(next) \subseteq InUse(next') /\ nodes \subseteq nodes2
         /\ \A i \in InUse(next) \ {} : m2[i] = mapping[i]
         /\ {} \cap blocked = {} /\ UNCHANGED <<blocked, released>>
    BY <1>1, <1>3, <2>5, <2>7, <2>8, <2>9
  <2> HIDE DEF c
  <2>13. SmoInv(level2, nodes2)'
    BY <2>9, <2>10, <2>11, <2>12, SmoAllocate DEF c
  <2> QED
    BY <2>13
<1> QED
  BY <1>2, <1>3

LEMMA PostSplitNodeSmo ==
  ASSUME StructInv, NEW level, NEW nodes, SmoInv(level, nodes), NEW t \in Threads,
         PostSplitNode(t), SplitsHold
  PROVE  \E level2, nodes2 : SmoInv(level2, nodes2)'
<1> DEFINE c == ctx[t]
           next == next_unused_node_id
           n == c.cur.node
           id == c.cur.id
           m2 == mapping'
<1>1. /\ c.pc = "split"
      /\ IF Current(c.cur)
         THEN /\ next <= MaxId /\ m2 = SplitTable(mapping, next, id, n)
              /\ ctx' = [u \in Threads |-> IF u = t THEN Abort(c) ELSE Outdated(ctx[u], id)]
              /\ next_unused_node_id' = next + 1
         ELSE UNCHANGED <<mapping, next_unused_node_id>> /\ Continue(t, Loaded(c))
      /\ UNCHANGED <<root_id, blocked, released>>
  BY DEF PostSplitNode, SplitTable
<1>2. /\ InHand(mapping, next, level, nodes, c) /\ Finished(mapping, nodes, c) /\ c \in ContextSet
      /\ TreeOK(mapping, next, root_id) /\ Coherent(mapping, next, root_id, level, nodes)
      /\ Ready(c, "split") /\ CameFrom(c, c)
  <2>1. c.pc \in Working \ {"abortUndo"} /\ c.pc \in Past
    BY <1>1 DEF Past, Working
  <2>2. /\ InHand(mapping, next, level, nodes, c) /\ c \in ContextSet /\ Ready(c, c.pc)
        /\ PlaceClaim(mapping, root_id, level, nodes, blocked, c) /\ CameFrom(c, c)
        /\ TreeOK(mapping, next, root_id) /\ Coherent(mapping, next, root_id, level, nodes)
    BY <2>1, WorkInHand
  <2>3. Finished(mapping, nodes, c)
    BY <2>1, <2>2, PastFinished
  <2> QED
    BY <1>1, <2>2, <2>3
<1>3. CASE ~Current(c.cur)
  <2>1. OutcomeIn(Onward, c, Loaded(c))
    BY <1>2, LoadedOutcome DEF Finished
  <2>2. Continue(t, Loaded(c))
    BY <1>1, <1>3
  <2>3. UNCHANGED <<root_id, mapping, next_unused_node_id, released, blocked>>
    BY <1>1, <1>3
  <2> QED
    BY <1>2, <2>1, <2>2, <2>3, SmoOnward
<1>4. CASE Current(c.cur)
  <2>1. /\ mapping[id] = n /\ id \in InUse(next) /\ id \in nodes /\ id \notin blocked
        /\ n.type = "base" /\ MaySplit(n)
    <3>1. mapping[id] = n /\ id \notin blocked /\ n.type = "base" /\ MaySplit(n)
      BY <1>2, <1>4 DEF Finished, Settled, Current, Ready
    <3>2. id \in InUse(next)
      BY <1>2 DEF InHand, Holds, Here, Taken
    <3>3. n.type # "remove"
      BY <3>1
    <3> QED
      BY <1>2, <3>1, <3>2, <3>3, CoherentFacts
  <2>2. next \in NodeIds /\ DOMAIN mapping = NodeIds /\ next \in Nat
    <3>1. next \in 1 .. MaxId + 1 /\ DOMAIN mapping = NodeIds
      BY ThreadFacts
    <3> QED
      BY <1>1, <1>4, <3>1, MaxIdType DEF NodeIds
  <2>3. ~IsLeaf(n) => mapping[n.items[SplitKey(n)]].type # "remove"
    BY <1>4 DEF SplitsHold, MaySplitAt
  <2>5. /\ InUse(next + 1) = InUse(next) \cup {next} /\ next \notin InUse(next)
        /\ level \in [NodeIds -> Nat] /\ level[id] \in Nat
    <3>1. level \in [NodeIds -> Nat]
      BY <1>2 DEF Coherent, Layered
    <3>2. level[id] \in Nat
      BY <1>2, <2>1, CoherentFacts
    <3> HIDE DEF next
    <3> QED
      BY <2>2, <3>1, <3>2, LevelsMore
  <2>6. PICK level2 : Levels(level, next, level[id], level2)
    <3> HIDE DEF next, id
    <3> QED
      BY <2>2, <2>5, LevelsMore
  <2>7. PICK nodes2 : nodes2 = nodes \cup {next}
    OBVIOUS
  <2>8. /\ m2[id] = SplitNode(mapping[id], next) /\ m2[next] = SplitSibling(mapping[id])
        /\ \A i \in InUse(next) \ {id} : m2[i] = mapping[i]
    <3>1. \A i \in InUse(next) : i \in NodeIds /\ i # next
      BY <1>2, <2>5, CoherentFacts
    <3>2. m2 = [mapping EXCEPT ![next] = SplitSibling(n), ![id] = SplitNode(n, next)]
      BY <1>1, <1>4 DEF SplitTable
    <3> HIDE DEF n, m2, next, id
    <3> QED
      BY <2>1, <2>2, <3>1, <3>2
  <2>9. /\ Coherent(m2, next + 1, root_id, level2, nodes2)
        /\ Tame(mapping, next, level, nodes, m2, level2, nodes2)
    <3>1. /\ mapping[id].type = "base" /\ MaySplit(mapping[id])
          /\ ~IsLeaf(mapping[id]) => mapping[mapping[id].items[SplitKey(mapping[id])]].type # "remove"
      BY <2>1, <2>3
    <3> HIDE DEF m2, next, id, n, c
    <3>2. Coherent(m2, next + 1, root_id, level2, nodes2)
      BY <1>2, <2>1, <2>2, <2>6, <2>7, <2>8, <3>1, SplitCoherent
    <3>3. Tame(mapping, next, level, nodes, m2, level2, nodes2)
      BY <1>2, <2>1, <2>2, <2>6, <2>7, <2>8, <3>1, SplitItems
    <3> QED
      BY <3>2, <3>3
  <2>10. ctx'[t] = Abort(c) /\ \A u \in Threads \ {t} : Stale(ctx[u], ctx'[u], {id})
    <3>1. \A u \in Threads \ {t} : ctx'[u] = Outdated(ctx[u], id)
      BY <1>1, <1>4
    <3> QED
      BY <1>1, <1>4, <3>1, ThreadFacts, OutdatedStale
  <2>11. \A u \in Threads \ {t} :
           /\ Stale(ctx[u], ctx'[u], {id})
           /\ ctx[u].pc = "newRoot" /\ root_id' = ctx[u].cur.id => ctx[u].cur.node.other \in nodes2
    BY <1>1, <2>7, <2>10 DEF SmoInv, Claims, PlaceClaim
  <2>12. /\ Coherent(m2, next', root_id', level2, nodes2)
         /\ InUse(next) \subseteq InUse(next') /\ nodes \subseteq nodes2
         /\ {id} \cap blocked = {} /\ UNCHANGED <<blocked, released>>
    BY <1>1, <1>4, <2>1, <2>5, <2>7, <2>9
  <2> HIDE DEF c, id
  <2>13. SmoInv(level2, nodes2)'
    BY <2>8, <2>9, <2>10, <2>11, <2>12, SmoAllocate DEF c
  <2> QED
    BY <2>13
<1> QED
  BY <1>3, <1>4

-----------------------------------------------------------------------------
(* The theorems.                                                           *)

LEMMA InitSmo ==
  ASSUME CoherentScenarios, Init
  PROVE  Smo
<1>1. PICK s \in Scenarios :
        root_id = s.tree.root /\ mapping = s.tree.mapping /\ next_unused_node_id = s.tree.next
  BY DEF Init
<1>2. PICK level, nodes : Coherent(mapping, next_unused_node_id, root_id, level, nodes)
  BY <1>1 DEF CoherentScenarios
<1>3. Gone(mapping, next_unused_node_id, nodes, released)
  BY DEF Init, Gone
<1>4. Plain(IdleContext) /\ IdleContext.pc = "idle"
  BY SnapTypes DEF Plain, IdleContext, HasParentNode, Working
<1>5. \A t \in Threads : ctx[t] = IdleContext
  BY DEF Init
<1>6. \A t \in Threads : Claims(mapping, root_id, level, nodes, blocked, ctx[t])
  BY <1>4, <1>5, PlainClaims
<1>7. \A t \in Threads : \A u \in Threads \ {t} :
        Locks(ctx[t], ctx[u]) /\ Inserts(mapping, ctx[t], ctx[u])
  BY <1>4, <1>5 DEF Locks, Inserts, Locking
<1>8. SmoInv(level, nodes)
  BY <1>2, <1>3, <1>6, <1>7 DEF SmoInv
<1> QED
  BY <1>8 DEF Smo

LEMMA StepSmo ==
  ASSUME StructInv, Smo, NEW t \in Threads, Start(t) \/ Step(t), SplitsHold, HitsWhole
  PROVE  Smo'
<1>1. PICK level, nodes : SmoInv(level, nodes)
  BY DEF Smo
<1>2. ASSUME \/ Start(t) \/ CacheHit(t) \/ LoadRoot(t) \/ LoadNodeID(t) \/ JumpToNodeID(t)
             \/ JumpToLeftSibling(t) \/ ConsolidateParent(t) \/ CheckMerge(t)
             \/ PostInnerDeleteNode(t) \/ PostInnerInsertNode(t) \/ ConsolidateNode(t)
             \/ ProbeSplitChild(t) \/ PostAbortOnParent(t) \/ PostRemoveNode(t)
             \/ RemoveAbortOnParent(t) \/ PostLeafNode(t) \/ Return(t)
      PROVE  Smo'
  <2>1. SmoInv(level, nodes)'
    BY <1>1, <1>2, StartSmo, CacheHitSmo, LoadRootSmo, LoadNodeIDSmo, JumpToNodeIDSmo,
       JumpToLeftSiblingSmo, ConsolidateParentSmo, CheckMergeSmo, PostInnerDeleteNodeSmo,
       PostInnerInsertNodeSmo, ConsolidateNodeSmo, ProbeSplitChildSmo, PostAbortOnParentSmo,
       PostRemoveNodeSmo, RemoveAbortOnParentSmo, PostLeafNodeSmo, ReturnSmo
  <2> QED
    BY <2>1 DEF Smo
<1>3. ASSUME PostMergeNode(t) PROVE Smo'
  <2>1. PICK nodes2 : SmoInv(level, nodes2)'
    BY <1>1, <1>3, PostMergeNodeSmo
  <2> QED
    BY <2>1 DEF Smo
<1>4. ASSUME InstallRootNode(t) PROVE Smo'
  <2>1. PICK level2, nodes2 : SmoInv(level2, nodes2)'
    BY <1>1, <1>4, InstallRootNodeSmo
  <2> QED
    BY <2>1 DEF Smo
<1>5. ASSUME PostSplitNode(t) PROVE Smo'
  <2>1. PICK level2, nodes2 : SmoInv(level2, nodes2)'
    BY <1>1, <1>5, PostSplitNodeSmo
  <2> QED
    BY <2>1 DEF Smo
<1> QED
  BY <1>2, <1>3, <1>4, <1>5 DEF Step

LEMMA NextSmo ==
  ASSUME StructInv, Smo, [Next]_vars, [SplitsHold /\ HitsWhole]_vars
  PROVE  Smo'
<1>1. ASSUME UNCHANGED vars PROVE Smo'
  BY <1>1 DEF vars, shared, Smo, SmoInv
<1>2. ASSUME NEW t \in Threads, Start(t) \/ Step(t), SplitsHold /\ HitsWhole PROVE Smo'
  BY <1>2, StepSmo
<1> QED
  BY <1>1, <1>2 DEF Next

LEMMA SmoAlways ==
  ASSUME CoherentScenarios
  PROVE  Spec /\ [][SplitsHold /\ HitsWhole]_vars => []Smo
<1>1. Init => Smo
  BY InitSmo
<1>2. StructInv /\ Smo /\ [Next]_vars /\ [SplitsHold /\ HitsWhole]_vars => Smo'
  BY NextSmo
<1>3. Spec => []StructInv
  BY StructAlways
<1> QED
  BY <1>1, <1>2, <1>3, PTL DEF Spec

\* The assertions of FinishPartialSMO() and PostInnerDeleteNode() hold: the item
\* that a finished merge delta takes out of the parent is the merged node's, and
\* that node has been removed.
THEOREM MergedWasRemoved ==
  ASSUME CoherentScenarios
  PROVE  Spec /\ [][SplitsHold /\ HitsWhole]_vars => []DeletedIsRemoved
<1>1. ASSUME StructInv, Smo PROVE DeletedIsRemoved
  <2>1. PICK level, nodes : SmoInv(level, nodes)
    BY <1>1 DEF Smo
  <2>2. SUFFICES ASSUME NEW t \in Threads, ctx[t].pc = "postDelete", Current(ctx[t].par)
                 PROVE  /\ ctx[t].par.node.items[ctx[t].cur.node.sep] = ctx[t].cur.node.other
                        /\ mapping[ctx[t].cur.node.other].type = "remove"
    BY DEF DeletedIsRemoved
  <2> DEFINE c == ctx[t]
             next == next_unused_node_id
  <2>3. /\ InHand(mapping, next, level, nodes, c) /\ Ready(c, "postDelete")
        /\ PlaceClaim(mapping, root_id, level, nodes, blocked, c)
        /\ Coherent(mapping, next, root_id, level, nodes)
    <3>1. c.pc \in Working \ {"abortUndo"}
      BY <2>2 DEF Working
    <3> QED
      BY <1>1, <2>1, <2>2, <3>1, WorkInHand
  <2>4. c.par.fresh /\ c.cur.node.sep \in Seps(c.par.node) /\ c.cur.node.type = "merge"
    BY <2>2, <2>3 DEF Current, Ready, Found
  <2>5. c.par.node.items[c.cur.node.sep] = c.cur.node.other
    BY <2>2, <2>3, <2>4 DEF PlaceClaim
  <2>6. c.cur.node.other \in InUse(next) \ nodes
    BY <2>3, <2>4 DEF InHand, Holds, Here, Taken, Sound, SoundDelta, NodeClaim, InUse, NodeIds
  <2>7. mapping[c.cur.node.other].type = "remove"
    BY <2>3, <2>6 DEF Coherent, Removals
  <2> QED
    BY <2>5, <2>7
<1> QED
  BY <1>1, SmoAlways, StructAlways, PTL

\* An id that PostInnerDeleteNode() has given to the epoch manager is not reached
\* from a live node, neither as a child nor as a right sibling.
THEOREM ReleasedNotReached ==
  ASSUME CoherentScenarios
  PROVE  Spec /\ [][SplitsHold /\ HitsWhole]_vars => []ReleasedUnreachable
<1>1. ASSUME StructInv, Smo PROVE ReleasedUnreachable
  <2>1. PICK level, nodes : SmoInv(level, nodes)
    BY <1>1 DEF Smo
  <2> DEFINE next == next_unused_node_id
             m == mapping
  <2>2. /\ TreeOK(m, next, root_id) /\ Coherent(m, next, root_id, level, nodes)
        /\ next \in 1 .. MaxId + 1
    BY <1>1, <2>1 DEF SmoInv, StructInv, TreeOK
  <2>3. /\ released \subseteq InUse(next)
        /\ \A x \in released : x \notin nodes /\ \A k : ~Posted(m, nodes, k, x)
    BY <2>1 DEF SmoInv, Gone
  <2> SUFFICES ASSUME NEW p \in LiveIds
               PROVE  /\ GetNextNodeID(m[p]) \notin released
                      /\ \A s \in Seps(m[p]) : m[p].items[s] \notin released
    BY DEF ReleasedUnreachable
  <2>4. p \in InUse(next) /\ m[p].type # "remove"
    BY <2>2, MaxIdType DEF LiveIds, Live, NodeIds, InUse
  <2> HIDE DEF m, next
  <2>5. p \in nodes /\ Sound(m, next, m[p])
    BY <2>2, <2>4, CoherentFacts
  <2>6. INVALID_NODE_ID \notin released
    BY <2>2, <2>3, CoherentFacts
  <2>7. GetNextNodeID(m[p]) \notin released
    BY <2>2, <2>3, <2>5, <2>6 DEF Coherent, Layered
  <2>8. ASSUME NEW s \in Seps(m[p]) PROVE m[p].items[s] \notin released
    <3>1. CASE IsLeaf(m[p])
      BY <2>5, <2>6, <3>1 DEF Sound, SoundChildren
    <3>2. CASE ~IsLeaf(m[p])
      <4>1. Posted(m, nodes, s, m[p].items[s])
        BY <2>5, <3>2 DEF Posted, Item
      <4> QED
        BY <2>3, <4>1
    <3> QED
      BY <3>1, <3>2
  <2> QED
    BY <2>7, <2>8
<1> QED
  BY <1>1, SmoAlways, StructAlways, PTL
=============================================================================
