------------------------------ MODULE InnerChain ------------------------------
(***************************************************************************)
(* The delta chains of inner nodes (bwtree.h): how separators are posted on *)
(* a chain and taken off it, the four walks that read it (down to a child,  *)
(* down for backward iteration, to a separator, to a left sibling), and its *)
(* consolidation.                                                          *)
(*                                                                         *)
(* As in LeafChain two sibling nodes build every kind of chain: node 1     *)
(* splits into 1 and 2, node 2 is merged back.  content[i] maps the        *)
(* separators node i should have to the ids of the children.  A child's    *)
(* split or merge is the action that posts its separator: BwTree shows     *)
(* that the children change in no other order.                             *)
(***************************************************************************)
EXTENDS Integers, SequencesExt, FiniteSetsExt, Functions, SortedSets

CONSTANTS
  Keys,            \* the keys children are split at
  UpperThreshold,  \* INNER_NODE_SIZE_UPPER_THRESHOLD
  LowerThreshold,  \* INNER_NODE_SIZE_LOWER_THRESHOLD
  MaxDeltas        \* bound: no separator is posted on a longer chain

ASSUME InnerChainAssumption ==
  /\ Keys \subseteq Nat \ {0}
  /\ UpperThreshold \in Nat \ {0, 1} /\ LowerThreshold \in Nat
  /\ MaxDeltas \in Nat

VARIABLES
  inner,    \* 1..2 -> the physical node, NoInner if the NodeID is not in use
  content   \* 1..2 -> separator -> child

vars == <<inner, content>>

INVALID_NODE_ID == 0
LowKey    == 0               \* KeyType{}: the low key of node 1
LowChild  == 1               \* its child, which is never removed
\* The ids a child that starts at k may get: an id can be used a second time
\* while a delta of its first use is still on the chain.
IdsFor(k) == {2 * k, 2 * k + 1}
NoHigh    == <<0, INVALID_NODE_ID>>
NoBase    == [items |-> <<>>, high |-> NoHigh]
NoInner   == [deltas |-> <<>>, base |-> NoBase]
NoContent == [s \in {} |-> LowChild]
InUse(i)  == inner[i] # NoInner

-----------------------------------------------------------------------------
(* Metadata: a delta node inherits from its child_node_p.                  *)

HighOf(l)  == IF l.deltas = <<>> THEN l.base.high ELSE Head(l.deltas).high
CountOf(l) == IF l.deltas = <<>> THEN Len(l.base.items) ELSE Head(l.deltas).count
TypeOf(l)  == IF l.deltas = <<>> THEN "base" ELSE Head(l.deltas).type
\* low_key_p points to the first item of the leftmost base node.
LowPairOf(l) == l.base.items[1]

Push(l, delta) == [deltas |-> <<delta>> \o l.deltas, base |-> l.base]

InnerInsertNode(l, item, next, location) ==
  [type |-> "insert", item |-> item, prev |-> NoHigh, next |-> next, location |-> location,
   right |-> NoBase, count |-> CountOf(l) + 1, high |-> HighOf(l)]
InnerDeleteNode(l, item, prev, next, location) ==
  [type |-> "delete", item |-> item, prev |-> prev, next |-> next, location |-> location,
   right |-> NoBase, count |-> CountOf(l) - 1, high |-> HighOf(l)]
InnerSplitNode(l, sibling, id) ==
  [type |-> "split", item |-> <<sibling.items[1][1], id>>, prev |-> NoHigh, next |-> NoHigh,
   location |-> 0, right |-> NoBase, count |-> CountOf(l) - Len(sibling.items),
   high |-> <<sibling.items[1][1], id>>]
\* item holds the merge key; AdjustNodeSize() removes base nodes only.
InnerMergeNode(l, right, id) ==
  [type |-> "merge", item |-> <<HighOf(l)[1], id>>, prev |-> NoHigh, next |-> NoHigh,
   location |-> 0, right |-> right, count |-> CountOf(l) + Len(right.items),
   high |-> right.high]

IsData(delta) == delta.type \in {"insert", "delete"}

-----------------------------------------------------------------------------
(* Reading a chain.  Positions in a base node count from 1.                *)

\* The merge deltas at which a walk for k turns right; the first one ends its
\* walk over deltas, as a right branch is a base node.
RightTurns_Strict(l, k) ==
  {i \in DOMAIN l.deltas : l.deltas[i].type = "merge" /\ k > l.deltas[i].item[1]}
RightTurns(l, k) ==
  {i \in DOMAIN l.deltas : l.deltas[i].type = "merge" /\ k >= l.deltas[i].item[1]}
Visited(l, turns) == {i \in DOMAIN l.deltas : \A turn \in turns : i <= turn}
BaseFor(l, turns) == IF turns = {} THEN l.base ELSE l.deltas[Min(turns)].right

\* std::lower_bound(): the first position from start up to, not including, end
\* whose key is not below k, end if there is none; start if the range is empty.
\* Keys are numbers, so that std::upper_bound() is the same for k + 1.
Bound(items, start, end, k) ==
  LET hits == {p \in start .. end - 1 : items[p][1] >= k}
  IN  IF hits # {} THEN Min(hits) ELSE Max({start, end})

BeforeNext(delta, k) == delta.next[2] = INVALID_NODE_ID \/ k < delta.next[1]

\* NavigateInnerNode(context): the first delta that knows the child for k says
\* so; the others narrow the part of the base node to search.  A merge delta
\* starts over.
Decides(l, delta, k) ==
  \/ delta.type = "insert" /\ k >= delta.item[1] /\ BeforeNext(delta, k)
  \/ /\ delta.type = "delete"
     /\ (delta.prev[2] = LowPairOf(l)[2] \/ k >= delta.prev[1])
     /\ BeforeNext(delta, k)

SinceMerge(l, seen) ==
  {i \in seen : IsData(l.deltas[i]) /\ \A m \in seen : l.deltas[m].type = "merge" => m < i}

NewestOf(l, found) == l.deltas[Min(found)]
Child(d) == IF d.type = "insert" THEN d.item[2] ELSE d.prev[2]

NavigateInnerNode(l, k) ==
  LET turns  == RightTurns(l, k)
      seen   == Visited(l, turns)
      decide == {i \in seen : Decides(l, l.deltas[i], k)}
      items  == BaseFor(l, turns).items
      near   == SinceMerge(l, seen)
      start  == Max({2} \cup {l.deltas[i].location :
                              i \in {j \in near : l.deltas[j].item[1] <= k}})
      end    == Min({Len(items) + 1} \cup {l.deltas[i].location :
                                          i \in {j \in near : l.deltas[j].item[1] > k}})
  IN  IF decide # {} THEN Child(NewestOf(l, decide))
      ELSE items[Bound(items, start, end, k + 1) - 1][2]

\* NavigateInnerNodeBI(context): the child left of k, for backward iteration.
RightTurnsBI(l, k) == {i \in RightTurns(l, k) : k > l.deltas[i].item[1]}
DecidesBI(l, delta, k) ==
  /\ BeforeNext(delta, k)
  /\ \/ delta.type = "insert" /\ k > delta.item[1]
     \/ /\ delta.type = "delete"
        /\ (delta.prev[2] = LowPairOf(l)[2] \/ k > delta.prev[1])

NavigateInnerNodeBI(l, k) ==
  LET turns  == RightTurnsBI(l, k)
      decide == {i \in Visited(l, turns) : DecidesBI(l, l.deltas[i], k)}
      items  == BaseFor(l, turns).items
      at     == Bound(items, 2, Len(items) + 1, k + 1) - 1
  IN  IF decide # {} THEN Child(NewestOf(l, decide))
      ELSE items[IF items[at][1] = k THEN at - 1 ELSE at][2]

\* NavigateInnerNode(snapshot, key, location): is k a separator, of which child,
\* and where in the base node does it belong?  The first item of the leftmost
\* base node has no proper key.
FirstItem_Compared(l, base) == 1
FirstItem(l, base) == IF base.items[1][2] = LowPairOf(l)[2] THEN 2 ELSE 1
LocationIn_Before(l, base, k) ==
  Bound(base.items, FirstItem(l, base), Len(base.items) + 1, k) - 1
LocationIn(l, base, k) ==
  Bound(base.items, FirstItem(l, base), Len(base.items) + 1, k)
Locate(l, k) ==
  LET turns == RightTurns(l, k)
      hits  == {i \in Visited(l, turns) : IsData(l.deltas[i]) /\ l.deltas[i].item[1] = k}
      base  == BaseFor(l, turns)
      at    == LocationIn(l, base, k)
      found == at <= Len(base.items) /\ base.items[at][1] = k
  IN  IF hits # {}
        THEN LET d == NewestOf(l, hits)
             IN  [found |-> d.type = "insert", id |-> d.item[2], location |-> d.location]
      ELSE [found |-> found, id |-> IF found THEN base.items[at][2] ELSE INVALID_NODE_ID,
            location |-> at]

-----------------------------------------------------------------------------
(* Consolidation                                                           *)

\* The sorted small set: of several deltas on a key only the newest is kept.
Newest_All(ds) == {i \in DOMAIN ds : IsData(ds[i])}
Newest(ds) ==
  {i \in DOMAIN ds : IsData(ds[i]) /\
     \A j \in 1 .. i - 1 : ~(IsData(ds[j]) /\ ds[j].item[1] = ds[i].item[1])}

Merges(l) == {i \in DOMAIN l.deltas : l.deltas[i].type = "merge"}

\* The high key of the chain below the last merge delta that the walk meets.
LeftmostHigh(l) ==
  LET ms == Merges(l) IN
  IF ms = {} THEN HighOf(l)
  ELSE IF Max(ms) = Len(l.deltas) THEN l.base.high ELSE l.deltas[Max(ms) + 1].high

\* The base nodes from left to right, each with the high key of the chain that
\* CollectAllSepsOnInnerRecursive() is given for it.
Segments(l) ==
  LET ms == Merges(l) IN
  <<[items |-> l.base.items, high |-> LeftmostHigh(l)]>> \o
  [n \in 1 .. Cardinality(ms) |-> l.deltas[Nth(ms, Cardinality(ms) - n)].right]

\* CollectAllSepsOnInner(): the low key pair, then base node by base node what
\* the deltas make of the items below its high key.
BelowHigh(seg, k) == seg.high[2] = INVALID_NODE_ID \/ k < seg.high[1]

KeptItems(l, seg) ==
  {seg.items[p] : p \in {q \in FirstItem(l, seg) .. Len(seg.items) :
     /\ BelowHigh(seg, seg.items[q][1])
     /\ \A i \in Newest(l.deltas) : l.deltas[i].item[1] # seg.items[q][1]}}

Inserted(l) == {i \in Newest(l.deltas) : l.deltas[i].type = "insert"}

Collect(l) ==
  LET segs == Segments(l)
      new(n) == {l.deltas[i].item : i \in {j \in Inserted(l) :
                   /\ BelowHigh(segs[n], l.deltas[j].item[1])
                   /\ n = 1 \/ ~BelowHigh(segs[n - 1], l.deltas[j].item[1])}}
  IN  <<LowPairOf(l)>> \o
      FlattenSeq([n \in DOMAIN segs |-> SortedByKey(KeptItems(l, segs[n]) \cup new(n))])

Consolidated(l) == [deltas |-> <<>>, base |-> [items |-> Collect(l), high |-> HighOf(l)]]

\* FindLeftSibling(): the separator before the last one not above k, from the
\* deltas and the base node; a chain with a merge delta is consolidated first.
LeftAmong(l, k) ==
  LET items == l.base.items
      known == {i \in Newest(l.deltas) : l.deltas[i].item[1] <= k}
      seps  == {l.deltas[i].item : i \in known \cap Inserted(l)} \cup
               {items[p] : p \in {q \in 2 .. Len(items) :
                  items[q][1] <= k /\ \A i \in known : l.deltas[i].item[1] # items[q][1]}}
      order == <<items[1]>> \o SortedByKey(seps)
  IN  order[Len(order) - 1][2]
FindLeftSibling(l, k) == LeftAmong(IF Merges(l) = {} THEN l ELSE Consolidated(l), k)

\* GetSplitSibling(), FindSplitPoint() for inner nodes
SplitSibling(base) ==
  [items |-> SubSeq(base.items, Len(base.items) \div 2 + 1, Len(base.items)),
   high |-> base.high]

-----------------------------------------------------------------------------
(* The operations                                                          *)

Seps(i) == DOMAIN content[i]
Owns(i, k) ==
  /\ InUse(i)
  /\ HighOf(inner[i])[2] # INVALID_NODE_ID => k < HighOf(inner[i])[1]
  /\ i = 2 => k >= HighOf(inner[1])[1]

\* The separator whose child holds k, that child, and the child left of one.
SepFor(i, k)    == Max({s \in Seps(i) : s <= k})
ChildFor(i, k)  == content[i][SepFor(i, k)]
SepLeftOf(i, s) == Max({r \in Seps(i) : r < s})
\* The high key pair of the child at a separator: the low key and the id of its
\* right sibling, which may be the first child of the other node.
FirstPair(i) == <<Min(Seps(i)), content[i][Min(Seps(i))]>>
ChildHigh(i, s) ==
  LET right == {r \in Seps(i) : r > s}
  IN  IF right # {} THEN <<Min(right), content[i][Min(right)]>>
      ELSE IF HighOf(inner[i])[2] # INVALID_NODE_ID THEN FirstPair(2) ELSE NoHigh

UsedIds == Range(content[1]) \cup Range(content[2])
MayPost(i) == Len(inner[i].deltas) < MaxDeltas

\* A child has split at k: PostInnerInsertNode().
PostSeparator(i, k) ==
  LET at == Locate(inner[i], k)
  IN  /\ Owns(i, k) /\ MayPost(i)
      /\ k \notin Seps(i)
      /\ ~at.found
      /\ \E id \in IdsFor(k) \ UsedIds :
           /\ inner' = [inner EXCEPT ![i] =
                Push(@, InnerInsertNode(@, <<k, id>>, ChildHigh(i, SepFor(i, k)), at.location))]
           /\ content' = [content EXCEPT ![i] = [s \in Seps(i) \cup {k} |->
                                                  IF s = k THEN id ELSE content[i][s]]]

\* The child at k has been merged into its left sibling: PostInnerDeleteNode().
\* The leftmost child of a node is not removed.
RemoveSeparator(i, k) ==
  LET at   == Locate(inner[i], k)
      left == SepLeftOf(i, k)
  IN  /\ InUse(i) /\ MayPost(i)
      /\ k \in Seps(i) \ {Min(Seps(i))}
      /\ at.found
      /\ inner' = [inner EXCEPT ![i] =
           Push(@, InnerDeleteNode(@, <<k, content[i][k]>>, <<left, content[i][left]>>,
                                   ChildHigh(i, k), at.location))]
      /\ content' = [content EXCEPT ![i] = Restrict(@, Seps(i) \ {k})]

\* ConsolidateInnerNode(), and FindLeftSibling() where there is a merge delta.
Consolidate(i) ==
  /\ InUse(i) /\ TypeOf(inner[i]) # "base"
  /\ inner' = [inner EXCEPT ![i] = Consolidated(@)]
  /\ UNCHANGED content

\* AdjustNodeSize() on an inner node that is too large.
Split ==
  LET base == inner[1].base
      new  == SplitSibling(base)
      key  == new.items[1][1]
  IN  /\ TypeOf(inner[1]) = "base" /\ ~InUse(2)
      /\ Len(base.items) >= UpperThreshold
      /\ inner' = <<Push(inner[1], InnerSplitNode(inner[1], new, 2)),
                    [deltas |-> <<>>, base |-> new]>>
      /\ content' = <<Restrict(content[1], {s \in Seps(1) : s < key}),
                      Restrict(content[1], {s \in Seps(1) : s >= key})>>

\* AdjustNodeSize() removed node 2 as too small; PostInnerMergeNode() on node 1.
Merge ==
  /\ InUse(2) /\ TypeOf(inner[2]) = "base"
  /\ Len(inner[2].base.items) <= LowerThreshold
  /\ inner' = <<Push(inner[1], InnerMergeNode(inner[1], inner[2].base, 2)), NoInner>>
  /\ content' = <<[s \in Seps(1) \cup Seps(2) |->
                    IF s \in Seps(1) THEN content[1][s] ELSE content[2][s]], NoContent>>

Init ==
  /\ inner = <<[deltas |-> <<>>, base |-> [items |-> <<<<LowKey, LowChild>>>>, high |-> NoHigh]],
               NoInner>>
  /\ content = <<[s \in {LowKey} |-> LowChild], NoContent>>

Next ==
  \/ \E i \in 1 .. 2 :
       \/ \E k \in Keys : PostSeparator(i, k) \/ RemoveSeparator(i, k)
       \/ Consolidate(i)
  \/ Split
  \/ Merge

Spec == Init /\ [][Next]_vars

-----------------------------------------------------------------------------
(* Properties                                                              *)

Pairs    == (Keys \cup {LowKey}) \X Nat
BaseType == [items : Seq(Pairs), high : Pairs]

\* The type invariant, and that the location of a delta cuts the items of the
\* base node it is about into those below its key and the others.
TypeOK ==
  \A i \in 1 .. 2 : InUse(i) =>
    /\ inner[i].base \in BaseType
    /\ content[i] \in [Seps(i) -> Nat] /\ Seps(i) \subseteq Keys \cup {LowKey}
    /\ \A n \in DOMAIN inner[i].deltas :
         LET d == inner[i].deltas[n]
         IN  /\ d.type \in {"insert", "delete", "split", "merge"}
             /\ d.item \in Pairs /\ d.prev \in Pairs /\ d.next \in Pairs
             /\ d.right \in BaseType /\ d.high \in Pairs /\ d.count \in Nat
             /\ IsData(d) =>
                  LET items == BaseFor(inner[i], RightTurns(inner[i], d.item[1])).items
                  IN  /\ d.location \in 1 .. Len(items) + 1
                      /\ \A p \in DOMAIN items :
                           p < d.location <=> \/ items[p][1] < d.item[1]
                                              \/ items[p] = LowPairOf(inner[i])

\* A traversal goes down to the child that holds its key, whatever deltas,
\* splits and merges the chain has.  A thread that finishes a split or a merge sees
\* whether the separator is there, and under which id; it is never the first one of
\* a node.  Backward iteration goes to the child left of its key if no delta of the
\* chain has the key for its next separator; with one it may go to a child that has
\* been removed (BackwardLive).
NavigateExact ==
  \A i \in 1 .. 2, k \in Keys : Owns(i, k) =>
    /\ NavigateInnerNode(inner[i], k) = ChildFor(i, k)
    /\ k > Min(Seps(i)) /\ (\A n \in DOMAIN inner[i].deltas : inner[i].deltas[n].next[1] # k)
         => NavigateInnerNodeBI(inner[i], k) = content[i][SepLeftOf(i, k)]
    /\ k # Min(Seps(i)) =>
         LET at == Locate(inner[i], k)
         IN  (at.found <=> k \in Seps(i)) /\ (at.found => at.id = content[i][k])

\* A removed child is merged into the child left of it, wherever the deltas, the
\* base node or both hold the two separators.
LeftSiblingExact ==
  \A i \in 1 .. 2 : InUse(i) => \A s \in Seps(i) \ {Min(Seps(i))} :
    FindLeftSibling(inner[i], s) = content[i][SepLeftOf(i, s)]

\* Consolidation keeps every separator once, in order, with its child, and
\* builds as many items as the base node is allocated for.
ConsolidationExact ==
  \A i \in 1 .. 2 : InUse(i) =>
    LET items == Collect(inner[i])
    IN  /\ ToSet(items) = {<<s, content[i][s]>> : s \in Seps(i)}
        /\ Len(items) = Cardinality(Seps(i)) /\ Len(items) = CountOf(inner[i])
        /\ \A n \in 1 .. Len(items) - 1 : items[n][1] < items[n + 1][1]

\* Backward iteration goes down to a child the node still has, from where the
\* sibling links lead to the left neighbour of k.
BackwardLive ==
  \A i \in 1 .. 2, k \in Keys : Owns(i, k) /\ k > Min(Seps(i)) =>
    NavigateInnerNodeBI(inner[i], k) \in Range(content[i])
=============================================================================
