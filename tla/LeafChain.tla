------------------------------ MODULE LeafChain ------------------------------
(***************************************************************************)
(* The delta chains of leaf nodes (bwtree.h): how operations extend a      *)
(* chain, how the NavigateLeafNode() overloads read it, how a split and a  *)
(* merge share it, and how CollectAllValuesOnLeaf() consolidates it.       *)
(*                                                                         *)
(* Two sibling leaves suffice to build every kind of chain: leaf 1 splits  *)
(* into 1 and 2, leaf 2 is merged back.  A leaf is a base node and the     *)
(* deltas above it, newest first; content is the set of key-value pairs it *)
(* should hold.  Only the thread whose CAS succeeds changes a chain, so    *)
(* one action is one delta; the races between threads are in BwTree.       *)
(***************************************************************************)
EXTENDS Integers, SequencesExt, FiniteSetsExt, SortedSets

CONSTANTS
  Indexes,         \* the indexes a run may be about: [keys, unique], the keys
                   \* it is used with and whether Insert() is given unique_key
  Values,
  UpperThreshold,  \* LEAF_NODE_SIZE_UPPER_THRESHOLD
  LowerThreshold,  \* LEAF_NODE_SIZE_LOWER_THRESHOLD
  MaxDepth,        \* bound: no data delta is posted on a deeper chain
  Reinserts        \* may ConditionalInsert() be given a pair, on a unique index
                   \* a key, that a delta of the chain is about?

ASSUME LeafChainAssumption ==
  /\ \A x \in Indexes : x.keys \subseteq Nat \ {0} /\ x.unique \in BOOLEAN
  /\ UpperThreshold \in Nat /\ LowerThreshold \in Nat \ {0}
  /\ 2 * LowerThreshold <= UpperThreshold
  /\ MaxDepth \in Nat
  /\ Reinserts \in BOOLEAN

VARIABLES
  index,    \* the index the leaves belong to; it does not change
  leaf,     \* 1..2 -> the physical leaf, NoLeaf if the NodeID is not in use
  content   \* 1..2 -> the pairs the leaf should hold

vars == <<index, leaf, content>>

Keys   == index.keys        \* 0 is KeyType{}
UniqueKeys == index.unique
Pairs  == Keys \X Values
NoHigh == <<0, 0>>            \* (KeyType{}, INVALID_NODE_ID): no right sibling
NoLeaf == [deltas |-> <<>>, base |-> [items |-> <<>>, high |-> <<0, -1>>]]
InUse(i) == leaf[i] # NoLeaf

-----------------------------------------------------------------------------
(* Metadata: a delta node inherits from its child_node_p.                  *)

HighOf(l)  == IF l.deltas = <<>> THEN l.base.high ELSE Head(l.deltas).high
DepthOf(l) == IF l.deltas = <<>> THEN 0 ELSE Head(l.deltas).depth
CountOf(l) == IF l.deltas = <<>> THEN Len(l.base.items) ELSE Head(l.deltas).count
TypeOf(l)  == IF l.deltas = <<>> THEN "base" ELSE Head(l.deltas).type
IsBase(l)  == TypeOf(l) = "base"

Push(l, delta) == [deltas |-> <<delta>> \o l.deltas, base |-> l.base]

NoItem == <<0, 0>>
NoBase == [items |-> <<>>, high |-> NoHigh]

LeafInsertNode(l, item, at) ==
  [type |-> "insert", item |-> item, index |-> at[1], over |-> at[2], right |-> NoBase,
   depth |-> DepthOf(l) + 1, count |-> CountOf(l) + 1, high |-> HighOf(l)]

LeafDeleteNode(l, item, at) ==
  [type |-> "delete", item |-> item, index |-> at[1], over |-> at[2], right |-> NoBase,
   depth |-> DepthOf(l) + 1, count |-> CountOf(l) - 1, high |-> HighOf(l)]

LeafSplitNode(l, sibling, id) ==
  [type |-> "split", item |-> NoItem, index |-> 0, over |-> FALSE, right |-> NoBase,
   depth |-> DepthOf(l), count |-> CountOf(l) - Len(sibling.items),
   high |-> <<sibling.items[1][1], id>>]

\* item holds the merge key; the right branch is what was under a remove delta,
\* and AdjustNodeSize() removes base nodes only.
MergedCount(l, right) == CountOf(l) + Len(right.items)
LeafMergeNode(l, right) ==
  [type |-> "merge", item |-> HighOf(l), index |-> 0, over |-> FALSE, right |-> right,
   depth |-> DepthOf(l), count |-> MergedCount(l, right), high |-> right.high]

-----------------------------------------------------------------------------
(* Reading a chain                                                         *)

\* The deltas a search for k visits: down to the newest merge whose right
\* branch it takes, or all of them.
RightTurns_Strict(l, k) ==
  {i \in DOMAIN l.deltas : l.deltas[i].type = "merge" /\ k > l.deltas[i].item[1]}
RightTurns(l, k) ==
  {i \in DOMAIN l.deltas : l.deltas[i].type = "merge" /\ k >= l.deltas[i].item[1]}
Visited(l, k) == {i \in DOMAIN l.deltas : \A turn \in RightTurns(l, k) : i <= turn}
BaseFor(l, k) == IF RightTurns(l, k) = {} THEN l.base
                 ELSE l.deltas[Min(RightTurns(l, k))].right

IsData(delta) == delta.type \in {"insert", "delete"}

\* The index, from 0, of the first item of a base node behind those with key k.
UpperBound(items, k) == Cardinality({i \in DOMAIN items : items[i][1] <= k})

\* Which items a search for a pair stops at: the pair, any value of its key if
\* unique_key.
Matches(x, pair, unique) == x[1] = pair[1] /\ (unique \/ x[2] = pair[2])
On(l, pair, unique) ==
  {i \in Visited(l, pair[1]) : IsData(l.deltas[i]) /\ Matches(l.deltas[i].item, pair, unique)}

\* NavigateLeafNode(value): is the pair present, and the index_pair for a delta.
\* The newest delta that matches decides.
NavigateValue(l, k, v, unique) ==
  LET hits  == On(l, <<k, v>>, unique)
      items == BaseFor(l, k).items
      same  == {p \in DOMAIN items : Matches(items[p], <<k, v>>, unique)}
  IN  IF hits # {}
        THEN LET d == l.deltas[Min(hits)]
             IN  [found |-> d.type = "insert", at |-> <<d.index, d.over>>]
        ELSE IF same # {}
        THEN [found |-> TRUE,  at |-> <<Min(same) - 1, TRUE>>]
        ELSE [found |-> FALSE, at |-> <<UpperBound(items, k), FALSE>>]

\* present_set and deleted_set: the newest delta on a pair wins.
NewestOn(l, k, v) ==
  LET hits == On(l, <<k, v>>, FALSE)
  IN  IF hits = {} THEN "none" ELSE l.deltas[Min(hits)].type

ValuesSeen(l, k, inBase) ==
  {v \in Values : \/ NewestOn(l, k, v) = "insert"
                  \/ NewestOn(l, k, v) = "none" /\ v \in inBase}

\* NavigateLeafNode(predicate) scans all of the key's values in the base node.
NavigatePredicate(l, k) ==
  LET items == BaseFor(l, k).items
  IN  ValuesSeen(l, k, {items[p][2] : p \in {q \in DOMAIN items : items[q][1] = k}})

\* NavigateLeafNode(value_list), the read of GetValue(): deltas on other keys
\* narrow the part of the base node that is searched; the oldest one counts.
StartIndex(l, k) ==
  LET smaller == {i \in Visited(l, k) : IsData(l.deltas[i]) /\ l.deltas[i].item[1] < k}
  IN  IF smaller = {} THEN 0 ELSE l.deltas[Max(smaller)].index
EndIndex(l, k) ==
  LET greater == {i \in Visited(l, k) : IsData(l.deltas[i]) /\ l.deltas[i].item[1] > k}
  IN  IF greater = {} THEN Len(BaseFor(l, k).items) ELSE l.deltas[Max(greater)].index

\* lower_bound between the two indexes, then every item with the key, up to the
\* end of the base node; past that end there is nothing to read.
NavigateRead(l, k) ==
  LET items  == BaseFor(l, k).items
      window == {i \in DOMAIN items : StartIndex(l, k) < i /\ i <= EndIndex(l, k)}
      first  == IF \E i \in window : items[i][1] >= k
                  THEN Min({i \in window : items[i][1] >= k})
                  ELSE Max({StartIndex(l, k), EndIndex(l, k)}) + 1
      equal  == {i \in DOMAIN items : i >= first /\ \A j \in first .. i : items[j][1] = k}
  IN  ValuesSeen(l, k, {items[i][2] : i \in equal})

-----------------------------------------------------------------------------
(* CollectAllValuesOnLeaf()                                                *)

\* delta_set: of several deltas on a pair only the newest is kept.
LiveDeltas_All(l) == {i \in DOMAIN l.deltas : IsData(l.deltas[i])}
LiveDeltas(l) ==
  {i \in DOMAIN l.deltas : IsData(l.deltas[i]) /\
     \A j \in 1 .. i - 1 : ~(IsData(l.deltas[j]) /\ l.deltas[j].item = l.deltas[i].item)}

Merges(l) == {i \in DOMAIN l.deltas : l.deltas[i].type = "merge"}

\* The high key of the chain below the oldest merge delta.
LeftmostHigh(l) ==
  LET ms == Merges(l) IN
  IF ms = {} THEN HighOf(l)
  ELSE IF Max(ms) = Len(l.deltas) THEN l.base.high ELSE l.deltas[Max(ms) + 1].high

\* The base nodes from left to right, each with the high key of the chain its
\* recursive call is given.
Segments(l) ==
  LET ms == Merges(l) IN
  <<[items |-> l.base.items, high |-> LeftmostHigh(l)]>> \o
  [n \in 1 .. Cardinality(ms) |-> l.deltas[Nth(ms, Cardinality(ms) - n)].right]

\* The deltas that are merged with segment n: those below its high key that are left.
BelowHigh(seg, k) == seg.high[2] = 0 \/ k < seg.high[1]
Mine(l, n) ==
  LET segs == Segments(l) IN
  {i \in LiveDeltas(l) : /\ BelowHigh(segs[n], l.deltas[i].item[1])
                         /\ n = 1 \/ ~BelowHigh(segs[n - 1], l.deltas[i].item[1])}

\* The merge loop over segment n: an inserted item comes at its index, in the
\* order of the sorted small set (by key, newest first), then the item
\* of the base node with this index, unless a delta there overwrites it.
Inserted(l, n) ==
  {[item |-> l.deltas[i].item, at |-> <<n, l.deltas[i].index, 0, l.deltas[i].item[1], i>>] :
     i \in {j \in Mine(l, n) : l.deltas[j].type = "insert"}}
Kept(l, n) ==
  LET seg == Segments(l)[n] IN
  {[item |-> seg.items[p], at |-> <<n, p - 1, 1, 0, 0>>] :
     p \in {q \in DOMAIN seg.items :
             /\ BelowHigh(seg, seg.items[q][1])
             /\ \A i \in Mine(l, n) : ~(l.deltas[i].index = q - 1 /\ l.deltas[i].over)}}
Entries(l) == UNION {Inserted(l, n) \cup Kept(l, n) : n \in DOMAIN Segments(l)}

Precedes(x, y) == \E i \in DOMAIN x : x[i] < y[i] /\ \A j \in 1 .. i - 1 : x[j] = y[j]
Rank(entries, e) == Cardinality({f \in entries : Precedes(f.at, e.at)})
Collect(l) ==
  LET entries == Entries(l)
  IN  [n \in 1 .. Cardinality(entries) |->
         (CHOOSE e \in entries : Rank(entries, e) = n - 1).item]

Consolidated(l) ==
  [deltas |-> <<>>, base |-> [items |-> Collect(l), high |-> HighOf(l)]]

-----------------------------------------------------------------------------
(* Splitting                                                               *)

\* FindSplitPoint(): the size of the left part, cut before the first item with
\* the central item's key or, if that leaves too little on the left, after the
\* last one; -1 if neither will do.
FindSplitPoint_Central(items) == Len(items) \div 2
FindSplitPoint(items) ==
  LET central == Len(items) \div 2
      key     == items[central + 1][1]
      left    == Max({0} \cup {i \in 1 .. central - 1 : items[i + 1][1] # key}) + 1
      right   == UpperBound(items, key)
  IN  IF left > LowerThreshold THEN left
      ELSE IF Len(items) - right > LowerThreshold THEN right
      ELSE -1

\* GetSplitSibling()
SplitSibling(base, at) ==
  [items |-> SubSeq(base.items, at + 1, Len(base.items)), high |-> base.high]

-----------------------------------------------------------------------------
(* The operations                                                          *)

\* NavigateSiblingChain() has brought the thread to the leaf that owns k.
Owns(i, k) ==
  /\ InUse(i)
  /\ HighOf(leaf[i])[2] # 0 => k < HighOf(leaf[i])[1]
  /\ i = 2 => InUse(1) /\ k >= HighOf(leaf[1])[1]

\* A merge delta is no obstacle: every thread that loads the leaf helps to finish
\* the merge, but only the one whose delta on the parent succeeds consolidates;
\* the others see the merge done and go on.
MayPost(i) == DepthOf(leaf[i]) < MaxDepth

Insert(i, k, v) ==
  LET nav == NavigateValue(leaf[i], k, v, UniqueKeys)
  IN  /\ Owns(i, k) /\ MayPost(i)
      /\ ~nav.found
      /\ leaf' = [leaf EXCEPT ![i] = Push(@, LeafInsertNode(@, <<k, v>>, nav.at))]
      /\ content' = [content EXCEPT ![i] = @ \cup {<<k, v>>}]
      /\ UNCHANGED index

\* Delete() gives up on a pair that is not there.
Deletable_Always(nav) == TRUE
Deletable(nav) == nav.found

Delete(i, k, v) ==
  LET nav == NavigateValue(leaf[i], k, v, FALSE)
  IN  /\ Owns(i, k) /\ MayPost(i)
      /\ Deletable(nav)
      /\ leaf' = [leaf EXCEPT ![i] = Push(@, LeafDeleteNode(@, <<k, v>>, nav.at))]
      /\ content' = [content EXCEPT ![i] = @ \ {<<k, v>>}]
      /\ UNCHANGED index

\* The values a predicate holds for.  On a unique index it rejects any value.
Predicates == IF UniqueKeys THEN {Values} ELSE SUBSET Values

\* The index_pair is always the end of the key's items and FALSE.
ConditionalInsert(i, k, v, predicate) ==
  /\ Owns(i, k) /\ MayPost(i)
  /\ NavigatePredicate(leaf[i], k) \cap (predicate \cup {v}) = {}
  /\ ~Reinserts => On(leaf[i], <<k, v>>, UniqueKeys) = {}
  /\ LET at == <<UpperBound(BaseFor(leaf[i], k).items, k), FALSE>>
     IN  leaf' = [leaf EXCEPT ![i] = Push(@, LeafInsertNode(@, <<k, v>>, at))]
  /\ content' = [content EXCEPT ![i] = @ \cup {<<k, v>>}]
  /\ UNCHANGED index

\* ConsolidateLeafNode()
Consolidate(i) ==
  /\ InUse(i) /\ ~IsBase(leaf[i])
  /\ leaf' = [leaf EXCEPT ![i] = Consolidated(@)]
  /\ UNCHANGED <<index, content>>

\* AdjustNodeSize() on a leaf that is too large.
Split ==
  LET base == leaf[1].base
      at   == FindSplitPoint(base.items)
      new  == SplitSibling(base, at)
      key  == new.items[1][1]
  IN  /\ IsBase(leaf[1]) /\ ~InUse(2)
      /\ Len(base.items) >= UpperThreshold
      /\ at # -1
      /\ leaf' = <<Push(leaf[1], LeafSplitNode(leaf[1], new, 2)),
                   [deltas |-> <<>>, base |-> new]>>
      /\ content' = <<{x \in content[1] : x[1] < key}, {x \in content[1] : x[1] >= key}>>
      /\ UNCHANGED index

\* AdjustNodeSize() removed leaf 2 as too small, and FinishPartialSMO() merges
\* what was under the remove delta into its left sibling.
Merge ==
  /\ InUse(2) /\ IsBase(leaf[2])
  /\ Len(leaf[2].base.items) <= LowerThreshold
  /\ leaf' = <<Push(leaf[1], LeafMergeNode(leaf[1], leaf[2].base)), NoLeaf>>
  /\ content' = <<content[1] \cup content[2], {}>>
  /\ UNCHANGED index

Init ==
  /\ index \in Indexes
  /\ leaf = <<[deltas |-> <<>>, base |-> [items |-> <<>>, high |-> NoHigh]], NoLeaf>>
  /\ content = <<{}, {}>>

Next ==
  \/ \E i \in 1 .. 2 :
       \/ \E k \in Keys, v \in Values :
            \/ Insert(i, k, v)
            \/ Delete(i, k, v)
            \/ \E predicate \in Predicates : ConditionalInsert(i, k, v, predicate)
       \/ Consolidate(i)
  \/ Split
  \/ Merge

Spec == Init /\ [][Next]_vars

-----------------------------------------------------------------------------
(* Properties                                                              *)

BaseType == [items : Seq(Pairs), high : Seq(Nat)]

TypeOK ==
  /\ index \in Indexes
  /\ DOMAIN leaf = 1 .. 2
  /\ content \in [1 .. 2 -> SUBSET Pairs]
  /\ \A i \in 1 .. 2 : InUse(i) =>
       /\ leaf[i].base \in BaseType
       /\ \A n \in DOMAIN leaf[i].deltas :
            LET d == leaf[i].deltas[n]
            IN  /\ d.type \in {"insert", "delete", "split", "merge"}
                /\ IsData(d) => d.item \in Pairs
                /\ d.right \in BaseType
                /\ d.depth \in 0 .. MaxDepth /\ d.count \in Nat

\* Consolidation neither loses nor duplicates a pair, and leaves them sorted:
\* the base node it builds holds exactly what the chain stands for.  "Item count
\* would not change during consolidation": it is allocated for item_count items.
ConsolidationExact ==
  \A i \in 1 .. 2 : InUse(i) =>
    LET items == Collect(leaf[i])
    IN  /\ ToSet(items) = content[i]
        /\ Len(items) = Cardinality(content[i]) /\ Len(items) = CountOf(leaf[i])
        /\ \A n \in 1 .. Len(items) - 1 : items[n][1] <= items[n + 1][1]

PostedOnMerge(deltas) ==
  \E m, n \in DOMAIN deltas : n < m /\ deltas[m].type = "merge" /\ IsData(deltas[n])

\* Delete() finds a pair iff the leaf holds it, and so does Insert(), on a unique
\* index a key iff it has a value; ConditionalInsert() applies its predicate to
\* exactly the values of the key.  GetValue() returns exactly those too, as long
\* as the thread that merged a node consolidates it before another thread posts on
\* the merge delta.
NavigateExact ==
  \A i \in 1 .. 2, k \in Keys : Owns(i, k) =>
    /\ \A v \in Values :
         /\ NavigateValue(leaf[i], k, v, FALSE).found <=> <<k, v>> \in content[i]
         /\ NavigateValue(leaf[i], k, v, UniqueKeys).found <=>
              \E w \in (IF UniqueKeys THEN Values ELSE {v}) : <<k, w>> \in content[i]
    /\ NavigatePredicate(leaf[i], k) = {v \in Values : <<k, v>> \in content[i]}
    /\ ~PostedOnMerge(leaf[i].deltas) =>
         NavigateRead(leaf[i], k) = {v \in Values : <<k, v>> \in content[i]}

\* GetValue() returns exactly the values stored under the key.
ReadExact ==
  \A i \in 1 .. 2, k \in Keys : Owns(i, k) =>
    NavigateRead(leaf[i], k) = {v \in Values : <<k, v>> \in content[i]}

\* A split keeps all values of a key on one side, and leaves neither side so
\* small that it is removed at once.
SplitFair ==
  [][Split =>
       LET cut == CountOf(leaf'[1])
       IN  /\ leaf'[1].base.items[cut][1] < HighOf(leaf'[1])[1]
           /\ cut > LowerThreshold
           /\ Len(leaf'[2].base.items) > LowerThreshold]_vars
=============================================================================
