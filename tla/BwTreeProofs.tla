---------------------------- MODULE BwTreeProofs ----------------------------
(***************************************************************************)
(* What holds of the structure of the Bw-Tree for any tree, any number of  *)
(* threads and any thresholds: types, and that every item and every        *)
(* sibling link leads to a node that starts at its key; then what the      *)
(* operations answer:                                                      *)
(* whatever SMOs are half done, the leaves hold the keys that were         *)
(* inserted and not deleted, an update or a read answers as a set of keys  *)
(* would (module ConcurrentIndex), and an iteration misses no key that is  *)
(* there all the time.                                                     *)
(***************************************************************************)
EXTENDS BwTree, FiniteSetTheorems, SequenceTheorems, TLAPS

-----------------------------------------------------------------------------
(* Finite sets of keys in order.                                           *)

\* Every non-empty set of natural numbers has a least element.
LEMMA NatMin ==
  ASSUME NEW S \in SUBSET Nat, S # {}
  PROVE  \E x \in S : \A y \in S : x <= y
<1> DEFINE R == OpToRel(<, Nat)
<1>1. IsWellFoundedOn(R, Nat)
  BY NatLessThanWellFounded
<1>2. PICK x \in S : \A y \in S : ~ (<<y, x>> \in R)
  <2> HIDE DEF R
  <2> QED
    BY <1>1, WFMin
<1>3. \A y \in S : x <= y
  <2> TAKE y \in S
  <2>1. ~ (y < x)
    BY <1>2 DEF OpToRel
  <2> QED
    BY <2>1
<1> QED
  BY <1>3

LEMMA MinIn ==
  ASSUME NEW S \in SUBSET Nat, S # {}
  PROVE  Min(S) \in S /\ \A y \in S : Min(S) <= y
BY NatMin DEF Min

\* The elements of S below k, and how many they are.
Below(S, k) == {j \in S : j < k}

LEMMA BelowFinite ==
  ASSUME NEW S \in SUBSET Nat, IsFiniteSet(S), NEW k \in Nat
  PROVE  /\ IsFiniteSet(Below(S, k)) /\ Cardinality(Below(S, k)) \in Nat
         /\ Cardinality(Below(S, k)) <= Cardinality(S)
<1>1. Below(S, k) \in SUBSET S
  BY DEF Below
<1> QED
  BY <1>1, FS_Subset, FS_CardinalityType

\* The greater an element, the more there are below it.
LEMMA BelowGrows ==
  ASSUME NEW S \in SUBSET Nat, IsFiniteSet(S), NEW j \in S, NEW k \in S, j < k
  PROVE  Cardinality(Below(S, j)) < Cardinality(Below(S, k))
<1>0. j \in Nat /\ k \in Nat /\ \A x \in S : x \in Nat
  OBVIOUS
<1>1. Below(S, j) \in SUBSET Below(S, k) /\ j \in Below(S, k) /\ j \notin Below(S, j)
  <2>1. ~(j < j) /\ \A x \in S : x < j => x < k
    BY <1>0
  <2> QED
    BY <2>1 DEF Below
<1>2. IsFiniteSet(Below(S, k)) /\ Cardinality(Below(S, k)) \in Nat
      /\ Cardinality(Below(S, j)) \in Nat
  BY BelowFinite
<1>3. /\ Cardinality(Below(S, j)) <= Cardinality(Below(S, k))
      /\ Cardinality(Below(S, k)) = Cardinality(Below(S, j)) => Below(S, k) = Below(S, j)
  BY <1>1, <1>2, FS_Subset
<1> QED
  BY <1>1, <1>2, <1>3

LEMMA MaxIn ==
  ASSUME NEW S \in SUBSET Nat, IsFiniteSet(S), S # {}
  PROVE  Max(S) \in S /\ \A y \in S : Max(S) >= y
<1> DEFINE Missing(k) == Cardinality(S) - Cardinality(Below(S, k))
           T == {Missing(k) : k \in S}
<1>1. \A k \in S : Missing(k) \in Nat
  BY BelowFinite, FS_CardinalityType
<1>2. T \in SUBSET Nat /\ T # {}
  BY <1>1
<1>3. PICK m \in T : \A y \in T : m <= y
  <2> HIDE DEF T
  <2> QED
    BY <1>2, NatMin
<1>4. PICK k \in S : m = Missing(k)
  BY <1>3
<1>5. \A y \in S : k >= y
  <2> SUFFICES ASSUME NEW y \in S, k < y PROVE FALSE
    OBVIOUS
  <2>1. Cardinality(Below(S, k)) < Cardinality(Below(S, y))
    BY BelowGrows
  <2>2. Missing(k) <= Missing(y)
    BY <1>3, <1>4
  <2>3. Cardinality(S) \in Nat /\ Cardinality(Below(S, k)) \in Nat /\ Cardinality(Below(S, y)) \in Nat
    BY BelowFinite, FS_CardinalityType
  <2> QED
    BY <2>1, <2>2, <2>3
<1> QED
  BY <1>5 DEF Max

\* Nth() counts from 0 and finds an element for every index.
LEMMA NthIn ==
  ASSUME NEW S \in SUBSET Nat, IsFiniteSet(S), NEW i \in 0 .. Cardinality(S) - 1
  PROVE  Nth(S, i) \in S /\ Cardinality(Below(S, Nth(S, i))) = i
<1> DEFINE T == {k \in S : Cardinality(Below(S, k)) >= i}
<1>0. Cardinality(S) \in Nat /\ \A k \in S : Cardinality(Below(S, k)) \in Nat
  BY BelowFinite, FS_CardinalityType
<1>1. S # {}
  BY <1>0, FS_EmptySet
<1>2. Max(S) \in S /\ \A y \in S : Max(S) >= y
  BY <1>1, MaxIn
<1>3. Below(S, Max(S)) = S \ {Max(S)}
  <2>1. \A y \in S : y \in Nat /\ Max(S) \in Nat
    BY <1>2
  <2>2. \A y \in S : y < Max(S) <=> y # Max(S)
    BY <1>2, <2>1
  <2> QED
    BY <2>2, <1>2 DEF Below
<1>4. Cardinality(Below(S, Max(S))) = Cardinality(S) - 1
  <2> DEFINE m == Max(S)
  <2>1. m \in S /\ Below(S, m) = S \ {m}
    BY <1>2, <1>3
  <2> HIDE DEF m
  <2>2. Cardinality(S \ {m}) = Cardinality(S) - 1
    BY <2>1, FS_RemoveElement
  <2>3. Cardinality(Below(S, m)) = Cardinality(S) - 1
    BY <2>1, <2>2
  <2> QED
    BY <2>3 DEF m
<1>5. T \in SUBSET Nat /\ T # {}
  <2>1. Cardinality(S) - 1 >= i
    BY <1>0
  <2>2. Max(S) \in T
    BY <1>2, <1>4, <2>1
  <2> QED
    BY <2>2
<1>6. PICK k \in T : \A y \in T : k <= y
  <2> HIDE DEF T
  <2> QED
    BY <1>5, NatMin
<1>7. Cardinality(Below(S, k)) = i
  <2> SUFFICES ASSUME Cardinality(Below(S, k)) > i PROVE FALSE
    BY <1>0, <1>6
  <2>1. IsFiniteSet(Below(S, k)) /\ Below(S, k) \in SUBSET Nat
    BY BelowFinite, <1>6 DEF Below
  <2>2. Below(S, k) # {}
    BY <1>0, FS_EmptySet
  <2> DEFINE j == Max(Below(S, k))
  <2>3. j \in Below(S, k) /\ \A y \in Below(S, k) : j >= y
    BY <2>1, <2>2, MaxIn
  <2>4. j \in S /\ j < k
    BY <2>3 DEF Below
  <2>5. Below(S, j) = Below(S, k) \ {j}
    <3>1. k \in Nat /\ j \in Nat /\ \A y \in S : y \in Nat
      BY <1>6, <2>4
    <3>2. \A y \in S : y < j <=> (y < k /\ y # j)
      <4> TAKE y \in S
      <4>1. y < k => j >= y
        BY <2>3 DEF Below
      <4> QED
        BY <3>1, <2>4, <4>1
    <3> QED
      BY <3>2, <2>4 DEF Below
  <2> HIDE DEF j
  <2>6. Cardinality(Below(S, j)) = Cardinality(Below(S, k)) - 1
    <3>1. Cardinality(Below(S, k) \ {j}) = Cardinality(Below(S, k)) - 1
      BY <2>1, <2>3, FS_RemoveElement
    <3> QED
      BY <3>1, <2>5
  <2>7. j \in T
    BY <2>4, <2>6, <1>0, <1>6
  <2>8. k <= j /\ k \in Nat /\ j \in Nat
    BY <2>4, <2>7, <1>6
  <2> QED
    BY <2>4, <2>8
<1> QED
  BY <1>6, <1>7 DEF Nth, Below

\* With an index above 0 there is a smaller element.
LEMMA NthNotFirst ==
  ASSUME NEW S \in SUBSET Nat, IsFiniteSet(S), NEW i \in 1 .. Cardinality(S) - 1
  PROVE  Nth(S, i) \in S /\ \E j \in S : j < Nth(S, i)
<1>0. Cardinality(S) \in Nat
  BY FS_CardinalityType
<1>1. Nth(S, i) \in S /\ Cardinality(Below(S, Nth(S, i))) = i
  BY <1>0, NthIn
<1>2. Below(S, Nth(S, i)) # {}
  BY <1>1, FS_EmptySet
<1> QED
  BY <1>1, <1>2 DEF Below

\* Sorted() lists the elements of a set in order.
LEMMA SortedProperties ==
  ASSUME NEW S \in SUBSET Nat, IsFiniteSet(S)
  PROVE  /\ Sorted(S) \in Seq(Nat)
         /\ ToSet(Sorted(S)) = S
         /\ \A i, j \in DOMAIN Sorted(S) : i < j => Sorted(S)[i] < Sorted(S)[j]
<1> DEFINE n == Cardinality(S)
<1>1. n \in Nat
  BY FS_CardinalityType
<1>2. DOMAIN Sorted(S) = 1 .. n /\ \A i \in 1 .. n : Sorted(S)[i] = Nth(S, i - 1)
  BY DEF Sorted
<1>3. \A i \in 1 .. n : Sorted(S)[i] \in S /\ Cardinality(Below(S, Sorted(S)[i])) = i - 1
  <2> TAKE i \in 1 .. n
  <2>1. i - 1 \in 0 .. n - 1
    BY <1>1
  <2> QED
    BY <1>2, <2>1, NthIn
<1>4. Sorted(S) \in Seq(Nat)
  <2>1. Sorted(S) \in [1 .. n -> Nat]
    BY <1>2, <1>3 DEF Sorted
  <2> QED
    BY <1>1, <2>1
<1>5. \A i, j \in 1 .. n : i < j => Sorted(S)[i] < Sorted(S)[j]
  <2> SUFFICES ASSUME NEW i \in 1 .. n, NEW j \in 1 .. n, i < j, ~(Sorted(S)[i] < Sorted(S)[j])
               PROVE  FALSE
    OBVIOUS
  <2>0. Sorted(S)[i] \in S /\ Sorted(S)[j] \in S
    BY <1>3
  <2>1. Sorted(S)[i] = Sorted(S)[j] \/ Sorted(S)[j] < Sorted(S)[i]
    <3>1. Sorted(S)[i] \in Nat /\ Sorted(S)[j] \in Nat
      BY <2>0
    <3> QED
      BY <3>1
  <2>2. CASE Sorted(S)[i] = Sorted(S)[j]
    BY <2>2, <1>3
  <2>3. CASE Sorted(S)[j] < Sorted(S)[i]
    <3>1. Cardinality(Below(S, Sorted(S)[j])) < Cardinality(Below(S, Sorted(S)[i]))
      BY <2>0, <2>3, BelowGrows
    <3> QED
      BY <3>1, <1>3
  <2> QED
    BY <2>1, <2>2, <2>3
<1>6. \A k \in S : \E i \in 1 .. n : Sorted(S)[i] = k
  <2> TAKE k \in S
  <2> DEFINE i == Cardinality(Below(S, k)) + 1
  <2>1. Below(S, k) \in SUBSET (S \ {k}) /\ IsFiniteSet(S \ {k}) /\ Cardinality(S \ {k}) = n - 1
    BY FS_RemoveElement DEF Below
  <2>2. Cardinality(Below(S, k)) <= n - 1 /\ Cardinality(Below(S, k)) \in Nat
    BY <2>1, FS_Subset, BelowFinite
  <2>3. i \in 1 .. n
    BY <1>1, <2>2
  <2>4. Sorted(S)[i] \in S /\ Cardinality(Below(S, Sorted(S)[i])) = i - 1
    BY <1>3, <2>3
  <2> DEFINE m == Sorted(S)[i]
  <2>5. m \in S /\ m \in Nat /\ k \in Nat /\ Cardinality(Below(S, m)) = Cardinality(Below(S, k))
    <3>1. m \in S /\ Cardinality(Below(S, m)) = i - 1
      BY <2>4
    <3>2. i - 1 = Cardinality(Below(S, k))
      BY <2>2
    <3> QED
      BY <3>1, <3>2
  <2> HIDE DEF m
  <2>6. ~(m < k) /\ ~(k < m)
    <3>1. m < k => Cardinality(Below(S, m)) < Cardinality(Below(S, k))
      BY <2>5, BelowGrows
    <3>2. k < m => Cardinality(Below(S, k)) < Cardinality(Below(S, m))
      BY <2>5, BelowGrows
    <3> QED
      BY <3>1, <3>2, <2>2, <2>5
  <2>7. m = k
    BY <2>5, <2>6
  <2> QED
    BY <2>3, <2>7 DEF m
<1> QED
  BY <1>2, <1>3, <1>4, <1>5, <1>6 DEF ToSet

-----------------------------------------------------------------------------

Kinds     == {"leaf", "inner"}
NodeTypes == {"base", "delta", "split", "merge", "remove"}
ItemMaps  == UNION {[keys -> 0 .. MaxId] : keys \in SUBSET Nat}
AnyNode   ==
  [kind : Kinds, type : NodeTypes, low : Nat, high : Nat \X (0 .. MaxId), items : ItemMaps,
   depth : Nat, sep : Nat, other : 0 .. MaxId, merges : BOOLEAN]

LEMMA MaxIdType == MaxId \in Nat /\ LowKey = 0 /\ INVALID_NODE_ID = 0
BY BwTreeAssumption DEF BwTreeAssumption, LowKey, INVALID_NODE_ID

LEMMA ItemMapsDef ==
  ASSUME NEW f
  PROVE  f \in ItemMaps <=> DOMAIN f \in SUBSET Nat /\ f \in [DOMAIN f -> 0 .. MaxId]
BY DEF ItemMaps

LEMMA IsNodeDef ==
  ASSUME NEW n
  PROVE  IsNode(n) <=> n \in AnyNode
<1>1. ASSUME IsNode(n) PROVE n \in AnyNode
  <2>1. n.items \in ItemMaps
    BY <1>1, ItemMapsDef DEF IsNode, NodeSet, Seps
  <2> QED
    BY <1>1, <2>1 DEF IsNode, NodeSet, AnyNode, Kinds, NodeTypes
<1>2. ASSUME n \in AnyNode PROVE IsNode(n)
  <2>1. Seps(n) \in SUBSET Nat /\ n.items \in [Seps(n) -> 0 .. MaxId]
    BY <1>2, ItemMapsDef DEF AnyNode, Seps
  <2> QED
    BY <1>2, <2>1 DEF IsNode, NodeSet, AnyNode, Kinds, NodeTypes
<1> QED
  BY <1>1, <1>2

LEMMA NodeFacts ==
  ASSUME NEW n \in AnyNode
  PROVE  /\ Seps(n) \in SUBSET Nat /\ \A k \in Seps(n) : n.items[k] \in 0 .. MaxId
         /\ n.low \in Nat /\ n.high[1] \in Nat /\ GetNextNodeID(n) \in 0 .. MaxId
         /\ n.high = <<n.high[1], GetNextNodeID(n)>>
         /\ n.kind \in Kinds /\ (~IsLeaf(n) <=> n.kind = "inner")
<1>1. n.items \in ItemMaps /\ n.high \in Nat \X (0 .. MaxId) /\ n.low \in Nat /\ n.kind \in Kinds
  BY DEF AnyNode
<1>2. Seps(n) \in SUBSET Nat /\ \A k \in Seps(n) : n.items[k] \in 0 .. MaxId
  BY <1>1, ItemMapsDef DEF Seps
<1>3. n.high[1] \in Nat /\ GetNextNodeID(n) \in 0 .. MaxId /\ n.high = <<n.high[1], GetNextNodeID(n)>>
  BY <1>1 DEF GetNextNodeID
<1> QED
  BY <1>1, <1>2, <1>3 DEF IsLeaf, Kinds

\* The nodes of the table do not change their kind or their low key, and no id
\* goes out of use: what a node says of others stays true.
Grows(m, next, m2, next2) ==
  /\ next \in Nat /\ next2 \in Nat /\ next <= next2
  /\ \A i \in InUse(next) : m2[i].kind = m[i].kind /\ m2[i].low = m[i].low

LEMMA StartsAtGrows ==
  ASSUME NEW m, NEW next, NEW m2, NEW next2, Grows(m, next, m2, next2),
         NEW id, NEW low, StartsAt(m, next, id, low)
  PROVE  StartsAt(m2, next2, id, low) /\ m2[id].kind = m[id].kind
BY DEF Grows, StartsAt, InUse

LEMMA SoundGrows ==
  ASSUME NEW m, NEW next, NEW m2, NEW next2, Grows(m, next, m2, next2),
         NEW n, Sound(m, next, n)
  PROVE  Sound(m2, next2, n)
<1>1. SoundChildren(m2, next2, n)
  BY StartsAtGrows DEF Sound, SoundChildren
<1>2. SoundSibling(m2, next2, n)
  BY StartsAtGrows DEF Sound, SoundSibling
<1>3. SoundDelta(next2, n)
  BY DEF Sound, SoundDelta, Grows, InUse
<1> QED
  BY <1>1, <1>2, <1>3 DEF Sound

\* A node without a split or merge delta on top, and with the high key of a sound
\* one of its kind, is sound if its items are.
LEMMA SoundPlain ==
  ASSUME NEW m, NEW next, NEW n, Sound(m, next, n), NEW n2 \in AnyNode,
         n2.type \notin {"split", "merge"}, n2.kind = n.kind, n2.low = n.low, n2.high = n.high,
         SoundItems(n2), SoundChildren(m, next, n2)
  PROVE  Sound(m, next, n2)
<1>1. IsNode(n2)
  BY IsNodeDef
<1>2. SoundSibling(m, next, n2)
  BY DEF Sound, SoundSibling, GetNextNodeID
<1>3. SoundDelta(next, n2)
  BY DEF SoundDelta
<1> QED
  BY <1>1, <1>2, <1>3 DEF Sound

\* The same with its items left as they are.
LEMMA SoundSame ==
  ASSUME NEW m, NEW next, NEW n, Sound(m, next, n), NEW n2 \in AnyNode,
         n2.type \notin {"split", "merge"}, n2.kind = n.kind, n2.low = n.low, n2.high = n.high,
         n2.items = n.items
  PROVE  Sound(m, next, n2)
<1>1. SoundItems(n2)
  BY DEF Sound, SoundItems, Seps, InRange, GetNextNodeID
<1>2. SoundChildren(m, next, n2)
  BY DEF Sound, SoundChildren, Seps, IsLeaf
<1> QED
  BY <1>1, <1>2, SoundPlain

\* What the new node of an update has in common with the old one.
Kin(n, n2) == n2.kind = n.kind /\ n2.low = n.low

LEMMA RemoveNodeSound ==
  ASSUME NEW m, NEW next, NEW n, Sound(m, next, n)
  PROVE  Sound(m, next, RemoveNode(n)) /\ Kin(n, RemoveNode(n))
<1>1. n \in AnyNode
  BY IsNodeDef DEF Sound
<1> DEFINE n2 == RemoveNode(n)
<1>2. /\ n2 \in AnyNode /\ n2.type = "remove" /\ Kin(n, n2)
      /\ n2.high = n.high /\ n2.items = n.items
  BY <1>1 DEF RemoveNode, AnyNode, NodeTypes, Kin
<1> HIDE DEF n2
<1>3. Sound(m, next, n2)
  BY <1>2, SoundSame DEF Kin
<1> QED
  BY <1>2, <1>3 DEF n2

LEMMA ConsolidatedSound ==
  ASSUME NEW m, NEW next, NEW n, Sound(m, next, n), NEW depth \in Nat
  PROVE  /\ Sound(m, next, Consolidated(n)) /\ Kin(n, Consolidated(n))
         /\ Sound(m, next, [Consolidated(n) EXCEPT !.depth = depth])
         /\ Kin(n, [Consolidated(n) EXCEPT !.depth = depth])
<1>1. n \in AnyNode
  BY IsNodeDef DEF Sound
<1> DEFINE n2 == Consolidated(n)
           n3 == [n2 EXCEPT !.depth = depth]
<1>2. /\ n2 \in AnyNode /\ n2.type = "base" /\ Kin(n, n2)
      /\ n2.high = n.high /\ n2.items = n.items
  BY <1>1, MaxIdType DEF Consolidated, Base, AnyNode, NodeTypes, Kin
<1> HIDE DEF n2
<1>3. /\ n3 \in AnyNode /\ n3.type = "base" /\ Kin(n, n3)
      /\ n3.high = n.high /\ n3.items = n.items
  BY <1>2 DEF AnyNode, Kin
<1> HIDE DEF n3
<1>4. Sound(m, next, n2) /\ Sound(m, next, n3)
  BY <1>2, <1>3, SoundSame DEF Kin
<1> QED
  BY <1>2, <1>3, <1>4 DEF n2, n3

\* What DataNode() leaves alone.
LEMMA DataNodeFields ==
  ASSUME NEW n \in AnyNode, NEW items \in ItemMaps
  PROVE  LET n2 == DataNode(n, items) IN
         /\ n2 \in AnyNode /\ n2.type = "delta" /\ Kin(n, n2)
         /\ n2.high = n.high /\ n2.items = items
<1> DEFINE n2 == DataNode(n, items)
<1>1. n.depth + 1 \in Nat /\ 0 \in 0 .. MaxId /\ 0 \in Nat
  BY MaxIdType DEF AnyNode
<1>2. n2 \in AnyNode
  BY <1>1 DEF DataNode, AnyNode, NodeTypes
<1>3. /\ n2.type = "delta" /\ n2.kind = n.kind /\ n2.low = n.low
      /\ n2.high = n.high /\ n2.items = items
  BY DEF DataNode, AnyNode
<1> QED
  BY <1>2, <1>3 DEF Kin

LEMMA PartType ==
  ASSUME NEW n \in AnyNode, NEW S \in SUBSET Seps(n)
  PROVE  Part(n, S) \in ItemMaps /\ DOMAIN Part(n, S) = S /\ \A k \in S : Part(n, S)[k] = n.items[k]
<1>1. Seps(n) \in SUBSET Nat /\ \A k \in Seps(n) : n.items[k] \in 0 .. MaxId
  BY NodeFacts
<1>2. DOMAIN Part(n, S) = S /\ \A k \in S : Part(n, S)[k] = n.items[k]
  BY DEF Part
<1>3. Part(n, S) \in [S -> 0 .. MaxId]
  BY <1>1 DEF Part
<1> QED
  BY <1>1, <1>2, <1>3, ItemMapsDef

LEMMA WithItemType ==
  ASSUME NEW n \in AnyNode, NEW k \in Nat, NEW id \in 0 .. MaxId
  PROVE  LET items == WithItem(n, k, id) IN
         /\ items \in ItemMaps /\ DOMAIN items = Seps(n) \cup {k} /\ items[k] = id
         /\ \A s \in Seps(n) \ {k} : items[s] = n.items[s]
<1>1. Seps(n) \in SUBSET Nat /\ \A s \in Seps(n) : n.items[s] \in 0 .. MaxId
  BY NodeFacts
<1> DEFINE items == WithItem(n, k, id)
<1>2. DOMAIN items = Seps(n) \cup {k} /\ items[k] = id
  BY DEF WithItem
<1>3. \A s \in Seps(n) \ {k} : items[s] = n.items[s]
  BY DEF WithItem
<1>4. items \in [Seps(n) \cup {k} -> 0 .. MaxId] /\ Seps(n) \cup {k} \in SUBSET Nat
  BY <1>1 DEF WithItem
<1> QED
  BY <1>2, <1>3, <1>4, ItemMapsDef

LEMMA WithItemsOfType ==
  ASSUME NEW n \in AnyNode, NEW right \in AnyNode
  PROVE  LET items == WithItemsOf(n, right) IN
         /\ items \in ItemMaps /\ DOMAIN items = Seps(n) \cup Seps(right)
         /\ \A s \in Seps(n) : items[s] = n.items[s]
         /\ \A s \in Seps(right) \ Seps(n) : items[s] = right.items[s]
<1>1. /\ Seps(n) \in SUBSET Nat /\ \A s \in Seps(n) : n.items[s] \in 0 .. MaxId
      /\ Seps(right) \in SUBSET Nat /\ \A s \in Seps(right) : right.items[s] \in 0 .. MaxId
  BY NodeFacts
<1> DEFINE items == WithItemsOf(n, right)
<1>2. DOMAIN items = Seps(n) \cup Seps(right)
  BY DEF WithItemsOf
<1>3. /\ \A s \in Seps(n) : items[s] = n.items[s]
      /\ \A s \in Seps(right) \ Seps(n) : items[s] = right.items[s]
  BY DEF WithItemsOf
<1>4. items \in [Seps(n) \cup Seps(right) -> 0 .. MaxId] /\ Seps(n) \cup Seps(right) \in SUBSET Nat
  BY <1>1 DEF WithItemsOf
<1> QED
  BY <1>2, <1>3, <1>4, ItemMapsDef

\* A separator is posted between the low and the high key, with the id of a node
\* that starts there.
LEMMA InnerInsertNodeSound ==
  ASSUME NEW m, NEW next, NEW n, Sound(m, next, n), ~IsLeaf(n),
         NEW k \in Nat, n.low <= k, InRange(n, k),
         NEW id \in 0 .. MaxId, StartsAt(m, next, id, k)
  PROVE  Sound(m, next, InnerInsertNode(n, k, id)) /\ Kin(n, InnerInsertNode(n, k, id))
<1>1. n \in AnyNode
  BY IsNodeDef DEF Sound
<1> DEFINE items == WithItem(n, k, id)
           n2 == InnerInsertNode(n, k, id)
<1>2. /\ items \in ItemMaps /\ DOMAIN items = Seps(n) \cup {k} /\ items[k] = id
      /\ \A s \in Seps(n) \ {k} : items[s] = n.items[s]
  BY <1>1, WithItemType
<1>3. n2 = DataNode(n, items)
  BY DEF InnerInsertNode
<1> HIDE DEF items, n2
<1>4. n2 \in AnyNode /\ n2.type = "delta" /\ Kin(n, n2) /\ n2.high = n.high /\ n2.items = items
  BY <1>1, <1>2, <1>3, DataNodeFields
<1>5. SoundItems(n2)
  <2>1. IsFiniteSet(Seps(n2)) /\ Seps(n2) = Seps(n) \cup {k}
    BY <1>2, <1>4, FS_AddElement DEF Sound, SoundItems, Seps
  <2> QED
    BY <2>1, <1>4 DEF Sound, SoundItems, InRange, GetNextNodeID, Kin
<1>6. SoundChildren(m, next, n2)
  <2>1. n.low \in Seps(n) /\ \A s \in Seps(n) : StartsAt(m, next, n.items[s], s)
    BY DEF Sound, SoundChildren
  <2>2. \A s \in Seps(n2) : StartsAt(m, next, n2.items[s], s)
    BY <2>1, <1>2, <1>4 DEF Seps
  <2>3. n2.low \in Seps(n2) /\ ~IsLeaf(n2)
    BY <2>1, <1>2, <1>4 DEF Seps, Kin, IsLeaf
  <2> QED
    BY <2>2, <2>3 DEF SoundChildren
<1>7. Sound(m, next, n2)
  BY <1>4, <1>5, <1>6, SoundPlain DEF Kin
<1> QED
  BY <1>4, <1>7 DEF n2

\* A part of a sound node's items is sound as long as an inner node keeps the first.
LEMMA PartSound ==
  ASSUME NEW m, NEW next, NEW n, Sound(m, next, n), NEW n2 \in AnyNode,
         NEW S \in SUBSET Seps(n), n2.items = Part(n, S), n2.kind = n.kind,
         n2.low \in Nat, \A k \in S : n2.low <= k /\ InRange(n2, k),
         ~IsLeaf(n) => n2.low \in S
  PROVE  SoundItems(n2) /\ SoundChildren(m, next, n2) /\ Seps(n2) = S
<1>1. n \in AnyNode
  BY IsNodeDef DEF Sound
<1>2. Seps(n2) = S /\ \A k \in S : n2.items[k] = n.items[k]
  BY <1>1, PartType DEF Seps
<1>3. IsFiniteSet(S)
  BY FS_Subset DEF Sound, SoundItems
<1>4. SoundItems(n2)
  BY <1>2, <1>3 DEF SoundItems
<1>5. SoundChildren(m, next, n2)
  BY <1>2 DEF Sound, SoundChildren, IsLeaf
<1> QED
  BY <1>2, <1>4, <1>5

LEMMA InnerDeleteNodeSound ==
  ASSUME NEW m, NEW next, NEW n, Sound(m, next, n), ~IsLeaf(n), NEW k, k # n.low
  PROVE  Sound(m, next, InnerDeleteNode(n, k)) /\ Kin(n, InnerDeleteNode(n, k))
<1>1. n \in AnyNode
  BY IsNodeDef DEF Sound
<1> DEFINE S == Seps(n) \ {k}
           n2 == InnerDeleteNode(n, k)
<1>2. S \in SUBSET Seps(n) /\ Part(n, S) \in ItemMaps
  BY <1>1, PartType
<1>3. n2 \in AnyNode /\ n2.type = "delta" /\ Kin(n, n2) /\ n2.high = n.high /\ n2.items = Part(n, S)
  BY <1>1, <1>2, DataNodeFields DEF InnerDeleteNode
<1> HIDE DEF n2
<1>4. /\ n2.kind = n.kind /\ n2.low \in Nat /\ n2.low \in S
      /\ \A s \in S : n2.low <= s /\ InRange(n2, s)
  BY <1>1, <1>3, NodeFacts DEF Sound, SoundItems, SoundChildren, Kin, InRange, GetNextNodeID
<1>5. SoundItems(n2) /\ SoundChildren(m, next, n2)
  <2> HIDE DEF S
  <2> QED
    BY <1>2, <1>3, <1>4, PartSound
<1>6. Sound(m, next, n2)
  BY <1>3, <1>5, SoundPlain DEF Kin
<1> QED
  BY <1>3, <1>6 DEF n2

LEMMA LeafInsertNodeSound ==
  ASSUME NEW m, NEW next, NEW n, Sound(m, next, n), IsLeaf(n),
         NEW k \in Nat, n.low <= k, InRange(n, k)
  PROVE  /\ Sound(m, next, LeafInsertNode(n, k)) /\ Kin(n, LeafInsertNode(n, k))
         /\ LeafInsertNode(n, k).type = "delta" /\ LeafInsertNode(n, k).high = n.high
         /\ Seps(LeafInsertNode(n, k)) = Seps(n) \cup {k}
<1>1. n \in AnyNode /\ INVALID_NODE_ID \in 0 .. MaxId
  BY IsNodeDef, MaxIdType DEF Sound
<1> DEFINE items == WithItem(n, k, INVALID_NODE_ID)
           n2 == LeafInsertNode(n, k)
<1>2. /\ items \in ItemMaps /\ DOMAIN items = Seps(n) \cup {k} /\ items[k] = INVALID_NODE_ID
      /\ \A s \in Seps(n) \ {k} : items[s] = n.items[s]
  BY <1>1, WithItemType
<1>3. n2 = DataNode(n, items)
  BY DEF LeafInsertNode
<1> HIDE DEF items, n2
<1>4. n2 \in AnyNode /\ n2.type = "delta" /\ Kin(n, n2) /\ n2.high = n.high /\ n2.items = items
  BY <1>1, <1>2, <1>3, DataNodeFields
<1>5. IsFiniteSet(Seps(n2)) /\ Seps(n2) = Seps(n) \cup {k}
  BY <1>2, <1>4, FS_AddElement DEF Sound, SoundItems, Seps
<1>6. SoundItems(n2)
  BY <1>5, <1>4 DEF Sound, SoundItems, InRange, GetNextNodeID, Kin
<1>7. SoundChildren(m, next, n2)
  BY <1>2, <1>4, <1>5 DEF Sound, SoundChildren, Kin, IsLeaf
<1>8. Sound(m, next, n2)
  BY <1>4, <1>6, <1>7, SoundPlain DEF Kin
<1> QED
  BY <1>4, <1>5, <1>8 DEF n2

LEMMA LeafDeleteNodeSound ==
  ASSUME NEW m, NEW next, NEW n, Sound(m, next, n), IsLeaf(n), NEW k
  PROVE  /\ Sound(m, next, LeafDeleteNode(n, k)) /\ Kin(n, LeafDeleteNode(n, k))
         /\ LeafDeleteNode(n, k).type = "delta" /\ LeafDeleteNode(n, k).high = n.high
         /\ Seps(LeafDeleteNode(n, k)) = Seps(n) \ {k}
<1>1. n \in AnyNode
  BY IsNodeDef DEF Sound
<1> DEFINE S == Seps(n) \ {k}
           n2 == LeafDeleteNode(n, k)
<1>2. S \in SUBSET Seps(n) /\ Part(n, S) \in ItemMaps
  BY <1>1, PartType
<1>3. n2 \in AnyNode /\ n2.type = "delta" /\ Kin(n, n2) /\ n2.high = n.high /\ n2.items = Part(n, S)
  BY <1>1, <1>2, DataNodeFields DEF LeafDeleteNode
<1> HIDE DEF n2
<1>4. n2.kind = n.kind /\ n2.low \in Nat /\ \A s \in S : n2.low <= s /\ InRange(n2, s)
  BY <1>1, <1>3, NodeFacts DEF Sound, SoundItems, Kin, InRange, GetNextNodeID
<1>5. SoundItems(n2) /\ SoundChildren(m, next, n2) /\ Seps(n2) = S
  <2> HIDE DEF S
  <2> QED
    BY <1>2, <1>3, <1>4, PartSound
<1>6. Sound(m, next, n2)
  BY <1>3, <1>5, SoundPlain DEF Kin
<1> QED
  BY <1>3, <1>5, <1>6 DEF n2

\* Where a node may be split: between two of its items.
MaySplit(n) ==
  IF IsLeaf(n) THEN FindSplitPoint(n) # 0 ELSE GetSize(n) >= InnerUpper

LEMMA SplitKeyProperties ==
  ASSUME NEW n, SoundItems(n), n \in AnyNode, MaySplit(n)
  PROVE  /\ SplitKey(n) \in Seps(n) /\ SplitKey(n) \in Nat
         /\ n.low < SplitKey(n) /\ InRange(n, SplitKey(n))
<1>1. Seps(n) \in SUBSET Nat /\ n.low \in Nat /\ IsFiniteSet(Seps(n)) /\ GetSize(n) \in Nat
  BY NodeFacts, FS_CardinalityType DEF SoundItems, GetSize
<1>2. SplitIndex(n) \in 1 .. Cardinality(Seps(n)) - 1
  <2> DEFINE size == GetSize(n)
  <2>0. size \in Nat /\ LeafLower \in Nat /\ InnerUpper \in Nat /\ InnerUpper >= 2
    BY <1>1, BwTreeAssumption DEF BwTreeAssumption
  <2>1. size \div 2 \in Nat /\ 2 * (size \div 2) <= size /\ size <= 2 * (size \div 2) + 1
    BY <2>0
  <2>2. CASE IsLeaf(n)
    <3>1. FindSplitPoint(n) # 0
      BY <2>2 DEF MaySplit
    <3>2. \/ FindSplitPoint(n) = size \div 2 /\ size \div 2 > LeafLower
          \/ FindSplitPoint(n) = size \div 2 + 1 /\ size - (size \div 2 + 1) > LeafLower
      BY <3>1 DEF FindSplitPoint
    <3>3. SplitIndex(n) = FindSplitPoint(n)
      BY <2>2 DEF SplitIndex
    <3>4. FindSplitPoint(n) \in 1 .. size - 1
      <4> HIDE DEF size
      <4> QED
        BY <3>2, <2>0, <2>1
    <3> QED
      BY <3>3, <3>4 DEF GetSize
  <2>3. CASE ~IsLeaf(n)
    <3>1. size >= InnerUpper /\ SplitIndex(n) = size \div 2
      BY <2>3 DEF MaySplit, SplitIndex
    <3>2. size \div 2 \in 1 .. size - 1
      <4> HIDE DEF size
      <4> QED
        BY <3>1, <2>0, <2>1
    <3> QED
      BY <3>1, <3>2 DEF GetSize
  <2> QED
    BY <2>2, <2>3
<1>3. SplitKey(n) \in Seps(n) /\ \E j \in Seps(n) : j < SplitKey(n)
  BY <1>1, <1>2, NthNotFirst DEF SplitKey
<1>4. PICK j \in Seps(n) : j < SplitKey(n)
  BY <1>3
<1>5. n.low <= j /\ j \in Nat /\ SplitKey(n) \in Nat
  BY <1>1, <1>3, <1>4 DEF SoundItems
<1>6. n.low < SplitKey(n)
  BY <1>1, <1>4, <1>5
<1> QED
  BY <1>3, <1>5, <1>6 DEF SoundItems

\* A split: the right sibling takes over the items from the split key on.
LEMMA SplitSiblingFields ==
  ASSUME NEW n, SoundItems(n), n \in AnyNode, MaySplit(n)
  PROVE  LET n2 == SplitSibling(n)
             S  == {k \in Seps(n) : k >= SplitKey(n)} IN
         /\ n2 \in AnyNode /\ n2.type = "base" /\ n2.kind = n.kind /\ n2.low = SplitKey(n)
         /\ n2.high = n.high /\ n2.items = Part(n, S) /\ Seps(n2) = S
<1> DEFINE S  == {k \in Seps(n) : k >= SplitKey(n)}
           n2 == SplitSibling(n)
<1>1. S \in SUBSET Seps(n) /\ SplitKey(n) \in Nat /\ 0 \in 0 .. MaxId
  BY SplitKeyProperties, MaxIdType
<1>2. Part(n, S) \in ItemMaps /\ DOMAIN Part(n, S) = S
  BY <1>1, PartType
<1>3. n2 = Base(n.kind, SplitKey(n), n.high, Part(n, S))
  BY DEF SplitSibling
<1> HIDE DEF S, n2
<1>4. n2 \in AnyNode
  BY <1>1, <1>2, <1>3 DEF Base, AnyNode, NodeTypes
<1>5. /\ n2.type = "base" /\ n2.kind = n.kind /\ n2.low = SplitKey(n)
      /\ n2.high = n.high /\ n2.items = Part(n, S)
  BY <1>3 DEF Base
<1> QED
  BY <1>2, <1>4, <1>5 DEF n2, S, Seps

LEMMA SplitNodeFields ==
  ASSUME NEW n, SoundItems(n), n \in AnyNode, MaySplit(n), NEW id \in 0 .. MaxId
  PROVE  LET n2 == SplitNode(n, id)
             S  == {k \in Seps(n) : k < SplitKey(n)} IN
         /\ n2 \in AnyNode /\ n2.type = "split" /\ Kin(n, n2)
         /\ n2.high = <<SplitKey(n), id>> /\ n2.sep = SplitKey(n) /\ n2.other = id
         /\ n2.items = Part(n, S) /\ Seps(n2) = S
<1> DEFINE S  == {k \in Seps(n) : k < SplitKey(n)}
           n2 == SplitNode(n, id)
<1>1. S \in SUBSET Seps(n) /\ SplitKey(n) \in Nat
  BY SplitKeyProperties
<1>2. Part(n, S) \in ItemMaps /\ DOMAIN Part(n, S) = S
  BY <1>1, PartType
<1>3. n2 = [n EXCEPT !.type = "split", !.high = <<SplitKey(n), id>>, !.sep = SplitKey(n),
                     !.other = id, !.items = Part(n, S)]
  BY DEF SplitNode
<1> HIDE DEF S, n2
<1>4. n2 \in AnyNode
  BY <1>1, <1>2, <1>3 DEF AnyNode, NodeTypes
<1>5. /\ n2.type = "split" /\ Kin(n, n2)
      /\ n2.high = <<SplitKey(n), id>> /\ n2.sep = SplitKey(n) /\ n2.other = id
      /\ n2.items = Part(n, S)
  BY <1>3 DEF AnyNode, Kin
<1> QED
  BY <1>2, <1>4, <1>5 DEF n2, S, Seps

\* The mapping table once node id is split.
SplitTable(m, next, id, n) == [m EXCEPT ![next] = SplitSibling(n), ![id] = SplitNode(n, next)]

LEMMA SplitSound ==
  ASSUME NEW m, DOMAIN m = NodeIds, NEW next \in NodeIds, NEW id \in InUse(next),
         NEW n, Sound(m, next, n), Kin(m[id], n), MaySplit(n),
         NEW m2, m2 = SplitTable(m, next, id, n)
  PROVE  /\ Grows(m, next, m2, next + 1)
         /\ Sound(m2, next + 1, SplitSibling(n)) /\ Sound(m2, next + 1, SplitNode(n, next))
         /\ m2[next] = SplitSibling(n) /\ m2[id] = SplitNode(n, next)
         /\ \A i \in NodeIds \ {next, id} : m2[i] = m[i]
<1> DEFINE right == SplitSibling(n)
           lft   == SplitNode(n, next)
           key   == SplitKey(n)
           SR == {k \in Seps(n) : k >= key}
           SL == {k \in Seps(n) : k < key}
<1>1. n \in AnyNode /\ SoundItems(n)
  BY IsNodeDef DEF Sound
<1>2. next \in 0 .. MaxId /\ next \in Nat /\ next # 0 /\ id \in NodeIds /\ id # next
  BY MaxIdType DEF NodeIds, InUse
<1>3. key \in Seps(n) /\ key \in Nat /\ n.low < key /\ InRange(n, key) /\ n.low \in Nat
  BY <1>1, SplitKeyProperties, NodeFacts
<1>4. /\ right \in AnyNode /\ right.type = "base" /\ right.kind = n.kind /\ right.low = key
      /\ right.high = n.high /\ right.items = Part(n, SR)
  BY <1>1, SplitSiblingFields
<1>5. /\ lft \in AnyNode /\ lft.type = "split" /\ Kin(n, lft)
      /\ lft.high = <<key, next>> /\ lft.sep = key /\ lft.other = next
      /\ lft.items = Part(n, SL)
  BY <1>1, <1>2, SplitNodeFields
<1> HIDE DEF right, lft, key
<1>6. m2[next] = right /\ m2[id] = lft /\ \A i \in NodeIds \ {next, id} : m2[i] = m[i]
  BY <1>2 DEF right, lft, SplitTable
<1>7. Grows(m, next, m2, next + 1)
  <2>1. \A i \in InUse(next) : i \in NodeIds /\ i # next
    BY <1>2, MaxIdType DEF InUse, NodeIds
  <2>2. next \in Nat /\ next + 1 \in Nat /\ next <= next + 1
    BY <1>2
  <2>3. m2[id].kind = m[id].kind /\ m2[id].low = m[id].low
    BY <1>5, <1>6 DEF Kin
  <2> QED
    BY <2>1, <2>2, <2>3, <1>6 DEF Grows
<1>8. Sound(m2, next + 1, n)
  BY <1>7, SoundGrows
<1>9. Sound(m2, next + 1, right)
  <2>1. SR \in SUBSET Seps(n) /\ \A k \in SR : right.low <= k /\ InRange(right, k)
    BY <1>1, <1>4 DEF SoundItems, InRange, GetNextNodeID
  <2>2. key \in SR
    BY <1>3
  <2>3. SoundItems(right) /\ SoundChildren(m2, next + 1, right)
    <3> HIDE DEF SR
    <3> QED
      BY <1>3, <1>4, <1>8, <2>1, <2>2, PartSound
  <2>4. SoundSibling(m2, next + 1, right)
    <3>1. GetNextNodeID(right) # INVALID_NODE_ID => right.low < right.high[1]
      BY <1>3, <1>4 DEF InRange, GetNextNodeID
    <3> QED
      BY <3>1, <1>4, <1>8 DEF Sound, SoundSibling, GetNextNodeID
  <2>5. SoundDelta(next + 1, right) /\ IsNode(right)
    BY <1>4, IsNodeDef DEF SoundDelta
  <2> QED
    BY <2>3, <2>4, <2>5 DEF Sound
<1>10. Sound(m2, next + 1, lft)
  <2>0. GetNextNodeID(lft) = next /\ lft.high[1] = key /\ lft.low = n.low /\ lft.kind = n.kind
    BY <1>5 DEF GetNextNodeID, Kin
  <2>1. SL \in SUBSET Seps(n) /\ \A k \in SL : lft.low <= k /\ InRange(lft, k)
    BY <1>1, <2>0 DEF SoundItems, InRange
  <2>2. ~IsLeaf(n) => lft.low \in SL
    BY <1>3, <2>0 DEF Sound, SoundChildren
  <2>3. SoundItems(lft) /\ SoundChildren(m2, next + 1, lft)
    <3> HIDE DEF SL
    <3> QED
      BY <1>3, <1>5, <1>8, <2>0, <2>1, <2>2, PartSound
  <2>4. StartsAt(m2, next + 1, next, key) /\ m2[next].kind = lft.kind
    BY <1>2, <1>4, <1>6, <2>0 DEF StartsAt, InUse
  <2>5. SoundSibling(m2, next + 1, lft)
    BY <2>0, <2>4, <1>3 DEF SoundSibling
  <2>6. SoundDelta(next + 1, lft) /\ IsNode(lft)
    BY <1>2, <1>5, IsNodeDef, MaxIdType DEF SoundDelta
  <2> QED
    BY <2>3, <2>5, <2>6 DEF Sound
<1> QED
  BY <1>6, <1>7, <1>9, <1>10 DEF right, lft

\* A merge: n takes over the items and the high key of its right sibling.
LEMMA MergeNodeFields ==
  ASSUME NEW n \in AnyNode, NEW right \in AnyNode, NEW id \in 0 .. MaxId
  PROVE  LET n2 == MergeNode(n, right, id) IN
         /\ n2 \in AnyNode /\ n2.type = "merge" /\ Kin(n, n2) /\ n2.high = right.high
         /\ n2.sep = n.high[1] /\ n2.other = id /\ n2.items = WithItemsOf(n, right)
         /\ Seps(n2) = Seps(n) \cup Seps(right)
<1> DEFINE items == WithItemsOf(n, right)
           depth == n.depth + right.depth
           n2 == MergeNode(n, right, id)
<1>1. items \in ItemMaps /\ DOMAIN items = Seps(n) \cup Seps(right)
  BY WithItemsOfType
<1>2. n.high[1] \in Nat /\ depth \in Nat /\ (~IsLeaf(n)) \in BOOLEAN
  BY NodeFacts DEF AnyNode, IsLeaf
<1>3. n2 = [n EXCEPT !.type = "merge", !.high = right.high, !.sep = n.high[1], !.other = id,
                     !.items = items, !.depth = depth, !.merges = ~IsLeaf(n)]
  BY DEF MergeNode, AnyNode
<1> HIDE DEF items, depth, n2
<1>4. n2 \in AnyNode
  BY <1>1, <1>2, <1>3 DEF AnyNode, NodeTypes
<1>5. /\ n2.type = "merge" /\ Kin(n, n2) /\ n2.high = right.high
      /\ n2.sep = n.high[1] /\ n2.other = id /\ n2.items = items
  BY <1>3 DEF AnyNode, Kin
<1> QED
  BY <1>1, <1>4, <1>5 DEF n2, items, Seps

LEMMA MergeNodeSound ==
  ASSUME NEW m, NEW next, NEW n, Sound(m, next, n), NEW right, Sound(m, next, right),
         NEW id \in 0 .. MaxId, GetNextNodeID(n) = id, id # INVALID_NODE_ID, next \in 1 .. MaxId + 1,
         Kin(m[id], right)
  PROVE  /\ Sound(m, next, MergeNode(n, right, id)) /\ Kin(n, MergeNode(n, right, id))
         /\ n.low < right.low /\ right.low = n.high[1] /\ right.kind = n.kind
<1>1. n \in AnyNode /\ right \in AnyNode
  BY IsNodeDef DEF Sound
<1>2. /\ n.low < n.high[1] /\ StartsAt(m, next, id, n.high[1]) /\ m[id].kind = n.kind
      /\ n.low \in Nat /\ n.high[1] \in Nat /\ right.high[1] \in Nat
  BY <1>1, NodeFacts DEF Sound, SoundSibling
<1>3. right.low = n.high[1] /\ right.kind = n.kind
  BY <1>2 DEF StartsAt, Kin
<1> DEFINE n2 == MergeNode(n, right, id)
<1>4. /\ n2 \in AnyNode /\ n2.type = "merge" /\ Kin(n, n2) /\ n2.high = right.high
      /\ n2.sep = n.high[1] /\ n2.other = id /\ n2.items = WithItemsOf(n, right)
      /\ Seps(n2) = Seps(n) \cup Seps(right)
  BY <1>1, MergeNodeFields
<1>5. /\ \A s \in Seps(n) : n2.items[s] = n.items[s]
      /\ \A s \in Seps(right) \ Seps(n) : n2.items[s] = right.items[s]
  BY <1>1, <1>4, WithItemsOfType
<1> HIDE DEF n2
<1>6. Seps(n) \in SUBSET Nat /\ Seps(right) \in SUBSET Nat
  BY <1>1, NodeFacts
<1>7. GetNextNodeID(n2) = GetNextNodeID(right) /\ n2.high[1] = right.high[1]
      /\ (GetNextNodeID(n2) # INVALID_NODE_ID => right.low < n2.high[1])
  BY <1>4 DEF Sound, SoundSibling, GetNextNodeID
<1>8. SoundItems(n2)
  <2>1. IsFiniteSet(Seps(n2))
    BY <1>4, FS_Union DEF Sound, SoundItems
  <2>2. ASSUME NEW k \in Seps(n) PROVE n2.low <= k /\ InRange(n2, k)
    <3>1. n.low <= k /\ k < n.high[1] /\ k \in Nat
      BY <1>6 DEF Sound, SoundItems, InRange
    <3> QED
      BY <3>1, <1>2, <1>3, <1>4, <1>7 DEF InRange, Kin
  <2>3. ASSUME NEW k \in Seps(right) PROVE n2.low <= k /\ InRange(n2, k)
    <3>1. right.low <= k /\ InRange(right, k) /\ k \in Nat
      BY <1>6 DEF Sound, SoundItems
    <3> QED
      BY <3>1, <1>2, <1>3, <1>4, <1>7 DEF InRange, Kin
  <2> QED
    BY <2>1, <2>2, <2>3, <1>4 DEF SoundItems
<1>9. SoundChildren(m, next, n2)
  <2>1. IsLeaf(n2) <=> IsLeaf(n)
    BY <1>4 DEF Kin, IsLeaf
  <2>2. IsLeaf(right) <=> IsLeaf(n)
    BY <1>3 DEF IsLeaf
  <2> QED
    BY <2>1, <2>2, <1>4, <1>5 DEF Sound, SoundChildren, Kin
<1>10. SoundSibling(m, next, n2)
  <2>1. GetNextNodeID(n2) # INVALID_NODE_ID => n2.low < n2.high[1]
    BY <1>2, <1>3, <1>4, <1>7 DEF Kin
  <2> QED
    BY <2>1, <1>3, <1>4, <1>7 DEF Sound, SoundSibling, Kin
<1>11. SoundDelta(next, n2) /\ IsNode(n2)
  BY <1>2, <1>4, IsNodeDef DEF SoundDelta, StartsAt, Kin
<1>12. Sound(m, next, n2)
  BY <1>8, <1>9, <1>10, <1>11 DEF Sound
<1> QED
  BY <1>2, <1>3, <1>4, <1>12 DEF n2

\* InstallRootNode(): the new root has the old one and its sibling as children.
RootNode(c) ==
  Base("inner", LowKey, <<0, INVALID_NODE_ID>>,
       [s \in {LowKey, c.cur.node.sep} |-> IF s = LowKey THEN c.cur.id ELSE c.cur.node.other])

LEMMA RootNodeSound ==
  ASSUME NEW m, NEW next, next \in 1 .. MaxId + 1, NEW c, StartsAt(m, next, c.cur.id, LowKey),
         c.cur.node.sep \in Nat, StartsAt(m, next, c.cur.node.other, c.cur.node.sep)
  PROVE  Sound(m, next, RootNode(c)) /\ RootNode(c).low = LowKey /\ ~IsLeaf(RootNode(c))
<1> DEFINE keys  == {LowKey, c.cur.node.sep}
           items == [s \in keys |-> IF s = LowKey THEN c.cur.id ELSE c.cur.node.other]
           n2 == RootNode(c)
<1>1. /\ LowKey \in Nat /\ LowKey = 0 /\ INVALID_NODE_ID \in 0 .. MaxId
      /\ 0 \in Nat /\ 0 \in 0 .. MaxId
  BY MaxIdType
<1>2. c.cur.id \in 0 .. MaxId /\ c.cur.node.other \in 0 .. MaxId
  BY MaxIdType DEF StartsAt, InUse
<1>3. keys \in SUBSET Nat /\ items \in [keys -> 0 .. MaxId] /\ DOMAIN items = keys
  BY <1>1, <1>2
<1>4. items \in ItemMaps
  <2> HIDE DEF items, keys
  <2> QED
    BY <1>3, ItemMapsDef
<1>5. \A s \in keys : StartsAt(m, next, items[s], s)
  OBVIOUS
<1>6. n2 = Base("inner", LowKey, <<0, INVALID_NODE_ID>>, items)
  BY DEF RootNode
<1>7. IsFiniteSet(keys) /\ LowKey \in keys
  <2>0. IsFiniteSet({LowKey})
    BY FS_Singleton
  <2>1. IsFiniteSet({LowKey} \cup {c.cur.node.sep})
    BY <2>0, FS_AddElement
  <2>2. keys = {LowKey} \cup {c.cur.node.sep}
    OBVIOUS
  <2> QED
    BY <2>1, <2>2
<1> HIDE DEF items, keys, n2
<1>8. n2 \in AnyNode
  BY <1>1, <1>4, <1>6 DEF Base, AnyNode, Kinds, NodeTypes
<1>9. /\ n2.kind = "inner" /\ n2.type = "base" /\ n2.low = LowKey /\ n2.items = items
      /\ n2.high = <<0, INVALID_NODE_ID>> /\ GetNextNodeID(n2) = INVALID_NODE_ID
  BY <1>6 DEF Base, GetNextNodeID
<1>10. ~IsLeaf(n2) /\ Seps(n2) = keys
  BY <1>3, <1>9 DEF IsLeaf, Seps
<1>11. SoundItems(n2)
  <2>1. \A k \in keys : k \in Nat /\ 0 <= k
    BY <1>3
  <2> QED
    BY <1>1, <2>1, <1>7, <1>9, <1>10 DEF SoundItems, InRange
<1>12. SoundChildren(m, next, n2)
  BY <1>5, <1>7, <1>9, <1>10 DEF SoundChildren
<1>13. SoundSibling(m, next, n2) /\ SoundDelta(next, n2) /\ IsNode(n2)
  BY <1>8, <1>9, IsNodeDef DEF SoundSibling, SoundDelta
<1>14. Sound(m, next, n2)
  BY <1>11, <1>12, <1>13 DEF Sound
<1> QED
  BY <1>9, <1>10, <1>14 DEF n2


-----------------------------------------------------------------------------
(* The invariant.  What a Context holds may be out of date, but what it    *)
(* says of low keys and kinds stays true.                                  *)

SnapSet == [id : UNSET .. MaxId, node : AnyNode, fresh : BOOLEAN]
Ops == {"none", "insert", "insertLRU", "delete", "get", "scan"}
ContextSet ==
  [pc : PCs, op : Ops, key : Nat, cur : SnapSet, par : SnapSet,
   pending : Seq(NodeIds \X AnyNode), to : 0 .. MaxId, res : BOOLEAN,
   seen : SUBSET BOOLEAN, got : Seq(Nat), steady : SUBSET Nat, ever : SUBSET Nat,
   freed : SUBSET NodeIds]

\* n is or was what id leads to.
Taken(m, next, id, n) == id \in InUse(next) /\ Sound(m, next, n) /\ Kin(m[id], n)

\* A traversal for key may go to id.
LeadsTo(m, next, id, key) == id \in InUse(next) /\ m[id].low <= key
InnerId(m, next, id) == id \in InUse(next) /\ ~IsLeaf(m[id])

\* The snapshots and the remove deltas of a Context.
Holds(m, next, c) ==
  /\ c.cur.id \in 0 .. MaxId
  /\ c.cur.id \in NodeIds => Taken(m, next, c.cur.id, c.cur.node)
  /\ HasParentNode(c) => /\ Taken(m, next, c.par.id, c.par.node)
                         /\ ~IsLeaf(c.par.node) /\ c.op # "get"
  /\ \A i \in 1 .. Len(c.pending) :
       /\ Taken(m, next, c.pending[i][1], c.pending[i][2])
       /\ c.pending[i][2].type = "remove"
  /\ c.pending # <<>> => HasParentNode(c)

\* A Context with a node in hand: it is not right of the key, nor left of its
\* parent, and a leaf has one (but for GetValue()).
Here(c) ==
  /\ c.cur.id \in NodeIds /\ c.cur.node.low <= c.key
  /\ HasParentNode(c) => c.par.node.low <= c.cur.node.low
  /\ IsLeaf(c.cur.node) /\ c.op # "get" => HasParentNode(c)

Working == {"removeCheck", "parentConsolidate", "mergePost", "mergeCheck", "postDelete",
            "postInsert", "newRoot", "consolidate", "tryConsolidate", "probe", "split",
            "abortPost", "removePost", "abortUndo", "op"}
\* What the code at pc relies on.
Ready(c, pc) ==
  LET n == c.cur.node IN
  /\ pc \in {"removeCheck", "parentConsolidate", "mergeCheck", "postDelete", "postInsert",
             "abortPost", "removePost", "abortUndo"} => HasParentNode(c)
  /\ pc \in {"removeCheck", "parentConsolidate"} <=> n.type = "remove"
  /\ pc = "mergePost" => c.pending # <<>> /\ GetNextNodeID(n) = Head(c.pending)[1]
  /\ pc \in {"mergeCheck", "postDelete"} => n.type = "merge"
  /\ pc = "postDelete" => Found(c.par.node, n.sep)
  /\ pc \in {"postInsert", "newRoot"} => n.type = "split"
  /\ pc = "postInsert" => InRange(c.par.node, n.sep) /\ ~Found(c.par.node, n.sep)
  /\ pc \in {"abortPost", "removePost"} => GetLowKeyNodeID(c.par.node) # c.cur.id
  /\ pc \in {"probe", "split", "abortPost", "removePost", "abortUndo"} => n.type = "base"
  /\ pc = "probe" => ~IsLeaf(n)
  /\ pc \in {"probe", "split"} => MaySplit(n)
  /\ pc = "op" => /\ IsLeaf(n) /\ InRange(n, c.key) /\ c.pending = <<>>
                  /\ c.op \notin {"get", "scan"}
                  /\ (Promised(c.op) = "insert") # (c.key \in Seps(n))

\* What holds of a Context by where it is.
Placed(m, next, c) ==
  /\ c.pc # "idle" => c.op # "none"
  /\ c.pc \in Working => Here(c) /\ Ready(c, c.pc)
  /\ c.pc = "root" => c.cur.id = INVALID_NODE_ID /\ c.pending = <<>> /\ ~HasParentNode(c)
  /\ c.pc = "hit" =>
       /\ InnerId(m, next, c.to) /\ LeadsTo(m, next, c.to, c.key)
       /\ c.pending = <<>> /\ ~HasParentNode(c)
  /\ c.pc = "take" =>
       /\ LeadsTo(m, next, c.to, c.key) /\ c.pending = <<>>
       /\ c.cur.id \in NodeIds => ~IsLeaf(c.cur.node) /\ c.cur.node.low <= m[c.to].low
       /\ c.cur.id \notin NodeIds => InnerId(m, next, c.to)
  /\ c.pc = "jump" =>
       /\ LeadsTo(m, next, c.to, c.key)
       /\ HasParentNode(c) => c.par.node.low <= m[c.to].low
       /\ ~HasParentNode(c) /\ c.op # "get" => InnerId(m, next, c.to)

ContextOK(m, next, c) == c \in ContextSet /\ Holds(m, next, c) /\ Placed(m, next, c)

TreeOK(m, next, root) ==
  /\ next \in 1 .. MaxId + 1
  /\ DOMAIN m = NodeIds /\ \A i \in NodeIds : IsNode(m[i])
  /\ \A i \in InUse(next) : Sound(m, next, m[i])
  /\ InnerId(m, next, root) /\ m[root].low = LowKey

CacheOK(m, next, cache) ==
  /\ cache \in Seq(Nat \X InUse(next)) /\ Len(cache) <= CacheSize
  /\ \A e \in ToSet(cache) : InnerId(m, next, e[2]) /\ LeadsTo(m, next, e[2], e[1])

StructInv ==
  /\ TreeOK(mapping, next_unused_node_id, root_id)
  /\ blocked \subseteq NodeIds /\ released \subseteq NodeIds
  /\ contents \subseteq Nat /\ left \in Nat
  /\ requests \subseteq (Ops \ {"none"}) \X (Nat \ {0})
  /\ \A t \in Threads : CacheOK(mapping, next_unused_node_id, lru_cache[t])
  /\ DOMAIN lru_cache = Threads /\ DOMAIN ctx = Threads
  /\ \A t \in Threads : ContextOK(mapping, next_unused_node_id, ctx[t])

-----------------------------------------------------------------------------
(* What other threads do to a Context.                                     *)

LEMMA TakenGrows ==
  ASSUME NEW m, NEW next, NEW m2, NEW next2, Grows(m, next, m2, next2)
  PROVE  /\ \A id, n : Taken(m, next, id, n) => Taken(m2, next2, id, n)
         /\ \A id, key : LeadsTo(m, next, id, key) => LeadsTo(m2, next2, id, key)
         /\ \A id : InnerId(m, next, id) => InnerId(m2, next2, id)
         /\ \A id \in InUse(next) : m2[id].low = m[id].low
<1>1. InUse(next) \subseteq InUse(next2)
  BY DEF Grows, InUse
<1>2. \A id \in InUse(next) : m2[id].kind = m[id].kind /\ m2[id].low = m[id].low
  BY DEF Grows
<1>3. \A n : Sound(m, next, n) => Sound(m2, next2, n)
  BY SoundGrows
<1> QED
  BY <1>1, <1>2, <1>3 DEF Taken, LeadsTo, InnerId, Kin, IsLeaf

LEMMA ContextGrows ==
  ASSUME NEW m, NEW next, NEW m2, NEW next2, Grows(m, next, m2, next2),
         NEW c, ContextOK(m, next, c)
  PROVE  ContextOK(m2, next2, c)
<1>1. Holds(m2, next2, c)
  BY TakenGrows DEF ContextOK, Holds
<1>2. Placed(m2, next2, c)
  BY TakenGrows DEF ContextOK, Placed, LeadsTo
<1> QED
  BY <1>1, <1>2 DEF ContextOK

\* What matters of a Context here: not whether its snapshots are fresh, nor what
\* it has seen of the contents.
SameView(c, d) ==
  /\ d.pc = c.pc /\ d.op = c.op /\ d.key = c.key /\ d.pending = c.pending /\ d.to = c.to
  /\ d.cur.id = c.cur.id /\ d.cur.node = c.cur.node
  /\ d.par.id = c.par.id /\ d.par.node = c.par.node

LEMMA SameViewOK ==
  ASSUME NEW m, NEW next, NEW c, ContextOK(m, next, c), NEW d \in ContextSet, SameView(c, d)
  PROVE  ContextOK(m, next, d)
<1>1. HasParentNode(d) <=> HasParentNode(c)
  BY DEF SameView, HasParentNode
<1>2. Holds(m, next, d)
  BY <1>1 DEF ContextOK, SameView, Holds
<1>3. Here(d) <=> Here(c)
  BY <1>1 DEF SameView, Here
<1>4. \A pc : Ready(d, pc) <=> Ready(c, pc)
  BY <1>1 DEF SameView, Ready
<1>5. Placed(m, next, d)
  BY <1>1, <1>3, <1>4 DEF ContextOK, SameView, Placed
<1> QED
  BY <1>2, <1>5 DEF ContextOK

LEMMA OutdatedFields ==
  ASSUME NEW c \in ContextSet, NEW id
  PROVE  LET d == Outdated(c, id) IN
         /\ d \in ContextSet /\ SameView(c, d)
         /\ d.seen = c.seen /\ d.got = c.got /\ d.steady = c.steady /\ d.ever = c.ever
         /\ d.res = c.res /\ d.cur.fresh = (c.cur.fresh /\ c.cur.id # id)
<1> DEFINE f == c.cur.fresh /\ c.cur.id # id
           g == c.par.fresh /\ c.par.id # id
           d == Outdated(c, id)
<1>1. f \in BOOLEAN /\ g \in BOOLEAN
  BY DEF ContextSet, SnapSet
<1>2. d = [c EXCEPT !.cur = [c.cur EXCEPT !.fresh = f], !.par = [c.par EXCEPT !.fresh = g]]
  BY DEF Outdated, ContextSet, SnapSet
<1> HIDE DEF f, g, d
<1>3. [c.cur EXCEPT !.fresh = f] \in SnapSet /\ [c.par EXCEPT !.fresh = g] \in SnapSet
  BY <1>1 DEF ContextSet, SnapSet
<1>4. d \in ContextSet
  BY <1>2, <1>3 DEF ContextSet
<1>5. SameView(c, d)
  BY <1>2 DEF ContextSet, SnapSet, SameView
<1>6. /\ d.seen = c.seen /\ d.got = c.got /\ d.steady = c.steady /\ d.ever = c.ever
      /\ d.res = c.res /\ d.cur.fresh = f
  BY <1>2 DEF ContextSet, SnapSet
<1> QED
  BY <1>4, <1>5, <1>6 DEF d, f

LEMMA SeenType ==
  ASSUME NEW k, NEW S
  PROVE  {(k \in S)} \in SUBSET BOOLEAN
OBVIOUS

LEMMA ObserveFields ==
  ASSUME NEW c \in ContextSet, NEW k, NEW now \in SUBSET Nat
  PROVE  LET d == Observe(c, k, now) IN
         /\ d \in ContextSet /\ SameView(c, d) /\ d.got = c.got /\ d.res = c.res
         /\ d.cur.fresh = c.cur.fresh
<1> DEFINE d == Observe(c, k, now)
<1>1. CASE c.op = "scan" /\ c.pc # "done"
  <2>1. d = [c EXCEPT !.steady = c.steady \cap now, !.ever = c.ever \cup now]
    BY <1>1 DEF Observe, ContextSet
  <2>2. c.steady \cap now \in SUBSET Nat /\ c.ever \cup now \in SUBSET Nat
    BY DEF ContextSet
  <2> HIDE DEF d
  <2> QED
    BY <2>1, <2>2 DEF ContextSet, SameView, d
<1>2. CASE c.op # "scan" /\ c.key = k
  <2>1. d = [c EXCEPT !.seen = c.seen \cup {(k \in now)}]
    BY <1>2 DEF Observe, ContextSet
  <2>2. c.seen \cup {(k \in now)} \in SUBSET BOOLEAN
    <3>1. c.seen \in SUBSET BOOLEAN
      BY DEF ContextSet
    <3> QED
      BY <3>1, SeenType
  <2> HIDE DEF d
  <2> QED
    BY <2>1, <2>2 DEF ContextSet, SameView, d
<1>3. CASE ~(c.op = "scan" /\ c.pc # "done") /\ ~(c.op # "scan" /\ c.key = k)
  BY <1>3 DEF Observe, SameView
<1> QED
  BY <1>1, <1>2, <1>3

-----------------------------------------------------------------------------
(* Where an inner node leads to.                                           *)

LEMMA ChildForProperties ==
  ASSUME NEW m, NEW next, NEW n, Sound(m, next, n), ~IsLeaf(n), NEW k \in Nat, n.low <= k
  PROVE  /\ LeadsTo(m, next, ChildFor(n, k), k) /\ n.low <= m[ChildFor(n, k)].low
         /\ m[ChildFor(n, k)].low \in Nat
<1> DEFINE S == {s \in Seps(n) : s <= k}
<1>1. Seps(n) \in SUBSET Nat /\ IsFiniteSet(Seps(n)) /\ n.low \in Seps(n)
  BY IsNodeDef, NodeFacts DEF Sound, SoundItems, SoundChildren
<1>2. S \in SUBSET Nat /\ S # {} /\ IsFiniteSet(S)
  <2>1. S \in SUBSET Seps(n) /\ n.low \in S
    BY <1>1
  <2> QED
    BY <1>1, <2>1, FS_Subset
<1>3. Max(S) \in S
  <2> HIDE DEF S
  <2> QED
    BY <1>2, MaxIn
<1>4. ChildFor(n, k) = n.items[Max(S)]
  BY DEF ChildFor
<1>5. StartsAt(m, next, n.items[Max(S)], Max(S)) /\ Max(S) <= k /\ n.low <= Max(S)
      /\ Max(S) \in Nat
  BY <1>1, <1>3 DEF Sound, SoundChildren, SoundItems
<1> QED
  BY <1>4, <1>5 DEF StartsAt, LeadsTo

LEMMA LeftOfProperties ==
  ASSUME NEW m, NEW next, NEW n, Sound(m, next, n), ~IsLeaf(n), NEW k \in Nat,
         Cardinality(LeftSeps(n, k)) >= 2
  PROVE  /\ LeadsTo(m, next, LeftOf(n, k), k) /\ n.low <= m[LeftOf(n, k)].low
         /\ m[LeftOf(n, k)].low \in Nat
<1> DEFINE S == LeftSeps(n, k)
           T == S \ {Max(S)}
<1>1. Seps(n) \in SUBSET Nat /\ IsFiniteSet(Seps(n))
  BY IsNodeDef, NodeFacts DEF Sound, SoundItems
<1>2. S \in SUBSET Nat /\ IsFiniteSet(S) /\ S \in SUBSET Seps(n)
  <2>1. S \in SUBSET Seps(n)
    BY DEF LeftSeps
  <2> QED
    BY <1>1, <2>1, FS_Subset
<1>3. S # {}
  BY FS_EmptySet
<1>4. Max(S) \in S
  <2> HIDE DEF S
  <2> QED
    BY <1>2, <1>3, MaxIn
<1>5. T \in SUBSET Nat /\ IsFiniteSet(T) /\ T # {}
  <2>1. T \in SUBSET S /\ IsFiniteSet(T) /\ Cardinality(T) = Cardinality(S) - 1
    <3> HIDE DEF S
    <3> QED
      BY <1>2, <1>4, FS_RemoveElement
  <2>2. Cardinality(S) >= 2 /\ Cardinality(S) \in Nat
    BY <1>2, FS_CardinalityType
  <2>3. Cardinality(T) # 0
    <3> HIDE DEF S, T
    <3> QED
      BY <2>1, <2>2
  <2> QED
    BY <1>2, <2>1, <2>3, FS_EmptySet
<1>6. Max(T) \in T
  <2> HIDE DEF T
  <2> QED
    BY <1>5, MaxIn
<1>7. LeftOf(n, k) = n.items[Max(T)]
  BY DEF LeftOf
<1>8. Max(T) \in Seps(n) /\ Max(T) <= k
  BY <1>6 DEF LeftSeps
<1>9. StartsAt(m, next, n.items[Max(T)], Max(T)) /\ n.low <= Max(T) /\ Max(T) \in Nat
  BY <1>1, <1>8 DEF Sound, SoundChildren, SoundItems
<1> QED
  BY <1>7, <1>8, <1>9 DEF StartsAt, LeadsTo

\* The next node on the right.
LEMMA SiblingProperties ==
  ASSUME NEW m, NEW next, NEW n, Sound(m, next, n), NEW k \in Nat, ~InRange(n, k)
  PROVE  /\ LeadsTo(m, next, GetNextNodeID(n), k) /\ n.low < m[GetNextNodeID(n)].low
         /\ m[GetNextNodeID(n)].kind = n.kind /\ m[GetNextNodeID(n)].low \in Nat
<1>1. n \in AnyNode
  BY IsNodeDef DEF Sound
<1>2. GetNextNodeID(n) # INVALID_NODE_ID /\ n.high[1] <= k /\ n.high[1] \in Nat
  BY <1>1, NodeFacts DEF InRange
<1> QED
  BY <1>2 DEF Sound, SoundSibling, StartsAt, LeadsTo

-----------------------------------------------------------------------------
(* The code between two accesses.                                          *)

LEMMA SnapTypes ==
  /\ NoNode \in AnyNode /\ NoSnap \in SnapSet /\ Unset \in SnapSet
  /\ NoSnap.id = INVALID_NODE_ID /\ Unset.id = UNSET
  /\ INVALID_NODE_ID \notin NodeIds /\ UNSET \notin NodeIds
<1>0. 0 \in Nat /\ 0 \in 0 .. MaxId /\ INVALID_NODE_ID = 0 /\ LowKey = 0 /\ MaxId \in Nat
  BY MaxIdType
<1> DEFINE items == [k \in {} |-> INVALID_NODE_ID]
<1>1. items \in ItemMaps
  <2>1. DOMAIN items = {} /\ items \in [{} -> 0 .. MaxId]
    OBVIOUS
  <2> HIDE DEF items
  <2> QED
    BY <2>1, ItemMapsDef
<1>2. NoNode = Base("leaf", LowKey, <<0, INVALID_NODE_ID>>, items)
  BY DEF NoNode
<1> HIDE DEF items
<1>3. NoNode \in AnyNode
  BY <1>0, <1>1, <1>2 DEF Base, AnyNode, Kinds, NodeTypes
<1>4. NoSnap \in SnapSet /\ NoSnap.id = INVALID_NODE_ID
  BY <1>0, <1>3 DEF NoSnap, SnapSet, UNSET
<1>5. Unset = [NoSnap EXCEPT !.id = UNSET]
  BY DEF Unset
<1>6. Unset \in SnapSet /\ Unset.id = UNSET
  BY <1>0, <1>4, <1>5 DEF SnapSet, UNSET
<1>7. INVALID_NODE_ID \notin NodeIds /\ UNSET \notin NodeIds
  BY <1>0 DEF NodeIds, UNSET
<1> QED
  BY <1>3, <1>4, <1>6, <1>7

LEMMA AbortFields ==
  ASSUME NEW c \in ContextSet
  PROVE  LET d == Abort(c) IN
         /\ d \in ContextSet /\ d.pc = "root" /\ d.op = c.op /\ d.key = c.key
         /\ d.cur = NoSnap /\ d.pending = <<>> /\ ~HasParentNode(d)
         /\ d.res = c.res /\ d.seen = c.seen /\ d.got = c.got
         /\ d.steady = c.steady /\ d.ever = c.ever
<1> DEFINE p == IF c.op = "get" THEN Unset ELSE NoSnap
           d == Abort(c)
<1>1. p \in SnapSet /\ p.id \notin NodeIds
  BY SnapTypes
<1>2. d = [c EXCEPT !.pc = "root", !.cur = NoSnap, !.pending = <<>>,
                    !.to = INVALID_NODE_ID, !.par = p]
  BY DEF Abort
<1> HIDE DEF p, d
<1>3. "root" \in PCs /\ INVALID_NODE_ID \in 0 .. MaxId /\ <<>> \in Seq(NodeIds \X AnyNode)
  BY MaxIdType DEF PCs
<1>4. d \in ContextSet
  BY <1>1, <1>2, <1>3, SnapTypes DEF ContextSet
<1>5. /\ d.pc = "root" /\ d.op = c.op /\ d.key = c.key
      /\ d.cur = NoSnap /\ d.pending = <<>> /\ d.par = p
      /\ d.res = c.res /\ d.seen = c.seen /\ d.got = c.got
      /\ d.steady = c.steady /\ d.ever = c.ever
  BY <1>2 DEF ContextSet
<1> QED
  BY <1>1, <1>4, <1>5 DEF d, HasParentNode

LEMMA AbortOK ==
  ASSUME NEW m, NEW next, NEW c \in ContextSet, c.op # "none"
  PROVE  ContextOK(m, next, Abort(c))
<1> DEFINE d == Abort(c)
<1>1. /\ d \in ContextSet /\ d.pc = "root" /\ d.op = c.op
      /\ d.cur = NoSnap /\ d.pending = <<>> /\ ~HasParentNode(d)
  BY AbortFields
<1> HIDE DEF d
<1>2. d.cur.id = INVALID_NODE_ID /\ d.cur.id \notin NodeIds /\ d.cur.id \in 0 .. MaxId
  BY <1>1, SnapTypes, MaxIdType
<1>3. Holds(m, next, d)
  BY <1>1, <1>2 DEF Holds
<1>4. Placed(m, next, d)
  BY <1>1, <1>2 DEF Placed, Working
<1> QED
  BY <1>1, <1>3, <1>4 DEF ContextOK, d

LEMMA DoneFields ==
  ASSUME NEW c \in ContextSet, NEW res \in BOOLEAN
  PROVE  LET d == Done(c, res) IN
         /\ d \in ContextSet /\ d.pc = "done" /\ d.op = c.op /\ d.key = c.key
         /\ d.cur = NoSnap /\ d.pending = c.pending /\ ~HasParentNode(d)
         /\ d.res = res /\ d.seen = c.seen /\ d.got = c.got
         /\ d.steady = c.steady /\ d.ever = c.ever
<1> DEFINE d == Done(c, res)
<1>1. "done" \in PCs
  BY DEF PCs
<1>2. d = [c EXCEPT !.pc = "done", !.res = res, !.cur = NoSnap, !.par = NoSnap]
  BY DEF Done
<1> HIDE DEF d
<1>3. d \in ContextSet
  BY <1>1, <1>2, SnapTypes DEF ContextSet
<1>4. /\ d.pc = "done" /\ d.op = c.op /\ d.key = c.key
      /\ d.cur = NoSnap /\ d.pending = c.pending /\ d.par = NoSnap
      /\ d.res = res /\ d.seen = c.seen /\ d.got = c.got
      /\ d.steady = c.steady /\ d.ever = c.ever
  BY <1>2 DEF ContextSet
<1> QED
  BY <1>3, <1>4, SnapTypes DEF d, HasParentNode

LEMMA DoneOK ==
  ASSUME NEW m, NEW next, NEW c \in ContextSet, NEW res \in BOOLEAN, c.op # "none",
         c.pending = <<>>
  PROVE  ContextOK(m, next, Done(c, res))
<1> DEFINE d == Done(c, res)
<1>1. /\ d \in ContextSet /\ d.pc = "done" /\ d.op = c.op
      /\ d.cur = NoSnap /\ d.pending = <<>> /\ ~HasParentNode(d)
  BY DoneFields
<1> HIDE DEF d
<1>2. d.cur.id = INVALID_NODE_ID /\ d.cur.id \notin NodeIds /\ d.cur.id \in 0 .. MaxId
  BY <1>1, SnapTypes, MaxIdType
<1>3. Holds(m, next, d)
  BY <1>1, <1>2 DEF Holds
<1>4. Placed(m, next, d)
  BY <1>1, <1>2 DEF Placed, Working
<1> QED
  BY <1>1, <1>3, <1>4 DEF ContextOK, d

\* A Context that goes on to pc as it is.
LEMMA AtFields ==
  ASSUME NEW c \in ContextSet, NEW pc \in PCs
  PROVE  LET d == At(c, pc) IN
         /\ d \in ContextSet /\ d.pc = pc /\ d.op = c.op /\ d.key = c.key
         /\ d.cur = c.cur /\ d.par = c.par /\ d.pending = c.pending /\ d.to = c.to
         /\ d.res = c.res /\ d.seen = c.seen /\ d.got = c.got
         /\ d.steady = c.steady /\ d.ever = c.ever
<1> DEFINE d == At(c, pc)
<1>1. d = [c EXCEPT !.pc = pc]
  BY DEF At
<1> HIDE DEF d
<1> QED
  BY <1>1 DEF ContextSet, d

LEMMA AtOK ==
  ASSUME NEW m, NEW next, NEW c \in ContextSet, c.op # "none", Holds(m, next, c), Here(c),
         NEW pc \in Working, Ready(c, pc)
  PROVE  ContextOK(m, next, At(c, pc))
<1> DEFINE d == At(c, pc)
<1>0. pc \in PCs
  BY DEF PCs, Working
<1>1. /\ d \in ContextSet /\ d.pc = pc /\ d.op = c.op /\ d.key = c.key
      /\ d.cur = c.cur /\ d.par = c.par /\ d.pending = c.pending /\ d.to = c.to
  BY <1>0, AtFields
<1> HIDE DEF d
<1>2. HasParentNode(d) <=> HasParentNode(c)
  BY <1>1 DEF HasParentNode
<1>3. Holds(m, next, d) /\ Here(d)
  BY <1>1, <1>2 DEF Holds, Here
<1>4. Ready(d, pc)
  BY <1>1, <1>2 DEF Ready
<1>5. Placed(m, next, d)
  BY <1>1, <1>3, <1>4 DEF Placed, Working
<1> QED
  BY <1>1, <1>3, <1>5 DEF ContextOK, d

LEMMA UndefinedOK ==
  ASSUME NEW m, NEW next, NEW c \in ContextSet, c.op # "none", Holds(m, next, c)
  PROVE  ContextOK(m, next, At(c, "undefined"))
<1> DEFINE d == At(c, "undefined")
<1>1. /\ d \in ContextSet /\ d.pc = "undefined" /\ d.op = c.op /\ d.key = c.key
      /\ d.cur = c.cur /\ d.par = c.par /\ d.pending = c.pending /\ d.to = c.to
  BY AtFields DEF PCs
<1> HIDE DEF d
<1>2. HasParentNode(d) <=> HasParentNode(c)
  BY <1>1 DEF HasParentNode
<1>3. Holds(m, next, d)
  BY <1>1, <1>2 DEF Holds
<1>4. Placed(m, next, d)
  BY <1>1 DEF Placed, Working
<1> QED
  BY <1>1, <1>3, <1>4 DEF ContextOK, d

\* A Context that goes to another node.
GoTo(c, pc, id) == [c EXCEPT !.pc = pc, !.to = id]

LEMMA GoToFields ==
  ASSUME NEW c \in ContextSet, NEW pc \in PCs, NEW id \in 0 .. MaxId
  PROVE  LET d == GoTo(c, pc, id) IN
         /\ d \in ContextSet /\ d.pc = pc /\ d.op = c.op /\ d.key = c.key
         /\ d.cur = c.cur /\ d.par = c.par /\ d.pending = c.pending /\ d.to = id
         /\ d.res = c.res /\ d.seen = c.seen /\ d.got = c.got
         /\ d.steady = c.steady /\ d.ever = c.ever
<1> DEFINE d == GoTo(c, pc, id)
<1>1. d = [c EXCEPT !.pc = pc, !.to = id]
  BY DEF GoTo
<1> HIDE DEF d
<1> QED
  BY <1>1 DEF ContextSet, d

\* What the operation does with its leaf.
Answers(c, d) ==
  \/ c.op = "scan" /\ d = LowerBound(c)
  \/ c.op = "get" /\ d = Done(c, c.key \in Seps(c.cur.node))
  \/ /\ c.op \notin {"get", "scan"} /\ d = Done(c, FALSE)
     /\ (Promised(c.op) = "insert") = (c.key \in Seps(c.cur.node))

\* Everything the code may come to once a Context has a node in hand, and once the
\* delta on top of that node is finished.
OutcomeIn(pcs, c, d) ==
  LET n == c.cur.node IN
  \/ d = Abort(c)
  \/ d = At(c, "undefined")
  \/ \E pc \in pcs : Ready(c, pc) /\ d = At(c, pc)
  \/ ~InRange(n, c.key) /\ c.pending = <<>> /\ d = GoTo(c, "jump", GetNextNodeID(n))
  \/ InRange(n, c.key) /\ ~IsLeaf(n) /\ c.pending = <<>>
       /\ d = GoTo(c, "take", ChildFor(n, c.key))
  \/ InRange(n, c.key) /\ IsLeaf(n) /\ c.pending = <<>> /\ n.type # "remove" /\ Answers(c, d)

Outcome(c, d) == OutcomeIn(Working, c, d)
Onward == {"mergePost", "tryConsolidate", "probe", "split", "abortPost", "op"}

LEMMA OnwardOutcome ==
  ASSUME NEW c, NEW d, OutcomeIn({"op"}, c, d) \/ OutcomeIn(Onward, c, d)
  PROVE  OutcomeIn(Onward, c, d) /\ Outcome(c, d)
BY DEF Outcome, OutcomeIn, Onward, Working

LEMMA NavigateOutcome ==
  ASSUME NEW c \in ContextSet, c.pending = <<>>,
         c.cur.node.type # "remove" \/ ~IsLeaf(c.cur.node)
  PROVE  OutcomeIn({"op"}, c, Navigate(c)) /\ Outcome(c, Navigate(c))
<1> DEFINE n == c.cur.node
<1> SUFFICES OutcomeIn({"op"}, c, Navigate(c))
  BY OnwardOutcome
<1>1. CASE ~InRange(n, c.key)
  BY <1>1 DEF Navigate, OutcomeIn, GoTo
<1>2. CASE InRange(n, c.key) /\ ~IsLeaf(n)
  BY <1>2 DEF Navigate, OutcomeIn, GoTo
<1>3. CASE InRange(n, c.key) /\ IsLeaf(n) /\ c.op \in {"scan", "get"}
  BY <1>3 DEF Navigate, OutcomeIn, Answers
<1>4. CASE /\ InRange(n, c.key) /\ IsLeaf(n) /\ c.op \notin {"scan", "get"}
           /\ (Promised(c.op) = "insert") = (c.key \in Seps(n))
  BY <1>4 DEF Navigate, OutcomeIn, Answers
<1>5. CASE /\ InRange(n, c.key) /\ IsLeaf(n) /\ c.op \notin {"scan", "get"}
           /\ (Promised(c.op) = "insert") # (c.key \in Seps(n))
  <2>1. Navigate(c) = At(c, "op")
    BY <1>5 DEF Navigate
  <2>2. Ready(c, "op")
    BY <1>5 DEF Ready
  <2> QED
    BY <2>1, <2>2 DEF OutcomeIn
<1> QED
  BY <1>1, <1>2, <1>3, <1>4, <1>5

LEMMA LoadedOutcome ==
  ASSUME NEW c \in ContextSet, c.cur.node.type # "remove"
  PROVE  OutcomeIn(Onward, c, Loaded(c)) /\ Outcome(c, Loaded(c))
<1>1. CASE c.pending = <<>>
  BY <1>1, NavigateOutcome, OnwardOutcome DEF Loaded
<1>2. CASE c.pending # <<>> /\ ~IsLeftSibling(c.cur.node, Head(c.pending)[1])
  BY <1>2 DEF Loaded, Outcome, OutcomeIn
<1>3. CASE c.pending # <<>> /\ IsLeftSibling(c.cur.node, Head(c.pending)[1])
  <2>1. Ready(c, "mergePost")
    BY <1>3 DEF Ready, IsLeftSibling
  <2>2. OutcomeIn(Onward, c, Loaded(c))
    BY <2>1, <1>3 DEF Loaded, OutcomeIn, Onward
  <2> QED
    BY <2>2, OnwardOutcome
<1> QED
  BY <1>1, <1>2, <1>3

LEMMA WithParentOutcome ==
  ASSUME NEW pcs, NEW c, NEW d, HasParentNode(c) => OutcomeIn(pcs, c, d)
  PROVE  OutcomeIn(pcs, c, WithParent(c, d))
BY DEF WithParent, OutcomeIn

LEMMA AdjustNodeSizeOutcome ==
  ASSUME NEW c \in ContextSet, c.cur.node.type # "remove"
  PROVE  OutcomeIn(Onward, c, AdjustNodeSize(c)) /\ Outcome(c, AdjustNodeSize(c))
<1> DEFINE n == c.cur.node
<1> SUFFICES OutcomeIn(Onward, c, AdjustNodeSize(c))
  BY OnwardOutcome
<1>1. OutcomeIn(Onward, c, Loaded(c))
  BY LoadedOutcome
<1>2. CASE ~Adjustable(n)
  BY <1>1, <1>2 DEF AdjustNodeSize
<1>3. CASE Adjustable(n)
  <2>0. n.type = "base"
    BY <1>3 DEF Adjustable, IsDeltaNode
  <2>1. CASE IsLeaf(n) /\ GetSize(n) >= LeafUpper
    <3>1. FindSplitPoint(n) # 0 => Ready(c, "split")
      BY <2>0, <2>1 DEF Ready, MaySplit
    <3> QED
      BY <1>1, <1>3, <2>1, <3>1 DEF AdjustNodeSize, OutcomeIn, Onward
  <2>2. CASE ~IsLeaf(n) /\ GetSize(n) >= InnerUpper
    <3>1. Ready(c, "probe")
      BY <2>0, <2>2 DEF Ready, MaySplit
    <3> QED
      BY <1>3, <2>2, <3>1 DEF AdjustNodeSize, OutcomeIn, Onward
  <2>3. CASE ~(IsLeaf(n) /\ GetSize(n) >= LeafUpper) /\ ~(~IsLeaf(n) /\ GetSize(n) >= InnerUpper)
    <3> DEFINE d == IF IsOnLeftMostChild(c) THEN Loaded(c) ELSE At(c, "abortPost")
    <3>1. HasParentNode(c) /\ ~IsOnLeftMostChild(c) => Ready(c, "abortPost")
      BY <2>0 DEF Ready, IsOnLeftMostChild
    <3>2. HasParentNode(c) => OutcomeIn(Onward, c, d)
      BY <1>1, <3>1 DEF OutcomeIn, Onward
    <3>3. OutcomeIn(Onward, c, WithParent(c, d))
      BY <3>2, WithParentOutcome
    <3>4. AdjustNodeSize(c) = Loaded(c) \/ AdjustNodeSize(c) = WithParent(c, d)
      BY <1>3, <2>3 DEF AdjustNodeSize
    <3> QED
      BY <1>1, <3>3, <3>4
  <2> QED
    BY <2>1, <2>2, <2>3
<1> QED
  BY <1>2, <1>3

LEMMA TryConsolidateNodeOutcome ==
  ASSUME NEW c \in ContextSet, c.cur.node.type # "remove"
  PROVE  OutcomeIn(Onward, c, TryConsolidateNode(c)) /\ Outcome(c, TryConsolidateNode(c))
<1>1. OutcomeIn(Onward, c, AdjustNodeSize(c))
  BY AdjustNodeSizeOutcome
<1>2. OutcomeIn(Onward, c, At(c, "tryConsolidate"))
  BY DEF OutcomeIn, Ready, Onward
<1> QED
  BY <1>1, <1>2, OnwardOutcome DEF TryConsolidateNode

LEMMA FinishPartialSMOOutcome ==
  ASSUME NEW c \in ContextSet
  PROVE  Outcome(c, FinishPartialSMO(c))
<1> DEFINE n == c.cur.node
<1> USE DEF Outcome
<1>0. n.type \in NodeTypes
  BY DEF ContextSet, SnapSet, AnyNode
<1>1. CASE n.type = "remove"
  <2> DEFINE d == IF IsOnLeftMostChild(c) THEN Abort(c) ELSE At(c, "removeCheck")
  <2>1. HasParentNode(c) => Ready(c, "removeCheck")
    BY <1>1 DEF Ready
  <2>2. Outcome(c, WithParent(c, d))
    <3>1. HasParentNode(c) => Outcome(c, d)
      BY <2>1 DEF Outcome, OutcomeIn, Working
    <3> QED
      BY <3>1, WithParentOutcome
  <2>3. FinishPartialSMO(c) = WithParent(c, d)
    BY <1>1 DEF FinishPartialSMO, FinishRemove
  <2> QED
    BY <2>2, <2>3
<1>2. CASE n.type = "merge"
  <2> DEFINE d == At(c, "mergeCheck")
  <2>1. HasParentNode(c) => Ready(c, "mergeCheck")
    BY <1>2 DEF Ready
  <2>2. Outcome(c, WithParent(c, d))
    <3>1. HasParentNode(c) => Outcome(c, d)
      BY <2>1 DEF Outcome, OutcomeIn, Working
    <3> QED
      BY <3>1, WithParentOutcome
  <2>3. FinishPartialSMO(c) = WithParent(c, d)
    BY <1>2 DEF FinishPartialSMO, FinishMerge
  <2> QED
    BY <2>2, <2>3
<1>3. CASE n.type = "split"
  <2> DEFINE p == c.par.node
             d == IF ~InRange(p, n.sep) THEN TryConsolidateNode(c)
                  ELSE IF ~Found(p, n.sep) THEN At(c, "postInsert")
                  ELSE IF p.items[n.sep] # n.other THEN Abort(c)
                  ELSE TryConsolidateNode(c)
  <2>1. Outcome(c, TryConsolidateNode(c))
    BY <1>3, TryConsolidateNodeOutcome
  <2>2. InRange(p, n.sep) /\ ~Found(p, n.sep) /\ HasParentNode(c) => Ready(c, "postInsert")
    BY <1>3 DEF Ready
  <2>3. Ready(c, "newRoot")
    BY <1>3 DEF Ready
  <2>4. HasParentNode(c) => Outcome(c, d)
    BY <2>1, <2>2 DEF Outcome, OutcomeIn, Working
  <2>5. Outcome(c, WithParent(c, d))
    BY <2>4, WithParentOutcome
  <2>6. FinishPartialSMO(c) = IF IsOnRootNode(c) THEN At(c, "newRoot") ELSE WithParent(c, d)
    BY <1>3 DEF FinishPartialSMO, FinishSplit
  <2>7. Outcome(c, At(c, "newRoot"))
    BY <2>3 DEF Outcome, OutcomeIn, Working
  <2> QED
    BY <2>5, <2>6, <2>7
<1>4. CASE n.type \in {"base", "delta"}
  BY <1>4, TryConsolidateNodeOutcome DEF FinishPartialSMO
<1> QED
  BY <1>0, <1>1, <1>2, <1>3, <1>4 DEF NodeTypes

LEMMA ReadOptimizedOutcome ==
  ASSUME NEW c \in ContextSet, c.pending = <<>>
  PROVE  Outcome(c, FinishPartialSMOReadOptimized(c))
<1>1. c.cur.node.type # "remove" => Outcome(c, Navigate(c))
  BY NavigateOutcome
<1> QED
  BY <1>1 DEF FinishPartialSMOReadOptimized, Outcome, OutcomeIn

\* A page: what the iterator has yielded then, and where it goes on.
Paged(c)  == [c EXCEPT !.got = @ \o Sorted(PageItems(c.cur.node, c.key))]
NextPage(c) == [Paged(c) EXCEPT !.key = c.cur.node.high[1]]

LEMMA PageFields ==
  ASSUME NEW c \in ContextSet, SoundItems(c.cur.node)
  PROVE  LET n == c.cur.node
             S == PageItems(n, c.key) IN
         /\ LowerBound(c) = IF GetNextNodeID(n) = INVALID_NODE_ID THEN Done(Paged(c), TRUE)
                            ELSE Abort(NextPage(c))
         /\ S \in SUBSET Nat /\ IsFiniteSet(S)
         /\ Paged(c) \in ContextSet /\ NextPage(c) \in ContextSet
         /\ \A d \in {Paged(c), NextPage(c)} :
              /\ d.got = c.got \o Sorted(S) /\ d.op = c.op /\ d.pending = c.pending
              /\ d.steady = c.steady /\ d.ever = c.ever /\ d.seen = c.seen
         /\ NextPage(c).key = n.high[1] /\ Paged(c).key = c.key
<1> DEFINE n == c.cur.node
           S == PageItems(n, c.key)
           got == c.got \o Sorted(S)
           d == Paged(c)
           e == NextPage(c)
<1>0. n \in AnyNode /\ c.got \in Seq(Nat)
  BY DEF ContextSet, SnapSet
<1>1. S \in SUBSET Nat /\ IsFiniteSet(S)
  <2>1. Seps(n) \in SUBSET Nat /\ IsFiniteSet(Seps(n))
    BY <1>0, NodeFacts DEF SoundItems
  <2>2. S \in SUBSET Seps(n)
    BY DEF PageItems
  <2> QED
    BY <2>1, <2>2, FS_Subset
<1>2. got \in Seq(Nat)
  <2>1. Sorted(S) \in Seq(Nat)
    <3> HIDE DEF S
    <3> QED
      BY <1>1, SortedProperties
  <2> QED
    BY <1>0, <2>1
<1>3. d = [c EXCEPT !.got = got] /\ e = [d EXCEPT !.key = n.high[1]]
  BY DEF Paged, NextPage, ContextSet
<1>4. n.high[1] \in Nat
  BY <1>0, NodeFacts
<1>5. LowerBound(c) = IF GetNextNodeID(n) = INVALID_NODE_ID THEN Done(d, TRUE) ELSE Abort(e)
  BY DEF LowerBound, Paged, NextPage
<1> HIDE DEF n, S, got, d, e
<1>6. /\ d \in ContextSet /\ d.got = got /\ d.op = c.op /\ d.pending = c.pending
      /\ d.steady = c.steady /\ d.ever = c.ever /\ d.seen = c.seen /\ d.key = c.key
  BY <1>2, <1>3 DEF ContextSet
<1>7. /\ e \in ContextSet /\ e.got = got /\ e.op = c.op /\ e.pending = c.pending
      /\ e.steady = c.steady /\ e.ever = c.ever /\ e.seen = c.seen /\ e.key = n.high[1]
  BY <1>3, <1>4, <1>6 DEF ContextSet
<1> QED
  BY <1>1, <1>5, <1>6, <1>7 DEF n, S, got, d, e

LEMMA AnswersOK ==
  ASSUME NEW m, NEW next, NEW c \in ContextSet, c.op # "none", SoundItems(c.cur.node),
         c.pending = <<>>, NEW d, Answers(c, d)
  PROVE  ContextOK(m, next, d)
<1>1. CASE c.op = "scan" /\ d = LowerBound(c)
  <2>1. /\ Paged(c) \in ContextSet /\ Paged(c).op # "none" /\ Paged(c).pending = <<>>
        /\ NextPage(c) \in ContextSet /\ NextPage(c).op # "none"
        /\ d = Done(Paged(c), TRUE) \/ d = Abort(NextPage(c))
    BY <1>1, PageFields
  <2> QED
    BY <2>1, DoneOK, AbortOK
<1>2. CASE d = Done(c, c.key \in Seps(c.cur.node))
  <2> DEFINE res == c.key \in Seps(c.cur.node)
  <2>1. res \in BOOLEAN /\ d = Done(c, res)
    BY <1>2
  <2> HIDE DEF res
  <2> QED
    BY <2>1, DoneOK
<1>3. CASE d = Done(c, FALSE)
  <2>1. FALSE \in BOOLEAN
    OBVIOUS
  <2> QED
    BY <1>3, <2>1, DoneOK
<1> QED
  BY <1>1, <1>2, <1>3 DEF Answers

LEMMA JumpOK ==
  ASSUME NEW m, NEW next, next \in 1 .. MaxId + 1, NEW c \in ContextSet, c.op # "none",
         Holds(m, next, c), NEW id, LeadsTo(m, next, id, c.key),
         HasParentNode(c) => c.par.node.low <= m[id].low,
         ~HasParentNode(c) /\ c.op # "get" => InnerId(m, next, id)
  PROVE  ContextOK(m, next, GoTo(c, "jump", id))
<1> DEFINE d == GoTo(c, "jump", id)
<1>0. id \in 0 .. MaxId /\ "jump" \in PCs
  BY MaxIdType DEF LeadsTo, InUse, PCs
<1>1. /\ d \in ContextSet /\ d.pc = "jump" /\ d.op = c.op /\ d.key = c.key
      /\ d.cur = c.cur /\ d.par = c.par /\ d.pending = c.pending /\ d.to = id
  BY <1>0, GoToFields
<1> HIDE DEF d
<1>2. HasParentNode(d) <=> HasParentNode(c)
  BY <1>1 DEF HasParentNode
<1>3. Holds(m, next, d)
  BY <1>1, <1>2 DEF Holds
<1>4. Placed(m, next, d)
  BY <1>1, <1>2 DEF Placed, Working
<1> QED
  BY <1>1, <1>3, <1>4 DEF ContextOK, d

LEMMA TakeOK ==
  ASSUME NEW m, NEW next, next \in 1 .. MaxId + 1, NEW c \in ContextSet, c.op # "none",
         Holds(m, next, c), NEW id, LeadsTo(m, next, id, c.key), c.pending = <<>>,
         c.cur.id \in NodeIds => ~IsLeaf(c.cur.node) /\ c.cur.node.low <= m[id].low,
         c.cur.id \notin NodeIds => InnerId(m, next, id)
  PROVE  ContextOK(m, next, GoTo(c, "take", id))
<1> DEFINE d == GoTo(c, "take", id)
<1>0. id \in 0 .. MaxId /\ "take" \in PCs
  BY MaxIdType DEF LeadsTo, InUse, PCs
<1>1. /\ d \in ContextSet /\ d.pc = "take" /\ d.op = c.op /\ d.key = c.key
      /\ d.cur = c.cur /\ d.par = c.par /\ d.pending = c.pending /\ d.to = id
  BY <1>0, GoToFields
<1> HIDE DEF d
<1>2. HasParentNode(d) <=> HasParentNode(c)
  BY <1>1 DEF HasParentNode
<1>3. Holds(m, next, d)
  BY <1>1, <1>2 DEF Holds
<1>4. Placed(m, next, d)
  BY <1>1 DEF Placed, Working
<1> QED
  BY <1>1, <1>3, <1>4 DEF ContextOK, d

LEMMA OutcomeOK ==
  ASSUME NEW m, NEW next, next \in 1 .. MaxId + 1, NEW c \in ContextSet, c.op # "none",
         Holds(m, next, c), Here(c), NEW d, Outcome(c, d)
  PROVE  ContextOK(m, next, d)
<1> DEFINE n == c.cur.node
<1>1. /\ Sound(m, next, n) /\ m[c.cur.id].kind = n.kind /\ n.low <= c.key /\ c.key \in Nat
      /\ c.cur.id \in NodeIds /\ n \in AnyNode /\ n.low \in Nat
  BY NodeFacts DEF Holds, Here, Taken, Kin, ContextSet, SnapSet
<1>2. CASE d = Abort(c)
  BY <1>2, AbortOK
<1>3. CASE d = At(c, "undefined")
  BY <1>3, UndefinedOK
<1>4. CASE \E pc \in Working : Ready(c, pc) /\ d = At(c, pc)
  BY <1>4, AtOK
<1>5. CASE ~InRange(n, c.key) /\ d = GoTo(c, "jump", GetNextNodeID(n))
  <2> DEFINE id == GetNextNodeID(n)
  <2>1. LeadsTo(m, next, id, c.key) /\ n.low < m[id].low /\ m[id].kind = n.kind
    BY <1>1, <1>5, SiblingProperties
  <2>2. m[id].low \in Nat /\ id \in InUse(next)
    BY <1>1, <1>5, <2>1, SiblingProperties DEF LeadsTo
  <2>3. HasParentNode(c) => c.par.node.low <= m[id].low
    <3>1. HasParentNode(c) => c.par.node.low <= n.low /\ c.par.node.low \in Nat
      BY NodeFacts DEF Here, ContextSet, SnapSet
    <3> QED
      BY <2>1, <2>2, <3>1, <1>1
  <2>4. ~HasParentNode(c) /\ c.op # "get" => InnerId(m, next, id)
    BY <2>1, <2>2 DEF Here, InnerId, IsLeaf
  <2> HIDE DEF id
  <2>5. ContextOK(m, next, GoTo(c, "jump", id))
    BY <2>1, <2>3, <2>4, JumpOK
  <2> QED
    BY <1>5, <2>5 DEF id
<1>6. CASE ~IsLeaf(n) /\ c.pending = <<>> /\ d = GoTo(c, "take", ChildFor(n, c.key))
  <2> DEFINE id == ChildFor(n, c.key)
  <2>1. LeadsTo(m, next, id, c.key) /\ n.low <= m[id].low
    BY <1>1, <1>6, ChildForProperties
  <2> HIDE DEF id
  <2>2. ContextOK(m, next, GoTo(c, "take", id))
    BY <1>1, <1>6, <2>1, TakeOK
  <2> QED
    BY <1>6, <2>2 DEF id
<1>7. CASE c.pending = <<>> /\ Answers(c, d)
  <2>1. SoundItems(n)
    BY <1>1 DEF Sound
  <2> QED
    BY <1>7, <2>1, AnswersOK
<1> QED
  BY <1>2, <1>3, <1>4, <1>5, <1>6, <1>7 DEF Outcome, OutcomeIn

\* JumpToLeftSibling() goes left with one more remove delta pending.
LEMMA JumpLeftOK ==
  ASSUME NEW m, NEW next, next \in 1 .. MaxId + 1, NEW c \in ContextSet, c.op # "none",
         Holds(m, next, c), Here(c), HasParentNode(c), c.cur.node.type = "remove"
  PROVE  ContextOK(m, next, JumpLeft(c))
<1> DEFINE n  == c.cur.node
           p  == c.par.node
           id == LeftOf(p, n.low)
           e  == [c EXCEPT !.pending = <<<<c.cur.id, n>>>> \o @]
<1>1. /\ c.cur.id \in NodeIds /\ n \in AnyNode /\ n.low \in Nat /\ p \in AnyNode
      /\ n.low <= c.key /\ c.key \in Nat /\ Taken(m, next, c.cur.id, n)
      /\ Sound(m, next, p) /\ ~IsLeaf(p) /\ c.op # "get"
  BY NodeFacts DEF Holds, Here, Taken, ContextSet, SnapSet
<1>2. CASE Cardinality(LeftSeps(p, n.low)) < 2
  BY <1>2, UndefinedOK DEF JumpLeft
<1>3. CASE ~(Cardinality(LeftSeps(p, n.low)) < 2)
  <2>0. Cardinality(LeftSeps(p, n.low)) >= 2
    <3>1. IsFiniteSet(LeftSeps(p, n.low))
      <4>1. LeftSeps(p, n.low) \in SUBSET Seps(p) /\ IsFiniteSet(Seps(p))
        BY <1>1 DEF LeftSeps, Sound, SoundItems
      <4> QED
        BY <4>1, FS_Subset
    <3>2. Cardinality(LeftSeps(p, n.low)) \in Nat
      BY <3>1, FS_CardinalityType
    <3> QED
      BY <3>2, <1>3
  <2>1. LeadsTo(m, next, id, n.low) /\ p.low <= m[id].low /\ m[id].low \in Nat
    BY <1>1, <2>0, LeftOfProperties
  <2>2. LeadsTo(m, next, id, c.key)
    BY <1>1, <2>1 DEF LeadsTo
  <2>3. JumpLeft(c) = GoTo(e, "jump", id)
    BY <1>3 DEF JumpLeft, GoTo, ContextSet
  <2> DEFINE ps == <<<<c.cur.id, n>>>> \o c.pending
  <2>4. ps \in Seq(NodeIds \X AnyNode) /\ e = [c EXCEPT !.pending = ps]
    <3>1. <<<<c.cur.id, n>>>> \in Seq(NodeIds \X AnyNode) /\ c.pending \in Seq(NodeIds \X AnyNode)
      BY <1>1 DEF ContextSet
    <3> QED
      BY <3>1 DEF ContextSet
  <2>5. \A i \in 1 .. Len(ps) : /\ Taken(m, next, ps[i][1], ps[i][2])
                               /\ ps[i][2].type = "remove"
    <3> TAKE i \in 1 .. Len(ps)
    <3>1. Len(c.pending) \in Nat /\ Len(ps) = Len(c.pending) + 1
      BY DEF ContextSet
    <3>2. CASE i = 1
      <4>1. ps[i] = <<c.cur.id, n>>
        BY <3>2 DEF ContextSet
      <4> QED
        BY <4>1, <1>1
    <3>3. CASE i # 1
      <4>1. i - 1 \in 1 .. Len(c.pending) /\ ps[i] = c.pending[i - 1]
        BY <3>1, <3>3 DEF ContextSet
      <4> QED
        BY <4>1 DEF Holds
    <3> QED
      BY <3>2, <3>3
  <2> HIDE DEF ps, id, e
  <2>6. /\ e \in ContextSet /\ e.op = c.op /\ e.key = c.key /\ e.cur = c.cur /\ e.par = c.par
        /\ e.pending = ps
    BY <2>4 DEF ContextSet
  <2>7. HasParentNode(e)
    BY <2>6 DEF HasParentNode
  <2>8. Holds(m, next, e)
    BY <2>5, <2>6, <2>7 DEF Holds, HasParentNode
  <2>9. ContextOK(m, next, GoTo(e, "jump", id))
    BY <2>1, <2>2, <2>6, <2>7, <2>8, JumpOK
  <2> QED
    BY <2>3, <2>9
<1> QED
  BY <1>2, <1>3

-----------------------------------------------------------------------------
(* The walk along the leaves.                                              *)

\* Where the walk goes on from id.
After(m, id) == IF id = INVALID_NODE_ID THEN INVALID_NODE_ID ELSE GetNextNodeID(m[id])
\* g is the walk up to its n-th step.
Walked(m, n, g) ==
  /\ DOMAIN g = 0 .. n /\ g[0] = FIRST_LEAF_NODE_ID
  /\ \A i \in 1 .. n : g[i] = After(m, g[i - 1])

LEMMA WalkedExists ==
  ASSUME NEW m, NEW n \in Nat
  PROVE  \E g : Walked(m, n, g)
<1> DEFINE bad == {k \in Nat : ~ \E g : Walked(m, k, g)}
<1> SUFFICES ASSUME bad # {} PROVE FALSE
  OBVIOUS
<1>1. PICK k \in bad : \A j \in bad : k <= j
  <2>1. bad \in SUBSET Nat
    OBVIOUS
  <2> HIDE DEF bad
  <2> QED
    BY <2>1, NatMin
<1>2. k # 0
  <2> DEFINE g == [i \in 0 .. 0 |-> FIRST_LEAF_NODE_ID]
  <2>1. Walked(m, 0, g)
    BY DEF Walked
  <2> QED
    BY <2>1
<1>3. k \in Nat /\ k - 1 \in Nat /\ k - 1 \notin bad
  BY <1>1, <1>2
<1>4. PICK g : Walked(m, k - 1, g)
  BY <1>3
<1> DEFINE h == [i \in 0 .. k |-> IF i = k THEN After(m, g[k - 1]) ELSE g[i]]
<1>5. Walked(m, k, h)
  <2>1. DOMAIN h = 0 .. k /\ h[0] = FIRST_LEAF_NODE_ID
    BY <1>2, <1>3, <1>4 DEF Walked
  <2>2. ASSUME NEW i \in 1 .. k PROVE h[i] = After(m, h[i - 1])
    <3>1. h[i - 1] = g[i - 1]
      BY <1>3
    <3>2. CASE i = k
      BY <3>1, <3>2, <1>3
    <3>3. CASE i # k
      <4>1. i \in 1 .. k - 1 /\ h[i] = g[i]
        BY <3>3, <1>3
      <4> QED
        BY <3>1, <4>1, <1>4 DEF Walked
    <3> QED
      BY <3>2, <3>3
  <2> HIDE DEF h
  <2> QED
    BY <2>1, <2>2 DEF Walked
<1> QED
  BY <1>1, <1>5

LEMMA WalkedUnique ==
  ASSUME NEW m, NEW n \in Nat, NEW g, Walked(m, n, g), NEW k \in Nat, NEW h, Walked(m, k, h),
         n <= k, NEW i \in 0 .. n
  PROVE  g[i] = h[i]
<1> DEFINE bad == {j \in 0 .. n : g[j] # h[j]}
<1> SUFFICES ASSUME bad # {} PROVE FALSE
  OBVIOUS
<1>1. PICK j \in bad : \A x \in bad : j <= x
  <2>1. bad \in SUBSET Nat
    OBVIOUS
  <2> HIDE DEF bad
  <2> QED
    BY <2>1, NatMin
<1>2. j # 0
  BY <1>1 DEF Walked
<1>3. j \in 1 .. n /\ j \in 1 .. k /\ j - 1 \in 0 .. n /\ j - 1 \notin bad
  BY <1>1, <1>2
<1>4. g[j - 1] = h[j - 1]
  BY <1>3
<1>5. g[j] = After(m, g[j - 1]) /\ h[j] = After(m, h[j - 1])
  BY <1>3 DEF Walked
<1> QED
  BY <1>1, <1>4, <1>5

\* LeafAt is the function its definition asks for.
LEMMA WalkExists ==
  ASSUME NEW m
  PROVE  \E f : f = [i \in Nat |-> IF i = 0 THEN FIRST_LEAF_NODE_ID
                                  ELSE IF f[i - 1] = INVALID_NODE_ID THEN INVALID_NODE_ID
                                  ELSE GetNextNodeID(m[f[i - 1]])]
<1> DEFINE W(n) == CHOOSE g : Walked(m, n, g)
           f == [n \in Nat |-> W(n)[n]]
           F == [i \in Nat |-> IF i = 0 THEN FIRST_LEAF_NODE_ID
                               ELSE IF f[i - 1] = INVALID_NODE_ID THEN INVALID_NODE_ID
                               ELSE GetNextNodeID(m[f[i - 1]])]
<1>1. \A n \in Nat : Walked(m, n, W(n))
  BY WalkedExists
<1> HIDE DEF W
<1>2. ASSUME NEW i \in Nat PROVE f[i] = F[i]
  <2>1. CASE i = 0
    BY <1>1, <2>1 DEF Walked
  <2>2. CASE i # 0
    <3>1. i - 1 \in Nat /\ i - 1 \in 0 .. i - 1 /\ i \in 1 .. i /\ i - 1 <= i
      BY <2>2
    <3>2. f[i] = W(i)[i] /\ f[i - 1] = W(i - 1)[i - 1]
      BY <3>1
    <3>3. W(i - 1)[i - 1] = W(i)[i - 1]
      <4>1. Walked(m, i, W(i)) /\ Walked(m, i - 1, W(i - 1))
        BY <1>1, <3>1
      <4> QED
        BY <3>1, <4>1, WalkedUnique
    <3>4. W(i)[i] = After(m, W(i)[i - 1])
      BY <1>1, <3>1 DEF Walked
    <3>5. f[i] = After(m, f[i - 1])
      BY <3>2, <3>3, <3>4
    <3>6. F[i] = After(m, f[i - 1])
      BY <2>2 DEF After
    <3> QED
      BY <3>5, <3>6
  <2> QED
    BY <2>1, <2>2
<1>3. f = F
  <2>1. f = [n \in Nat |-> f[n]] /\ F = [n \in Nat |-> F[n]]
    OBVIOUS
  <2> HIDE DEF f, F
  <2> QED
    BY <1>2, <2>1
<1> QED
  BY <1>3

LEMMA LeafAtDef ==
  /\ LeafAt[0] = FIRST_LEAF_NODE_ID
  /\ \A i \in Nat : LeafAt[i + 1] = After(mapping, LeafAt[i])
<1>1. LeafAt = [i \in Nat |-> IF i = 0 THEN FIRST_LEAF_NODE_ID
                              ELSE IF LeafAt[i - 1] = INVALID_NODE_ID THEN INVALID_NODE_ID
                              ELSE GetNextNodeID(mapping[LeafAt[i - 1]])]
  BY WalkExists DEF LeafAt
<1>2. \A i \in Nat : i + 1 \in Nat /\ i + 1 # 0 /\ (i + 1) - 1 = i
  OBVIOUS
<1>3. LeafAt[0] = FIRST_LEAF_NODE_ID
  BY <1>1
<1> HIDE DEF LeafAt
<1>4. ASSUME NEW i \in Nat PROVE LeafAt[i + 1] = After(mapping, LeafAt[i])
  <2>1. i + 1 \in Nat /\ i + 1 # 0 /\ (i + 1) - 1 = i
    BY <1>2
  <2>2. LeafAt[i + 1] = IF LeafAt[(i + 1) - 1] = INVALID_NODE_ID THEN INVALID_NODE_ID
                        ELSE GetNextNodeID(mapping[LeafAt[(i + 1) - 1]])
    BY <1>1, <2>1
  <2> QED
    BY <2>1, <2>2 DEF After
<1> QED
  BY <1>3, <1>4

\* The facts about linked leaves that the arguments below use.
LEMMA LinkedFacts ==
  ASSUME NEW m, NEW next, next \in 1 .. MaxId + 1, DOMAIN m = NodeIds,
         \A i \in InUse(next) : Sound(m, next, m[i]),
         NEW leaves \in SUBSET InUse(next), LeavesLinked(m, next, leaves)
  PROVE  /\ \A i \in leaves : m[i] \in AnyNode /\ m[i].low \in Nat /\ m[i].high[1] \in Nat
         /\ \A i \in leaves : \A j \in leaves : GetNextNodeID(m[i]) = j =>
              m[i].low < m[j].low /\ m[j].low = m[i].high[1] /\ j # INVALID_NODE_ID
         /\ \A i \in leaves : \A j \in leaves \ {i} : \A k \in leaves :
              GetNextNodeID(m[i]) = k /\ m[i].low <= m[j].low => m[k].low <= m[j].low
         /\ \A i \in leaves : \A j \in leaves : m[i].low = m[j].low => i = j
<1>0. INVALID_NODE_ID \notin InUse(next)
  BY MaxIdType DEF InUse
<1>1. \A i \in leaves : m[i] \in AnyNode /\ m[i].low \in Nat /\ m[i].high[1] \in Nat
                       /\ SoundSibling(m, next, m[i])
  BY IsNodeDef, NodeFacts DEF Sound
<1>2. \A i \in leaves : \A j \in leaves : GetNextNodeID(m[i]) = j =>
        m[i].low < m[j].low /\ m[j].low = m[i].high[1] /\ j # INVALID_NODE_ID
  BY <1>0, <1>1 DEF SoundSibling, StartsAt
<1>3. \A i \in leaves : \A j \in leaves \ {i} : m[i].low <= m[j].low => ~InRange(m[i], m[j].low)
  BY DEF LeavesLinked
<1>4. ASSUME NEW i \in leaves, NEW j \in leaves \ {i}, NEW k \in leaves,
             GetNextNodeID(m[i]) = k, m[i].low <= m[j].low
      PROVE  m[k].low <= m[j].low
  BY <1>1, <1>2, <1>3, <1>4 DEF InRange
<1>5. ASSUME NEW i \in leaves, NEW j \in leaves, m[i].low = m[j].low, i # j PROVE FALSE
  <2>1. ~InRange(m[i], m[j].low)
    BY <1>1, <1>3, <1>5
  <2>2. GetNextNodeID(m[i]) # INVALID_NODE_ID /\ m[i].high[1] <= m[j].low
    BY <1>1, <2>1 DEF InRange
  <2>3. m[i].low < m[i].high[1]
    BY <1>1, <2>2 DEF SoundSibling
  <2> QED
    BY <1>1, <1>5, <2>2, <2>3
<1> QED
  BY <1>1, <1>2, <1>4, <1>5

\* The walk visits the linked leaves and nothing else, in the order of their low
\* keys: there are as many leaves below one as steps to it.
LEMMA LeafIdsAreLinked ==
  ASSUME next_unused_node_id \in 1 .. MaxId + 1, DOMAIN mapping = NodeIds,
         \A i \in InUse(next_unused_node_id) : Sound(mapping, next_unused_node_id, mapping[i]),
         NEW leaves \in SUBSET InUse(next_unused_node_id),
         LeavesLinked(mapping, next_unused_node_id, leaves)
  PROVE  LeafIds = leaves
<1> DEFINE m == mapping
           next == next_unused_node_id
           Low(i) == m[i].low
           Under(i) == {j \in leaves : Low(j) < Low(i)}
           size(i) == Cardinality(Under(i))
<1>0. /\ leaves \subseteq InUse(next) /\ MaxId \in Nat /\ INVALID_NODE_ID \notin leaves
      /\ INVALID_NODE_ID = 0 /\ LowKey = 0
  BY MaxIdType DEF InUse
<1>1. /\ \A i \in leaves : m[i] \in AnyNode /\ m[i].low \in Nat /\ m[i].high[1] \in Nat
      /\ \A i \in leaves : \A j \in leaves : GetNextNodeID(m[i]) = j =>
              m[i].low < m[j].low /\ m[j].low = m[i].high[1] /\ j # INVALID_NODE_ID
      /\ \A i \in leaves : \A j \in leaves \ {i} : \A k \in leaves :
              GetNextNodeID(m[i]) = k /\ m[i].low <= m[j].low => m[k].low <= m[j].low
      /\ \A i \in leaves : \A j \in leaves : m[i].low = m[j].low => i = j
  BY LinkedFacts
<1>2. IsFiniteSet(leaves) /\ Cardinality(leaves) \in Nat /\ Cardinality(leaves) <= MaxId
  <2>1. IsFiniteSet(1 .. MaxId) /\ Cardinality(1 .. MaxId) = MaxId
    BY <1>0, FS_Interval
  <2>2. leaves \in SUBSET (1 .. MaxId)
    BY <1>0 DEF InUse
  <2> QED
    BY <2>1, <2>2, FS_Subset, FS_CardinalityType
<1>3. \A i \in leaves : IsFiniteSet(Under(i)) /\ size(i) \in Nat /\ size(i) <= MaxId
  <2> TAKE i \in leaves
  <2>1. Under(i) \in SUBSET leaves
    OBVIOUS
  <2> HIDE DEF Under
  <2>2. IsFiniteSet(Under(i)) /\ Cardinality(Under(i)) \in Nat
        /\ Cardinality(Under(i)) <= Cardinality(leaves)
    BY <1>2, <2>1, FS_Subset, FS_CardinalityType
  <2> QED
    BY <1>0, <1>2, <2>2
<1>4. ASSUME NEW j \in leaves PROVE LeafAt[size(j)] = j
  <2> DEFINE lows == {Low(i) : i \in {x \in leaves : LeafAt[size(x)] # x}}
  <2> SUFFICES ASSUME lows # {} PROVE FALSE
    OBVIOUS
  <2>1. lows \in SUBSET Nat
    <3>1. \A i \in leaves : Low(i) \in Nat
      BY <1>1
    <3> HIDE DEF Low, size
    <3> QED
      BY <3>1
  <2>2. PICK low \in lows : \A x \in lows : low <= x
    <3> HIDE DEF lows
    <3> QED
      BY <2>1, NatMin
  <2>3. PICK i \in leaves : LeafAt[size(i)] # i /\ low = Low(i)
    BY <2>2
  <2>4. i # FIRST_LEAF_NODE_ID
    <3> SUFFICES ASSUME i = FIRST_LEAF_NODE_ID PROVE FALSE
      OBVIOUS
    <3>1. Low(i) = 0
      BY <1>0 DEF LeavesLinked
    <3>2. Under(i) = {}
      BY <1>1, <3>1
    <3>3. size(i) = 0
      BY <3>2, FS_EmptySet
    <3> QED
      BY <2>3, <3>3, LeafAtDef
  <2>5. PICK p \in leaves : GetNextNodeID(m[p]) = i
    BY <2>4 DEF LeavesLinked
  <2>6. Low(p) < Low(i) /\ Low(p) \in Nat /\ Low(i) \in Nat
    BY <1>1, <2>5
  <2>7. LeafAt[size(p)] = p
    <3>1. Low(p) \notin lows
      <4> HIDE DEF lows
      <4> QED
        BY <2>2, <2>3, <2>6
    <3> HIDE DEF Low, size
    <3> QED
      BY <3>1
  <2>8. Under(i) = Under(p) \cup {p} /\ p \notin Under(p)
    <3>1. ASSUME NEW x \in leaves PROVE Low(x) < Low(i) <=> Low(x) < Low(p) \/ x = p
      <4>1. Low(x) \in Nat
        BY <1>1
      <4>2. x # p /\ Low(p) <= Low(x) => Low(i) <= Low(x)
        BY <1>1, <2>5
      <4> QED
        BY <4>1, <4>2, <2>6
    <3> QED
      BY <3>1, <2>6
  <2>9. size(i) = size(p) + 1
    <3>1. IsFiniteSet(Under(p))
      BY <1>3
    <3> HIDE DEF Under
    <3>2. Cardinality(Under(p) \cup {p}) = Cardinality(Under(p)) + 1
      BY <2>8, <3>1, FS_AddElement
    <3> QED
      BY <2>8, <3>2
  <2>10. LeafAt[size(p) + 1] = After(m, LeafAt[size(p)])
    BY <1>3, LeafAtDef
  <2>11. After(m, p) = i
    BY <1>0, <2>5 DEF After
  <2> QED
    BY <2>3, <2>7, <2>9, <2>10, <2>11
<1>5. \A i \in Nat : LeafAt[i] \in leaves \cup {INVALID_NODE_ID}
  <2> DEFINE bad == {i \in Nat : LeafAt[i] \notin leaves \cup {INVALID_NODE_ID}}
  <2> SUFFICES ASSUME bad # {} PROVE FALSE
    OBVIOUS
  <2>1. PICK i \in bad : \A x \in bad : i <= x
    <3>1. bad \in SUBSET Nat
      OBVIOUS
    <3> HIDE DEF bad
    <3> QED
      BY <3>1, NatMin
  <2>2. i # 0
    BY <2>1, LeafAtDef DEF LeavesLinked
  <2>3. i \in Nat /\ i - 1 \in Nat /\ i - 1 \notin bad
    BY <2>1, <2>2
  <2>4. LeafAt[i - 1] \in leaves \cup {INVALID_NODE_ID}
    BY <2>3
  <2>5. LeafAt[i] = After(m, LeafAt[i - 1])
    <3>1. LeafAt[(i - 1) + 1] = After(m, LeafAt[i - 1])
      BY <2>3, LeafAtDef
    <3>2. (i - 1) + 1 = i
      BY <2>3
    <3> QED
      BY <3>1, <3>2
  <2> QED
    BY <2>1, <2>4, <2>5 DEF After, LeavesLinked
<1>6. leaves \subseteq LeafIds
  <2> SUFFICES ASSUME NEW j \in leaves PROVE j \in LeafIds
    OBVIOUS
  <2>1. size(j) \in 0 .. MaxId
    BY <1>0, <1>3
  <2> HIDE DEF size
  <2> QED
    BY <1>0, <1>4, <2>1 DEF LeafIds
<1>7. LeafIds \subseteq leaves
  BY <1>0, <1>5 DEF LeafIds
<1> QED
  BY <1>6, <1>7

-----------------------------------------------------------------------------
(* Changes of the tree.                                                    *)

LEMMA InstallTreeOK ==
  ASSUME NEW m, NEW next, NEW root, TreeOK(m, next, root), NEW id \in InUse(next),
         NEW n, Sound(m, next, n), Kin(m[id], n), NEW m2, m2 = [m EXCEPT ![id] = n]
  PROVE  TreeOK(m2, next, root) /\ Grows(m, next, m2, next)
<1>1. next \in Nat /\ InUse(next) \subseteq NodeIds
  BY MaxIdType DEF TreeOK, InUse, NodeIds
<1>2. DOMAIN m2 = NodeIds /\ m2[id] = n /\ \A i \in NodeIds \ {id} : m2[i] = m[i]
  BY <1>1 DEF TreeOK
<1>3. Grows(m, next, m2, next)
  BY <1>1, <1>2 DEF Grows, Kin
<1>4. \A i \in InUse(next) : Sound(m2, next, m2[i])
  BY <1>1, <1>2, <1>3, SoundGrows DEF TreeOK
<1>5. \A i \in NodeIds : IsNode(m2[i])
  BY <1>2 DEF TreeOK, Sound
<1>6. InnerId(m2, next, root) /\ m2[root].low = LowKey
  <2>1. InnerId(m, next, root) /\ m[root].low = LowKey
    BY DEF TreeOK
  <2>2. root \in InUse(next)
    BY <2>1 DEF InnerId
  <2>3. InnerId(m2, next, root) /\ m2[root].low = m[root].low
    <3>1. \A i : InnerId(m, next, i) => InnerId(m2, next, i)
      BY <1>3, TakenGrows
    <3>2. \A i \in InUse(next) : m2[i].low = m[i].low
      BY <1>3 DEF Grows
    <3> QED
      BY <2>1, <2>2, <3>1, <3>2
  <2> QED
    BY <2>1, <2>3
<1>7. next \in 1 .. MaxId + 1
  BY DEF TreeOK
<1>8. TreeOK(m2, next, root)
  BY <1>2, <1>4, <1>5, <1>6, <1>7 DEF TreeOK
<1> QED
  BY <1>3, <1>8

LEMMA CacheGrows ==
  ASSUME NEW m, NEW next, NEW m2, NEW next2, Grows(m, next, m2, next2),
         NEW cache, CacheOK(m, next, cache)
  PROVE  CacheOK(m2, next2, cache)
<1>1. InUse(next) \subseteq InUse(next2)
  BY DEF Grows, InUse
<1>2. cache \in Seq(Nat \X InUse(next2))
  BY <1>1 DEF CacheOK
<1>3. \A e \in ToSet(cache) : InnerId(m2, next2, e[2]) /\ LeadsTo(m2, next2, e[2], e[1])
  BY TakenGrows DEF CacheOK
<1> QED
  BY <1>2, <1>3 DEF CacheOK

\* A step of t after which the tree has grown, and t goes on as d.
LEMMA StructStep ==
  ASSUME StructInv, NEW t \in Threads,
         TreeOK(mapping', next_unused_node_id', root_id'),
         Grows(mapping, next_unused_node_id, mapping', next_unused_node_id'),
         blocked' \subseteq NodeIds, released' \subseteq NodeIds, contents' \subseteq Nat,
         left' \in Nat, requests' = requests,
         DOMAIN ctx' = Threads, DOMAIN lru_cache' = Threads,
         \A u \in Threads : lru_cache'[u] = lru_cache[u]
                            \/ CacheOK(mapping', next_unused_node_id', lru_cache'[u]),
         \A u \in Threads \ {t} : ctx'[u] \in ContextSet /\ SameView(ctx[u], ctx'[u]),
         ContextOK(mapping', next_unused_node_id', ctx'[t])
  PROVE  StructInv'
<1>1. \A u \in Threads : CacheOK(mapping', next_unused_node_id', lru_cache'[u])
  BY CacheGrows DEF StructInv
<1>2. \A u \in Threads \ {t} : ContextOK(mapping, next_unused_node_id, ctx'[u])
  BY SameViewOK DEF StructInv
<1>3. \A u \in Threads : ContextOK(mapping', next_unused_node_id', ctx'[u])
  BY <1>2, ContextGrows
<1> QED
  BY <1>1, <1>3 DEF StructInv

LEMMA GrowsSame ==
  ASSUME NEW m, NEW next \in Nat
  PROVE  Grows(m, next, m, next)
BY DEF Grows

\* A step of t that changes no node.
LEMMA LocalStep ==
  ASSUME StructInv, NEW t \in Threads, NEW d, ContextOK(mapping, next_unused_node_id, d),
         Continue(t, d), UNCHANGED <<root_id, mapping, next_unused_node_id, contents, lru_cache>>,
         blocked' \subseteq NodeIds, released' \subseteq NodeIds, left' \in Nat,
         requests' = requests
  PROVE  StructInv'
<1>1. ctx' = [ctx EXCEPT ![t] = d] /\ DOMAIN ctx = Threads
  BY DEF Continue, StructInv
<1>2. DOMAIN ctx' = Threads /\ ctx'[t] = d /\ \A u \in Threads \ {t} : ctx'[u] = ctx[u]
  BY <1>1
<1>3. \A u \in Threads : ctx[u] \in ContextSet /\ SameView(ctx[u], ctx[u])
  BY DEF StructInv, ContextOK, SameView
<1>4. next_unused_node_id \in Nat
  BY DEF StructInv, TreeOK
<1>5. Grows(mapping, next_unused_node_id, mapping', next_unused_node_id')
  BY <1>4, GrowsSame
<1> QED
  BY <1>2, <1>3, <1>5, StructStep DEF StructInv

\* A step of t that changes one node.
LEMMA InstallStep ==
  ASSUME StructInv, NEW t \in Threads, NEW id \in InUse(next_unused_node_id), NEW n,
         Sound(mapping, next_unused_node_id, n), Kin(mapping[id], n),
         NEW d, ContextOK(mapping, next_unused_node_id, d), Install(t, id, n, d),
         UNCHANGED <<root_id, blocked, next_unused_node_id, contents, lru_cache, bounds>>,
         released' \subseteq NodeIds
  PROVE  StructInv'
<1>1. mapping' = [mapping EXCEPT ![id] = n]
      /\ ctx' = [u \in Threads |-> IF u = t THEN d ELSE Outdated(ctx[u], id)]
  BY DEF Install
<1>2. TreeOK(mapping', next_unused_node_id, root_id)
      /\ Grows(mapping, next_unused_node_id, mapping', next_unused_node_id)
  BY <1>1, InstallTreeOK DEF StructInv
<1>3. ContextOK(mapping', next_unused_node_id, d)
  BY <1>2, ContextGrows
<1>4. \A u \in Threads \ {t} : ctx'[u] \in ContextSet /\ SameView(ctx[u], ctx'[u])
  BY <1>1, OutdatedFields DEF StructInv, ContextOK
<1>5. DOMAIN ctx' = Threads /\ ctx'[t] = d
  BY <1>1
<1> QED
  BY <1>2, <1>3, <1>4, <1>5, StructStep DEF StructInv, bounds

\* A Context with a new node in place of its own or of its parent's.
WithCur(c, n) == [c EXCEPT !.cur.node = n]
WithPar(c, n) == [c EXCEPT !.par.node = n]

LEMMA WithCurFields ==
  ASSUME NEW c \in ContextSet, NEW n \in AnyNode
  PROVE  LET d == WithCur(c, n) IN
         /\ d \in ContextSet /\ d.cur.id = c.cur.id /\ d.cur.node = n /\ d.cur.fresh = c.cur.fresh
         /\ d.pc = c.pc /\ d.op = c.op /\ d.key = c.key /\ d.par = c.par
         /\ d.pending = c.pending /\ d.to = c.to
         /\ d.res = c.res /\ d.seen = c.seen /\ d.got = c.got
         /\ d.steady = c.steady /\ d.ever = c.ever
<1> DEFINE s == [c.cur EXCEPT !.node = n]
           d == WithCur(c, n)
<1>1. d = [c EXCEPT !.cur = s]
  BY DEF WithCur, ContextSet
<1>2. s \in SnapSet /\ s.id = c.cur.id /\ s.node = n /\ s.fresh = c.cur.fresh
  BY DEF ContextSet, SnapSet
<1> HIDE DEF s, d
<1>3. d \in ContextSet /\ d.cur = s
  BY <1>1, <1>2 DEF ContextSet
<1>4. /\ d.pc = c.pc /\ d.op = c.op /\ d.key = c.key /\ d.par = c.par
      /\ d.pending = c.pending /\ d.to = c.to /\ d.res = c.res
  BY <1>1 DEF ContextSet
<1>5. d.seen = c.seen /\ d.got = c.got /\ d.steady = c.steady /\ d.ever = c.ever
  BY <1>1 DEF ContextSet
<1> QED
  BY <1>2, <1>3, <1>4, <1>5 DEF d

LEMMA WithParFields ==
  ASSUME NEW c \in ContextSet, NEW n \in AnyNode
  PROVE  LET d == WithPar(c, n) IN
         /\ d \in ContextSet /\ d.par.id = c.par.id /\ d.par.node = n
         /\ d.pc = c.pc /\ d.op = c.op /\ d.key = c.key /\ d.cur = c.cur
         /\ d.pending = c.pending /\ d.to = c.to
         /\ d.res = c.res /\ d.seen = c.seen /\ d.got = c.got
         /\ d.steady = c.steady /\ d.ever = c.ever
<1> DEFINE s == [c.par EXCEPT !.node = n]
           d == WithPar(c, n)
<1>1. d = [c EXCEPT !.par = s]
  BY DEF WithPar, ContextSet
<1>2. s \in SnapSet /\ s.id = c.par.id /\ s.node = n
  BY DEF ContextSet, SnapSet
<1> HIDE DEF s, d
<1>3. d \in ContextSet /\ d.par = s
  BY <1>1, <1>2 DEF ContextSet
<1>4. /\ d.pc = c.pc /\ d.op = c.op /\ d.key = c.key /\ d.cur = c.cur
      /\ d.pending = c.pending /\ d.to = c.to /\ d.res = c.res
  BY <1>1 DEF ContextSet
<1>5. d.seen = c.seen /\ d.got = c.got /\ d.steady = c.steady /\ d.ever = c.ever
  BY <1>1 DEF ContextSet
<1> QED
  BY <1>2, <1>3, <1>4, <1>5 DEF d

LEMMA KinTransitive ==
  ASSUME NEW n, NEW n2, NEW n3, Kin(n, n2), Kin(n2, n3)
  PROVE  Kin(n, n3)
BY DEF Kin

LEMMA WithCurOK ==
  ASSUME NEW m, NEW next, NEW c \in ContextSet, Holds(m, next, c), Here(c),
         NEW n, Sound(m, next, n), Kin(c.cur.node, n)
  PROVE  /\ n \in AnyNode /\ WithCur(c, n) \in ContextSet
         /\ Holds(m, next, WithCur(c, n)) /\ Here(WithCur(c, n))
         /\ Kin(m[c.cur.id], n) /\ c.cur.id \in InUse(next)
<1> DEFINE d == WithCur(c, n)
<1>1. n \in AnyNode
  BY IsNodeDef DEF Sound
<1>2. /\ d \in ContextSet /\ d.cur.id = c.cur.id /\ d.cur.node = n /\ d.op = c.op /\ d.key = c.key
      /\ d.par = c.par /\ d.pending = c.pending
  BY <1>1, WithCurFields
<1> HIDE DEF d
<1>3. HasParentNode(d) <=> HasParentNode(c)
  BY <1>2 DEF HasParentNode
<1>4. Kin(m[c.cur.id], n) /\ c.cur.id \in InUse(next)
  BY KinTransitive DEF Holds, Here, Taken
<1>5. Holds(m, next, d)
  BY <1>2, <1>3, <1>4 DEF Holds, Taken
<1>6. Here(d)
  BY <1>2, <1>3 DEF Here, Kin, IsLeaf
<1> QED
  BY <1>1, <1>2, <1>4, <1>5, <1>6 DEF d

LEMMA WithParOK ==
  ASSUME NEW m, NEW next, NEW c \in ContextSet, Holds(m, next, c), Here(c), HasParentNode(c),
         NEW n, Sound(m, next, n), Kin(c.par.node, n)
  PROVE  /\ n \in AnyNode /\ WithPar(c, n) \in ContextSet
         /\ Holds(m, next, WithPar(c, n)) /\ Here(WithPar(c, n)) /\ HasParentNode(WithPar(c, n))
         /\ Kin(m[c.par.id], n) /\ c.par.id \in InUse(next)
<1> DEFINE d == WithPar(c, n)
<1>1. n \in AnyNode
  BY IsNodeDef DEF Sound
<1>2. /\ d \in ContextSet /\ d.par.id = c.par.id /\ d.par.node = n /\ d.op = c.op /\ d.key = c.key
      /\ d.cur = c.cur /\ d.pending = c.pending
  BY <1>1, WithParFields
<1> HIDE DEF d
<1>3. HasParentNode(d)
  BY <1>2 DEF HasParentNode
<1>4. Kin(m[c.par.id], n) /\ c.par.id \in InUse(next) /\ ~IsLeaf(n)
  BY KinTransitive DEF Holds, Taken, Kin, IsLeaf
<1>5. Holds(m, next, d)
  BY <1>2, <1>3, <1>4 DEF Holds, Taken
<1>6. Here(d)
  BY <1>2, <1>3 DEF Here, Kin
<1> QED
  BY <1>1, <1>2, <1>3, <1>4, <1>5, <1>6 DEF d

\* A Context that has loaded a node.
WithSnap(c, snap) == [c EXCEPT !.cur = snap, !.to = INVALID_NODE_ID]

LEMMA WithSnapFields ==
  ASSUME NEW c \in ContextSet, NEW snap \in SnapSet
  PROVE  LET d == WithSnap(c, snap) IN
         /\ d \in ContextSet /\ d.cur = snap /\ d.to = INVALID_NODE_ID
         /\ d.pc = c.pc /\ d.op = c.op /\ d.key = c.key /\ d.par = c.par
         /\ d.pending = c.pending
         /\ d.res = c.res /\ d.seen = c.seen /\ d.got = c.got
         /\ d.steady = c.steady /\ d.ever = c.ever
<1> DEFINE d == WithSnap(c, snap)
<1>1. d = [c EXCEPT !.cur = snap, !.to = INVALID_NODE_ID] /\ INVALID_NODE_ID \in 0 .. MaxId
  BY MaxIdType DEF WithSnap
<1> HIDE DEF d
<1> QED
  BY <1>1 DEF ContextSet, d

\* The node is the mapping table's: what Holds() and Here() ask for.
LEMMA LoadOK ==
  ASSUME NEW m, NEW next, next \in 1 .. MaxId + 1, NEW c \in ContextSet, Holds(m, next, c),
         \A i \in InUse(next) : Sound(m, next, m[i]),
         LeadsTo(m, next, c.to, c.key),
         NEW snap, snap = [id |-> c.to, node |-> m[c.to], fresh |-> snap.fresh],
         snap.fresh \in BOOLEAN,
         HasParentNode(c) => c.par.node.low <= m[c.to].low,
         ~HasParentNode(c) /\ c.op # "get" => InnerId(m, next, c.to)
  PROVE  /\ WithSnap(c, snap) \in ContextSet
         /\ Holds(m, next, WithSnap(c, snap)) /\ Here(WithSnap(c, snap))
<1> DEFINE d == WithSnap(c, snap)
<1>1. c.to \in InUse(next) /\ c.to \in NodeIds /\ c.to \in 0 .. MaxId /\ c.to \in UNSET .. MaxId
  BY MaxIdType DEF LeadsTo, InUse, NodeIds, UNSET
<1>2. Sound(m, next, m[c.to]) /\ m[c.to] \in AnyNode
  BY <1>1, IsNodeDef DEF Sound
<1>3. snap \in SnapSet /\ snap.id = c.to /\ snap.node = m[c.to]
  BY <1>1, <1>2 DEF SnapSet
<1>4. /\ d \in ContextSet /\ d.cur = snap /\ d.op = c.op /\ d.key = c.key /\ d.par = c.par
      /\ d.pending = c.pending
  BY <1>3, WithSnapFields
<1> HIDE DEF d
<1>5. HasParentNode(d) <=> HasParentNode(c)
  BY <1>4 DEF HasParentNode
<1>6. Holds(m, next, d)
  BY <1>1, <1>2, <1>3, <1>4, <1>5 DEF Holds, Taken, Kin
<1>7. Here(d)
  BY <1>1, <1>3, <1>4, <1>5 DEF Here, LeadsTo, InnerId, IsLeaf
<1> QED
  BY <1>4, <1>6, <1>7 DEF d

-----------------------------------------------------------------------------
(* The steps.                                                              *)

LEMMA ThreadFacts ==
  ASSUME StructInv, NEW t \in Threads
  PROVE  /\ ctx[t] \in ContextSet
         /\ Holds(mapping, next_unused_node_id, ctx[t])
         /\ Placed(mapping, next_unused_node_id, ctx[t])
         /\ CacheOK(mapping, next_unused_node_id, lru_cache[t])
         /\ next_unused_node_id \in 1 .. MaxId + 1 /\ next_unused_node_id \in Nat
         /\ TreeOK(mapping, next_unused_node_id, root_id)
         /\ DOMAIN mapping = NodeIds /\ \A i \in NodeIds : mapping[i] \in AnyNode
         /\ \A i \in InUse(next_unused_node_id) : Sound(mapping, next_unused_node_id, mapping[i])
<1>1. TreeOK(mapping, next_unused_node_id, root_id)
  BY DEF StructInv
<1>2. \A i \in NodeIds : mapping[i] \in AnyNode
  BY <1>1, IsNodeDef DEF TreeOK
<1> QED
  BY <1>1, <1>2 DEF StructInv, ContextOK, TreeOK

\* A Context at a place where it has a node in hand.
LEMMA AtWork ==
  ASSUME StructInv, NEW t \in Threads, ctx[t].pc \in Working
  PROVE  Here(ctx[t]) /\ Ready(ctx[t], ctx[t].pc) /\ ctx[t].op # "none"
<1>1. ctx[t].pc # "idle"
  BY DEF Working
<1> QED
  BY <1>1, ThreadFacts DEF Placed

LEMMA AbortStep ==
  ASSUME StructInv, NEW t \in Threads, ctx[t].op # "none", Continue(t, Abort(ctx[t])),
         UNCHANGED <<root_id, mapping, next_unused_node_id, contents, lru_cache>>,
         blocked' \subseteq NodeIds, released' \subseteq NodeIds, left' \in Nat,
         requests' = requests
  PROVE  StructInv'
<1>1. ContextOK(mapping, next_unused_node_id, Abort(ctx[t]))
  BY ThreadFacts, AbortOK
<1> QED
  BY <1>1, LocalStep

LEMMA BeginFields ==
  ASSUME NEW m, NEW next, next \in 1 .. MaxId + 1, NEW c \in ContextSet,
         NEW cache, CacheOK(m, next, cache)
  PROVE  LET d == Begin(c, cache) IN
         /\ d \in ContextSet /\ d.op = c.op /\ d.key = c.key /\ d.pc \in {"root", "hit"}
         /\ d.cur = NoSnap /\ d.pending = <<>> /\ ~HasParentNode(d)
         /\ d.pc = "hit" => InnerId(m, next, d.to) /\ LeadsTo(m, next, d.to, d.key)
         /\ d.res = c.res /\ d.seen = c.seen /\ d.got = c.got
         /\ d.steady = c.steady /\ d.ever = c.ever
<1> DEFINE entries == {e \in ToSet(cache) : e[1] = c.key}
           id == (CHOOSE e \in entries : TRUE)[2]
           a == Abort(c)
           d == Begin(c, cache)
<1>1. /\ a \in ContextSet /\ a.pc = "root" /\ a.op = c.op /\ a.key = c.key
      /\ a.cur = NoSnap /\ a.pending = <<>> /\ ~HasParentNode(a)
      /\ a.res = c.res /\ a.seen = c.seen /\ a.got = c.got
      /\ a.steady = c.steady /\ a.ever = c.ever
  BY AbortFields
<1>2. CASE c.op = "insertLRU" /\ entries # {}
  <2>1. d = [a EXCEPT !.pc = "hit", !.par = Unset, !.to = id]
    BY <1>2 DEF Begin
  <2>2. PICK e \in entries : id = e[2]
    BY <1>2
  <2>3. e \in ToSet(cache) /\ e[1] = c.key
    BY <2>2
  <2>4. InnerId(m, next, id) /\ LeadsTo(m, next, id, c.key)
    BY <2>2, <2>3 DEF CacheOK
  <2>5. id \in 0 .. MaxId /\ "hit" \in PCs
    BY <2>4, MaxIdType DEF InnerId, InUse, PCs
  <2> HIDE DEF a, d, id
  <2>6. /\ d \in ContextSet /\ d.op = c.op /\ d.key = c.key /\ d.pc = "hit"
        /\ d.cur = NoSnap /\ d.pending = <<>> /\ d.par = Unset /\ d.to = id
        /\ d.res = c.res /\ d.seen = c.seen /\ d.got = c.got
        /\ d.steady = c.steady /\ d.ever = c.ever
    BY <1>1, <2>1, <2>5, SnapTypes DEF ContextSet
  <2>7. ~HasParentNode(d)
    BY <2>6, SnapTypes DEF HasParentNode
  <2> QED
    BY <2>4, <2>6, <2>7 DEF d
<1>3. CASE ~(c.op = "insertLRU" /\ entries # {})
  <2>1. d = a
    BY <1>3 DEF Begin
  <2> QED
    BY <1>1, <2>1
<1> QED
  BY <1>2, <1>3

LEMMA BeginOK ==
  ASSUME NEW m, NEW next, next \in 1 .. MaxId + 1, NEW c \in ContextSet, c.op # "none",
         NEW cache, CacheOK(m, next, cache)
  PROVE  ContextOK(m, next, Begin(c, cache))
<1> DEFINE d == Begin(c, cache)
<1>1. /\ d \in ContextSet /\ d.op = c.op /\ d.key = c.key /\ d.pc \in {"root", "hit"}
      /\ d.cur = NoSnap /\ d.pending = <<>> /\ ~HasParentNode(d)
      /\ d.pc = "hit" => InnerId(m, next, d.to) /\ LeadsTo(m, next, d.to, d.key)
  BY BeginFields
<1> HIDE DEF d
<1>2. d.cur.id = INVALID_NODE_ID /\ d.cur.id \notin NodeIds /\ d.cur.id \in 0 .. MaxId
  BY <1>1, SnapTypes, MaxIdType
<1>3. Holds(m, next, d)
  BY <1>1, <1>2 DEF Holds
<1>4. Placed(m, next, d)
  BY <1>1, <1>2 DEF Placed, Working
<1> QED
  BY <1>1, <1>3, <1>4 DEF ContextOK, d

LEMMA IdleContextType == IdleContext \in ContextSet
<1>1. /\ <<>> \in Seq(NodeIds \X AnyNode) /\ <<>> \in Seq(Nat)
      /\ INVALID_NODE_ID \in 0 .. MaxId /\ 0 \in Nat
  BY MaxIdType
<1> QED
  BY <1>1, SnapTypes DEF IdleContext, ContextSet, PCs, Ops

\* The keys that an iteration from key must yield, and the key's presence.
From(S, key) == {k \in S : k >= key}
SeenNow(key, S) == {(key \in S)}

LEMMA CalledFields ==
  ASSUME contents \subseteq Nat, released \subseteq NodeIds, NEW op \in Ops, NEW key \in Nat
  PROVE  LET d == Called(op, key) IN
         /\ d \in ContextSet /\ d.op = op /\ d.key = key /\ d.got = <<>> /\ d.res = FALSE
         /\ op = "scan" => d.steady = From(contents, key) /\ d.ever = contents
         /\ op # "scan" => d.seen = SeenNow(key, contents)
<1> DEFINE c == [IdleContext EXCEPT !.op = op, !.key = key]
           s == {k \in contents : k >= key}
           f == IF op = "insertLRU" THEN released ELSE {}
           d == Called(op, key)
<1>1. c \in ContextSet /\ c.op = op /\ c.key = key /\ c.got = <<>> /\ c.res = FALSE
  <2>1. IdleContext \in ContextSet /\ IdleContext.got = <<>> /\ IdleContext.res = FALSE
    BY IdleContextType DEF IdleContext
  <2> QED
    BY <2>1 DEF ContextSet
<1>2. f \in SUBSET NodeIds /\ s \in SUBSET Nat /\ contents \in SUBSET Nat
      /\ {(key \in contents)} \in SUBSET BOOLEAN
  BY SeenType
<1>3. d = IF op = "scan" THEN [c EXCEPT !.steady = s, !.ever = contents]
          ELSE [c EXCEPT !.seen = {(key \in contents)}, !.freed = f]
  BY DEF Called
<1> HIDE DEF c, s, f, d
<1>4. CASE op = "scan"
  <2>1. d = [c EXCEPT !.steady = s, !.ever = contents]
    BY <1>3, <1>4
  <2>2. /\ d \in ContextSet /\ d.op = op /\ d.key = key /\ d.got = <<>> /\ d.res = FALSE
        /\ d.steady = s /\ d.ever = contents
    BY <2>1, <1>1, <1>2 DEF ContextSet
  <2> QED
    BY <1>4, <2>2 DEF d, s, From
<1>5. CASE op # "scan"
  <2>1. d = [c EXCEPT !.seen = {(key \in contents)}, !.freed = f]
    BY <1>3, <1>5
  <2>2. /\ d \in ContextSet /\ d.op = op /\ d.key = key /\ d.got = <<>> /\ d.res = FALSE
        /\ d.seen = {(key \in contents)}
    BY <2>1, <1>1, <1>2 DEF ContextSet
  <2> QED
    BY <1>5, <2>2 DEF d, SeenNow
<1> QED
  BY <1>4, <1>5

LEMMA CalledType ==
  ASSUME contents \subseteq Nat, released \subseteq NodeIds, NEW op \in Ops, NEW key \in Nat
  PROVE  Called(op, key) \in ContextSet /\ Called(op, key).op = op
BY CalledFields

LEMMA StartStructInv ==
  ASSUME StructInv, NEW t \in Threads, Start(t)
  PROVE  StructInv'
<1>1. PICK r \in requests : Continue(t, Begin(Called(r[1], r[2]), lru_cache[t]))
  BY DEF Start
<1>2. r[1] \in Ops /\ r[1] # "none" /\ r[2] \in Nat
  BY DEF StructInv
<1>3. Called(r[1], r[2]) \in ContextSet /\ Called(r[1], r[2]).op # "none"
  BY <1>2, CalledType DEF StructInv
<1>4. ContextOK(mapping, next_unused_node_id, Begin(Called(r[1], r[2]), lru_cache[t]))
  BY <1>3, ThreadFacts, BeginOK
<1>5. left' \in Nat
  BY DEF Start, StructInv
<1> QED
  BY <1>1, <1>4, <1>5, LocalStep DEF Start, shared, StructInv

LEMMA CacheHitStructInv ==
  ASSUME StructInv, NEW t \in Threads, CacheHit(t)
  PROVE  StructInv'
<1> DEFINE c == ctx[t]
           id == c.to
           snap == [Snapshot(id) EXCEPT !.fresh = id \notin blocked]
           d == WithSnap(c, snap)
<1>1. /\ c.pc = "hit" /\ UNCHANGED <<shared, bounds>>
      /\ Continue(t, Navigate(d)) \/ Continue(t, At(d, "undefined"))
  BY DEF CacheHit, WithSnap
<1>2. /\ c \in ContextSet /\ Holds(mapping, next_unused_node_id, c) /\ c.op # "none"
      /\ InnerId(mapping, next_unused_node_id, id)
      /\ LeadsTo(mapping, next_unused_node_id, id, c.key)
      /\ c.pending = <<>> /\ ~HasParentNode(c)
  BY <1>1, ThreadFacts DEF Placed
<1>3. snap = [id |-> id, node |-> mapping[id], fresh |-> snap.fresh] /\ snap.fresh \in BOOLEAN
  BY DEF Snapshot
<1> HIDE DEF c
<1>4. /\ d \in ContextSet /\ Holds(mapping, next_unused_node_id, d) /\ Here(d)
  <2> HIDE DEF snap
  <2> QED
    BY <1>2, <1>3, ThreadFacts, LoadOK
<1>5. /\ d.op # "none" /\ d.pending = <<>> /\ ~IsLeaf(d.cur.node)
  <2>1. snap \in SnapSet /\ snap.node = mapping[id]
    <3>1. id \in NodeIds /\ id \in UNSET .. MaxId /\ mapping[id] \in AnyNode
      BY <1>2, ThreadFacts, MaxIdType DEF InnerId, InUse, NodeIds, UNSET
    <3> HIDE DEF id
    <3> QED
      BY <3>1 DEF SnapSet, Snapshot
  <2> HIDE DEF snap
  <2>2. d.op = c.op /\ d.pending = c.pending /\ d.cur = snap
    BY <1>2, <2>1, WithSnapFields
  <2> QED
    BY <1>2, <2>1, <2>2 DEF InnerId, IsLeaf
<1> HIDE DEF d
<1>6. ContextOK(mapping, next_unused_node_id, Navigate(d))
  <2>1. Outcome(d, Navigate(d))
    BY <1>4, <1>5, NavigateOutcome
  <2> QED
    BY <2>1, <1>4, <1>5, ThreadFacts, OutcomeOK
<1>7. ContextOK(mapping, next_unused_node_id, At(d, "undefined"))
  BY <1>4, <1>5, UndefinedOK
<1> QED
  BY <1>1, <1>6, <1>7, LocalStep DEF shared, bounds, StructInv

LEMMA LoadRootStructInv ==
  ASSUME StructInv, NEW t \in Threads, LoadRoot(t)
  PROVE  StructInv'
<1> DEFINE c == ctx[t]
<1>1. c.pc = "root" /\ Continue(t, GoTo(c, "take", root_id)) /\ UNCHANGED <<shared, bounds>>
  BY DEF LoadRoot, GoTo
<1>2. /\ c \in ContextSet /\ Holds(mapping, next_unused_node_id, c) /\ c.op # "none"
      /\ c.cur.id \notin NodeIds /\ c.pending = <<>>
  BY <1>1, ThreadFacts, SnapTypes DEF Placed
<1>3. InnerId(mapping, next_unused_node_id, root_id)
      /\ LeadsTo(mapping, next_unused_node_id, root_id, c.key)
  <2>1. c.key \in Nat
    BY <1>2 DEF ContextSet
  <2> QED
    BY <2>1, MaxIdType DEF StructInv, TreeOK, InnerId, LeadsTo
<1>4. ContextOK(mapping, next_unused_node_id, GoTo(c, "take", root_id))
  <2> HIDE DEF c
  <2> QED
    BY <1>2, <1>3, ThreadFacts, TakeOK
<1> QED
  BY <1>1, <1>4, LocalStep DEF shared, bounds, StructInv

\* LoadNodeID(): the node it comes from is the parent then.
Down(c) == [c EXCEPT !.par = c.cur]

LEMMA DownFields ==
  ASSUME NEW c \in ContextSet
  PROVE  LET d == Down(c) IN
         /\ d \in ContextSet /\ d.pc = c.pc /\ d.op = c.op /\ d.key = c.key
         /\ d.cur = c.cur /\ d.par = c.cur /\ d.pending = c.pending /\ d.to = c.to
         /\ d.res = c.res /\ d.seen = c.seen /\ d.got = c.got
         /\ d.steady = c.steady /\ d.ever = c.ever
<1> DEFINE d == Down(c)
           s == c.cur
<1>1. d = [c EXCEPT !.par = s] /\ s \in SnapSet
  BY DEF Down, ContextSet
<1> HIDE DEF d, s
<1>2. d \in ContextSet /\ d.par = s /\ d.pc = c.pc /\ d.op = c.op /\ d.key = c.key
      /\ d.cur = c.cur /\ d.pending = c.pending /\ d.to = c.to
      /\ d.res = c.res /\ d.seen = c.seen /\ d.got = c.got
      /\ d.steady = c.steady /\ d.ever = c.ever
  BY <1>1 DEF ContextSet
<1> QED
  BY <1>2 DEF d, s

\* What a traversal has in hand after LoadNodeID() and after JumpToNodeID().
LEMMA TakenContext ==
  ASSUME StructInv, NEW t \in Threads, ctx[t].pc = "take",
         NEW d, d = IF Reading(ctx[t]) THEN WithSnap(ctx[t], Snapshot(ctx[t].to))
                    ELSE WithSnap(Down(ctx[t]), Snapshot(ctx[t].to))
  PROVE  /\ d \in ContextSet /\ Holds(mapping, next_unused_node_id, d) /\ Here(d)
         /\ d.op # "none" /\ d.pending = <<>> /\ d.cur = Snapshot(ctx[t].to)
         /\ d.op = ctx[t].op /\ d.key = ctx[t].key /\ d.pc = "take"
         /\ d.res = ctx[t].res /\ d.seen = ctx[t].seen /\ d.got = ctx[t].got
         /\ d.steady = ctx[t].steady /\ d.ever = ctx[t].ever
<1> DEFINE c == ctx[t]
           snap == Snapshot(c.to)
           b == IF Reading(c) THEN c ELSE Down(c)
<1>1. /\ c \in ContextSet /\ Holds(mapping, next_unused_node_id, c) /\ c.op # "none"
      /\ LeadsTo(mapping, next_unused_node_id, c.to, c.key) /\ c.pending = <<>>
      /\ c.cur.id \in NodeIds => ~IsLeaf(c.cur.node) /\ c.cur.node.low <= mapping[c.to].low
      /\ c.cur.id \notin NodeIds => InnerId(mapping, next_unused_node_id, c.to)
  BY ThreadFacts DEF Placed
<1>2. /\ b \in ContextSet /\ b.to = c.to /\ b.op = c.op /\ b.key = c.key /\ b.pending = <<>>
      /\ b.pc = c.pc /\ b.cur = c.cur
      /\ b.res = c.res /\ b.seen = c.seen /\ b.got = c.got
      /\ b.steady = c.steady /\ b.ever = c.ever
      /\ ~Reading(c) => b.par = c.cur
  <2> HIDE DEF c
  <2> QED
    BY <1>1, DownFields
<1>3. /\ Holds(mapping, next_unused_node_id, b)
      /\ HasParentNode(b) => b.par.node.low <= mapping[b.to].low
      /\ ~HasParentNode(b) /\ b.op # "get" => InnerId(mapping, next_unused_node_id, b.to)
  <2> HIDE DEF c
  <2>1. CASE Reading(c)
    <3>1. b = c /\ c.op = "get"
      BY <2>1 DEF Reading
    <3>2. ~HasParentNode(c)
      BY <1>1, <3>1 DEF Holds
    <3> HIDE DEF b
    <3> QED
      BY <1>1, <3>1, <3>2
  <2>2. CASE ~Reading(c)
    <3>1. b.par = c.cur /\ (HasParentNode(b) <=> c.cur.id \in NodeIds) /\ c.op # "get"
      BY <1>2, <2>2 DEF HasParentNode, Reading
    <3> HIDE DEF b
    <3>2. Holds(mapping, next_unused_node_id, b)
      BY <1>1, <1>2, <3>1 DEF Holds
    <3> QED
      BY <1>1, <1>2, <3>1, <3>2
  <2> QED
    BY <2>1, <2>2
<1>4. snap = [id |-> b.to, node |-> mapping[b.to], fresh |-> snap.fresh] /\ snap.fresh \in BOOLEAN
  BY <1>2 DEF Snapshot
<1>5. snap \in SnapSet
  <2>1. c.to \in NodeIds /\ c.to \in UNSET .. MaxId /\ mapping[c.to] \in AnyNode
    BY <1>1, ThreadFacts, MaxIdType DEF LeadsTo, InUse, NodeIds, UNSET
  <2> HIDE DEF c
  <2> QED
    BY <2>1 DEF SnapSet, Snapshot
<1>6. d = WithSnap(b, snap)
  OBVIOUS
<1> HIDE DEF c, snap, b
<1>7. d \in ContextSet /\ Holds(mapping, next_unused_node_id, d) /\ Here(d)
  BY <1>1, <1>2, <1>3, <1>4, <1>6, ThreadFacts, LoadOK
<1>8. /\ d.op = b.op /\ d.pending = b.pending /\ d.cur = snap /\ d.key = b.key /\ d.pc = b.pc
      /\ d.res = b.res /\ d.seen = b.seen /\ d.got = b.got
      /\ d.steady = b.steady /\ d.ever = b.ever
  BY <1>2, <1>5, <1>6, WithSnapFields
<1> QED
  BY <1>1, <1>2, <1>7, <1>8 DEF c, snap

LEMMA JumpedContext ==
  ASSUME StructInv, NEW t \in Threads, ctx[t].pc = "jump",
         NEW d, d = WithSnap(ctx[t], Snapshot(ctx[t].to))
  PROVE  /\ d \in ContextSet /\ Holds(mapping, next_unused_node_id, d) /\ Here(d)
         /\ d.op # "none" /\ d.pending = ctx[t].pending /\ d.cur = Snapshot(ctx[t].to)
         /\ d.op = ctx[t].op /\ d.key = ctx[t].key /\ d.pc = "jump"
         /\ d.res = ctx[t].res /\ d.seen = ctx[t].seen /\ d.got = ctx[t].got
         /\ d.steady = ctx[t].steady /\ d.ever = ctx[t].ever
<1> DEFINE c == ctx[t]
           snap == Snapshot(c.to)
<1>1. /\ c \in ContextSet /\ Holds(mapping, next_unused_node_id, c) /\ c.op # "none"
      /\ LeadsTo(mapping, next_unused_node_id, c.to, c.key)
      /\ HasParentNode(c) => c.par.node.low <= mapping[c.to].low
      /\ ~HasParentNode(c) /\ c.op # "get" => InnerId(mapping, next_unused_node_id, c.to)
      /\ c.pc = "jump"
  BY ThreadFacts DEF Placed
<1>2. snap = [id |-> c.to, node |-> mapping[c.to], fresh |-> snap.fresh] /\ snap.fresh \in BOOLEAN
  BY DEF Snapshot
<1>3. snap \in SnapSet
  <2>1. c.to \in NodeIds /\ c.to \in UNSET .. MaxId /\ mapping[c.to] \in AnyNode
    BY <1>1, ThreadFacts, MaxIdType DEF LeadsTo, InUse, NodeIds, UNSET
  <2> HIDE DEF c
  <2> QED
    BY <2>1 DEF SnapSet, Snapshot
<1> HIDE DEF c, snap
<1>4. d = WithSnap(c, snap)
  BY DEF c, snap
<1>5. d \in ContextSet /\ Holds(mapping, next_unused_node_id, d) /\ Here(d)
  BY <1>1, <1>2, <1>4, ThreadFacts, LoadOK
<1>6. /\ d.op = c.op /\ d.pending = c.pending /\ d.cur = snap /\ d.key = c.key /\ d.pc = c.pc
      /\ d.res = c.res /\ d.seen = c.seen /\ d.got = c.got
      /\ d.steady = c.steady /\ d.ever = c.ever
  BY <1>1, <1>3, <1>4, WithSnapFields
<1> QED
  BY <1>1, <1>5, <1>6 DEF c, snap

LEMMA LoadNodeIDStructInv ==
  ASSUME StructInv, NEW t \in Threads, LoadNodeID(t)
  PROVE  StructInv'
<1> DEFINE d == IF Reading(ctx[t]) THEN WithSnap(ctx[t], Snapshot(ctx[t].to))
                ELSE WithSnap(Down(ctx[t]), Snapshot(ctx[t].to))
           e == IF Reading(ctx[t]) THEN FinishPartialSMOReadOptimized(d) ELSE FinishPartialSMO(d)
<1>1. ctx[t].pc = "take" /\ UNCHANGED <<shared, bounds>>
  BY DEF LoadNodeID
<1>2. /\ d \in ContextSet /\ Holds(mapping, next_unused_node_id, d) /\ Here(d)
      /\ d.op # "none" /\ d.pending = <<>>
  BY <1>1, TakenContext
<1>3. Continue(t, e)
  <2>1. ctx[t] \in ContextSet
    BY ThreadFacts
  <2>2. CASE Reading(ctx[t])
    <3>1. Reading(d)
      BY <1>1, <2>2, TakenContext DEF Reading
    <3>2. d = [ctx[t] EXCEPT !.cur = Snapshot(ctx[t].to), !.to = INVALID_NODE_ID]
      BY <2>2 DEF WithSnap
    <3> QED
      BY <2>2, <3>1, <3>2 DEF LoadNodeID
  <2>3. CASE ~Reading(ctx[t])
    <3> DEFINE c == [ctx[t] EXCEPT !.cur = Snapshot(ctx[t].to), !.to = INVALID_NODE_ID]
    <3>1. ~Reading(c)
      BY <2>1, <2>3 DEF Reading, ContextSet
    <3>2. d = [c EXCEPT !.par = ctx[t].cur]
      BY <2>1, <2>3 DEF WithSnap, Down, ContextSet
    <3> QED
      BY <2>3, <3>1, <3>2 DEF LoadNodeID
  <2> QED
    BY <2>2, <2>3
<1> HIDE DEF d
<1>4. Outcome(d, e)
  BY <1>2, ReadOptimizedOutcome, FinishPartialSMOOutcome
<1> HIDE DEF e
<1>5. ContextOK(mapping, next_unused_node_id, e)
  BY <1>2, <1>4, ThreadFacts, OutcomeOK
<1> QED
  BY <1>1, <1>3, <1>5, LocalStep DEF shared, bounds, StructInv

LEMMA JumpToNodeIDStructInv ==
  ASSUME StructInv, NEW t \in Threads, JumpToNodeID(t)
  PROVE  StructInv'
<1> DEFINE d == WithSnap(ctx[t], Snapshot(ctx[t].to))
<1>1. /\ ctx[t].pc = "jump" /\ UNCHANGED <<shared, bounds>>
      /\ Continue(t, FinishPartialSMO(d))
  BY DEF JumpToNodeID, WithSnap
<1>2. /\ d \in ContextSet /\ Holds(mapping, next_unused_node_id, d) /\ Here(d) /\ d.op # "none"
  BY <1>1, JumpedContext
<1> HIDE DEF d
<1>3. Outcome(d, FinishPartialSMO(d))
  BY <1>2, FinishPartialSMOOutcome
<1>4. ContextOK(mapping, next_unused_node_id, FinishPartialSMO(d))
  BY <1>2, <1>3, ThreadFacts, OutcomeOK
<1> QED
  BY <1>1, <1>4, LocalStep DEF shared, bounds, StructInv

LEMMA JumpToLeftSiblingStructInv ==
  ASSUME StructInv, NEW t \in Threads, JumpToLeftSibling(t)
  PROVE  StructInv'
<1> DEFINE c == ctx[t]
           d == IF ~Current(c.par) THEN Abort(c)
                ELSE IF c.par.node.merges THEN At(c, "parentConsolidate")
                ELSE JumpLeft(c)
<1>1. c.pc = "removeCheck" /\ Continue(t, d) /\ UNCHANGED <<shared, bounds>>
  BY DEF JumpToLeftSibling
<1>2. /\ c \in ContextSet /\ Holds(mapping, next_unused_node_id, c)
      /\ Here(c) /\ Ready(c, "removeCheck") /\ c.op # "none"
  BY <1>1, ThreadFacts, AtWork DEF Working
<1>3. HasParentNode(c) /\ c.cur.node.type = "remove" /\ Ready(c, "parentConsolidate")
  BY <1>2 DEF Ready
<1> HIDE DEF c
<1>4. /\ ContextOK(mapping, next_unused_node_id, Abort(c))
      /\ ContextOK(mapping, next_unused_node_id, At(c, "parentConsolidate"))
      /\ ContextOK(mapping, next_unused_node_id, JumpLeft(c))
  <2>1. "parentConsolidate" \in Working
    BY DEF Working
  <2> QED
    BY <1>2, <1>3, <2>1, ThreadFacts, AbortOK, AtOK, JumpLeftOK
<1>5. ContextOK(mapping, next_unused_node_id, d)
  BY <1>4
<1> HIDE DEF d
<1> QED
  BY <1>1, <1>5, LocalStep DEF shared, bounds, StructInv

LEMMA ConsolidateParentStructInv ==
  ASSUME StructInv, NEW t \in Threads, ConsolidateParent(t)
  PROVE  StructInv'
<1> DEFINE c == ctx[t]
           depth == c.par.node.depth + 1
           n == [Consolidated(c.par.node) EXCEPT !.depth = depth]
           d == WithPar(c, n)
<1>1. /\ c.pc = "parentConsolidate"
      /\ IF Current(c.par) THEN Install(t, c.par.id, n, JumpLeft(d))
         ELSE UNCHANGED mapping /\ Continue(t, JumpLeft(c))
      /\ UNCHANGED <<root_id, blocked, next_unused_node_id, contents, released, lru_cache, bounds>>
  BY DEF ConsolidateParent, WithPar
<1>2. /\ c \in ContextSet /\ Holds(mapping, next_unused_node_id, c)
      /\ Here(c) /\ Ready(c, "parentConsolidate") /\ c.op # "none"
  BY <1>1, ThreadFacts, AtWork DEF Working
<1>3. HasParentNode(c) /\ c.cur.node.type = "remove"
  BY <1>2 DEF Ready
<1>4. Sound(mapping, next_unused_node_id, c.par.node) /\ depth \in Nat
  <2>1. Sound(mapping, next_unused_node_id, c.par.node)
    BY <1>2, <1>3 DEF Holds, Taken
  <2>2. c.par.node.depth \in Nat
    BY <1>2 DEF ContextSet, SnapSet, AnyNode
  <2> QED
    BY <2>1, <2>2
<1>5. Sound(mapping, next_unused_node_id, n) /\ Kin(c.par.node, n)
  <2> HIDE DEF c, depth
  <2> QED
    BY <1>4, ConsolidatedSound
<1> HIDE DEF c, n
<1>6. /\ n \in AnyNode /\ d \in ContextSet
      /\ Holds(mapping, next_unused_node_id, d) /\ Here(d) /\ HasParentNode(d)
      /\ Kin(mapping[c.par.id], n) /\ c.par.id \in InUse(next_unused_node_id)
  BY <1>2, <1>3, <1>5, WithParOK
<1>7. d.op = c.op /\ d.cur = c.cur
  BY <1>2, <1>6, WithParFields
<1> HIDE DEF d
<1>8. /\ ContextOK(mapping, next_unused_node_id, JumpLeft(c))
      /\ ContextOK(mapping, next_unused_node_id, JumpLeft(d))
  BY <1>2, <1>3, <1>6, <1>7, ThreadFacts, JumpLeftOK
<1>9. CASE Current(c.par)
  BY <1>1, <1>5, <1>6, <1>8, <1>9, InstallStep DEF StructInv
<1>10. CASE ~Current(c.par)
  BY <1>1, <1>8, <1>10, LocalStep DEF bounds, StructInv
<1> QED
  BY <1>9, <1>10

\* PostMergeNode() takes the innermost remove delta off the list.
Popped(c) == [c EXCEPT !.pending = Tail(@)]

LEMMA PoppedFields ==
  ASSUME NEW c \in ContextSet, c.pending # <<>>
  PROVE  LET d == Popped(c) IN
         /\ d \in ContextSet /\ d.cur = c.cur /\ d.par = c.par /\ d.pending = Tail(c.pending)
         /\ d.pc = c.pc /\ d.op = c.op /\ d.key = c.key /\ d.to = c.to
         /\ d.res = c.res /\ d.seen = c.seen /\ d.got = c.got
         /\ d.steady = c.steady /\ d.ever = c.ever
         /\ Len(c.pending) \in Nat /\ 1 \in 1 .. Len(c.pending) /\ Head(c.pending) = c.pending[1]
         /\ \A i \in 1 .. Len(d.pending) :
              i + 1 \in 1 .. Len(c.pending) /\ d.pending[i] = c.pending[i + 1]
<1> DEFINE s == c.pending
           d == Popped(c)
<1>1. s \in Seq(NodeIds \X AnyNode) /\ s # <<>>
  BY DEF ContextSet
<1>2. d = [c EXCEPT !.pending = Tail(s)]
  BY DEF Popped, ContextSet
<1> HIDE DEF s, d
<1>3. /\ Tail(s) \in Seq(NodeIds \X AnyNode) /\ Len(s) \in Nat /\ Len(s) # 0
      /\ Len(Tail(s)) = Len(s) - 1 /\ \A i \in 1 .. Len(Tail(s)) : Tail(s)[i] = s[i + 1]
      /\ Head(s) = s[1]
  BY <1>1
<1>4. /\ d \in ContextSet /\ d.cur = c.cur /\ d.par = c.par /\ d.pending = Tail(s)
      /\ d.pc = c.pc /\ d.op = c.op /\ d.key = c.key /\ d.to = c.to
      /\ d.res = c.res /\ d.seen = c.seen /\ d.got = c.got
      /\ d.steady = c.steady /\ d.ever = c.ever
  BY <1>2, <1>3 DEF ContextSet
<1>5. /\ 1 \in 1 .. Len(s)
      /\ \A i \in 1 .. Len(d.pending) : i + 1 \in 1 .. Len(s) /\ d.pending[i] = s[i + 1]
  BY <1>3, <1>4
<1> QED
  BY <1>3, <1>4, <1>5 DEF d, s

LEMMA PoppedOK ==
  ASSUME NEW m, NEW next, NEW c \in ContextSet, Holds(m, next, c), Here(c), c.pending # <<>>
  PROVE  /\ Popped(c) \in ContextSet /\ Holds(m, next, Popped(c)) /\ Here(Popped(c))
         /\ HasParentNode(Popped(c))
<1> DEFINE d == Popped(c)
<1>1. /\ d \in ContextSet /\ d.cur = c.cur /\ d.par = c.par /\ d.op = c.op /\ d.key = c.key
      /\ \A i \in 1 .. Len(d.pending) :
           i + 1 \in 1 .. Len(c.pending) /\ d.pending[i] = c.pending[i + 1]
  BY PoppedFields
<1> HIDE DEF d
<1>2. HasParentNode(c) /\ HasParentNode(d)
  BY <1>1 DEF Holds, HasParentNode
<1>3. Holds(m, next, d)
  BY <1>1, <1>2 DEF Holds
<1>4. Here(d)
  BY <1>1, <1>2 DEF Here
<1> QED
  BY <1>1, <1>2, <1>3, <1>4 DEF d

\* The merge: what PostMergeNode() installs and goes on with.
MergedHand(m, next, c, n, d) ==
  /\ Sound(m, next, n) /\ n.type = "merge" /\ n \in AnyNode
  /\ Kin(c.cur.node, n) /\ Kin(m[c.cur.id], n) /\ c.cur.id \in InUse(next)
  /\ d \in ContextSet /\ Holds(m, next, d) /\ Here(d) /\ d.op # "none" /\ Ready(d, "mergeCheck")
  /\ d.cur.id = c.cur.id /\ d.cur.node = n /\ d.cur.fresh = c.cur.fresh
  /\ d.op = c.op /\ d.key = c.key /\ d.res = c.res /\ d.seen = c.seen /\ d.got = c.got
  /\ d.steady = c.steady /\ d.ever = c.ever
  /\ Len(c.pending) \in Nat /\ 1 \in 1 .. Len(c.pending) /\ Head(c.pending) = c.pending[1]
  /\ \A i \in 1 .. Len(d.pending) :
       i + 1 \in 1 .. Len(c.pending) /\ d.pending[i] = c.pending[i + 1]

LEMMA MergedContext ==
  ASSUME StructInv, NEW t \in Threads, ctx[t].pc = "mergePost",
         NEW n, n = MergeNode(ctx[t].cur.node, Head(ctx[t].pending)[2], Head(ctx[t].pending)[1]),
         NEW d, d = Popped(WithCur(ctx[t], n))
  PROVE  MergedHand(mapping, next_unused_node_id, ctx[t], n, d)
<1> DEFINE c == ctx[t]
           next == next_unused_node_id
           right == Head(c.pending)[2]
           id == Head(c.pending)[1]
           b == WithCur(c, n)
<1>1. c \in ContextSet /\ Holds(mapping, next, c) /\ Here(c) /\ Ready(c, "mergePost") /\ c.op # "none"
  BY ThreadFacts, AtWork DEF Working
<1>2. c.pending # <<>> /\ GetNextNodeID(c.cur.node) = id
  BY <1>1 DEF Ready
<1>3. /\ Len(c.pending) \in Nat /\ 1 \in 1 .. Len(c.pending) /\ Head(c.pending) = c.pending[1]
  BY <1>1, <1>2, PoppedFields
<1>4. Taken(mapping, next, id, right)
  BY <1>1, <1>3 DEF Holds
<1>5. /\ Sound(mapping, next, c.cur.node) /\ Sound(mapping, next, right) /\ Kin(mapping[id], right)
      /\ id \in 0 .. MaxId /\ id # INVALID_NODE_ID /\ next \in 1 .. MaxId + 1
  <2>1. Sound(mapping, next, right) /\ Kin(mapping[id], right) /\ id \in 1 .. next - 1
    BY <1>4 DEF Taken, InUse
  <2>2. Sound(mapping, next, c.cur.node)
    BY <1>1 DEF Holds, Here, Taken
  <2>3. next \in 1 .. MaxId + 1 /\ MaxId \in Nat
    BY ThreadFacts, MaxIdType
  <2>4. id \in 0 .. MaxId /\ id # 0
    BY <2>1, <2>3
  <2> QED
    BY <2>1, <2>2, <2>3, <2>4 DEF INVALID_NODE_ID
<1>6. c.cur.node \in AnyNode /\ right \in AnyNode
  BY <1>5, IsNodeDef DEF Sound
<1> HIDE DEF c, right, id
<1>7. n = MergeNode(c.cur.node, right, id)
  BY DEF c, right, id
<1>8. Sound(mapping, next, n) /\ Kin(c.cur.node, n) /\ n.type = "merge"
  <2>1. Sound(mapping, next, n) /\ Kin(c.cur.node, n)
    BY <1>2, <1>5, <1>7, MergeNodeSound
  <2>2. n.type = "merge"
    <3>1. id \in 0 .. MaxId
      BY <1>5
    <3> DEFINE x == c.cur.node
    <3>2. x \in AnyNode /\ right \in AnyNode
      BY <1>6
    <3> HIDE DEF x
    <3>3. MergeNode(x, right, id).type = "merge"
      BY <3>1, <3>2, MergeNodeFields
    <3> QED
      BY <1>7, <3>3 DEF x
  <2> QED
    BY <2>1, <2>2
<1>9. /\ n \in AnyNode /\ b \in ContextSet /\ Holds(mapping, next, b) /\ Here(b)
      /\ Kin(mapping[c.cur.id], n) /\ c.cur.id \in InUse(next)
  BY <1>1, <1>8, WithCurOK
<1>10. /\ b.cur.id = c.cur.id /\ b.cur.node = n /\ b.cur.fresh = c.cur.fresh
       /\ b.op = c.op /\ b.key = c.key
       /\ b.res = c.res /\ b.seen = c.seen /\ b.got = c.got
       /\ b.steady = c.steady /\ b.ever = c.ever /\ b.pending = c.pending
  <2>1. b.cur.id = c.cur.id /\ b.cur.node = n /\ b.cur.fresh = c.cur.fresh
    BY <1>1, <1>9, WithCurFields
  <2>2. b.op = c.op /\ b.key = c.key /\ b.res = c.res /\ b.seen = c.seen
    BY <1>1, <1>9, WithCurFields
  <2>3. b.got = c.got /\ b.steady = c.steady /\ b.ever = c.ever /\ b.pending = c.pending
    BY <1>1, <1>9, WithCurFields
  <2> QED
    BY <2>1, <2>2, <2>3
<1>11. d = Popped(b)
  BY DEF c
<1> HIDE DEF b
<1>12. /\ d \in ContextSet /\ Holds(mapping, next, d) /\ Here(d) /\ HasParentNode(d)
  BY <1>2, <1>9, <1>10, <1>11, PoppedOK
<1>13. /\ d.cur = b.cur /\ d.op = b.op /\ d.key = b.key
       /\ d.res = b.res /\ d.seen = b.seen /\ d.got = b.got
       /\ d.steady = b.steady /\ d.ever = b.ever
       /\ \A i \in 1 .. Len(d.pending) :
            i + 1 \in 1 .. Len(c.pending) /\ d.pending[i] = c.pending[i + 1]
  <2>1. b \in ContextSet /\ b.pending # <<>> /\ b.pending = c.pending
    BY <1>2, <1>9, <1>10
  <2>2. /\ Popped(b).cur = b.cur /\ Popped(b).op = b.op /\ Popped(b).key = b.key
        /\ Popped(b).res = b.res /\ Popped(b).seen = b.seen /\ Popped(b).got = b.got
        /\ Popped(b).steady = b.steady /\ Popped(b).ever = b.ever
        /\ \A i \in 1 .. Len(Popped(b).pending) :
             i + 1 \in 1 .. Len(b.pending) /\ Popped(b).pending[i] = b.pending[i + 1]
    BY <2>1, PoppedFields
  <2> QED
    BY <2>1, <2>2, <1>11
<1>14. Ready(d, "mergeCheck")
  BY <1>8, <1>10, <1>12, <1>13 DEF Ready
<1> QED
  BY <1>1, <1>3, <1>8, <1>9, <1>10, <1>12, <1>13, <1>14 DEF MergedHand, c

LEMMA PostMergeNodeStructInv ==
  ASSUME StructInv, NEW t \in Threads, PostMergeNode(t)
  PROVE  StructInv'
<1> DEFINE c == ctx[t]
           n == MergeNode(c.cur.node, Head(c.pending)[2], Head(c.pending)[1])
           d == Popped(WithCur(c, n))
           e == [c EXCEPT !.cur.node = n, !.pending = Tail(@), !.pc = "mergeCheck"]
<1>1. /\ c.pc = "mergePost"
      /\ IF Current(c.cur) THEN Install(t, c.cur.id, n, e)
         ELSE UNCHANGED mapping /\ Continue(t, Abort(c))
      /\ UNCHANGED <<root_id, blocked, next_unused_node_id, contents, released, lru_cache, bounds>>
  BY DEF PostMergeNode
<1>2. /\ Sound(mapping, next_unused_node_id, n) /\ Kin(mapping[c.cur.id], n)
      /\ c.cur.id \in InUse(next_unused_node_id)
      /\ d \in ContextSet /\ Holds(mapping, next_unused_node_id, d) /\ Here(d)
      /\ d.op # "none" /\ Ready(d, "mergeCheck")
  <2>1. MergedHand(mapping, next_unused_node_id, c, n, d)
    BY <1>1, MergedContext
  <2> HIDE DEF c, n, d
  <2> QED
    BY <2>1 DEF MergedHand
<1>3. c \in ContextSet /\ c.op # "none"
  BY <1>1, ThreadFacts, AtWork DEF Working
<1>4. e = At(d, "mergeCheck")
  <2> HIDE DEF c, n
  <2> QED
    BY <1>3 DEF At, Popped, WithCur, ContextSet
<1> HIDE DEF d, n, e
<1>5. ContextOK(mapping, next_unused_node_id, e)
  <2>1. "mergeCheck" \in Working
    BY DEF Working
  <2> QED
    BY <1>2, <1>4, <2>1, AtOK
<1>6. CASE Current(c.cur)
  <2> HIDE DEF c
  <2> QED
    BY <1>1, <1>2, <1>5, <1>6, InstallStep DEF StructInv
<1>7. CASE ~Current(c.cur)
  BY <1>1, <1>3, <1>7, AbortStep DEF bounds, StructInv
<1> QED
  BY <1>6, <1>7

LEMMA CheckMergeStructInv ==
  ASSUME StructInv, NEW t \in Threads, CheckMerge(t)
  PROVE  StructInv'
<1> DEFINE c == ctx[t]
           d == IF ~ParentKnown(c) THEN Abort(c)
                ELSE IF Found(c.par.node, c.cur.node.sep) THEN At(c, "postDelete")
                ELSE TryConsolidateNode(c)
<1>1. c.pc = "mergeCheck" /\ Continue(t, d) /\ UNCHANGED <<shared, bounds>>
  BY DEF CheckMerge
<1>2. /\ c \in ContextSet /\ Holds(mapping, next_unused_node_id, c)
      /\ Here(c) /\ Ready(c, "mergeCheck") /\ c.op # "none"
  BY <1>1, ThreadFacts, AtWork DEF Working
<1> HIDE DEF c
<1>3. Found(c.par.node, c.cur.node.sep) => Ready(c, "postDelete")
  BY <1>2 DEF Ready
<1>4. c.cur.node.type # "remove"
  BY <1>2 DEF Ready
<1>5. Outcome(c, d)
  <2>1. Outcome(c, TryConsolidateNode(c))
    BY <1>2, <1>4, TryConsolidateNodeOutcome
  <2> QED
    BY <1>3, <2>1 DEF Outcome, OutcomeIn, Working
<1> HIDE DEF d
<1>6. ContextOK(mapping, next_unused_node_id, d)
  BY <1>2, <1>5, ThreadFacts, OutcomeOK
<1> QED
  BY <1>1, <1>6, LocalStep DEF shared, bounds, StructInv

\* After a change of the parent the child is consolidated.
LEMMA ParentChangedOK ==
  ASSUME NEW m, NEW next, NEW c \in ContextSet, c.op # "none", Holds(m, next, c), Here(c),
         HasParentNode(c), c.cur.node.type # "remove",
         NEW n, Sound(m, next, n), Kin(c.par.node, n),
         NEW d, d = [c EXCEPT !.par.node = n, !.pc = "consolidate"]
  PROVE  /\ ContextOK(m, next, d) /\ Kin(m[c.par.id], n) /\ c.par.id \in InUse(next)
         /\ d = At(WithPar(c, n), "consolidate") /\ n \in AnyNode
<1> DEFINE b == WithPar(c, n)
<1>1. /\ n \in AnyNode /\ b \in ContextSet /\ Holds(m, next, b) /\ Here(b) /\ HasParentNode(b)
      /\ Kin(m[c.par.id], n) /\ c.par.id \in InUse(next)
  BY WithParOK
<1>2. b.op = c.op /\ b.cur = c.cur
  BY <1>1, WithParFields
<1>3. d = At(b, "consolidate")
  BY DEF At, WithPar, ContextSet
<1> HIDE DEF b
<1>4. Ready(b, "consolidate")
  BY <1>2 DEF Ready
<1>5. ContextOK(m, next, d)
  <2>1. "consolidate" \in Working
    BY DEF Working
  <2> QED
    BY <1>1, <1>2, <1>3, <1>4, <2>1, AtOK
<1> QED
  BY <1>1, <1>3, <1>5 DEF b

LEMMA PostInnerDeleteNodeStructInv ==
  ASSUME StructInv, NEW t \in Threads, PostInnerDeleteNode(t)
  PROVE  StructInv'
<1> DEFINE c == ctx[t]
           n == InnerDeleteNode(c.par.node, c.cur.node.sep)
           d == [c EXCEPT !.par.node = n, !.pc = "consolidate"]
<1>1. /\ c.pc = "postDelete"
      /\ IF Current(c.par)
         THEN Install(t, c.par.id, n, d) /\ released' = released \cup {c.cur.node.other}
         ELSE UNCHANGED <<mapping, released>> /\ Continue(t, Abort(c))
      /\ UNCHANGED <<root_id, blocked, next_unused_node_id, contents, lru_cache, bounds>>
  BY DEF PostInnerDeleteNode
<1>2. /\ c \in ContextSet /\ Holds(mapping, next_unused_node_id, c)
      /\ Here(c) /\ Ready(c, "postDelete") /\ c.op # "none"
  BY <1>1, ThreadFacts, AtWork DEF Working
<1>3. /\ HasParentNode(c) /\ c.cur.node.type = "merge" /\ c.cur.node.sep # c.par.node.low
  BY <1>2 DEF Ready, Found
<1>4. Sound(mapping, next_unused_node_id, c.par.node) /\ ~IsLeaf(c.par.node)
  BY <1>2, <1>3 DEF Holds, Taken
<1>5. Sound(mapping, next_unused_node_id, n) /\ Kin(c.par.node, n)
  <2> HIDE DEF c
  <2> QED
    BY <1>3, <1>4, InnerDeleteNodeSound
<1> HIDE DEF n
<1>6. ContextOK(mapping, next_unused_node_id, d) /\ Kin(mapping[c.par.id], n)
      /\ c.par.id \in InUse(next_unused_node_id)
  <2> HIDE DEF c
  <2> QED
    BY <1>2, <1>3, <1>5, ParentChangedOK
<1>7. c.cur.node.other \in NodeIds
  <2>1. SoundDelta(next_unused_node_id, c.cur.node)
    BY <1>2 DEF Holds, Here, Taken, Sound
  <2>2. c.cur.node.other \in InUse(next_unused_node_id)
    BY <1>3, <2>1 DEF SoundDelta
  <2> HIDE DEF c
  <2> QED
    BY <2>2, ThreadFacts, MaxIdType DEF InUse, NodeIds
<1> HIDE DEF d
<1>8. CASE Current(c.par)
  <2>1. released' \subseteq NodeIds
    BY <1>1, <1>7, <1>8 DEF StructInv
  <2> HIDE DEF c
  <2> QED
    BY <1>1, <1>5, <1>6, <1>8, <2>1, InstallStep
<1>9. CASE ~Current(c.par)
  BY <1>1, <1>2, <1>9, AbortStep DEF bounds, StructInv
<1> QED
  BY <1>8, <1>9

LEMMA PostInnerInsertNodeStructInv ==
  ASSUME StructInv, NEW t \in Threads, PostInnerInsertNode(t)
  PROVE  StructInv'
<1> DEFINE c == ctx[t]
           k == c.cur.node.sep
           id == c.cur.node.other
           n == InnerInsertNode(c.par.node, k, id)
           d == [c EXCEPT !.par.node = n, !.pc = "consolidate"]
<1>1. /\ c.pc = "postInsert"
      /\ IF Current(c.par) THEN Install(t, c.par.id, n, d)
         ELSE UNCHANGED mapping /\ Continue(t, Abort(c))
      /\ UNCHANGED <<root_id, blocked, next_unused_node_id, contents, released, lru_cache, bounds>>
  BY DEF PostInnerInsertNode
<1>2. /\ c \in ContextSet /\ Holds(mapping, next_unused_node_id, c)
      /\ Here(c) /\ Ready(c, "postInsert") /\ c.op # "none"
  BY <1>1, ThreadFacts, AtWork DEF Working
<1>3. /\ HasParentNode(c) /\ c.cur.node.type = "split" /\ InRange(c.par.node, k)
  BY <1>2 DEF Ready
<1>4. /\ Sound(mapping, next_unused_node_id, c.par.node) /\ ~IsLeaf(c.par.node)
      /\ Sound(mapping, next_unused_node_id, c.cur.node) /\ c.par.node.low <= c.cur.node.low
  BY <1>2, <1>3 DEF Holds, Here, Taken
<1>5. /\ k \in Nat /\ id \in 0 .. MaxId /\ c.cur.node.low \in Nat /\ c.par.node.low \in Nat
  BY <1>2 DEF ContextSet, SnapSet, AnyNode
<1>6. c.cur.node.low < k /\ StartsAt(mapping, next_unused_node_id, id, k)
  <2>1. c.cur.node.high = <<k, id>> /\ id # INVALID_NODE_ID
    BY <1>3, <1>4 DEF Sound, SoundDelta
  <2>2. c.cur.node.high[1] = k /\ GetNextNodeID(c.cur.node) = id
    BY <2>1 DEF GetNextNodeID
  <2> QED
    BY <1>4, <2>1, <2>2 DEF Sound, SoundSibling
<1>7. c.par.node.low <= k
  BY <1>4, <1>5, <1>6
<1>8. Sound(mapping, next_unused_node_id, n) /\ Kin(c.par.node, n)
  <2> HIDE DEF c, k, id
  <2> QED
    BY <1>3, <1>4, <1>5, <1>6, <1>7, InnerInsertNodeSound
<1> HIDE DEF n, k, id
<1>9. ContextOK(mapping, next_unused_node_id, d) /\ Kin(mapping[c.par.id], n)
      /\ c.par.id \in InUse(next_unused_node_id)
  <2>1. c.cur.node.type # "remove"
    BY <1>3
  <2> HIDE DEF c
  <2> QED
    BY <1>2, <1>3, <1>8, <2>1, ParentChangedOK
<1> HIDE DEF d
<1>10. CASE Current(c.par)
  <2> HIDE DEF c
  <2> QED
    BY <1>1, <1>8, <1>9, <1>10, InstallStep DEF StructInv
<1>11. CASE ~Current(c.par)
  BY <1>1, <1>2, <1>11, AbortStep DEF bounds, StructInv
<1> QED
  BY <1>10, <1>11

LEMMA ConsolidateNodeStructInv ==
  ASSUME StructInv, NEW t \in Threads, ConsolidateNode(t)
  PROVE  StructInv'
<1> DEFINE c == ctx[t]
           n == Consolidated(c.cur.node)
           F(d) == IF c.pc = "consolidate" THEN TryConsolidateNode(d) ELSE AdjustNodeSize(d)
           d == WithCur(c, n)
<1>1. /\ c.pc \in {"consolidate", "tryConsolidate"}
      /\ IF Current(c.cur) THEN Install(t, c.cur.id, n, F(d))
         ELSE UNCHANGED mapping /\ Continue(t, F(c))
      /\ UNCHANGED <<root_id, blocked, next_unused_node_id, contents, released, lru_cache, bounds>>
  BY DEF ConsolidateNode, WithCur
<1>2. /\ c \in ContextSet /\ Holds(mapping, next_unused_node_id, c)
      /\ Here(c) /\ Ready(c, c.pc) /\ c.op # "none"
  BY <1>1, ThreadFacts, AtWork DEF Working
<1>3. c.cur.node.type # "remove"
  BY <1>1, <1>2 DEF Ready
<1>4. Sound(mapping, next_unused_node_id, n) /\ Kin(c.cur.node, n) /\ n.type = "base"
  <2>1. Sound(mapping, next_unused_node_id, c.cur.node)
    BY <1>2 DEF Holds, Here, Taken
  <2> HIDE DEF c
  <2>2. 0 \in Nat
    OBVIOUS
  <2> QED
    BY <2>1, <2>2, ConsolidatedSound DEF Consolidated, Base
<1> HIDE DEF n
<1>5. /\ n \in AnyNode /\ d \in ContextSet /\ Holds(mapping, next_unused_node_id, d) /\ Here(d)
      /\ Kin(mapping[c.cur.id], n) /\ c.cur.id \in InUse(next_unused_node_id)
  <2> HIDE DEF c
  <2> QED
    BY <1>2, <1>4, WithCurOK
<1>6. d.op # "none" /\ d.cur.node = n
  <2> HIDE DEF c
  <2> QED
    BY <1>2, <1>5, WithCurFields
<1> HIDE DEF d
<1>7. Outcome(c, F(c)) /\ Outcome(d, F(d))
  <2>1. d.cur.node.type # "remove"
    BY <1>4, <1>6
  <2> HIDE DEF c
  <2> QED
    BY <1>2, <1>3, <1>5, <2>1, TryConsolidateNodeOutcome, AdjustNodeSizeOutcome
<1> HIDE DEF F
<1>8. /\ ContextOK(mapping, next_unused_node_id, F(c))
      /\ ContextOK(mapping, next_unused_node_id, F(d))
  <2> HIDE DEF c
  <2> QED
    BY <1>2, <1>5, <1>6, <1>7, ThreadFacts, OutcomeOK
<1>9. CASE Current(c.cur)
  <2> HIDE DEF c
  <2> QED
    BY <1>1, <1>4, <1>5, <1>8, <1>9, InstallStep DEF StructInv
<1>10. CASE ~Current(c.cur)
  BY <1>1, <1>8, <1>10, LocalStep DEF bounds, StructInv
<1> QED
  BY <1>9, <1>10

\* An allocation: the new node and whatever else has changed are sound.
LEMMA AllocateTreeOK ==
  ASSUME NEW m, NEW next, NEW root, TreeOK(m, next, root), next \in NodeIds,
         NEW m2, DOMAIN m2 = NodeIds, Grows(m, next, m2, next + 1),
         \A i \in NodeIds : m2[i] = m[i] \/ Sound(m2, next + 1, m2[i]),
         Sound(m2, next + 1, m2[next])
  PROVE  TreeOK(m2, next + 1, root)
<1>1. next \in 1 .. MaxId /\ next + 1 \in 1 .. MaxId + 1 /\ next \in Nat
  BY MaxIdType DEF NodeIds
<1>2. \A i \in NodeIds : IsNode(m2[i])
  BY DEF TreeOK, Sound
<1>3. ASSUME NEW i \in InUse(next + 1) PROVE Sound(m2, next + 1, m2[i])
  <2>1. i = next \/ i \in InUse(next)
    BY <1>1 DEF InUse
  <2>2. i \in InUse(next) => i \in NodeIds /\ Sound(m, next, m[i])
    <3>1. i \in InUse(next) => i \in NodeIds
      BY <1>1, MaxIdType DEF InUse, NodeIds
    <3>2. i \in InUse(next) => Sound(m, next, m[i])
      BY DEF TreeOK
    <3> QED
      BY <3>1, <3>2
  <2> QED
    BY <2>1, <2>2, SoundGrows
<1>4. InnerId(m2, next + 1, root)
  <2>1. InnerId(m, next, root)
    BY DEF TreeOK
  <2> QED
    BY <2>1, TakenGrows
<1>5. m2[root].low = LowKey
  BY DEF TreeOK, InnerId, Grows
<1> QED
  BY <1>1, <1>2, <1>3, <1>4, <1>5 DEF TreeOK

LEMMA InstallRootNodeStructInv ==
  ASSUME StructInv, NEW t \in Threads, InstallRootNode(t)
  PROVE  StructInv'
<1> DEFINE c == ctx[t]
           next == next_unused_node_id
           n == RootNode(c)
<1>1. /\ c.pc = "newRoot" /\ Continue(t, Abort(c))
      /\ IF root_id = c.cur.id
         THEN /\ next <= MaxId /\ mapping' = [mapping EXCEPT ![next] = n]
              /\ root_id' = next /\ next_unused_node_id' = next + 1
         ELSE UNCHANGED <<mapping, root_id, next_unused_node_id>>
      /\ UNCHANGED <<blocked, contents, released, lru_cache, bounds>>
  BY DEF InstallRootNode, RootNode
<1>2. /\ c \in ContextSet /\ Holds(mapping, next, c) /\ Here(c) /\ Ready(c, "newRoot") /\ c.op # "none"
      /\ TreeOK(mapping, next, root_id) /\ DOMAIN mapping = NodeIds /\ next \in 1 .. MaxId + 1
  BY <1>1, ThreadFacts, AtWork DEF Working
<1>3. CASE root_id # c.cur.id
  BY <1>1, <1>2, <1>3, AbortStep DEF bounds, StructInv
<1>4. CASE root_id = c.cur.id
  <2>1. next \in NodeIds /\ next \in Nat
    BY <1>1, <1>2, <1>4, MaxIdType DEF NodeIds
  <2>2. /\ mapping'[next] = n /\ DOMAIN mapping' = NodeIds
        /\ \A i \in NodeIds \ {next} : mapping'[i] = mapping[i]
    BY <1>1, <1>2, <1>4, <2>1
  <2>3. \A i \in InUse(next) : i \in NodeIds /\ i # next
    BY <2>1, MaxIdType DEF InUse, NodeIds
  <2>4. Grows(mapping, next, mapping', next + 1)
    <3>1. \A i \in InUse(next) : mapping'[i] = mapping[i]
      BY <2>2, <2>3
    <3>2. next + 1 \in Nat /\ next <= next + 1
      BY <2>1
    <3> QED
      BY <2>1, <3>1, <3>2 DEF Grows
  <2>5. /\ StartsAt(mapping, next, c.cur.id, LowKey) /\ c.cur.node.sep \in Nat
        /\ StartsAt(mapping, next, c.cur.node.other, c.cur.node.sep)
    <3>1. StartsAt(mapping, next, c.cur.id, LowKey)
      BY <1>2, <1>4 DEF TreeOK, InnerId, StartsAt
    <3>2. Sound(mapping, next, c.cur.node) /\ c.cur.node.type = "split"
      BY <1>2 DEF Holds, Here, Taken, Ready
    <3>3. c.cur.node.high = <<c.cur.node.sep, c.cur.node.other>> /\ c.cur.node.other # INVALID_NODE_ID
      BY <3>2 DEF Sound, SoundDelta
    <3>4. c.cur.node.high[1] = c.cur.node.sep /\ GetNextNodeID(c.cur.node) = c.cur.node.other
      BY <3>3 DEF GetNextNodeID
    <3>5. StartsAt(mapping, next, c.cur.node.other, c.cur.node.sep)
      BY <3>2, <3>3, <3>4 DEF Sound, SoundSibling
    <3>6. c.cur.node.sep \in Nat
      BY <1>2 DEF ContextSet, SnapSet, AnyNode
    <3> QED
      BY <3>1, <3>5, <3>6
  <2> HIDE DEF c, n
  <2>6. Sound(mapping, next, n) /\ n.low = LowKey /\ ~IsLeaf(n)
    BY <1>2, <2>5, RootNodeSound DEF n
  <2>7. Sound(mapping', next + 1, mapping'[next])
    BY <2>2, <2>4, <2>6, SoundGrows
  <2>8. TreeOK(mapping', next + 1, root_id)
    <3>1. \A i \in NodeIds : mapping'[i] = mapping[i] \/ Sound(mapping', next + 1, mapping'[i])
      BY <2>2, <2>7
    <3> QED
      BY <1>2, <2>1, <2>2, <2>4, <2>7, <3>1, AllocateTreeOK
  <2>9. TreeOK(mapping', next + 1, next)
    <3>1. InnerId(mapping', next + 1, next) /\ mapping'[next].low = LowKey
      BY <2>1, <2>2, <2>6 DEF InnerId, InUse, NodeIds
    <3> QED
      BY <2>8, <3>1 DEF TreeOK
  <2>10. ContextOK(mapping', next + 1, Abort(c))
    BY <1>2, AbortOK
  <2>11. /\ DOMAIN ctx' = Threads /\ ctx'[t] = Abort(c)
         /\ \A u \in Threads \ {t} : ctx'[u] \in ContextSet /\ SameView(ctx[u], ctx'[u])
    BY <1>1, ThreadFacts DEF StructInv, Continue, SameView
  <2> QED
    BY <1>1, <1>4, <2>4, <2>9, <2>10, <2>11, StructStep DEF StructInv, bounds
<1> QED
  BY <1>3, <1>4

LEMMA ProbeSplitChildStructInv ==
  ASSUME StructInv, NEW t \in Threads, ProbeSplitChild(t)
  PROVE  StructInv'
<1> DEFINE c == ctx[t]
           d == IF MaySplitAt(c.cur.node.items[SplitKey(c.cur.node)]) THEN At(c, "split")
                ELSE Loaded(c)
<1>1. c.pc = "probe" /\ Continue(t, d) /\ UNCHANGED <<shared, bounds>>
  BY DEF ProbeSplitChild
<1>2. /\ c \in ContextSet /\ Holds(mapping, next_unused_node_id, c)
      /\ Here(c) /\ Ready(c, "probe") /\ c.op # "none"
  BY <1>1, ThreadFacts, AtWork DEF Working
<1> HIDE DEF c
<1>3. Ready(c, "split") /\ c.cur.node.type # "remove"
  BY <1>2 DEF Ready
<1>4. Outcome(c, d)
  <2>1. Outcome(c, Loaded(c))
    BY <1>2, <1>3, LoadedOutcome
  <2> QED
    BY <1>3, <2>1 DEF Outcome, OutcomeIn, Working
<1> HIDE DEF d
<1>5. ContextOK(mapping, next_unused_node_id, d)
  BY <1>2, <1>4, ThreadFacts, OutcomeOK
<1> QED
  BY <1>1, <1>5, LocalStep DEF shared, bounds, StructInv

LEMMA PostSplitNodeStructInv ==
  ASSUME StructInv, NEW t \in Threads, PostSplitNode(t)
  PROVE  StructInv'
<1> DEFINE c == ctx[t]
           next == next_unused_node_id
           n == c.cur.node
           id == c.cur.id
<1>1. /\ c.pc = "split"
      /\ IF Current(c.cur)
         THEN /\ next <= MaxId
              /\ mapping' = [mapping EXCEPT ![next] = SplitSibling(n), ![id] = SplitNode(n, next)]
              /\ ctx' = [u \in Threads |-> IF u = t THEN Abort(c) ELSE Outdated(ctx[u], id)]
              /\ next_unused_node_id' = next + 1
         ELSE UNCHANGED <<mapping, next_unused_node_id>> /\ Continue(t, Loaded(c))
      /\ UNCHANGED <<root_id, blocked, contents, released, lru_cache, bounds>>
  BY DEF PostSplitNode
<1>2. /\ c \in ContextSet /\ Holds(mapping, next, c) /\ Here(c) /\ Ready(c, "split") /\ c.op # "none"
      /\ TreeOK(mapping, next, root_id) /\ DOMAIN mapping = NodeIds /\ next \in 1 .. MaxId + 1
  BY <1>1, ThreadFacts, AtWork DEF Working
<1>3. CASE ~Current(c.cur)
  <2>1. Outcome(c, Loaded(c))
    BY <1>2, LoadedOutcome DEF Ready
  <2>2. ContextOK(mapping, next, Loaded(c))
    <3> HIDE DEF c
    <3> QED
      BY <1>2, <2>1, OutcomeOK
  <2> QED
    BY <1>1, <1>3, <2>2, LocalStep DEF bounds, StructInv
<1>4. CASE Current(c.cur)
  <2>1. next \in NodeIds
    BY <1>1, <1>2, <1>4, MaxIdType DEF NodeIds
  <2>2. /\ Sound(mapping, next, n) /\ Kin(mapping[id], n) /\ id \in InUse(next) /\ MaySplit(n)
    BY <1>2 DEF Holds, Here, Taken, Ready
  <2>3. /\ Grows(mapping, next, mapping', next + 1)
        /\ Sound(mapping', next + 1, SplitSibling(n)) /\ Sound(mapping', next + 1, SplitNode(n, next))
        /\ mapping'[next] = SplitSibling(n) /\ mapping'[id] = SplitNode(n, next)
        /\ \A i \in NodeIds \ {next, id} : mapping'[i] = mapping[i]
    <3>1. mapping' = SplitTable(mapping, next, id, n)
      BY <1>1, <1>4 DEF SplitTable
    <3>2. /\ Sound(mapping, next, n) /\ Kin(mapping[id], n) /\ MaySplit(n)
          /\ next \in NodeIds /\ id \in InUse(next) /\ DOMAIN mapping = NodeIds
      BY <1>2, <2>1, <2>2
    <3> HIDE DEF n, id, c, next
    <3> QED
      BY <3>1, <3>2, SplitSound
  <2>4. DOMAIN mapping' = NodeIds
    BY <1>1, <1>2, <1>4
  <2>5. TreeOK(mapping', next + 1, root_id)
    <3>1. \A i \in NodeIds : mapping'[i] = mapping[i] \/ Sound(mapping', next + 1, mapping'[i])
      BY <2>3
    <3> HIDE DEF n, id, c
    <3> QED
      BY <1>2, <2>1, <2>3, <2>4, <3>1, AllocateTreeOK
  <2>6. ContextOK(mapping', next + 1, Abort(c))
    BY <1>2, AbortOK
  <2>7. /\ DOMAIN ctx' = Threads /\ ctx'[t] = Abort(c)
        /\ \A u \in Threads \ {t} : ctx'[u] \in ContextSet /\ SameView(ctx[u], ctx'[u])
    BY <1>1, <1>4, ThreadFacts, OutdatedFields
  <2> QED
    BY <1>1, <1>4, <2>3, <2>5, <2>6, <2>7, StructStep DEF StructInv, bounds
<1> QED
  BY <1>3, <1>4

LEMMA PostAbortOnParentStructInv ==
  ASSUME StructInv, NEW t \in Threads, PostAbortOnParent(t)
  PROVE  StructInv'
<1> DEFINE c == ctx[t]
<1>1. /\ c.pc = "abortPost"
      /\ IF Current(c.par)
         THEN blocked' = blocked \cup {c.par.id} /\ Continue(t, At(c, "removePost"))
         ELSE UNCHANGED blocked /\ Continue(t, Abort(c))
      /\ UNCHANGED <<root_id, mapping, next_unused_node_id, contents, released, lru_cache, bounds>>
  BY DEF PostAbortOnParent
<1>2. /\ c \in ContextSet /\ Holds(mapping, next_unused_node_id, c)
      /\ Here(c) /\ Ready(c, "abortPost") /\ c.op # "none"
  BY <1>1, ThreadFacts, AtWork DEF Working
<1>3. CASE ~Current(c.par)
  BY <1>1, <1>2, <1>3, AbortStep DEF bounds, StructInv
<1>4. CASE Current(c.par)
  <2>1. c.par.id \in NodeIds /\ Ready(c, "removePost")
    BY <1>2 DEF Ready, HasParentNode
  <2>2. ContextOK(mapping, next_unused_node_id, At(c, "removePost"))
    <3>1. "removePost" \in Working
      BY DEF Working
    <3> HIDE DEF c
    <3> QED
      BY <1>2, <2>1, <3>1, AtOK
  <2>3. blocked' \subseteq NodeIds
    BY <1>1, <1>4, <2>1 DEF StructInv
  <2> QED
    BY <1>1, <1>4, <2>2, <2>3, LocalStep DEF bounds, StructInv
<1> QED
  BY <1>3, <1>4

LEMMA PostRemoveNodeStructInv ==
  ASSUME StructInv, NEW t \in Threads, PostRemoveNode(t)
  PROVE  StructInv'
<1> DEFINE c == ctx[t]
           n == RemoveNode(c.cur.node)
<1>1. /\ c.pc = "removePost"
      /\ IF Current(c.cur) THEN Install(t, c.cur.id, n, At(c, "abortUndo"))
         ELSE UNCHANGED mapping /\ Continue(t, At(c, "abortUndo"))
      /\ UNCHANGED <<root_id, blocked, next_unused_node_id, contents, released, lru_cache, bounds>>
  BY DEF PostRemoveNode
<1>2. /\ c \in ContextSet /\ Holds(mapping, next_unused_node_id, c)
      /\ Here(c) /\ Ready(c, "removePost") /\ c.op # "none"
  BY <1>1, ThreadFacts, AtWork DEF Working
<1>3. ContextOK(mapping, next_unused_node_id, At(c, "abortUndo"))
  <2>1. Ready(c, "abortUndo") /\ "abortUndo" \in Working
    BY <1>2 DEF Ready, Working
  <2> HIDE DEF c
  <2> QED
    BY <1>2, <2>1, AtOK
<1>4. /\ Sound(mapping, next_unused_node_id, c.cur.node) /\ Kin(mapping[c.cur.id], c.cur.node)
      /\ c.cur.id \in InUse(next_unused_node_id)
  BY <1>2 DEF Holds, Here, Taken
<1>5. Sound(mapping, next_unused_node_id, n) /\ Kin(mapping[c.cur.id], n)
  BY <1>4, RemoveNodeSound, KinTransitive
<1> HIDE DEF n, c
<1>6. CASE Current(c.cur)
  BY <1>1, <1>3, <1>4, <1>5, <1>6, InstallStep DEF StructInv
<1>7. CASE ~Current(c.cur)
  BY <1>1, <1>3, <1>7, LocalStep DEF bounds, StructInv
<1> QED
  BY <1>6, <1>7

LEMMA RemoveAbortOnParentStructInv ==
  ASSUME StructInv, NEW t \in Threads, RemoveAbortOnParent(t)
  PROVE  StructInv'
<1>1. ctx[t].op # "none"
  <2>1. ctx[t].pc = "abortUndo"
    BY DEF RemoveAbortOnParent
  <2> QED
    BY <2>1, AtWork DEF Working
<1> QED
  BY <1>1, AbortStep DEF RemoveAbortOnParent, bounds, StructInv

LEMMA IdleContextOK ==
  ASSUME NEW m, NEW next
  PROVE  ContextOK(m, next, IdleContext)
<1> DEFINE d == IdleContext
<1>1. d \in ContextSet /\ d.pc = "idle" /\ d.cur = NoSnap /\ d.par = NoSnap /\ d.pending = <<>>
  BY IdleContextType DEF IdleContext
<1> HIDE DEF d
<1>2. d.cur.id \notin NodeIds /\ d.cur.id \in 0 .. MaxId /\ ~HasParentNode(d)
  BY <1>1, SnapTypes, MaxIdType DEF HasParentNode
<1>3. Holds(m, next, d)
  BY <1>1, <1>2 DEF Holds
<1>4. Placed(m, next, d)
  BY <1>1 DEF Placed, Working
<1> QED
  BY <1>1, <1>3, <1>4 DEF ContextOK, d

LEMMA ReturnStructInv ==
  ASSUME StructInv, NEW t \in Threads, Return(t)
  PROVE  StructInv'
BY IdleContextOK, LocalStep DEF Return, shared, bounds, StructInv

LEMMA ReferOK ==
  ASSUME NEW m, NEW next, NEW cache, CacheOK(m, next, cache),
         NEW k \in Nat, NEW id, InnerId(m, next, id), LeadsTo(m, next, id, k)
  PROVE  CacheOK(m, next, Refer(cache, k, id))
<1> DEFINE E == Nat \X InUse(next)
           n == Len(cache)
           at == {i \in DOMAIN cache : cache[i][1] = k}
           rest == IF at # {} THEN RemoveAt(cache, Min(at))
                   ELSE IF n = CacheSize THEN Front(cache) ELSE cache
           Sub(i, j) == SubSeq(cache, i, j)
<1>1. cache \in Seq(E) /\ n \in Nat /\ n <= CacheSize /\ DOMAIN cache = 1 .. n
      /\ \A i \in 1 .. n : cache[i] \in E
  BY DEF CacheOK
<1>2. CacheSize \in Nat /\ CacheSize >= 1
  BY BwTreeAssumption DEF BwTreeAssumption
<1> HIDE DEF E, n
<1>3. ASSUME NEW i \in 1 .. n + 1, NEW j \in 0 .. n
      PROVE  /\ Sub(i, j) \in Seq(E) /\ Len(Sub(i, j)) = IF i <= j THEN j - i + 1 ELSE 0
             /\ \A x \in 1 .. Len(Sub(i, j)) : Sub(i, j)[x] \in ToSet(cache)
  <2>1. i \in Int /\ j \in Int /\ \A x \in i .. j : cache[x] \in E
    BY <1>1
  <2>2. /\ Sub(i, j) \in Seq(E) /\ Len(Sub(i, j)) = IF i <= j THEN j - i + 1 ELSE 0
        /\ \A x \in 1 .. j - i + 1 : Sub(i, j)[x] = cache[i + x - 1]
    BY <2>1, SubSeqProperties
  <2>3. ASSUME NEW x \in 1 .. Len(Sub(i, j)) PROVE Sub(i, j)[x] \in ToSet(cache)
    <3>1. x \in 1 .. j - i + 1 /\ i + x - 1 \in 1 .. n
      BY <2>2, <1>1
    <3> QED
      BY <1>1, <2>2, <3>1 DEF ToSet
  <2> QED
    BY <2>2, <2>3
<1>4. /\ rest \in Seq(E) /\ Len(rest) < CacheSize
      /\ \A x \in 1 .. Len(rest) : rest[x] \in ToSet(cache)
  <2>1. CASE at # {}
    <3> DEFINE p == Min(at)
               s1 == Sub(1, p - 1)
               s2 == Sub(p + 1, n)
    <3>1. p \in at
      <4>1. at \in SUBSET Nat
        BY <1>1
      <4> HIDE DEF at
      <4> QED
        BY <2>1, <4>1, MinIn
    <3>2. p \in 1 .. n /\ p - 1 \in 0 .. n /\ p + 1 \in 1 .. n + 1 /\ 1 \in 1 .. n + 1 /\ n \in 0 .. n
      BY <1>1, <3>1
    <3>3. rest = s1 \o s2
      BY <2>1 DEF RemoveAt, n
    <3> HIDE DEF p, Sub, rest
    <3>4. /\ s1 \in Seq(E) /\ Len(s1) = IF 1 <= p - 1 THEN p - 1 - 1 + 1 ELSE 0
          /\ \A x \in 1 .. Len(s1) : s1[x] \in ToSet(cache)
      BY <1>3, <3>2
    <3>5. /\ s2 \in Seq(E) /\ Len(s2) = IF p + 1 <= n THEN n - (p + 1) + 1 ELSE 0
          /\ \A x \in 1 .. Len(s2) : s2[x] \in ToSet(cache)
      BY <1>3, <3>2
    <3> HIDE DEF s1, s2
    <3>6. /\ rest \in Seq(E) /\ Len(rest) = Len(s1) + Len(s2)
          /\ \A x \in 1 .. Len(s1) + Len(s2) :
               rest[x] = IF x <= Len(s1) THEN s1[x] ELSE s2[x - Len(s1)]
      BY <3>3, <3>4, <3>5, ConcatProperties
    <3>7. Len(s1) \in Nat /\ Len(s2) \in Nat /\ Len(rest) = n - 1
      <4>1. p \in Nat /\ n \in Nat /\ 1 <= p /\ p <= n
        BY <1>1, <3>2
      <4>2. Len(s1) = p - 1 /\ Len(s2) = n - p
        BY <3>4, <3>5, <4>1
      <4> QED
        BY <3>6, <4>1, <4>2
    <3>8. ASSUME NEW x \in 1 .. Len(rest) PROVE rest[x] \in ToSet(cache)
      <4>1. CASE x <= Len(s1)
        <5>1. x \in 1 .. Len(s1) /\ x \in 1 .. Len(s1) + Len(s2)
          BY <3>6, <3>7, <4>1
        <5> QED
          BY <3>4, <3>6, <4>1, <5>1
      <4>2. CASE x > Len(s1)
        <5>1. x - Len(s1) \in 1 .. Len(s2) /\ ~(x <= Len(s1)) /\ x \in 1 .. Len(s1) + Len(s2)
          BY <3>6, <3>7, <4>2
        <5> QED
          BY <3>5, <3>6, <5>1
      <4> QED
        BY <3>7, <4>1, <4>2
    <3> QED
      BY <1>1, <1>2, <3>6, <3>7, <3>8
  <2>2. CASE at = {} /\ n = CacheSize
    <3>1. rest = Sub(1, n - 1) /\ n - 1 \in 0 .. n /\ 1 \in 1 .. n + 1
      BY <1>1, <1>2, <2>2 DEF Front, n
    <3>2. n - 1 < CacheSize /\ Len(rest) = IF 1 <= n - 1 THEN n - 1 - 1 + 1 ELSE 0
      BY <1>1, <1>2, <1>3, <3>1
    <3>3. Len(rest) < CacheSize
      <4> HIDE DEF rest
      <4> QED
        BY <1>1, <1>2, <3>2
    <3> HIDE DEF Sub, rest
    <3> QED
      BY <1>3, <3>1, <3>3
  <2>3. CASE at = {} /\ n # CacheSize
    <3>1. rest = cache
      BY <2>3
    <3>2. n < CacheSize
      BY <1>1, <1>2, <2>3
    <3>3. \A x \in 1 .. n : cache[x] \in ToSet(cache)
      BY <1>1 DEF ToSet
    <3> HIDE DEF rest
    <3> QED
      BY <1>1, <3>1, <3>2, <3>3
  <2> QED
    BY <2>1, <2>2, <2>3
<1> DEFINE new == Refer(cache, k, id)
           one == <<<<k, id>>>>
<1>5. new = one \o rest
  BY DEF Refer, n
<1>6. one \in Seq(E) /\ Len(one) = 1 /\ one[1] = <<k, id>>
  BY DEF InnerId, E
<1> HIDE DEF rest, new, one
<1>7. /\ new \in Seq(E) /\ Len(new) = 1 + Len(rest)
      /\ \A x \in 1 .. 1 + Len(rest) : new[x] = IF x <= 1 THEN one[x] ELSE rest[x - 1]
  <2>1. /\ new \in Seq(E) /\ Len(new) = Len(one) + Len(rest)
        /\ \A x \in 1 .. Len(one) + Len(rest) :
             new[x] = IF x <= Len(one) THEN one[x] ELSE rest[x - Len(one)]
    BY <1>4, <1>5, <1>6, ConcatProperties
  <2> QED
    BY <1>6, <2>1
<1>8. Len(rest) \in Nat /\ Len(new) <= CacheSize /\ DOMAIN new = 1 .. 1 + Len(rest)
  BY <1>2, <1>4, <1>7
<1>9. ASSUME NEW e \in ToSet(new) PROVE e = <<k, id>> \/ e \in ToSet(cache)
  <2>1. PICK x \in 1 .. 1 + Len(rest) : e = new[x]
    BY <1>8 DEF ToSet
  <2>2. CASE x = 1
    BY <1>6, <1>7, <2>1, <2>2
  <2>3. CASE x # 1
    <3>1. x - 1 \in 1 .. Len(rest) /\ ~(x <= 1)
      BY <1>8, <2>3
    <3> QED
      BY <1>4, <1>7, <2>1, <3>1
  <2> QED
    BY <2>2, <2>3
<1>10. \A e \in ToSet(new) : InnerId(m, next, e[2]) /\ LeadsTo(m, next, e[2], e[1])
  BY <1>9 DEF CacheOK
<1> QED
  BY <1>7, <1>8, <1>10 DEF CacheOK, new, E

LEMMA PostLeafNodeStructInv ==
  ASSUME StructInv, NEW t \in Threads, PostLeafNode(t)
  PROVE  StructInv'
<1> DEFINE c == ctx[t]
           k == c.key
           next == next_unused_node_id
           inserts == Promised(c.op) = "insert"
           n == IF inserts THEN LeafInsertNode(c.cur.node, k) ELSE LeafDeleteNode(c.cur.node, k)
           d == [c EXCEPT !.seen = {(k \in contents)}]
<1>1. /\ c.pc = "op"
      /\ IF Current(c.cur)
         THEN /\ mapping' = [mapping EXCEPT ![c.cur.id] = n]
              /\ contents' = IF inserts THEN contents \cup {k} ELSE contents \ {k}
              /\ ctx' = [u \in Threads |->
                   IF u = t THEN Done(d, TRUE) ELSE Observe(Outdated(ctx[u], c.cur.id), k, contents')]
              /\ lru_cache' = IF c.op = "insertLRU"
                             THEN [lru_cache EXCEPT ![t] = Refer(@, k, CachedNode(c))]
                             ELSE lru_cache
         ELSE UNCHANGED <<mapping, contents, lru_cache>> /\ Continue(t, Begin(c, lru_cache[t]))
      /\ UNCHANGED <<root_id, blocked, next_unused_node_id, released, bounds>>
  BY DEF PostLeafNode
<1>2. /\ c \in ContextSet /\ Holds(mapping, next, c) /\ Here(c) /\ Ready(c, "op") /\ c.op # "none"
      /\ TreeOK(mapping, next, root_id) /\ next \in 1 .. MaxId + 1 /\ next \in Nat
      /\ CacheOK(mapping, next, lru_cache[t])
  BY <1>1, ThreadFacts, AtWork DEF Working
<1>3. k \in Nat
  BY <1>2 DEF ContextSet
<1>4. CASE ~Current(c.cur)
  <2>1. ContextOK(mapping, next, Begin(c, lru_cache[t]))
    BY <1>2, BeginOK
  <2> QED
    BY <1>1, <1>4, <2>1, LocalStep DEF bounds, StructInv
<1>5. CASE Current(c.cur)
  <2>1. /\ Sound(mapping, next, c.cur.node) /\ Kin(mapping[c.cur.id], c.cur.node)
        /\ c.cur.id \in InUse(next) /\ IsLeaf(c.cur.node) /\ c.cur.node.low <= k
        /\ InRange(c.cur.node, k) /\ c.pending = <<>> /\ HasParentNode(c)
    BY <1>2 DEF Holds, Here, Taken, Ready
  <2>2. Sound(mapping, next, n) /\ Kin(c.cur.node, n)
    BY <1>3, <2>1, LeafInsertNodeSound, LeafDeleteNodeSound
  <2>3. Kin(mapping[c.cur.id], n)
    BY <2>1, <2>2, KinTransitive
  <2>4. TreeOK(mapping', next, root_id) /\ Grows(mapping, next, mapping', next)
    <3>1. mapping' = [mapping EXCEPT ![c.cur.id] = n]
      BY <1>1, <1>5
    <3> HIDE DEF n, c
    <3> QED
      BY <1>2, <2>1, <2>2, <2>3, <3>1, InstallTreeOK
  <2>5. contents' \in SUBSET Nat
    BY <1>1, <1>3, <1>5 DEF StructInv
  <2>6. ContextOK(mapping', next, Done(d, TRUE))
    <3>1. {(k \in contents)} \in SUBSET BOOLEAN
      OBVIOUS
    <3>2. d \in ContextSet /\ d.op = c.op /\ d.pending = c.pending
      <4> HIDE DEF c, k
      <4> QED
        BY <1>2, <3>1 DEF ContextSet
    <3> HIDE DEF d
    <3> QED
      BY <1>2, <2>1, <3>2, DoneOK
  <2>7. ASSUME NEW u \in Threads \ {t} PROVE ctx'[u] \in ContextSet /\ SameView(ctx[u], ctx'[u])
    <3> DEFINE o == Outdated(ctx[u], c.cur.id)
               S == contents'
    <3>1. ctx'[u] = Observe(o, k, S)
      BY <1>1, <1>5
    <3>2. o \in ContextSet /\ SameView(ctx[u], o)
      BY ThreadFacts, OutdatedFields
    <3>3. S \in SUBSET Nat
      BY <2>5
    <3> HIDE DEF o, S, k
    <3>4. ctx'[u] \in ContextSet /\ SameView(o, ctx'[u])
      BY <3>1, <3>2, <3>3, ObserveFields
    <3> QED
      BY <3>2, <3>4 DEF SameView
  <2>8. DOMAIN ctx' = Threads /\ ctx'[t] = Done(d, TRUE)
    BY <1>1, <1>5
  <2>9. /\ DOMAIN lru_cache' = Threads
        /\ \A u \in Threads : lru_cache'[u] = lru_cache[u]
                              \/ CacheOK(mapping', next, lru_cache'[u])
    <3>1. DOMAIN lru_cache = Threads
      BY DEF StructInv
    <3>2. CASE c.op = "insertLRU"
      <4>1. lru_cache' = [lru_cache EXCEPT ![t] = Refer(lru_cache[t], k, c.par.id)]
        BY <1>1, <1>5, <3>2 DEF CachedNode
      <4>2. InnerId(mapping, next, c.par.id) /\ LeadsTo(mapping, next, c.par.id, k)
        <5>1. Taken(mapping, next, c.par.id, c.par.node) /\ ~IsLeaf(c.par.node)
              /\ c.par.node.low <= c.cur.node.low
          BY <1>2, <2>1 DEF Holds, Here
        <5>2. c.par.node.low \in Nat /\ c.cur.node.low \in Nat
          BY <1>2 DEF ContextSet, SnapSet, AnyNode
        <5>3. mapping[c.par.id].low <= k /\ ~IsLeaf(mapping[c.par.id]) /\ c.par.id \in InUse(next)
          BY <1>3, <2>1, <5>1, <5>2 DEF Taken, Kin, IsLeaf
        <5> QED
          BY <5>3 DEF InnerId, LeadsTo
      <4>3. CacheOK(mapping, next, Refer(lru_cache[t], k, c.par.id))
        BY <1>2, <1>3, <4>2, ReferOK
      <4>4. CacheOK(mapping', next, Refer(lru_cache[t], k, c.par.id))
        BY <2>4, <4>3, CacheGrows
      <4> QED
        BY <3>1, <4>1, <4>4
    <3>3. CASE c.op # "insertLRU"
      BY <1>1, <1>5, <3>1, <3>3
    <3> QED
      BY <3>2, <3>3
  <2> HIDE DEF c, d, n
  <2> QED
    BY <1>1, <1>5, <2>4, <2>5, <2>6, <2>7, <2>8, <2>9, StructStep DEF StructInv, bounds
<1> QED
  BY <1>4, <1>5

LEMMA StepStructInv ==
  ASSUME StructInv, NEW t \in Threads, Step(t)
  PROVE  StructInv'
BY CacheHitStructInv, LoadRootStructInv, LoadNodeIDStructInv, JumpToNodeIDStructInv,
   JumpToLeftSiblingStructInv, ConsolidateParentStructInv, PostMergeNodeStructInv,
   CheckMergeStructInv, PostInnerDeleteNodeStructInv, PostInnerInsertNodeStructInv,
   InstallRootNodeStructInv, ConsolidateNodeStructInv, ProbeSplitChildStructInv,
   PostSplitNodeStructInv, PostAbortOnParentStructInv, PostRemoveNodeStructInv,
   RemoveAbortOnParentStructInv, PostLeafNodeStructInv, ReturnStructInv DEF Step

LEMMA NextStructInv ==
  ASSUME StructInv, [Next]_vars
  PROVE  StructInv'
<1>1. ASSUME NEW t \in Threads, Start(t) PROVE StructInv'
  BY <1>1, StartStructInv
<1>2. ASSUME NEW t \in Threads, Step(t) PROVE StructInv'
  BY <1>2, StepStructInv
<1>3. ASSUME UNCHANGED vars PROVE StructInv'
  BY <1>3 DEF vars, shared, bounds, StructInv
<1> QED
  BY <1>1, <1>2, <1>3 DEF Next

LEMMA InitStructInv ==
  ASSUME Init
  PROVE  StructInv
<1>1. PICK s \in Scenarios :
        /\ root_id = s.tree.root /\ mapping = s.tree.mapping
        /\ next_unused_node_id = s.tree.next
        /\ lru_cache = [t \in Threads |-> s.cache] /\ requests = s.requests /\ left = s.ops
  BY DEF Init
<1>2. WellFormed(s.tree) /\ WellCached(s.tree, s.cache)
  BY ScenarioAssumption
<1>3. TreeOK(mapping, next_unused_node_id, root_id)
  BY <1>1, <1>2 DEF WellFormed, TreeOK, StartsAt, InnerId
<1>4. CacheOK(mapping, next_unused_node_id, s.cache)
  <2>1. /\ s.cache \in Seq(Nat \X InUse(next_unused_node_id)) /\ Len(s.cache) <= CacheSize
        /\ \A e \in ToSet(s.cache) : ~IsLeaf(mapping[e[2]]) /\ mapping[e[2]].low <= e[1]
    BY <1>1, <1>2 DEF WellCached
  <2>2. \A e \in ToSet(s.cache) : e[2] \in InUse(next_unused_node_id)
    <3>1. DOMAIN s.cache = 1 .. Len(s.cache)
          /\ \A i \in 1 .. Len(s.cache) : s.cache[i] \in Nat \X InUse(next_unused_node_id)
      BY <2>1
    <3> QED
      BY <3>1 DEF ToSet
  <2> QED
    BY <2>1, <2>2 DEF CacheOK, InnerId, LeadsTo
<1>5. contents \subseteq Nat
  <2>1. PICK leaves \in SUBSET InUse(next_unused_node_id) :
          LeavesLinked(mapping, next_unused_node_id, leaves)
    BY <1>1, <1>2 DEF WellFormed
  <2>2. LeafIds = leaves
    BY <1>3, <2>1, LeafIdsAreLinked DEF TreeOK
  <2>3. \A i \in InUse(next_unused_node_id) : Seps(mapping[i]) \in SUBSET Nat
    BY <1>3 DEF TreeOK, Sound, IsNode
  <2>4. contents = UNION {Seps(mapping[id]) : id \in LeafIds}
    BY DEF Init
  <2> QED
    BY <2>2, <2>3, <2>4
<1>6. requests \subseteq (Ops \ {"none"}) \X (Nat \ {0}) /\ left \in Nat
  <2>1. s.requests \subseteq {"insert", "insertLRU", "delete", "get", "scan"} \X (Nat \ {0})
        /\ s.ops \in Nat
    BY BwTreeAssumption DEF BwTreeAssumption
  <2>2. {"insert", "insertLRU", "delete", "get", "scan"} \subseteq Ops \ {"none"}
    BY DEF Ops
  <2> QED
    BY <1>1, <2>1, <2>2
<1>7. ContextOK(mapping, next_unused_node_id, IdleContext)
  BY IdleContextOK
<1> QED
  BY <1>1, <1>3, <1>4, <1>5, <1>6, <1>7 DEF Init, StructInv

LEMMA StructAlways == Spec => []StructInv
BY InitStructInv, NextStructInv, PTL DEF Spec

-----------------------------------------------------------------------------
(* The theorems.                                                           *)

\* Every variable keeps its type, and the node that a Context works on is one that
\* its step can handle (FinishPartialSMO(), AdjustNodeSize()).
THEOREM TreeTypeCorrect == Spec => []TypeOK
<1>1. ASSUME StructInv PROVE TypeOK
  <2>1. root_id \in NodeIds /\ \A i \in NodeIds : IsNode(mapping[i])
    <3>1. root_id \in InUse(next_unused_node_id) /\ next_unused_node_id \in 1 .. MaxId + 1
      BY <1>1 DEF StructInv, TreeOK, InnerId
    <3> QED
      BY <1>1, <3>1, MaxIdType DEF StructInv, TreeOK, InUse, NodeIds
  <2>2. ASSUME NEW t \in Threads
        PROVE  lru_cache[t] \in Seq(Nat \X NodeIds) /\ Len(lru_cache[t]) <= CacheSize
    <3>1. CacheOK(mapping, next_unused_node_id, lru_cache[t]) /\ next_unused_node_id \in 1 .. MaxId + 1
      BY <1>1 DEF StructInv, TreeOK
    <3>2. InUse(next_unused_node_id) \subseteq NodeIds
      BY <3>1, MaxIdType DEF InUse, NodeIds
    <3>3. Nat \X InUse(next_unused_node_id) \subseteq Nat \X NodeIds
      BY <3>2
    <3> QED
      BY <3>1, <3>3 DEF CacheOK
  <2>3. ASSUME NEW t \in Threads
        PROVE  LET c == ctx[t] IN
               /\ c.pc \in PCs
               /\ IsSnap(c.cur) /\ IsSnap(c.par)
               /\ c.to \in 0 .. MaxId /\ c.res \in BOOLEAN /\ c.seen \subseteq BOOLEAN
               /\ c.pc \in {"mergeCheck", "postDelete"} => c.cur.node.type = "merge"
               /\ c.pc \in {"postInsert", "newRoot"} => c.cur.node.type = "split"
               /\ c.pc \in {"split", "probe", "removePost"} => c.cur.node.type = "base"
               /\ c.pc = "op" => IsLeaf(c.cur.node)
    <3> DEFINE c == ctx[t]
    <3>1. c \in ContextSet /\ Placed(mapping, next_unused_node_id, c)
      BY <1>1, ThreadFacts
    <3> HIDE DEF c
    <3>2. c.cur \in SnapSet /\ c.par \in SnapSet
      BY <3>1 DEF ContextSet
    <3>3. IsSnap(c.cur) /\ IsSnap(c.par)
      BY <3>2, IsNodeDef DEF SnapSet, IsSnap
    <3>4. c.pc \in Working => Ready(c, c.pc)
      BY <3>1 DEF Placed
    <3>5. /\ c.pc \in {"mergeCheck", "postDelete"} => c.cur.node.type = "merge"
          /\ c.pc \in {"postInsert", "newRoot"} => c.cur.node.type = "split"
          /\ c.pc \in {"split", "probe", "removePost"} => c.cur.node.type = "base"
          /\ c.pc = "op" => IsLeaf(c.cur.node)
      BY <3>4 DEF Ready, Working
    <3> QED
      BY <3>1, <3>3, <3>5 DEF ContextSet, c
  <2> QED
    BY <1>1, <2>1, <2>2, <2>3 DEF TypeOK, StructInv, TreeOK
<1> QED
  BY <1>1, StructAlways, PTL

\* Every item of a live inner node leads to a node that starts at its separator,
\* however many splits, merges and new roots are half done: the index terms are
\* posted where they belong (PostInnerInsertNode(), PostInnerDeleteNode()).
THEOREM SeparatorsLeadExactly == Spec => []SeparatorsExact
<1>1. ASSUME StructInv PROVE SeparatorsExact
  <2> SUFFICES ASSUME NEW p \in LiveIds, ~IsLeaf(mapping[p]), NEW s \in Seps(mapping[p])
               PROVE  mapping[mapping[p].items[s]].low = s
    BY DEF SeparatorsExact
  <2>1. p \in InUse(next_unused_node_id)
    BY <1>1 DEF LiveIds, Live, NodeIds, InUse, StructInv, TreeOK
  <2>2. Sound(mapping, next_unused_node_id, mapping[p])
    BY <1>1, <2>1 DEF StructInv, TreeOK
  <2> QED
    BY <2>2 DEF Sound, SoundChildren, StartsAt
<1> QED
  BY <1>1, StructAlways, PTL

-----------------------------------------------------------------------------
(* The keys in the leaves: the invariant.                                  *)

\* The leaves that are not merged yet hold the keys.
LeafKeys(m, leaves) == UNION {Seps(m[i]) : i \in leaves}
Linked(m, next, keys) ==
  \E leaves \in SUBSET InUse(next) : LeavesLinked(m, next, leaves) /\ keys = LeafKeys(m, leaves)

\* A fresh snapshot of a leaf is what the mapping table holds, except after the
\* thread's own PostRemoveNode(); and a removed leaf does not change any more.
AtLeaf(c) == c.cur.id \in NodeIds /\ IsLeaf(c.cur.node)
FreshKnown(m, c) == AtLeaf(c) /\ c.cur.fresh => c.cur.node = m[c.cur.id]
RemovedKnown(m, c) ==
  /\ AtLeaf(c) /\ c.cur.node.type = "remove" => c.cur.node = m[c.cur.id]
  /\ \A i \in 1 .. Len(c.pending) :
       IsLeaf(c.pending[i][2]) => c.pending[i][2] = m[c.pending[i][1]]
LeafKnown(m, c) == (c.pc # "abortUndo" => FreshKnown(m, c)) /\ RemovedKnown(m, c)

\* What a leaf in hand says of its keys was so at some moment since the call, and
\* it has every key of its range that was there all the time.
LeafClaim(c) ==
  LET n == c.cur.node IN
  AtLeaf(c) /\ n.type # "remove" =>
    /\ c.op # "scan" /\ InRange(n, c.key) => (c.key \in Seps(n)) \in c.seen
    /\ c.op = "scan" => /\ Seps(n) \subseteq c.ever
                        /\ \A k \in c.steady : n.low <= k /\ InRange(n, k) => k \in Seps(n)

Increasing(s) == \A i, j \in 1 .. Len(s) : i < j => s[i] < s[j]
\* The pages of an iteration so far.
Yields(c, keys) ==
  /\ ToSet(c.got) \subseteq c.ever /\ Increasing(c.got)
  /\ c.pc # "done" => /\ c.steady \subseteq keys /\ keys \subseteq c.ever
                      /\ \A k \in ToSet(c.got) : k < c.key
                      /\ \A k \in c.steady : k < c.key => k \in ToSet(c.got)
  /\ c.pc = "done" => c.steady \subseteq ToSet(c.got)

Sees(c, keys) ==
  /\ LeafClaim(c)
  /\ c.op = "scan" => Yields(c, keys)
  /\ c.op # "scan" /\ c.pc \notin {"idle", "done"} => (c.key \in keys) \in c.seen
  /\ c.op # "scan" /\ c.pc # "done" => c.res = FALSE

ContentsInv ==
  /\ Linked(mapping, next_unused_node_id, contents)
  /\ requests \in {s.requests : s \in Scenarios}
  /\ \A t \in Threads : LeafKnown(mapping, ctx[t]) /\ Sees(ctx[t], contents)

\* The parts of TreeOK() that the arguments about leaves need.
SoundTable(m, next) ==
  next \in 1 .. MaxId + 1 /\ DOMAIN m = NodeIds /\ \A i \in InUse(next) : Sound(m, next, m[i])

-----------------------------------------------------------------------------
(* The linked leaves.                                                      *)

LEMMA TableFacts ==
  ASSUME NEW m, NEW next, SoundTable(m, next)
  PROVE  /\ \A i \in InUse(next) :
              /\ i \in NodeIds /\ i # INVALID_NODE_ID /\ m[i] \in AnyNode
              /\ m[i].low \in Nat /\ m[i].high[1] \in Nat
              /\ Seps(m[i]) \in SUBSET Nat
              /\ \A k \in Seps(m[i]) : m[i].low <= k /\ InRange(m[i], k)
         /\ next \in Nat
<1>1. next \in Nat /\ \A i \in InUse(next) : i \in NodeIds /\ i # INVALID_NODE_ID
  BY MaxIdType DEF SoundTable, InUse, NodeIds
<1>2. ASSUME NEW i \in InUse(next)
      PROVE  /\ m[i] \in AnyNode /\ m[i].low \in Nat /\ m[i].high[1] \in Nat
             /\ Seps(m[i]) \in SUBSET Nat
             /\ \A k \in Seps(m[i]) : m[i].low <= k /\ InRange(m[i], k)
  <2>1. m[i] \in AnyNode /\ SoundItems(m[i])
    BY IsNodeDef DEF SoundTable, Sound
  <2> QED
    BY <2>1, NodeFacts DEF SoundItems
<1> QED
  BY <1>1, <1>2

\* Whether a leaf has a key of its range is whether the index has.
LEMMA LeafExact ==
  ASSUME NEW m, NEW next, SoundTable(m, next),
         NEW leaves \in SUBSET InUse(next), LeavesLinked(m, next, leaves),
         NEW id \in InUse(next), IsLeaf(m[id]), m[id].type # "remove"
  PROVE  /\ id \in leaves /\ Seps(m[id]) \subseteq LeafKeys(m, leaves)
         /\ \A j \in leaves \ {id} : \A k \in Seps(m[j]) : ~(m[id].low <= k /\ InRange(m[id], k))
         /\ \A k \in LeafKeys(m, leaves) : m[id].low <= k /\ InRange(m[id], k) => k \in Seps(m[id])
<1>1. id \in leaves
  BY DEF LeavesLinked
<1>2. ASSUME NEW j \in leaves \ {id}, NEW k \in Seps(m[j]), m[id].low <= k, InRange(m[id], k)
      PROVE  FALSE
  <2>1. /\ m[id].low \in Nat /\ m[id].high[1] \in Nat /\ m[j].low \in Nat /\ m[j].high[1] \in Nat
        /\ k \in Nat /\ m[j].low <= k /\ InRange(m[j], k)
    BY TableFacts
  <2>2. CASE m[id].low <= m[j].low
    <3>1. ~InRange(m[id], m[j].low)
      BY <1>1, <2>2 DEF LeavesLinked
    <3> QED
      BY <1>2, <2>1, <3>1 DEF InRange
  <2>3. CASE m[j].low <= m[id].low
    <3>1. ~InRange(m[j], m[id].low)
      BY <1>1, <2>3 DEF LeavesLinked
    <3> QED
      BY <1>2, <2>1, <3>1 DEF InRange
  <2> QED
    BY <2>1, <2>2, <2>3
<1>3. Seps(m[id]) \subseteq LeafKeys(m, leaves)
  BY <1>1 DEF LeafKeys
<1>4. ASSUME NEW k \in LeafKeys(m, leaves), m[id].low <= k, InRange(m[id], k)
      PROVE  k \in Seps(m[id])
  BY <1>2, <1>4 DEF LeafKeys
<1> QED
  BY <1>1, <1>2, <1>3, <1>4

\* A new node with the same kind and range in place of a leaf that is not removed,
\* or any inner node in place of another.
LEMMA LinksInstall ==
  ASSUME NEW m, NEW next, SoundTable(m, next),
         NEW leaves \in SUBSET InUse(next), LeavesLinked(m, next, leaves),
         NEW id \in InUse(next), NEW n, Kin(m[id], n),
         IsLeaf(n) => m[id].type # "remove" /\ n.high = m[id].high,
         NEW m2, m2 = [m EXCEPT ![id] = n]
  PROVE  LeavesLinked(m2, next, leaves)
<1>1. m2[id] = n /\ \A i \in InUse(next) \ {id} : m2[i] = m[i]
  BY TableFacts DEF SoundTable
<1>2. IsLeaf(n) <=> IsLeaf(m[id])
  BY DEF Kin, IsLeaf
<1>3. \A i \in InUse(next) : m2[i].low = m[i].low /\ (IsLeaf(m2[i]) <=> IsLeaf(m[i]))
  BY <1>1, <1>2 DEF Kin
<1>4. id \in leaves => IsLeaf(n)
  BY <1>2 DEF LeavesLinked
<1>5. \A i \in leaves : m2[i].high = m[i].high
  BY <1>1, <1>4
<1>6. \A i \in InUse(next) \ leaves : IsLeaf(m2[i]) => m2[i].type = "remove"
  BY <1>1, <1>2 DEF LeavesLinked
<1>7. /\ \A i \in leaves : GetNextNodeID(m2[i]) = GetNextNodeID(m[i])
      /\ \A i \in leaves : \A k : InRange(m2[i], k) <=> InRange(m[i], k)
  BY <1>5 DEF GetNextNodeID, InRange
<1>0. \A i \in leaves : m2[i].low = m[i].low /\ (IsLeaf(m2[i]) <=> IsLeaf(m[i]))
  BY <1>3
<1>8. FIRST_LEAF_NODE_ID \in leaves /\ m2[FIRST_LEAF_NODE_ID].low = LowKey
  <2>1. FIRST_LEAF_NODE_ID \in leaves /\ m[FIRST_LEAF_NODE_ID].low = LowKey
    BY DEF LeavesLinked
  <2> QED
    BY <1>0, <2>1
<1>9. \A i \in leaves : IsLeaf(m2[i]) /\ GetNextNodeID(m2[i]) \in leaves \cup {INVALID_NODE_ID}
  <2>1. \A i \in leaves : IsLeaf(m[i]) /\ GetNextNodeID(m[i]) \in leaves \cup {INVALID_NODE_ID}
    BY DEF LeavesLinked
  <2> QED
    BY <1>0, <1>7, <2>1
<1>10. \A i \in leaves \ {FIRST_LEAF_NODE_ID} : \E j \in leaves : GetNextNodeID(m2[j]) = i
  BY <1>7 DEF LeavesLinked
<1>11. \A i \in leaves : \A j \in leaves \ {i} :
         m2[i].low <= m2[j].low => ~InRange(m2[i], m2[j].low)
  <2>1. \A i \in leaves : \A j \in leaves \ {i} :
          m[i].low <= m[j].low => ~InRange(m[i], m[j].low)
    BY DEF LeavesLinked
  <2> QED
    BY <1>0, <1>7, <2>1
<1> QED
  BY <1>6, <1>8, <1>9, <1>10, <1>11 DEF LeavesLinked

\* If the node has the items of the old one, too, the keys are the same.
LEMMA LinkedInstall ==
  ASSUME NEW m, NEW next, SoundTable(m, next), NEW keys, Linked(m, next, keys),
         NEW id \in InUse(next), NEW n, Kin(m[id], n),
         IsLeaf(n) => m[id].type # "remove" /\ n.high = m[id].high /\ Seps(n) = Seps(m[id]),
         NEW m2, m2 = [m EXCEPT ![id] = n]
  PROVE  Linked(m2, next, keys)
<1>1. PICK leaves \in SUBSET InUse(next) :
        LeavesLinked(m, next, leaves) /\ keys = LeafKeys(m, leaves)
  BY DEF Linked
<1>2. LeavesLinked(m2, next, leaves)
  BY <1>1, LinksInstall
<1>3. m2[id] = n /\ \A i \in InUse(next) \ {id} : m2[i] = m[i]
  BY TableFacts DEF SoundTable
<1>4. id \in leaves => IsLeaf(n)
  BY <1>1 DEF LeavesLinked, Kin, IsLeaf
<1>5. \A i \in leaves : Seps(m2[i]) = Seps(m[i])
  BY <1>3, <1>4
<1>6. keys = LeafKeys(m2, leaves)
  BY <1>1, <1>5 DEF LeafKeys
<1> QED
  BY <1>2, <1>6 DEF Linked

\* The leaf delta of an insert or a delete: one key more or less.
LEMMA LinkedUpdate ==
  ASSUME NEW m, NEW next, SoundTable(m, next), NEW keys, Linked(m, next, keys),
         NEW id \in InUse(next), NEW n, Kin(m[id], n), IsLeaf(n), m[id].type # "remove",
         n.high = m[id].high, NEW k \in Nat, m[id].low <= k, InRange(m[id], k),
         NEW m2, m2 = [m EXCEPT ![id] = n]
  PROVE  /\ Seps(n) = Seps(m[id]) \cup {k} => Linked(m2, next, keys \cup {k})
         /\ Seps(n) = Seps(m[id]) \ {k} => Linked(m2, next, keys \ {k})
<1>1. PICK leaves \in SUBSET InUse(next) :
        LeavesLinked(m, next, leaves) /\ keys = LeafKeys(m, leaves)
  BY DEF Linked
<1>2. LeavesLinked(m2, next, leaves)
  BY <1>1, LinksInstall
<1>3. m2[id] = n /\ \A i \in InUse(next) \ {id} : m2[i] = m[i]
  BY TableFacts DEF SoundTable
<1>4. IsLeaf(m[id])
  BY DEF Kin, IsLeaf
<1>5. id \in leaves /\ \A j \in leaves \ {id} : k \notin Seps(m[j])
  BY <1>1, <1>4, LeafExact
<1>6. Seps(n) = Seps(m[id]) \cup {k} => LeafKeys(m2, leaves) = keys \cup {k}
  BY <1>1, <1>3, <1>5 DEF LeafKeys
<1>7. Seps(n) = Seps(m[id]) \ {k} => LeafKeys(m2, leaves) = keys \ {k}
  BY <1>1, <1>3, <1>5 DEF LeafKeys
<1> QED
  BY <1>2, <1>6, <1>7 DEF Linked

\* A new inner node: the new root, or the right half of an inner node.
LEMMA LinkedAllocate ==
  ASSUME NEW m, NEW next \in Nat \ {0}, NEW keys, Linked(m, next, keys),
         NEW m2, \A i \in InUse(next) : m2[i] = m[i], ~IsLeaf(m2[next])
  PROVE  Linked(m2, next + 1, keys)
<1>1. PICK leaves \in SUBSET InUse(next) :
        LeavesLinked(m, next, leaves) /\ keys = LeafKeys(m, leaves)
  BY DEF Linked
<1>2. InUse(next + 1) = InUse(next) \cup {next}
  BY DEF InUse
<1>3. LeavesLinked(m2, next + 1, leaves)
  <2>1. \A i \in leaves : m2[i] = m[i]
    OBVIOUS
  <2>2. \A i \in InUse(next + 1) \ leaves : IsLeaf(m2[i]) => m2[i].type = "remove"
    BY <1>1, <1>2 DEF LeavesLinked
  <2>3. FIRST_LEAF_NODE_ID \in leaves
    BY <1>1 DEF LeavesLinked
  <2>4. \A i \in leaves \ {FIRST_LEAF_NODE_ID} : \E j \in leaves : GetNextNodeID(m2[j]) = i
    BY <1>1, <2>1 DEF LeavesLinked
  <2> QED
    BY <1>1, <2>1, <2>2, <2>3, <2>4 DEF LeavesLinked
<1>4. keys = LeafKeys(m2, leaves)
  <2>1. \A i \in leaves : m2[i] = m[i]
    OBVIOUS
  <2> QED
    BY <1>1, <2>1 DEF LeafKeys
<1>5. leaves \in SUBSET InUse(next + 1)
  BY <1>2
<1> QED
  BY <1>3, <1>4, <1>5 DEF Linked

\* The split of a leaf: its right half is one more leaf, right of it.
LEMMA LinksSplit ==
  ASSUME NEW m, NEW next, SoundTable(m, next),
         NEW leaves \in SUBSET InUse(next), LeavesLinked(m, next, leaves),
         NEW id \in leaves, NEW key \in Nat, m[id].low < key, InRange(m[id], key),
         NEW m2, \A i \in leaves \ {id} : m2[i] = m[i],
         \A i \in InUse(next) \ leaves : m2[i] = m[i],
         Kin(m[id], m2[id]), m2[id].high = <<key, next>>,
         IsLeaf(m2[next]), m2[next].low = key, m2[next].high = m[id].high
  PROVE  LeavesLinked(m2, next + 1, leaves \cup {next})
<1> DEFINE all == leaves \cup {next}
<1>1. /\ \A i \in leaves : /\ m[i].low \in Nat /\ m[i].high[1] \in Nat /\ i # INVALID_NODE_ID
                           /\ i # next
      /\ next \in Nat /\ next # INVALID_NODE_ID /\ INVALID_NODE_ID = 0
      /\ InUse(next + 1) = InUse(next) \cup {next}
  <2>1. next \in Nat /\ next >= 1 /\ INVALID_NODE_ID = 0
    BY MaxIdType DEF SoundTable
  <2>2. InUse(next + 1) = InUse(next) \cup {next} /\ next \notin InUse(next)
    BY <2>1 DEF InUse
  <2>3. \A i \in leaves : m[i].low \in Nat /\ m[i].high[1] \in Nat /\ i # INVALID_NODE_ID
    BY TableFacts
  <2> QED
    BY <2>1, <2>2, <2>3
<1>2. /\ \A i \in leaves : m2[i].low = m[i].low /\ (IsLeaf(m2[i]) <=> IsLeaf(m[i]))
      /\ \A i \in leaves \ {id} : GetNextNodeID(m2[i]) = GetNextNodeID(m[i])
      /\ \A i \in leaves \ {id} : \A k : InRange(m2[i], k) <=> InRange(m[i], k)
  <2>1. ASSUME NEW i \in leaves
        PROVE  m2[i].low = m[i].low /\ (IsLeaf(m2[i]) <=> IsLeaf(m[i]))
    <3>1. CASE i = id
      BY <3>1 DEF Kin, IsLeaf
    <3>2. CASE i # id
      BY <3>2
    <3> QED
      BY <3>1, <3>2
  <2>2. /\ \A i \in leaves \ {id} : GetNextNodeID(m2[i]) = GetNextNodeID(m[i])
        /\ \A i \in leaves \ {id} : \A k : InRange(m2[i], k) <=> InRange(m[i], k)
    OBVIOUS
  <2> QED
    BY <2>1, <2>2
<1>3. /\ GetNextNodeID(m2[id]) = next /\ \A k : InRange(m2[id], k) <=> k < key
      /\ GetNextNodeID(m2[next]) = GetNextNodeID(m[id])
      /\ \A k : InRange(m2[next], k) <=> InRange(m[id], k)
  BY <1>1 DEF GetNextNodeID, InRange
<1>4. /\ \A i \in leaves : IsLeaf(m[i]) /\ GetNextNodeID(m[i]) \in leaves \cup {INVALID_NODE_ID}
      /\ \A i \in leaves : \A j \in leaves \ {i} : m[i].low <= m[j].low => ~InRange(m[i], m[j].low)
  BY DEF LeavesLinked
<1>5. FIRST_LEAF_NODE_ID \in all /\ m2[FIRST_LEAF_NODE_ID].low = LowKey
  <2>1. FIRST_LEAF_NODE_ID \in leaves /\ m[FIRST_LEAF_NODE_ID].low = LowKey
    BY DEF LeavesLinked
  <2> QED
    BY <1>2, <2>1
<1>6. \A i \in all : IsLeaf(m2[i]) /\ GetNextNodeID(m2[i]) \in all \cup {INVALID_NODE_ID}
  BY <1>2, <1>3, <1>4
<1>7. ASSUME NEW i \in all \ {FIRST_LEAF_NODE_ID}
      PROVE  \E j \in all : GetNextNodeID(m2[j]) = i
  <2>1. CASE i = next
    BY <1>3, <2>1
  <2>2. CASE i # next
    <3>1. PICK j \in leaves : GetNextNodeID(m[j]) = i
      BY <2>2 DEF LeavesLinked
    <3>2. CASE j = id
      BY <1>3, <3>1, <3>2
    <3>3. CASE j # id
      BY <1>2, <3>1, <3>3
    <3> QED
      BY <3>2, <3>3
  <2> QED
    BY <2>1, <2>2
<1>8. \A j \in leaves \ {id} : m[id].low <= m[j].low => key <= m[j].low /\ ~InRange(m[id], m[j].low)
  <2> TAKE j \in leaves \ {id}
  <2> HAVE m[id].low <= m[j].low
  <2>1. ~InRange(m[id], m[j].low)
    BY <1>4
  <2> QED
    BY <1>1, <2>1 DEF InRange
<1>9. ASSUME NEW i \in all, NEW j \in all \ {i}, m2[i].low <= m2[j].low
      PROVE  ~InRange(m2[i], m2[j].low)
  <2>1. CASE i = id /\ j = next
    BY <1>3, <2>1
  <2>2. CASE i = id /\ j # next
    <3>1. j \in leaves \ {id} /\ m2[j].low = m[j].low /\ m2[i].low = m[id].low /\ m[j].low \in Nat
      BY <1>1, <1>2, <2>2
    <3>2. key <= m[j].low
      BY <1>8, <1>9, <3>1
    <3> QED
      BY <1>3, <2>2, <3>1, <3>2
  <2>3. CASE i = next
    <3>1. j \in leaves /\ m2[j].low = m[j].low /\ m2[i].low = key /\ m[j].low \in Nat
          /\ m[id].low \in Nat
      BY <1>1, <1>2, <2>3
    <3>2. m[id].low < m[j].low /\ j # id
      BY <1>9, <3>1
    <3> QED
      BY <1>3, <1>8, <2>3, <3>1, <3>2
  <2>4. CASE i # id /\ i # next /\ j = next
    <3>1. i \in leaves \ {id} /\ m2[i].low = m[i].low /\ m2[j].low = key
          /\ m[i].low \in Nat /\ m[id].low \in Nat /\ m[i].high[1] \in Nat /\ m[id].high[1] \in Nat
      BY <1>1, <1>2, <2>4
    <3>2. CASE m[i].low <= m[id].low
      <4>1. ~InRange(m[i], m[id].low)
        BY <1>4, <3>1, <3>2
      <4>2. ~InRange(m[i], key)
        BY <3>1, <4>1 DEF InRange
      <4> QED
        BY <1>2, <3>1, <4>2
    <3>3. CASE m[id].low <= m[i].low
      <4>1. ~InRange(m[id], m[i].low) /\ m[i].low <= key
        BY <1>8, <1>9, <3>1, <3>3
      <4> QED
        BY <3>1, <4>1 DEF InRange
    <3> QED
      BY <3>1, <3>2, <3>3
  <2>5. CASE i # id /\ i # next /\ j # next
    <3>1. i \in leaves \ {id} /\ j \in leaves \ {i} /\ m2[i].low = m[i].low /\ m2[j].low = m[j].low
      BY <1>2, <2>5
    <3> QED
      BY <1>2, <1>4, <1>9, <3>1
  <2> QED
    BY <2>1, <2>2, <2>3, <2>4, <2>5
<1>10. \A i \in InUse(next + 1) \ all : IsLeaf(m2[i]) => m2[i].type = "remove"
  <2>1. \A i \in InUse(next) \ leaves : IsLeaf(m[i]) => m[i].type = "remove"
    BY DEF LeavesLinked
  <2> QED
    BY <1>1, <2>1
<1> HIDE DEF all
<1>11. LeavesLinked(m2, next + 1, all)
  BY <1>5, <1>6, <1>7, <1>9, <1>10 DEF LeavesLinked
<1> QED
  BY <1>11 DEF all

LEMMA LinkedSplit ==
  ASSUME NEW m, NEW next, SoundTable(m, next), next \in NodeIds,
         NEW keys, Linked(m, next, keys),
         NEW id \in InUse(next), m[id].type = "base", MaySplit(m[id]),
         NEW m2, m2 = SplitTable(m, next, id, m[id])
  PROVE  Linked(m2, next + 1, keys)
<1> DEFINE n == m[id]
           key == SplitKey(n)
           right == SplitSibling(n)
           lft == SplitNode(n, next)
<1>1. n \in AnyNode /\ SoundItems(n) /\ next \in 0 .. MaxId /\ id # next
  BY IsNodeDef, MaxIdType DEF SoundTable, Sound, NodeIds, InUse
<1>2. key \in Nat /\ n.low < key /\ InRange(n, key) /\ Seps(n) \in SUBSET Nat
  BY <1>1, SplitKeyProperties, NodeFacts
<1>3. /\ right.kind = n.kind /\ right.low = key /\ right.high = n.high
      /\ Seps(right) = {k \in Seps(n) : k >= key}
  BY <1>1, SplitSiblingFields
<1>4. /\ Kin(n, lft) /\ lft.high = <<key, next>> /\ Seps(lft) = {k \in Seps(n) : k < key}
  BY <1>1, SplitNodeFields
<1>5. /\ m2[next] = right /\ m2[id] = lft
      /\ \A i \in InUse(next) \ {id} : m2[i] = m[i]
  <2>1. \A i \in InUse(next) : i \in NodeIds /\ i # next
    BY TableFacts DEF InUse
  <2> QED
    BY <1>1, <2>1 DEF SplitTable, SoundTable
<1> HIDE DEF right, lft, key
<1>6. Seps(lft) \cup Seps(right) = Seps(n)
  <2>1. \A k \in Seps(n) : k < key \/ k >= key
    BY <1>2
  <2> QED
    BY <1>3, <1>4, <2>1
<1>7. PICK leaves \in SUBSET InUse(next) :
        LeavesLinked(m, next, leaves) /\ keys = LeafKeys(m, leaves)
  BY DEF Linked
<1>8. CASE IsLeaf(n)
  <2>1. id \in leaves
    BY <1>7, <1>8 DEF LeavesLinked
  <2>2. IsLeaf(m2[next]) /\ m2[next].low = key /\ m2[next].high = n.high
    BY <1>3, <1>5, <1>8 DEF IsLeaf
  <2>3. Kin(n, m2[id]) /\ m2[id].high = <<key, next>>
    BY <1>4, <1>5
  <2>4. /\ \A i \in leaves \ {id} : m2[i] = m[i]
        /\ \A i \in InUse(next) \ leaves : m2[i] = m[i]
    BY <1>5, <2>1
  <2>5. LeavesLinked(m2, next + 1, leaves \cup {next})
    <3> HIDE DEF n
    <3> QED
      BY <1>2, <1>7, <2>1, <2>2, <2>3, <2>4, LinksSplit DEF n
  <2>6. keys = LeafKeys(m2, leaves \cup {next})
    <3>1. LeafKeys(m, leaves) = LeafKeys(m, leaves \ {id}) \cup Seps(n)
      BY <2>1 DEF LeafKeys
    <3>2. LeafKeys(m2, leaves \cup {next})
            = LeafKeys(m2, leaves \ {id}) \cup Seps(m2[id]) \cup Seps(m2[next])
      BY <2>1 DEF LeafKeys
    <3>3. LeafKeys(m2, leaves \ {id}) = LeafKeys(m, leaves \ {id})
      BY <2>4 DEF LeafKeys
    <3> HIDE DEF n
    <3> QED
      BY <1>5, <1>6, <1>7, <3>1, <3>2, <3>3
  <2>7. leaves \cup {next} \in SUBSET InUse(next + 1)
    BY TableFacts DEF InUse, SoundTable
  <2> QED
    BY <2>5, <2>6, <2>7 DEF Linked
<1>9. CASE ~IsLeaf(n)
  <2> DEFINE m1 == [m EXCEPT ![id] = lft]
  <2>1. Linked(m1, next, keys)
    <3>1. IsLeaf(lft) <=> IsLeaf(n)
      BY <1>4 DEF Kin, IsLeaf
    <3> HIDE DEF m1
    <3>2. Kin(m[id], lft) /\ ~IsLeaf(lft)
      BY <1>4, <1>9, <3>1
    <3> QED
      BY <3>2, LinkedInstall DEF m1
  <2>2. \A i \in InUse(next) : m2[i] = m1[i]
    <3>1. id \in NodeIds /\ DOMAIN m = NodeIds /\ \A i \in InUse(next) : i \in NodeIds
      BY TableFacts DEF SoundTable
    <3> QED
      BY <1>5, <3>1
  <2>3. next \in Nat \ {0}
    BY TableFacts DEF SoundTable
  <2>4. ~IsLeaf(m2[next])
    BY <1>3, <1>5, <1>9 DEF IsLeaf
  <2> HIDE DEF m1
  <2> QED
    BY <2>1, <2>2, <2>3, <2>4, LinkedAllocate
<1> QED
  BY <1>8, <1>9

\* The merge of a leaf with its right neighbour, which has been removed.
LEMMA LinksMerge ==
  ASSUME NEW m, NEW next, SoundTable(m, next),
         NEW leaves \in SUBSET InUse(next), LeavesLinked(m, next, leaves),
         NEW id \in leaves, NEW gone \in leaves, GetNextNodeID(m[id]) = gone,
         m[gone].type = "remove",
         NEW m2, \A i \in InUse(next) \ {id} : m2[i] = m[i],
         Kin(m[id], m2[id]), m2[id].high = m[gone].high
  PROVE  LeavesLinked(m2, next, leaves \ {gone})
<1> DEFINE rest == leaves \ {gone}
<1>1. /\ \A i \in leaves : m[i].low \in Nat /\ i # INVALID_NODE_ID
      /\ m[id].low < m[gone].low /\ id # gone
      /\ \A j \in leaves \ {id} : m[id].low <= m[j].low => m[gone].low <= m[j].low
  <2>1. /\ m[id].low < m[gone].low /\ m[id].low \in Nat
        /\ \A j \in leaves \ {id} : m[id].low <= m[j].low => m[gone].low <= m[j].low
    BY LinkedFacts DEF SoundTable
  <2> QED
    BY <2>1, TableFacts
<1>2. /\ \A i \in rest : m2[i].low = m[i].low /\ (IsLeaf(m2[i]) <=> IsLeaf(m[i]))
      /\ \A i \in rest \ {id} : GetNextNodeID(m2[i]) = GetNextNodeID(m[i])
      /\ \A i \in rest \ {id} : \A k : InRange(m2[i], k) <=> InRange(m[i], k)
  BY DEF Kin, IsLeaf
<1>3. /\ GetNextNodeID(m2[id]) = GetNextNodeID(m[gone])
      /\ \A k : InRange(m2[id], k) <=> InRange(m[gone], k)
  BY DEF GetNextNodeID, InRange
<1>4. /\ \A i \in leaves : IsLeaf(m[i]) /\ GetNextNodeID(m[i]) \in leaves \cup {INVALID_NODE_ID}
      /\ \A i \in leaves : \A j \in leaves \ {i} : m[i].low <= m[j].low => ~InRange(m[i], m[j].low)
      /\ \A i \in leaves \ {FIRST_LEAF_NODE_ID} : \E j \in leaves : GetNextNodeID(m[j]) = i
  BY DEF LeavesLinked
<1>5. FIRST_LEAF_NODE_ID \in rest /\ m2[FIRST_LEAF_NODE_ID].low = LowKey
  <2>1. FIRST_LEAF_NODE_ID \in leaves /\ m[FIRST_LEAF_NODE_ID].low = LowKey
    BY DEF LeavesLinked
  <2>2. FIRST_LEAF_NODE_ID # gone
    <3>1. m[gone].low # LowKey
      BY <1>1, MaxIdType
    <3> QED
      BY <2>1, <3>1
  <2> QED
    BY <1>2, <2>1, <2>2
<1>6. \A i \in leaves \ {id} : GetNextNodeID(m[i]) # gone
  <2> SUFFICES ASSUME NEW i \in leaves \ {id}, GetNextNodeID(m[i]) = gone PROVE FALSE
    OBVIOUS
  <2>1. /\ \A j \in leaves \ {i} : m[i].low <= m[j].low => m[gone].low <= m[j].low
        /\ m[i].low < m[gone].low /\ m[i].low \in Nat
    BY LinkedFacts DEF SoundTable
  <2> QED
    BY <1>1, <2>1
<1>7. GetNextNodeID(m[gone]) # gone
  BY LinkedFacts DEF SoundTable
<1>8. \A i \in rest : IsLeaf(m2[i]) /\ GetNextNodeID(m2[i]) \in rest \cup {INVALID_NODE_ID}
  <2> TAKE i \in rest
  <2>1. CASE i = id
    <3>1. GetNextNodeID(m[gone]) \in rest \cup {INVALID_NODE_ID}
      BY <1>4, <1>7
    <3> QED
      BY <1>2, <1>3, <1>4, <2>1, <3>1
  <2>2. CASE i # id
    BY <1>2, <1>4, <1>6, <2>2
  <2> QED
    BY <2>1, <2>2
<1>9. ASSUME NEW i \in rest \ {FIRST_LEAF_NODE_ID}
      PROVE  \E j \in rest : GetNextNodeID(m2[j]) = i
  <2>1. PICK j \in leaves : GetNextNodeID(m[j]) = i
    BY <1>4
  <2>2. CASE j = gone
    BY <1>1, <1>3, <2>1, <2>2
  <2>3. CASE j # gone
    <3>1. j # id
      BY <2>1
    <3> QED
      BY <1>2, <2>1, <2>3, <3>1
  <2> QED
    BY <2>2, <2>3
<1>10. ASSUME NEW i \in rest, NEW j \in rest \ {i}, m2[i].low <= m2[j].low
       PROVE  ~InRange(m2[i], m2[j].low)
  <2>1. m[i].low <= m[j].low /\ m2[j].low = m[j].low
    BY <1>2, <1>10
  <2>2. CASE i = id
    <3>1. m[gone].low <= m[j].low
      BY <1>1, <2>1, <2>2
    <3>2. ~InRange(m[gone], m[j].low)
      BY <1>4, <3>1
    <3> QED
      BY <1>3, <2>1, <2>2, <3>2
  <2>3. CASE i # id
    BY <1>2, <1>4, <2>1, <2>3
  <2> QED
    BY <2>2, <2>3
<1>11. \A i \in InUse(next) \ rest : IsLeaf(m2[i]) => m2[i].type = "remove"
  <2>1. \A i \in InUse(next) \ leaves : IsLeaf(m[i]) => m[i].type = "remove"
    BY DEF LeavesLinked
  <2> QED
    BY <1>1, <2>1
<1> HIDE DEF rest
<1>12. LeavesLinked(m2, next, rest)
  BY <1>5, <1>8, <1>9, <1>10, <1>11 DEF LeavesLinked
<1> QED
  BY <1>12 DEF rest

LEMMA LinkedMerge ==
  ASSUME NEW m, NEW next, SoundTable(m, next), NEW keys, Linked(m, next, keys),
         NEW id \in InUse(next), IsLeaf(m[id]), m[id].type # "remove",
         NEW gone \in InUse(next), GetNextNodeID(m[id]) = gone, m[gone].type = "remove",
         NEW m2, m2[id] = MergeNode(m[id], m[gone], gone),
         \A i \in InUse(next) \ {id} : m2[i] = m[i]
  PROVE  Linked(m2, next, keys)
<1> DEFINE n == MergeNode(m[id], m[gone], gone)
<1>1. gone \in 0 .. MaxId /\ gone # INVALID_NODE_ID /\ m[id] \in AnyNode /\ m[gone] \in AnyNode
  BY TableFacts, MaxIdType DEF NodeIds
<1>2. Kin(m[id], n) /\ n.high = m[gone].high /\ Seps(n) = Seps(m[id]) \cup Seps(m[gone])
  <2> DEFINE a == m[id]
             b == m[gone]
  <2>1. a \in AnyNode /\ b \in AnyNode
    BY <1>1
  <2> HIDE DEF a, b
  <2>2. LET n2 == MergeNode(a, b, gone) IN
        Kin(a, n2) /\ n2.high = b.high /\ Seps(n2) = Seps(a) \cup Seps(b)
    BY <1>1, <2>1, MergeNodeFields
  <2> QED
    BY <2>2 DEF a, b
<1>3. m2[id] = n /\ \A i \in InUse(next) \ {id} : m2[i] = m[i]
  OBVIOUS
<1> HIDE DEF n
<1>4. PICK leaves \in SUBSET InUse(next) :
        LeavesLinked(m, next, leaves) /\ keys = LeafKeys(m, leaves)
  BY DEF Linked
<1>5. id \in leaves /\ gone \in leaves /\ id # gone
  <2>1. id \in leaves /\ GetNextNodeID(m[id]) \in leaves \cup {INVALID_NODE_ID}
    BY <1>4 DEF LeavesLinked
  <2> QED
    BY <1>1, <2>1
<1>6. LeavesLinked(m2, next, leaves \ {gone})
  <2>1. Kin(m[id], m2[id]) /\ m2[id].high = m[gone].high
    BY <1>2, <1>3
  <2>2. \A i \in InUse(next) \ {id} : m2[i] = m[i]
    BY <1>3
  <2>3. id \in leaves /\ gone \in leaves /\ LeavesLinked(m, next, leaves)
    BY <1>4, <1>5
  <2> QED
    BY <2>1, <2>2, <2>3, LinksMerge
<1>7. keys = LeafKeys(m2, leaves \ {gone})
  <2>1. LeafKeys(m, leaves) = LeafKeys(m, leaves \ {id, gone}) \cup Seps(m[id]) \cup Seps(m[gone])
    BY <1>5 DEF LeafKeys
  <2>2. LeafKeys(m2, leaves \ {gone}) = LeafKeys(m2, leaves \ {id, gone}) \cup Seps(m2[id])
    BY <1>5 DEF LeafKeys
  <2>3. LeafKeys(m2, leaves \ {id, gone}) = LeafKeys(m, leaves \ {id, gone})
    <3>1. \A i \in leaves \ {id, gone} : m2[i] = m[i]
      BY <1>3
    <3> QED
      BY <3>1 DEF LeafKeys
  <2> QED
    BY <1>2, <1>3, <1>4, <2>1, <2>2, <2>3
<1> QED
  BY <1>6, <1>7 DEF Linked

-----------------------------------------------------------------------------
(* What a Context knows and what its caller may be told, from step to step. *)

Busy(c) == c.pc \notin {"idle", "done"}
Known(m, keys, c) == FreshKnown(m, c) /\ RemovedKnown(m, c) /\ Sees(c, keys)

\* What was asked, and what has been seen and yielded since.
SameCall(c, d) ==
  /\ d.op = c.op /\ d.key = c.key /\ d.res = c.res /\ d.seen = c.seen
  /\ d.got = c.got /\ d.steady = c.steady /\ d.ever = c.ever

\* A call goes on, or it is answered as the key was at some moment since.
Answered(c, d) ==
  /\ d.pc = "done" /\ d.op = c.op /\ d.key = c.key
  /\ IF c.op = "get" THEN d.res \in c.seen
     ELSE d.res = FALSE /\ (Promised(c.op) = "insert") \in c.seen
Progress(c, d) ==
  \/ c.op = "scan" /\ d.op = "scan"
  \/ c.op # "scan" /\ Busy(c) /\ Busy(d) /\ SameCall(c, d)
  \/ c.op # "scan" /\ Busy(c) /\ Answered(c, d)

LEMMA ProgressSame ==
  ASSUME NEW c, NEW d, NEW e, SameCall(c, d), Busy(c), Busy(d), Progress(d, e)
  PROVE  Progress(c, e)
<1>1. CASE d.op = "scan" /\ e.op = "scan"
  BY <1>1 DEF SameCall, Progress
<1>2. CASE d.op # "scan" /\ Busy(d) /\ Busy(e) /\ SameCall(d, e)
  BY <1>2 DEF SameCall, Progress
<1>3. CASE d.op # "scan" /\ Busy(d) /\ Answered(d, e)
  BY <1>3 DEF SameCall, Progress, Answered
<1> QED
  BY <1>1, <1>2, <1>3 DEF Progress

LEMMA SameCallSees ==
  ASSUME NEW c, NEW d, NEW keys, SameCall(c, d), Busy(c), Busy(d), Sees(c, keys), LeafClaim(d)
  PROVE  Sees(d, keys) /\ Progress(c, d)
<1>1. c.op = "scan" => Yields(d, keys)
  BY DEF SameCall, Busy, Sees, Yields
<1>2. Sees(d, keys)
  BY <1>1 DEF SameCall, Busy, Sees
<1> QED
  BY <1>2 DEF SameCall, Progress

LEMMA NoLeafKnown ==
  ASSUME NEW m, NEW d, d.cur = NoSnap, d.pending = <<>>
  PROVE  FreshKnown(m, d) /\ RemovedKnown(m, d) /\ LeafClaim(d)
<1>1. ~AtLeaf(d)
  BY SnapTypes DEF AtLeaf
<1>2. Len(d.pending) = 0
  OBVIOUS
<1>3. \A i \in 1 .. Len(d.pending) : FALSE
  BY <1>2
<1> QED
  BY <1>1, <1>3 DEF FreshKnown, RemovedKnown, LeafClaim

LEMMA AbortKnown ==
  ASSUME NEW m, NEW keys, NEW c \in ContextSet, Busy(c), Sees(c, keys)
  PROVE  Known(m, keys, Abort(c)) /\ Progress(c, Abort(c))
<1> DEFINE d == Abort(c)
<1>1. /\ d.pc = "root" /\ d.cur = NoSnap /\ d.pending = <<>> /\ SameCall(c, d)
  BY AbortFields DEF SameCall
<1> HIDE DEF d
<1>2. FreshKnown(m, d) /\ RemovedKnown(m, d) /\ LeafClaim(d)
  BY <1>1, NoLeafKnown
<1>3. Busy(d)
  BY <1>1 DEF Busy
<1>4. Sees(d, keys) /\ Progress(c, d)
  BY <1>1, <1>2, <1>3, SameCallSees
<1> QED
  BY <1>2, <1>4 DEF Known, d

LEMMA SameLeafKnown ==
  ASSUME NEW m, NEW keys, NEW c, NEW d, SameCall(c, d), Busy(c), Busy(d),
         Known(m, keys, c), d.cur = c.cur, d.pending = c.pending
  PROVE  Known(m, keys, d) /\ Progress(c, d)
<1>1. FreshKnown(m, d) /\ RemovedKnown(m, d)
  BY DEF Known, FreshKnown, RemovedKnown, AtLeaf
<1>2. LeafClaim(d)
  BY DEF Known, Sees, LeafClaim, SameCall, AtLeaf
<1>3. Sees(d, keys) /\ Progress(c, d)
  BY <1>2, SameCallSees DEF Known
<1> QED
  BY <1>1, <1>3 DEF Known

LEMMA AtKnown ==
  ASSUME NEW m, NEW keys, NEW c \in ContextSet, Busy(c), Known(m, keys, c),
         NEW pc \in Working \cup {"undefined"}
  PROVE  Known(m, keys, At(c, pc)) /\ Progress(c, At(c, pc))
<1> DEFINE d == At(c, pc)
<1>1. pc \in PCs /\ pc \notin {"idle", "done"}
  BY DEF Working, PCs
<1>2. d.pc = pc /\ SameCall(c, d) /\ d.cur = c.cur /\ d.pending = c.pending
  BY <1>1, AtFields DEF SameCall
<1> HIDE DEF d
<1>3. Busy(d)
  BY <1>1, <1>2 DEF Busy
<1>4. Known(m, keys, d) /\ Progress(c, d)
  BY <1>2, <1>3, SameLeafKnown
<1> QED
  BY <1>4 DEF d

LEMMA GoToKnown ==
  ASSUME NEW m, NEW keys, NEW c \in ContextSet, Busy(c), Known(m, keys, c),
         NEW pc \in {"jump", "take"}, NEW id \in 0 .. MaxId
  PROVE  Known(m, keys, GoTo(c, pc, id)) /\ Progress(c, GoTo(c, pc, id))
<1> DEFINE d == GoTo(c, pc, id)
<1>1. pc \in PCs /\ pc \notin {"idle", "done"}
  BY DEF PCs
<1>2. d.pc = pc /\ SameCall(c, d) /\ d.cur = c.cur /\ d.pending = c.pending
  BY <1>1, GoToFields DEF SameCall
<1> HIDE DEF d
<1>3. Busy(d)
  BY <1>1, <1>2 DEF Busy
<1>4. Known(m, keys, d) /\ Progress(c, d)
  BY <1>2, <1>3, SameLeafKnown
<1> QED
  BY <1>4 DEF d

\* What an iterator has yielded so far and its next page, in order.
LEMMA IncreasingPages ==
  ASSUME NEW s \in Seq(Nat), Increasing(s), NEW S \in SUBSET Nat, IsFiniteSet(S),
         \A i \in ToSet(s) : \A k \in S : i < k
  PROVE  /\ Increasing(s \o Sorted(S)) /\ ToSet(s \o Sorted(S)) = ToSet(s) \cup S
<1> DEFINE p == Sorted(S)
           r == s \o p
<1>1. /\ p \in Seq(Nat) /\ ToSet(p) = S
      /\ \A i, j \in DOMAIN p : i < j => p[i] < p[j]
  BY SortedProperties
<1> HIDE DEF p
<1>2. /\ Len(s) \in Nat /\ Len(p) \in Nat /\ Len(r) = Len(s) + Len(p)
      /\ DOMAIN s = 1 .. Len(s) /\ DOMAIN p = 1 .. Len(p) /\ DOMAIN r = 1 .. Len(r)
      /\ \A i \in 1 .. Len(r) : r[i] = IF i <= Len(s) THEN s[i] ELSE p[i - Len(s)]
  BY <1>1
<1> HIDE DEF r
<1>3. /\ \A i \in 1 .. Len(s) : i \in 1 .. Len(r) /\ r[i] = s[i]
      /\ \A i \in 1 .. Len(p) : i + Len(s) \in 1 .. Len(r) /\ r[i + Len(s)] = p[i]
      /\ \A i \in 1 .. Len(r) : i \in 1 .. Len(s) \/ i - Len(s) \in 1 .. Len(p)
  <2>1. ASSUME NEW i \in 1 .. Len(s) PROVE i \in 1 .. Len(r) /\ r[i] = s[i]
    <3>1. i \in 1 .. Len(r) /\ i <= Len(s)
      BY <1>2
    <3> QED
      BY <1>2, <3>1
  <2>2. ASSUME NEW i \in 1 .. Len(p) PROVE i + Len(s) \in 1 .. Len(r) /\ r[i + Len(s)] = p[i]
    <3>1. i + Len(s) \in 1 .. Len(r) /\ ~(i + Len(s) <= Len(s)) /\ i + Len(s) - Len(s) = i
      BY <1>2
    <3>2. r[i + Len(s)] = p[i + Len(s) - Len(s)]
      BY <1>2, <3>1
    <3> QED
      BY <3>1, <3>2
  <2>3. \A i \in 1 .. Len(r) : i \in 1 .. Len(s) \/ i - Len(s) \in 1 .. Len(p)
    BY <1>2
  <2> QED
    BY <2>1, <2>2, <2>3
<1>4. ToSet(r) = ToSet(s) \cup ToSet(p)
  <2>1. \A x \in ToSet(r) : x \in ToSet(s) \cup ToSet(p)
    <3> TAKE x \in ToSet(r)
    <3>1. PICK i \in 1 .. Len(r) : x = r[i]
      BY <1>2 DEF ToSet
    <3>2. CASE i \in 1 .. Len(s)
      BY <1>2, <1>3, <3>1, <3>2 DEF ToSet
    <3>3. CASE i \notin 1 .. Len(s)
      <4>1. i - Len(s) \in 1 .. Len(p) /\ ~(i <= Len(s))
        BY <1>2, <1>3, <3>3
      <4>2. x = p[i - Len(s)]
        BY <1>2, <3>1, <4>1
      <4> QED
        BY <1>2, <4>1, <4>2 DEF ToSet
    <3> QED
      BY <3>2, <3>3
  <2>2. \A x \in ToSet(s) : x \in ToSet(r)
    BY <1>2, <1>3 DEF ToSet
  <2>3. \A x \in ToSet(p) : x \in ToSet(r)
    <3> TAKE x \in ToSet(p)
    <3>1. PICK i \in 1 .. Len(p) : x = p[i]
      BY <1>2 DEF ToSet
    <3>2. i + Len(s) \in DOMAIN r /\ r[i + Len(s)] = x
      BY <1>2, <1>3, <3>1
    <3> QED
      BY <3>2 DEF ToSet
  <2> QED
    BY <2>1, <2>2, <2>3
<1>5. ASSUME NEW i \in 1 .. Len(r), NEW j \in 1 .. Len(r), i < j
      PROVE  r[i] < r[j]
  <2>1. CASE j <= Len(s)
    <3>1. i \in 1 .. Len(s) /\ j \in 1 .. Len(s)
      BY <1>2, <1>5, <2>1
    <3> QED
      BY <1>3, <1>5, <3>1 DEF Increasing
  <2>2. CASE ~(j <= Len(s)) /\ i <= Len(s)
    <3>1. i \in 1 .. Len(s) /\ j - Len(s) \in 1 .. Len(p) /\ r[i] = s[i] /\ r[j] = p[j - Len(s)]
      BY <1>2, <2>2
    <3>2. s[i] \in ToSet(s) /\ p[j - Len(s)] \in S
      BY <1>1, <1>2, <3>1 DEF ToSet
    <3> QED
      BY <3>1, <3>2
  <2>3. CASE ~(i <= Len(s))
    <3>1. i - Len(s) \in 1 .. Len(p) /\ j - Len(s) \in 1 .. Len(p) /\ i - Len(s) < j - Len(s)
          /\ ~(j <= Len(s))
      BY <1>2, <1>5, <2>3
    <3>2. r[i] = p[i - Len(s)] /\ r[j] = p[j - Len(s)]
      BY <1>2, <2>3, <3>1
    <3> QED
      BY <1>1, <1>2, <3>1, <3>2
  <2> QED
    BY <2>1, <2>2, <2>3
<1> QED
  BY <1>1, <1>4, <1>5 DEF Increasing, r, p

\* The next page of an iteration.
LEMMA PageKnown ==
  ASSUME NEW m, NEW keys, NEW c \in ContextSet, Busy(c), Known(m, keys, c), c.op = "scan",
         AtLeaf(c), c.cur.node.type # "remove", c.cur.node.low <= c.key,
         InRange(c.cur.node, c.key), SoundItems(c.cur.node), c.pending = <<>>,
         NEW d, d = LowerBound(c)
  PROVE  Known(m, keys, d) /\ Progress(c, d)
<1> DEFINE n == c.cur.node
           S == PageItems(n, c.key)
           b == Paged(c)
           a == NextPage(c)
           last == GetNextNodeID(n) = INVALID_NODE_ID
<1>1. /\ d = IF last THEN Done(b, TRUE) ELSE Abort(a)
      /\ S \in SUBSET Nat /\ IsFiniteSet(S) /\ b \in ContextSet /\ a \in ContextSet
      /\ b.got = c.got \o Sorted(S) /\ b.op = c.op /\ b.pending = c.pending
      /\ b.steady = c.steady /\ b.ever = c.ever
      /\ a.got = c.got \o Sorted(S) /\ a.op = c.op /\ a.pending = c.pending
      /\ a.steady = c.steady /\ a.ever = c.ever /\ a.key = n.high[1]
  BY PageFields
<1>2. /\ c.got \in Seq(Nat) /\ c.key \in Nat /\ n \in AnyNode /\ n.low \in Nat /\ n.high[1] \in Nat
      /\ Seps(n) \in SUBSET Nat /\ c.steady \in SUBSET Nat
  BY NodeFacts DEF ContextSet, SnapSet
<1>3. /\ Seps(n) \subseteq c.ever
      /\ \A k \in c.steady : n.low <= k /\ InRange(n, k) => k \in Seps(n)
      /\ ToSet(c.got) \subseteq c.ever /\ Increasing(c.got)
      /\ c.steady \subseteq keys /\ keys \subseteq c.ever
      /\ \A k \in ToSet(c.got) : k < c.key
      /\ \A k \in c.steady : k < c.key => k \in ToSet(c.got)
  <2>1. LeafClaim(c) /\ Yields(c, keys)
    BY DEF Known, Sees
  <2> QED
    BY <2>1 DEF LeafClaim, Yields, Busy
<1>4. /\ \A k \in S : k \in Seps(n) /\ k >= c.key
      /\ \A k \in Seps(n) : k >= c.key => k \in S
  BY DEF PageItems
<1>5. ToSet(c.got) \in SUBSET Nat
  BY <1>2 DEF ToSet
<1>6. Increasing(c.got \o Sorted(S)) /\ ToSet(c.got \o Sorted(S)) = ToSet(c.got) \cup S
  <2>1. \A i \in ToSet(c.got) : \A k \in S : i < k
    <3> TAKE i \in ToSet(c.got)
    <3>1. i < c.key /\ i \in Nat
      BY <1>3, <1>5
    <3> TAKE k \in S
    <3>2. k >= c.key /\ k \in Nat
      BY <1>1, <1>4
    <3> QED
      BY <1>2, <3>1, <3>2
  <2> DEFINE s == c.got
  <2>2. s \in Seq(Nat) /\ Increasing(s) /\ \A i \in ToSet(s) : \A k \in S : i < k
    BY <1>2, <1>3, <2>1
  <2> HIDE DEF s, S
  <2>3. Increasing(s \o Sorted(S)) /\ ToSet(s \o Sorted(S)) = ToSet(s) \cup S
    BY <1>1, <2>2, IncreasingPages
  <2> QED
    BY <2>3 DEF s
<1>7. ToSet(c.got) \cup S \subseteq c.ever
  BY <1>3, <1>4
<1> HIDE DEF S, b, a
<1>8. \A k \in c.steady : k < c.key => k \in ToSet(c.got) \cup S
  BY <1>3
<1>9. \A k \in c.steady : k >= c.key /\ InRange(n, k) => k \in ToSet(c.got) \cup S
  <2> TAKE k \in c.steady
  <2>1. k \in Nat
    BY <1>2
  <2>2. k >= c.key => n.low <= k
    BY <1>2, <2>1
  <2> QED
    BY <1>3, <1>4, <2>2
<1>10. CASE last
  <2>1. /\ d.pc = "done" /\ d.op = "scan" /\ d.got = c.got \o Sorted(S)
        /\ d.steady = c.steady /\ d.ever = c.ever
        /\ d.cur = NoSnap /\ d.pending = <<>>
    <3> DEFINE e == Done(b, TRUE)
    <3>1. d = e /\ b \in ContextSet /\ TRUE \in BOOLEAN
      BY <1>1, <1>10
    <3>2. /\ e.pc = "done" /\ e.op = b.op /\ e.got = b.got /\ e.steady = b.steady
          /\ e.ever = b.ever /\ e.cur = NoSnap /\ e.pending = b.pending
      BY <3>1, DoneFields
    <3> HIDE DEF e
    <3> QED
      BY <1>1, <3>1, <3>2
  <2>2. c.steady \subseteq ToSet(c.got) \cup S
    <3> SUFFICES ASSUME NEW k \in c.steady PROVE k \in ToSet(c.got) \cup S
      OBVIOUS
    <3>1. InRange(n, k) /\ k \in Nat
      BY <1>2, <1>10 DEF InRange
    <3>2. k < c.key \/ k >= c.key
      BY <1>2, <3>1
    <3> QED
      BY <1>8, <1>9, <3>1, <3>2
  <2> HIDE DEF last
  <2>3. Yields(d, keys)
    BY <2>1, <2>2, <1>6, <1>7 DEF Yields
  <2>4. FreshKnown(m, d) /\ RemovedKnown(m, d) /\ LeafClaim(d)
    BY <2>1, NoLeafKnown
  <2>5. Sees(d, keys)
    BY <2>1, <2>3, <2>4 DEF Sees
  <2> QED
    BY <2>1, <2>4, <2>5 DEF Known, Progress
<1>11. CASE ~last
  <2>1. /\ d.pc = "root" /\ d.op = "scan" /\ d.got = c.got \o Sorted(S)
        /\ d.steady = c.steady /\ d.ever = c.ever /\ d.key = n.high[1]
        /\ d.cur = NoSnap /\ d.pending = <<>>
    BY <1>1, <1>11, AbortFields
  <2>2. c.key < n.high[1] /\ \A k \in Seps(n) : k < n.high[1]
    BY <1>11 DEF InRange, SoundItems
  <2>3. \A k \in ToSet(c.got) \cup S : k < n.high[1]
    <3> TAKE k \in ToSet(c.got) \cup S
    <3>1. CASE k \in S
      BY <1>4, <2>2, <3>1
    <3>2. CASE k \in ToSet(c.got)
      <4>1. k < c.key /\ k \in Nat
        BY <1>3, <1>5, <3>2
      <4> QED
        BY <1>2, <2>2, <4>1
    <3> QED
      BY <3>1, <3>2
  <2>4. \A k \in c.steady : k < n.high[1] => k \in ToSet(c.got) \cup S
    <3> SUFFICES ASSUME NEW k \in c.steady, k < n.high[1] PROVE k \in ToSet(c.got) \cup S
      OBVIOUS
    <3>1. InRange(n, k) /\ k \in Nat
      BY <1>2 DEF InRange
    <3>2. k < c.key \/ k >= c.key
      BY <1>2, <3>1
    <3> QED
      BY <1>8, <1>9, <3>1, <3>2
  <2> HIDE DEF last
  <2>5. Yields(d, keys)
    BY <2>1, <2>3, <2>4, <1>3, <1>6, <1>7 DEF Yields
  <2>6. FreshKnown(m, d) /\ RemovedKnown(m, d) /\ LeafClaim(d)
    BY <2>1, NoLeafKnown
  <2>7. Sees(d, keys)
    BY <2>1, <2>5, <2>6 DEF Sees
  <2> QED
    BY <2>1, <2>6, <2>7 DEF Known, Progress
<1> QED
  BY <1>10, <1>11

\* The answer of an operation that changes nothing.
LEMMA DoneKnown ==
  ASSUME NEW m, NEW keys, NEW c \in ContextSet, Busy(c), c.op # "scan", c.pending = <<>>,
         NEW res \in BOOLEAN,
         IF c.op = "get" THEN res \in c.seen
         ELSE res = FALSE /\ (Promised(c.op) = "insert") \in c.seen
  PROVE  Known(m, keys, Done(c, res)) /\ Progress(c, Done(c, res))
<1> DEFINE d == Done(c, res)
<1>1. /\ d.pc = "done" /\ d.op = c.op /\ d.key = c.key /\ d.res = res
      /\ d.cur = NoSnap /\ d.pending = <<>>
  BY DoneFields
<1> HIDE DEF d
<1>2. FreshKnown(m, d) /\ RemovedKnown(m, d) /\ LeafClaim(d)
  BY <1>1, NoLeafKnown
<1>3. Sees(d, keys)
  BY <1>1, <1>2 DEF Sees
<1>4. Answered(c, d)
  BY <1>1 DEF Answered
<1> QED
  BY <1>2, <1>3, <1>4 DEF Known, Progress, d

LEMMA AnswersKnown ==
  ASSUME NEW m, NEW keys, NEW c \in ContextSet, Busy(c), Known(m, keys, c), AtLeaf(c),
         c.cur.node.type # "remove", c.cur.node.low <= c.key,
         InRange(c.cur.node, c.key), SoundItems(c.cur.node), c.pending = <<>>,
         NEW d, Answers(c, d)
  PROVE  Known(m, keys, d) /\ Progress(c, d)
<1>1. CASE c.op = "scan"
  <2>1. d = LowerBound(c)
    BY <1>1 DEF Answers
  <2> QED
    BY <1>1, <2>1, PageKnown
<1>2. CASE c.op # "scan"
  <2> DEFINE present == c.key \in Seps(c.cur.node)
  <2>1. present \in BOOLEAN /\ present \in c.seen
    BY <1>2 DEF Known, Sees, LeafClaim
  <2>2. \/ c.op = "get" /\ d = Done(c, present)
        \/ c.op # "get" /\ d = Done(c, FALSE) /\ (Promised(c.op) = "insert") = present
    BY <1>2 DEF Answers
  <2> HIDE DEF present
  <2>3. CASE c.op = "get" /\ d = Done(c, present)
    BY <1>2, <2>1, <2>3, DoneKnown
  <2>4. CASE c.op # "get" /\ d = Done(c, FALSE) /\ (Promised(c.op) = "insert") = present
    <3>1. (Promised(c.op) = "insert") \in c.seen
      BY <2>1, <2>4
    <3>2. FALSE \in BOOLEAN
      OBVIOUS
    <3> QED
      BY <1>2, <2>4, <3>1, <3>2, DoneKnown
  <2> QED
    BY <2>2, <2>3, <2>4
<1> QED
  BY <1>1, <1>2

\* Whatever the code comes to with a node in hand.
LEMMA OutcomeKnown ==
  ASSUME NEW m, NEW next, NEW keys, NEW c \in ContextSet, Busy(c), Known(m, keys, c),
         Holds(m, next, c), Here(c), next \in 1 .. MaxId + 1, NEW d, Outcome(c, d)
  PROVE  Known(m, keys, d) /\ Progress(c, d)
<1> DEFINE n == c.cur.node
<1>1. Sees(c, keys) /\ Sound(m, next, n) /\ c.cur.id \in NodeIds
  BY DEF Known, Holds, Here, Taken
<1>2. n \in AnyNode /\ c.key \in Nat /\ GetNextNodeID(n) \in 0 .. MaxId
  BY NodeFacts DEF ContextSet, SnapSet
<1>3. CASE d = Abort(c)
  BY <1>1, <1>3, AbortKnown
<1>4. CASE d = At(c, "undefined")
  BY <1>4, AtKnown
<1>5. CASE \E pc \in Working : Ready(c, pc) /\ d = At(c, pc)
  BY <1>5, AtKnown
<1>6. CASE d = GoTo(c, "jump", GetNextNodeID(n))
  BY <1>2, <1>6, GoToKnown
<1>7. CASE InRange(n, c.key) /\ ~IsLeaf(n) /\ d = GoTo(c, "take", ChildFor(n, c.key))
  <2>1. ChildFor(n, c.key) \in 0 .. MaxId
    <3>1. n.low <= c.key
      BY DEF Here
    <3> HIDE DEF n
    <3>2. LeadsTo(m, next, ChildFor(n, c.key), c.key)
      BY <1>1, <1>2, <1>7, <3>1, ChildForProperties DEF LeadsTo
    <3> QED
      BY <3>2, MaxIdType DEF LeadsTo, InUse
  <2> QED
    BY <1>7, <2>1, GoToKnown
<1>8. CASE InRange(n, c.key) /\ IsLeaf(n) /\ c.pending = <<>> /\ n.type # "remove" /\ Answers(c, d)
  <2>1. AtLeaf(c) /\ n.low <= c.key /\ SoundItems(n)
    BY <1>1, <1>8 DEF AtLeaf, Here, Sound
  <2> QED
    BY <1>8, <2>1, AnswersKnown
<1> QED
  BY <1>3, <1>4, <1>5, <1>6, <1>7, <1>8 DEF Outcome, OutcomeIn

\* A leaf read from the mapping table says what is in the index now.
LEMMA LoadKnown ==
  ASSUME NEW m, NEW next, SoundTable(m, next), NEW keys, Linked(m, next, keys),
         NEW c, NEW d, SameCall(c, d), Busy(c), Busy(d), Sees(c, keys),
         d.cur.id \in InUse(next), d.cur.node = m[d.cur.id], d.cur.node.low <= d.key,
         RemovedKnown(m, d)
  PROVE  Known(m, keys, d) /\ SameCall(c, d)
<1> DEFINE id == d.cur.id
           n == m[id]
<1>1. PICK leaves \in SUBSET InUse(next) :
        LeavesLinked(m, next, leaves) /\ keys = LeafKeys(m, leaves)
  BY DEF Linked
<1>2. FreshKnown(m, d)
  BY DEF FreshKnown
<1>3. LeafClaim(d)
  <2> SUFFICES ASSUME AtLeaf(d), d.cur.node.type # "remove" PROVE LeafClaim(d)
    BY DEF LeafClaim
  <2>1. IsLeaf(n) /\ n.type # "remove"
    BY DEF AtLeaf
  <2>2. Seps(n) \subseteq keys /\ \A k \in keys : n.low <= k /\ InRange(n, k) => k \in Seps(n)
    BY <1>1, <2>1, LeafExact
  <2>3. d.op # "scan" /\ InRange(n, d.key) => (d.key \in Seps(n)) \in d.seen
    <3> SUFFICES ASSUME d.op # "scan", InRange(n, d.key) PROVE (d.key \in Seps(n)) \in d.seen
      OBVIOUS
    <3>1. (d.key \in keys) \in d.seen
      BY DEF SameCall, Sees, Busy
    <3>2. d.key \in Seps(n) <=> d.key \in keys
      BY <2>2
    <3>3. (d.key \in Seps(n)) = (d.key \in keys)
      BY <3>2
    <3> QED
      BY <3>1, <3>3
  <2>4. d.op = "scan" => Seps(n) \subseteq d.ever /\ d.steady \subseteq keys
    BY <2>2 DEF SameCall, Sees, Yields, Busy
  <2> QED
    BY <2>2, <2>3, <2>4 DEF LeafClaim
<1>4. Sees(d, keys)
  BY <1>3, SameCallSees
<1> QED
  BY <1>2, <1>4 DEF Known

-----------------------------------------------------------------------------
(* The steps.                                                              *)

\* Only what id points to changes, and that is not a removed leaf.
Elsewhere(m, next, m2, id) ==
  /\ \A i \in InUse(next) \ {id} : m2[i] = m[i]
  /\ id \in InUse(next) /\ IsLeaf(m[id]) => m[id].type # "remove"

LEMMA PendingElsewhere ==
  ASSUME NEW m, NEW next, NEW m2, NEW id, Elsewhere(m, next, m2, id),
         NEW c, Holds(m, next, c), RemovedKnown(m, c),
         NEW i \in 1 .. Len(c.pending), IsLeaf(c.pending[i][2])
  PROVE  c.pending[i][2] = m2[c.pending[i][1]]
<1>1. /\ c.pending[i][1] \in InUse(next) /\ c.pending[i][2].type = "remove"
  BY DEF Holds, Taken
<1>2. c.pending[i][2] = m[c.pending[i][1]]
  BY DEF RemovedKnown
<1>3. c.pending[i][1] # id
  BY <1>1, <1>2 DEF Elsewhere
<1> QED
  BY <1>1, <1>2, <1>3 DEF Elsewhere

LEMMA KnownElsewhere ==
  ASSUME NEW m, NEW next, NEW m2, NEW id, Elsewhere(m, next, m2, id),
         NEW c, Holds(m, next, c),
         NEW d, d.cur.id = c.cur.id, d.cur.node = c.cur.node, d.pending = c.pending,
         AtLeaf(c) /\ d.cur.fresh => c.cur.fresh /\ c.cur.id # id
  PROVE  /\ FreshKnown(m, c) => FreshKnown(m2, d)
         /\ RemovedKnown(m, c) => RemovedKnown(m2, d)
<1>0. AtLeaf(d) <=> AtLeaf(c)
  BY DEF AtLeaf
<1>1. AtLeaf(c) => c.cur.id \in InUse(next)
  BY DEF AtLeaf, Holds, Taken
<1>2. FreshKnown(m, c) => FreshKnown(m2, d)
  <2> SUFFICES ASSUME FreshKnown(m, c), AtLeaf(d), d.cur.fresh PROVE d.cur.node = m2[d.cur.id]
    BY DEF FreshKnown
  <2>1. c.cur.node = m[c.cur.id] /\ c.cur.id \in InUse(next) \ {id}
    BY <1>0, <1>1 DEF FreshKnown
  <2> QED
    BY <2>1 DEF Elsewhere
<1>3. RemovedKnown(m, c) => RemovedKnown(m2, d)
  <2> SUFFICES ASSUME RemovedKnown(m, c) PROVE RemovedKnown(m2, d)
    OBVIOUS
  <2>1. AtLeaf(d) /\ d.cur.node.type = "remove" => d.cur.node = m2[d.cur.id]
    <3> SUFFICES ASSUME AtLeaf(d), d.cur.node.type = "remove" PROVE d.cur.node = m2[d.cur.id]
      OBVIOUS
    <3>1. c.cur.node = m[c.cur.id] /\ IsLeaf(c.cur.node) /\ c.cur.id \in InUse(next)
      BY <1>0, <1>1 DEF RemovedKnown, AtLeaf
    <3>2. c.cur.id # id
      BY <3>1 DEF Elsewhere
    <3> QED
      BY <3>1, <3>2 DEF Elsewhere
  <2>2. \A i \in 1 .. Len(d.pending) :
          IsLeaf(d.pending[i][2]) => d.pending[i][2] = m2[d.pending[i][1]]
    BY PendingElsewhere
  <2> QED
    BY <2>1, <2>2 DEF RemovedKnown
<1> QED
  BY <1>2, <1>3

\* What is there of a Context for its caller.
LEMMA SameViewSees ==
  ASSUME NEW c, NEW d, SameView(c, d), SameCall(c, d), NEW keys, Sees(c, keys)
  PROVE  Sees(d, keys) /\ CallOf(d) = CallOf(c)
<1>1. LeafClaim(d)
  BY DEF SameView, SameCall, Sees, LeafClaim, AtLeaf
<1>2. c.op = "scan" => Yields(d, keys)
  BY DEF SameView, SameCall, Sees, Yields
<1>3. Sees(d, keys)
  BY <1>1, <1>2 DEF SameView, SameCall, Sees
<1>4. CallOf(d) = CallOf(c)
  BY DEF SameView, SameCall, CallOf
<1> QED
  BY <1>3, <1>4

LEMMA OthersKnown ==
  ASSUME NEW m, NEW next, NEW m2, NEW id, Elsewhere(m, next, m2, id), NEW keys,
         NEW c \in ContextSet, Holds(m, next, c), LeafKnown(m, c), Sees(c, keys)
  PROVE  /\ LeafKnown(m2, Outdated(c, id)) /\ Sees(Outdated(c, id), keys)
         /\ CallOf(Outdated(c, id)) = CallOf(c)
<1> DEFINE d == Outdated(c, id)
<1>1. /\ SameView(c, d) /\ SameCall(c, d) /\ d.cur.fresh = (c.cur.fresh /\ c.cur.id # id)
  <2>1. /\ SameView(c, d) /\ d.cur.fresh = (c.cur.fresh /\ c.cur.id # id)
        /\ d.seen = c.seen /\ d.got = c.got /\ d.steady = c.steady /\ d.ever = c.ever
        /\ d.res = c.res
    BY OutdatedFields
  <2> HIDE DEF d
  <2> QED
    BY <2>1 DEF SameCall, SameView
<1> HIDE DEF d
<1>2. /\ FreshKnown(m, c) => FreshKnown(m2, d)
      /\ RemovedKnown(m, c) => RemovedKnown(m2, d)
  <2>1. d.cur.id = c.cur.id /\ d.cur.node = c.cur.node /\ d.pending = c.pending
    BY <1>1 DEF SameView
  <2>2. AtLeaf(c) /\ d.cur.fresh => c.cur.fresh /\ c.cur.id # id
    BY <1>1
  <2> QED
    BY <2>1, <2>2, KnownElsewhere
<1>3. LeafKnown(m2, d)
  BY <1>1, <1>2 DEF LeafKnown, SameView
<1> QED
  BY <1>1, <1>3, SameViewSees DEF d

\* What a step of t means for the callers, unless it is an update, a call or a
\* return.
Progresses(t) ==
  /\ contents' = contents /\ Progress(ctx[t], ctx'[t])
  /\ \A u \in Threads \ {t} : CallOf(ctx'[u]) = CallOf(ctx[u])

LEMMA ContentsFacts ==
  ASSUME StructInv, ContentsInv, NEW t \in Threads
  PROVE  /\ SoundTable(mapping, next_unused_node_id)
         /\ Linked(mapping, next_unused_node_id, contents)
         /\ LeafKnown(mapping, ctx[t]) /\ Sees(ctx[t], contents)
         /\ ctx[t].pc # "abortUndo" => Known(mapping, contents, ctx[t])
         /\ DOMAIN ctx = Threads
<1>1. SoundTable(mapping, next_unused_node_id)
  BY DEF StructInv, TreeOK, SoundTable
<1> QED
  BY <1>1 DEF ContentsInv, Known, LeafKnown, StructInv

\* A step of t that installs nothing in the nodes that are there.
LEMMA LocalContents ==
  ASSUME StructInv, ContentsInv, NEW t \in Threads, NEW d, Continue(t, d),
         contents' = contents, requests' = requests,
         \A i \in InUse(next_unused_node_id) : mapping'[i] = mapping[i],
         Linked(mapping', next_unused_node_id', contents),
         LeafKnown(mapping', d), Sees(d, contents), Progress(ctx[t], d)
  PROVE  ContentsInv' /\ Progresses(t)
<1>1. ctx'[t] = d /\ \A u \in Threads \ {t} : ctx'[u] = ctx[u]
  BY DEF Continue, StructInv
<1>2. \A u \in Threads \ {t} : LeafKnown(mapping', ctx[u]) /\ Sees(ctx[u], contents)
  <2> TAKE u \in Threads \ {t}
  <2>1. /\ Holds(mapping, next_unused_node_id, ctx[u])
        /\ LeafKnown(mapping, ctx[u]) /\ Sees(ctx[u], contents)
    BY ThreadFacts, ContentsFacts
  <2>2. Elsewhere(mapping, next_unused_node_id, mapping', 0)
    <3>1. 0 \notin InUse(next_unused_node_id)
      BY DEF InUse
    <3> QED
      BY <3>1 DEF Elsewhere
  <2>3. AtLeaf(ctx[u]) => ctx[u].cur.id # 0
    BY DEF AtLeaf, NodeIds
  <2>4. /\ FreshKnown(mapping, ctx[u]) => FreshKnown(mapping', ctx[u])
        /\ RemovedKnown(mapping, ctx[u]) => RemovedKnown(mapping', ctx[u])
    BY <2>1, <2>2, <2>3, KnownElsewhere
  <2> QED
    BY <2>1, <2>4 DEF LeafKnown
<1>3. \A u \in Threads : LeafKnown(mapping', ctx'[u]) /\ Sees(ctx'[u], contents')
  BY <1>1, <1>2
<1>4. ContentsInv'
  BY <1>3 DEF ContentsInv
<1>5. Progresses(t)
  BY <1>1 DEF Progresses
<1> QED
  BY <1>4, <1>5

LEMMA StayContents ==
  ASSUME StructInv, ContentsInv, NEW t \in Threads, NEW d, Continue(t, d),
         contents' = contents, requests' = requests, mapping' = mapping,
         next_unused_node_id' = next_unused_node_id,
         Known(mapping, contents, d), Progress(ctx[t], d)
  PROVE  ContentsInv' /\ Progresses(t)
<1>1. Linked(mapping', next_unused_node_id', contents)
  BY DEF ContentsInv
<1>2. LeafKnown(mapping', d) /\ Sees(d, contents)
  BY DEF Known, LeafKnown
<1> QED
  BY <1>1, <1>2, LocalContents

LEMMA AbortContents ==
  ASSUME StructInv, ContentsInv, NEW t \in Threads, Continue(t, Abort(ctx[t])), Busy(ctx[t]),
         contents' = contents, requests' = requests, mapping' = mapping,
         next_unused_node_id' = next_unused_node_id
  PROVE  ContentsInv' /\ Progresses(t)
<1>1. ctx[t] \in ContextSet /\ Sees(ctx[t], contents)
  BY ThreadFacts, ContentsFacts
<1>2. Known(mapping, contents, Abort(ctx[t])) /\ Progress(ctx[t], Abort(ctx[t]))
  BY <1>1, AbortKnown
<1> QED
  BY <1>2, StayContents

\* A step of t that installs a node.
LEMMA InstallContents ==
  ASSUME StructInv, ContentsInv, NEW t \in Threads, NEW id, NEW d,
         ctx' = [u \in Threads |-> IF u = t THEN d ELSE Outdated(ctx[u], id)],
         contents' = contents, requests' = requests,
         Elsewhere(mapping, next_unused_node_id, mapping', id),
         Linked(mapping', next_unused_node_id', contents),
         LeafKnown(mapping', d), Sees(d, contents), Progress(ctx[t], d)
  PROVE  ContentsInv' /\ Progresses(t)
<1>1. ctx'[t] = d /\ \A u \in Threads \ {t} : ctx'[u] = Outdated(ctx[u], id)
  OBVIOUS
<1>2. \A u \in Threads \ {t} : /\ LeafKnown(mapping', Outdated(ctx[u], id))
                              /\ Sees(Outdated(ctx[u], id), contents)
                              /\ CallOf(Outdated(ctx[u], id)) = CallOf(ctx[u])
  <2> TAKE u \in Threads \ {t}
  <2>1. /\ ctx[u] \in ContextSet /\ Holds(mapping, next_unused_node_id, ctx[u])
        /\ LeafKnown(mapping, ctx[u]) /\ Sees(ctx[u], contents)
    BY ThreadFacts, ContentsFacts
  <2> QED
    BY <2>1, OthersKnown
<1>3. \A u \in Threads : LeafKnown(mapping', ctx'[u]) /\ Sees(ctx'[u], contents')
  BY <1>1, <1>2
<1>4. ContentsInv'
  BY <1>3 DEF ContentsInv
<1>5. Progresses(t)
  BY <1>1, <1>2 DEF Progresses
<1> QED
  BY <1>4, <1>5

LEMMA AtWorkKnown ==
  ASSUME StructInv, ContentsInv, NEW t \in Threads, ctx[t].pc \in Working
  PROVE  /\ ctx[t] \in ContextSet /\ Holds(mapping, next_unused_node_id, ctx[t])
         /\ Here(ctx[t]) /\ Ready(ctx[t], ctx[t].pc) /\ Busy(ctx[t]) /\ Sees(ctx[t], contents)
         /\ RemovedKnown(mapping, ctx[t])
         /\ ctx[t].pc # "abortUndo" => Known(mapping, contents, ctx[t])
         /\ next_unused_node_id \in 1 .. MaxId + 1
<1>1. Busy(ctx[t])
  BY DEF Busy, Working
<1> QED
  BY <1>1, ThreadFacts, AtWork, ContentsFacts DEF LeafKnown

\* A step of t that goes on with a node in hand.
LEMMA OutcomeContents ==
  ASSUME StructInv, ContentsInv, NEW t \in Threads, NEW c \in ContextSet,
         SameCall(ctx[t], c), Busy(ctx[t]), Busy(c), Known(mapping, contents, c),
         Holds(mapping, next_unused_node_id, c), Here(c),
         NEW d, Outcome(c, d), Continue(t, d),
         contents' = contents, requests' = requests, mapping' = mapping,
         next_unused_node_id' = next_unused_node_id
  PROVE  ContentsInv' /\ Progresses(t)
<1>1. Known(mapping, contents, d) /\ Progress(c, d)
  BY ThreadFacts, OutcomeKnown
<1>2. Progress(ctx[t], d)
  BY <1>1, ProgressSame
<1> QED
  BY <1>1, <1>2, StayContents

LEMMA OwnOutcomeContents ==
  ASSUME StructInv, ContentsInv, NEW t \in Threads, ctx[t].pc \in Working \ {"abortUndo"},
         NEW d, Outcome(ctx[t], d), Continue(t, d),
         contents' = contents, requests' = requests, mapping' = mapping,
         next_unused_node_id' = next_unused_node_id
  PROVE  ContentsInv' /\ Progresses(t)
<1>1. SameCall(ctx[t], ctx[t])
  BY DEF SameCall
<1> QED
  BY <1>1, AtWorkKnown, OutcomeContents

LEMMA CacheHitContents ==
  ASSUME StructInv, ContentsInv, NEW t \in Threads, CacheHit(t)
  PROVE  ContentsInv' /\ Progresses(t)
<1> DEFINE c == ctx[t]
           id == c.to
           snap == [Snapshot(id) EXCEPT !.fresh = id \notin blocked]
           d == WithSnap(c, snap)
<1>1. /\ c.pc = "hit" /\ UNCHANGED <<shared, bounds>>
      /\ Continue(t, Navigate(d)) \/ Continue(t, At(d, "undefined"))
  BY DEF CacheHit, WithSnap
<1>2. /\ c \in ContextSet /\ Holds(mapping, next_unused_node_id, c) /\ c.op # "none"
      /\ InnerId(mapping, next_unused_node_id, id)
      /\ LeadsTo(mapping, next_unused_node_id, id, c.key)
      /\ c.pending = <<>> /\ ~HasParentNode(c)
  BY <1>1, ThreadFacts DEF Placed
<1>3. snap = [id |-> id, node |-> mapping[id], fresh |-> snap.fresh] /\ snap.fresh \in BOOLEAN
  BY DEF Snapshot
<1> HIDE DEF c
<1>4. /\ d \in ContextSet /\ Holds(mapping, next_unused_node_id, d) /\ Here(d)
  <2> HIDE DEF snap
  <2> QED
    BY <1>2, <1>3, ThreadFacts, LoadOK
<1>5. /\ d.pending = <<>> /\ ~IsLeaf(d.cur.node) /\ SameCall(c, d) /\ d.pc = "hit"
  <2>1. snap \in SnapSet /\ snap.node = mapping[id]
    <3>1. id \in NodeIds /\ id \in UNSET .. MaxId /\ mapping[id] \in AnyNode
      BY <1>2, ThreadFacts, MaxIdType DEF InnerId, InUse, NodeIds, UNSET
    <3> HIDE DEF id
    <3> QED
      BY <3>1 DEF SnapSet, Snapshot
  <2> HIDE DEF snap
  <2>2. /\ d.op = c.op /\ d.key = c.key /\ d.res = c.res /\ d.seen = c.seen /\ d.got = c.got
        /\ d.steady = c.steady /\ d.ever = c.ever
        /\ d.pending = c.pending /\ d.cur = snap /\ d.pc = c.pc
    BY <1>2, <2>1, WithSnapFields
  <2> QED
    BY <1>1, <1>2, <2>1, <2>2 DEF InnerId, IsLeaf, SameCall
<1> HIDE DEF d
<1>6. Busy(c) /\ Busy(d)
  BY <1>1, <1>5 DEF Busy
<1>7. Known(mapping, contents, d)
  <2>1. ~AtLeaf(d) /\ \A i \in 1 .. Len(d.pending) : FALSE
    BY <1>5 DEF AtLeaf
  <2>2. FreshKnown(mapping, d) /\ RemovedKnown(mapping, d) /\ LeafClaim(d)
    BY <2>1 DEF FreshKnown, RemovedKnown, LeafClaim
  <2>3. Sees(c, contents)
    BY ContentsFacts DEF c
  <2> QED
    BY <1>5, <1>6, <2>2, <2>3, SameCallSees DEF Known
<1>8. Outcome(d, Navigate(d)) /\ Outcome(d, At(d, "undefined"))
  BY <1>4, <1>5, NavigateOutcome DEF Outcome, OutcomeIn
<1>9. PICK e : Continue(t, e) /\ Outcome(d, e)
  BY <1>1, <1>8
<1> QED
  BY <1>1, <1>4, <1>5, <1>6, <1>7, <1>9, OutcomeContents DEF c, shared, bounds

LEMMA LoadRootContents ==
  ASSUME StructInv, ContentsInv, NEW t \in Threads, LoadRoot(t)
  PROVE  ContentsInv' /\ Progresses(t)
<1> DEFINE c == ctx[t]
<1>1. c.pc = "root" /\ Continue(t, GoTo(c, "take", root_id)) /\ UNCHANGED <<shared, bounds>>
  BY DEF LoadRoot, GoTo
<1>2. c \in ContextSet /\ Known(mapping, contents, c) /\ Busy(c)
  BY <1>1, ThreadFacts, ContentsFacts DEF Busy
<1>3. root_id \in 0 .. MaxId
  BY ThreadFacts, MaxIdType DEF TreeOK, InnerId, InUse
<1>4. /\ Known(mapping, contents, GoTo(c, "take", root_id))
      /\ Progress(c, GoTo(c, "take", root_id))
  <2> HIDE DEF c
  <2> QED
    BY <1>2, <1>3, GoToKnown
<1> QED
  BY <1>1, <1>4, StayContents DEF shared, bounds

LEMMA LoadNodeIDContents ==
  ASSUME StructInv, ContentsInv, NEW t \in Threads, LoadNodeID(t)
  PROVE  ContentsInv' /\ Progresses(t)
<1> DEFINE d == IF Reading(ctx[t]) THEN WithSnap(ctx[t], Snapshot(ctx[t].to))
                ELSE WithSnap(Down(ctx[t]), Snapshot(ctx[t].to))
           e == IF Reading(ctx[t]) THEN FinishPartialSMOReadOptimized(d) ELSE FinishPartialSMO(d)
<1>1. ctx[t].pc = "take" /\ UNCHANGED <<shared, bounds>>
  BY DEF LoadNodeID
<1>2. /\ d \in ContextSet /\ Holds(mapping, next_unused_node_id, d) /\ Here(d)
      /\ d.op # "none" /\ d.pending = <<>> /\ d.cur = Snapshot(ctx[t].to) /\ d.pc = "take"
      /\ SameCall(ctx[t], d)
  BY <1>1, TakenContext DEF SameCall
<1>3. Continue(t, e)
  <2>1. ctx[t] \in ContextSet
    BY ThreadFacts
  <2>2. CASE Reading(ctx[t])
    <3>1. Reading(d)
      BY <1>1, <2>2, TakenContext DEF Reading
    <3>2. d = [ctx[t] EXCEPT !.cur = Snapshot(ctx[t].to), !.to = INVALID_NODE_ID]
      BY <2>2 DEF WithSnap
    <3> QED
      BY <2>2, <3>1, <3>2 DEF LoadNodeID
  <2>3. CASE ~Reading(ctx[t])
    <3> DEFINE c == [ctx[t] EXCEPT !.cur = Snapshot(ctx[t].to), !.to = INVALID_NODE_ID]
    <3>1. ~Reading(c)
      BY <2>1, <2>3 DEF Reading, ContextSet
    <3>2. d = [c EXCEPT !.par = ctx[t].cur]
      BY <2>1, <2>3 DEF WithSnap, Down, ContextSet
    <3> QED
      BY <2>3, <3>1, <3>2 DEF LoadNodeID
  <2> QED
    BY <2>2, <2>3
<1> HIDE DEF d
<1>4. Outcome(d, e)
  BY <1>2, ReadOptimizedOutcome, FinishPartialSMOOutcome
<1> HIDE DEF e
<1>5. Busy(ctx[t]) /\ Busy(d)
  BY <1>1, <1>2 DEF Busy
<1>6. Known(mapping, contents, d)
  <2>1. d.cur.id = ctx[t].to /\ d.cur.node = mapping[ctx[t].to]
    BY <1>2 DEF Snapshot
  <2>2. d.cur.id \in InUse(next_unused_node_id) /\ d.cur.node.low <= d.key
    BY <1>2 DEF Holds, Here, Taken
  <2>3. RemovedKnown(mapping, d)
    <3>1. \A i \in 1 .. Len(d.pending) : FALSE
      BY <1>2
    <3> QED
      BY <2>1, <3>1 DEF RemovedKnown
  <2> QED
    BY <1>2, <1>5, <2>1, <2>2, <2>3, ContentsFacts, LoadKnown
<1> QED
  BY <1>1, <1>2, <1>3, <1>4, <1>5, <1>6, OutcomeContents DEF shared, bounds

LEMMA JumpToNodeIDContents ==
  ASSUME StructInv, ContentsInv, NEW t \in Threads, JumpToNodeID(t)
  PROVE  ContentsInv' /\ Progresses(t)
<1> DEFINE d == WithSnap(ctx[t], Snapshot(ctx[t].to))
<1>1. /\ ctx[t].pc = "jump" /\ UNCHANGED <<shared, bounds>>
      /\ Continue(t, FinishPartialSMO(d))
  BY DEF JumpToNodeID, WithSnap
<1>2. /\ d \in ContextSet /\ Holds(mapping, next_unused_node_id, d) /\ Here(d) /\ d.op # "none"
      /\ d.pending = ctx[t].pending /\ d.cur = Snapshot(ctx[t].to) /\ d.pc = "jump"
      /\ SameCall(ctx[t], d)
  BY <1>1, JumpedContext DEF SameCall
<1> HIDE DEF d
<1>3. Outcome(d, FinishPartialSMO(d))
  BY <1>2, FinishPartialSMOOutcome
<1>4. Busy(ctx[t]) /\ Busy(d)
  BY <1>1, <1>2 DEF Busy
<1>5. Known(mapping, contents, d)
  <2>1. d.cur.id = ctx[t].to /\ d.cur.node = mapping[ctx[t].to]
    BY <1>2 DEF Snapshot
  <2>2. d.cur.id \in InUse(next_unused_node_id) /\ d.cur.node.low <= d.key
    BY <1>2 DEF Holds, Here, Taken
  <2>3. RemovedKnown(mapping, d)
    <3>1. RemovedKnown(mapping, ctx[t])
      BY ContentsFacts DEF LeafKnown
    <3> QED
      BY <1>2, <2>1, <3>1 DEF RemovedKnown
  <2> QED
    BY <1>2, <1>4, <2>1, <2>2, <2>3, ContentsFacts, LoadKnown
<1> QED
  BY <1>1, <1>2, <1>3, <1>4, <1>5, OutcomeContents DEF shared, bounds

LEMMA CheckMergeContents ==
  ASSUME StructInv, ContentsInv, NEW t \in Threads, CheckMerge(t)
  PROVE  ContentsInv' /\ Progresses(t)
<1> DEFINE c == ctx[t]
           d == IF ~ParentKnown(c) THEN Abort(c)
                ELSE IF Found(c.par.node, c.cur.node.sep) THEN At(c, "postDelete")
                ELSE TryConsolidateNode(c)
<1>1. c.pc = "mergeCheck" /\ Continue(t, d) /\ UNCHANGED <<shared, bounds>>
  BY DEF CheckMerge
<1>2. c \in ContextSet /\ Ready(c, "mergeCheck") /\ c.pc \in Working \ {"abortUndo"}
  BY <1>1, ThreadFacts, AtWork DEF Working
<1>3. Outcome(c, d)
  <2>1. Found(c.par.node, c.cur.node.sep) => Ready(c, "postDelete")
    BY <1>2 DEF Ready
  <2>2. c.cur.node.type # "remove"
    BY <1>2 DEF Ready
  <2> HIDE DEF c
  <2>3. Outcome(c, TryConsolidateNode(c))
    BY <1>2, <2>2, TryConsolidateNodeOutcome
  <2> QED
    BY <2>1, <2>3 DEF Outcome, OutcomeIn, Working
<1> HIDE DEF d
<1> QED
  BY <1>1, <1>2, <1>3, OwnOutcomeContents DEF shared, bounds

LEMMA ProbeSplitChildContents ==
  ASSUME StructInv, ContentsInv, NEW t \in Threads, ProbeSplitChild(t)
  PROVE  ContentsInv' /\ Progresses(t)
<1> DEFINE c == ctx[t]
           d == IF MaySplitAt(c.cur.node.items[SplitKey(c.cur.node)]) THEN At(c, "split")
                ELSE Loaded(c)
<1>1. c.pc = "probe" /\ Continue(t, d) /\ UNCHANGED <<shared, bounds>>
  BY DEF ProbeSplitChild
<1>2. c \in ContextSet /\ Ready(c, "probe") /\ c.pc \in Working \ {"abortUndo"}
  BY <1>1, ThreadFacts, AtWork DEF Working
<1>3. Outcome(c, d)
  <2>1. Ready(c, "split") /\ c.cur.node.type # "remove"
    BY <1>2 DEF Ready
  <2> HIDE DEF c
  <2>2. Outcome(c, Loaded(c))
    BY <1>2, <2>1, LoadedOutcome
  <2> QED
    BY <2>1, <2>2 DEF Outcome, OutcomeIn, Working
<1> HIDE DEF d
<1> QED
  BY <1>1, <1>2, <1>3, OwnOutcomeContents DEF shared, bounds

LEMMA PostAbortOnParentContents ==
  ASSUME StructInv, ContentsInv, NEW t \in Threads, PostAbortOnParent(t)
  PROVE  ContentsInv' /\ Progresses(t)
<1> DEFINE c == ctx[t]
<1>1. /\ c.pc = "abortPost"
      /\ Continue(t, At(c, "removePost")) \/ Continue(t, Abort(c))
      /\ UNCHANGED <<root_id, mapping, next_unused_node_id, contents, released, lru_cache, bounds>>
  BY DEF PostAbortOnParent
<1>2. c \in ContextSet /\ Ready(c, "abortPost") /\ c.pc \in Working \ {"abortUndo"}
  BY <1>1, ThreadFacts, AtWork DEF Working
<1>3. Outcome(c, At(c, "removePost")) /\ Outcome(c, Abort(c))
  <2>1. Ready(c, "removePost")
    BY <1>2 DEF Ready
  <2> QED
    BY <2>1 DEF Outcome, OutcomeIn, Working
<1>4. PICK d : Continue(t, d) /\ Outcome(c, d)
  BY <1>1, <1>3
<1> QED
  BY <1>1, <1>2, <1>4, OwnOutcomeContents DEF bounds

LEMMA RemoveAbortOnParentContents ==
  ASSUME StructInv, ContentsInv, NEW t \in Threads, RemoveAbortOnParent(t)
  PROVE  ContentsInv' /\ Progresses(t)
<1>1. Busy(ctx[t])
  BY DEF RemoveAbortOnParent, Busy
<1> QED
  BY <1>1, AbortContents DEF RemoveAbortOnParent, bounds

LEMMA JumpLeftKnown ==
  ASSUME NEW m, NEW keys, NEW c \in ContextSet, Busy(c), Known(m, keys, c), Here(c),
         c.cur.node.type = "remove"
  PROVE  Known(m, keys, JumpLeft(c)) /\ Progress(c, JumpLeft(c))
<1> DEFINE n  == c.cur.node
           id == LeftOf(c.par.node, n.low)
           ps == <<<<c.cur.id, n>>>> \o c.pending
           d  == [c EXCEPT !.pc = "jump", !.to = id, !.pending = ps]
<1>1. CASE Cardinality(LeftSeps(c.par.node, n.low)) < 2
  BY <1>1, AtKnown DEF JumpLeft
<1>2. CASE ~(Cardinality(LeftSeps(c.par.node, n.low)) < 2)
  <2>1. JumpLeft(c) = d
    BY <1>2 DEF JumpLeft, ContextSet
  <2>2. /\ d.pc = "jump" /\ d.cur = c.cur /\ d.pending = ps /\ SameCall(c, d)
    <3> HIDE DEF id, ps
    <3> QED
      BY DEF ContextSet, SameCall
  <2>3. Len(ps) \in Nat /\ \A i \in 1 .. Len(ps) :
          ps[i] = <<c.cur.id, n>> \/ (i - 1 \in 1 .. Len(c.pending) /\ ps[i] = c.pending[i - 1])
    <3>1. c.pending \in Seq(NodeIds \X AnyNode) /\ Len(c.pending) \in Nat
      BY DEF ContextSet
    <3> DEFINE e == <<c.cur.id, n>>
               s == c.pending
    <3> HIDE DEF e, s
    <3>2. s \in Seq(NodeIds \X AnyNode) /\ Len(s) \in Nat /\ ps = <<e>> \o s
      BY <3>1 DEF s, e
    <3>3. /\ Len(ps) = Len(s) + 1
          /\ \A i \in 1 .. Len(ps) : ps[i] = IF i = 1 THEN e ELSE s[i - 1]
      BY <3>2
    <3>4. \A i \in 1 .. Len(ps) : i = 1 \/ i - 1 \in 1 .. Len(s)
      BY <3>2, <3>3
    <3> HIDE DEF ps
    <3>5. \A i \in 1 .. Len(ps) : ps[i] = e \/ (i - 1 \in 1 .. Len(s) /\ ps[i] = s[i - 1])
      BY <3>3, <3>4
    <3> QED
      BY <3>2, <3>3, <3>5 DEF e, s
  <2> HIDE DEF d, ps
  <2>4. RemovedKnown(m, c) /\ FreshKnown(m, c) /\ Sees(c, keys)
    BY DEF Known
  <2>5. IsLeaf(n) => n = m[c.cur.id]
    BY <2>4 DEF RemovedKnown, AtLeaf, Here
  <2>6. RemovedKnown(m, d)
    <3>1. \A i \in 1 .. Len(ps) : IsLeaf(ps[i][2]) => ps[i][2] = m[ps[i][1]]
      <4> TAKE i \in 1 .. Len(ps)
      <4>1. CASE ps[i] = <<c.cur.id, n>>
        BY <2>5, <4>1
      <4>2. CASE i - 1 \in 1 .. Len(c.pending) /\ ps[i] = c.pending[i - 1]
        BY <2>4, <4>2 DEF RemovedKnown
      <4> QED
        BY <2>3, <4>1, <4>2
    <3> QED
      BY <2>2, <2>4, <3>1 DEF RemovedKnown, AtLeaf
  <2>7. FreshKnown(m, d)
    BY <2>2, <2>4 DEF FreshKnown, AtLeaf
  <2>8. LeafClaim(d) /\ Busy(d)
    BY <2>2, <2>4 DEF Sees, LeafClaim, SameCall, AtLeaf, Busy
  <2>9. Sees(d, keys) /\ Progress(c, d)
    BY <2>2, <2>4, <2>8, SameCallSees
  <2> QED
    BY <2>1, <2>6, <2>7, <2>9 DEF Known
<1> QED
  BY <1>1, <1>2

LEMMA JumpToLeftSiblingContents ==
  ASSUME StructInv, ContentsInv, NEW t \in Threads, JumpToLeftSibling(t)
  PROVE  ContentsInv' /\ Progresses(t)
<1> DEFINE c == ctx[t]
<1>1. /\ c.pc = "removeCheck" /\ UNCHANGED <<shared, bounds>>
      /\ \/ Continue(t, Abort(c)) \/ Continue(t, At(c, "parentConsolidate"))
         \/ Continue(t, JumpLeft(c))
  BY DEF JumpToLeftSibling
<1>2. /\ c \in ContextSet /\ Here(c) /\ Ready(c, "removeCheck") /\ Busy(c)
      /\ Known(mapping, contents, c) /\ Sees(c, contents)
  BY <1>1, AtWorkKnown DEF Working
<1>3. /\ Known(mapping, contents, Abort(c)) /\ Progress(c, Abort(c))
      /\ Known(mapping, contents, At(c, "parentConsolidate"))
      /\ Progress(c, At(c, "parentConsolidate"))
      /\ Known(mapping, contents, JumpLeft(c)) /\ Progress(c, JumpLeft(c))
  <2>1. c.cur.node.type = "remove" /\ "parentConsolidate" \in Working
    BY <1>2 DEF Ready, Working
  <2> HIDE DEF c
  <2> QED
    BY <1>2, <2>1, AbortKnown, AtKnown, JumpLeftKnown
<1>4. PICK d : Continue(t, d) /\ Known(mapping, contents, d) /\ Progress(c, d)
  BY <1>1, <1>3
<1> QED
  BY <1>1, <1>4, StayContents DEF shared, bounds

\* An inner node is replaced: what is known of leaves is the same.
LEMMA ParentInstalled ==
  ASSUME StructInv, ContentsInv, NEW t \in Threads, ctx[t].pc \in Working \ {"abortUndo"},
         HasParentNode(ctx[t]), NEW n \in AnyNode, Kin(mapping[ctx[t].par.id], n),
         mapping' = [mapping EXCEPT ![ctx[t].par.id] = n],
         NEW d, d = WithPar(ctx[t], n)
  PROVE  /\ Known(mapping', contents, d) /\ SameCall(ctx[t], d) /\ Busy(d)
         /\ Elsewhere(mapping, next_unused_node_id, mapping', ctx[t].par.id)
         /\ Linked(mapping', next_unused_node_id, contents)
<1> DEFINE c == ctx[t]
           id == c.par.id
<1>1. /\ c \in ContextSet /\ Holds(mapping, next_unused_node_id, c) /\ Busy(c)
      /\ Known(mapping, contents, c)
  BY AtWorkKnown
<1>2. id \in InUse(next_unused_node_id) /\ ~IsLeaf(mapping[id]) /\ ~IsLeaf(n)
  BY <1>1 DEF Holds, Taken, Kin, IsLeaf
<1>3. /\ d.cur = c.cur /\ d.pending = c.pending /\ d.pc = c.pc /\ SameCall(c, d)
  BY <1>1, WithParFields DEF SameCall
<1>4. Elsewhere(mapping, next_unused_node_id, mapping', id)
  <2>1. \A i \in InUse(next_unused_node_id) : i \in NodeIds
    BY ContentsFacts, TableFacts
  <2>2. \A i \in InUse(next_unused_node_id) \ {id} : mapping'[i] = mapping[i]
    BY <2>1, ThreadFacts
  <2> QED
    BY <1>2, <2>2 DEF Elsewhere
<1>5. Linked(mapping', next_unused_node_id, contents)
  BY <1>2, ContentsFacts, LinkedInstall
<1> HIDE DEF c, id
<1>6. AtLeaf(c) => c.cur.id # id
  <2>1. c.cur.id \in NodeIds => Kin(mapping[c.cur.id], c.cur.node)
    BY <1>1 DEF Holds, Taken
  <2> QED
    BY <1>2, <2>1 DEF AtLeaf, Kin, IsLeaf
<1>7. FreshKnown(mapping', d) /\ RemovedKnown(mapping', d)
  BY <1>1, <1>3, <1>4, <1>6, KnownElsewhere DEF Known
<1>8. LeafClaim(d) /\ Busy(d)
  BY <1>1, <1>3 DEF Known, Sees, LeafClaim, SameCall, AtLeaf, Busy
<1>9. Sees(d, contents)
  BY <1>1, <1>3, <1>8, SameCallSees DEF Known
<1> QED
  BY <1>3, <1>4, <1>5, <1>7, <1>8, <1>9 DEF Known, c, id

LEMMA ConsolidateParentContents ==
  ASSUME StructInv, ContentsInv, NEW t \in Threads, ConsolidateParent(t)
  PROVE  ContentsInv' /\ Progresses(t)
<1> DEFINE c == ctx[t]
           depth == c.par.node.depth + 1
           n == [Consolidated(c.par.node) EXCEPT !.depth = depth]
           d == WithPar(c, n)
<1>1. /\ c.pc = "parentConsolidate"
      /\ IF Current(c.par) THEN Install(t, c.par.id, n, JumpLeft(d))
         ELSE UNCHANGED mapping /\ Continue(t, JumpLeft(c))
      /\ UNCHANGED <<root_id, blocked, next_unused_node_id, contents, released, lru_cache, bounds>>
  BY DEF ConsolidateParent, WithPar
<1>2. /\ c \in ContextSet /\ Holds(mapping, next_unused_node_id, c)
      /\ Here(c) /\ Ready(c, "parentConsolidate") /\ Busy(c) /\ Known(mapping, contents, c)
      /\ c.pc \in Working \ {"abortUndo"}
  BY <1>1, AtWorkKnown DEF Working
<1>3. HasParentNode(c) /\ c.cur.node.type = "remove"
  BY <1>2 DEF Ready
<1>4. Sound(mapping, next_unused_node_id, c.par.node) /\ depth \in Nat
  <2>1. Sound(mapping, next_unused_node_id, c.par.node)
    BY <1>2, <1>3 DEF Holds, Taken
  <2>2. c.par.node.depth \in Nat
    BY <1>2 DEF ContextSet, SnapSet, AnyNode
  <2> QED
    BY <2>1, <2>2
<1>5. Sound(mapping, next_unused_node_id, n) /\ Kin(c.par.node, n)
  <2> HIDE DEF c, depth
  <2> QED
    BY <1>4, ConsolidatedSound
<1> HIDE DEF n
<1>6. /\ n \in AnyNode /\ d \in ContextSet /\ Here(d) /\ Kin(mapping[c.par.id], n)
  <2> HIDE DEF c
  <2> QED
    BY <1>2, <1>3, <1>5, WithParOK
<1>7. d.cur = c.cur
  <2> HIDE DEF c
  <2> QED
    BY <1>2, <1>6, WithParFields
<1>8. CASE ~Current(c.par)
  <2>1. Known(mapping, contents, JumpLeft(c)) /\ Progress(c, JumpLeft(c))
    BY <1>2, <1>3, JumpLeftKnown
  <2> QED
    BY <1>1, <1>8, <2>1, StayContents DEF bounds
<1>9. CASE Current(c.par)
  <2>1. mapping' = [mapping EXCEPT ![c.par.id] = n]
        /\ ctx' = [u \in Threads |-> IF u = t THEN JumpLeft(d) ELSE Outdated(ctx[u], c.par.id)]
    BY <1>1, <1>9 DEF Install
  <2>2. /\ Known(mapping', contents, d) /\ SameCall(c, d) /\ Busy(d)
        /\ Elsewhere(mapping, next_unused_node_id, mapping', c.par.id)
        /\ Linked(mapping', next_unused_node_id, contents)
    BY <1>2, <1>3, <1>6, <2>1, ParentInstalled
  <2> HIDE DEF d, c
  <2>3. Known(mapping', contents, JumpLeft(d)) /\ Progress(d, JumpLeft(d))
    BY <1>3, <1>6, <1>7, <2>2, JumpLeftKnown
  <2>4. Progress(c, JumpLeft(d))
    BY <1>2, <2>2, <2>3, ProgressSame
  <2>5. LeafKnown(mapping', JumpLeft(d)) /\ Sees(JumpLeft(d), contents)
    BY <2>3 DEF Known, LeafKnown
  <2> QED
    BY <1>1, <2>1, <2>2, <2>4, <2>5, InstallContents DEF bounds, c
<1> QED
  BY <1>8, <1>9

\* PostInnerDeleteNode() and PostInnerInsertNode().
LEMMA ParentChangedContents ==
  ASSUME StructInv, ContentsInv, NEW t \in Threads, ctx[t].pc \in Working \ {"abortUndo"},
         HasParentNode(ctx[t]), ctx[t].cur.node.type # "remove",
         NEW n, Sound(mapping, next_unused_node_id, n), Kin(ctx[t].par.node, n),
         Install(t, ctx[t].par.id, n, [ctx[t] EXCEPT !.par.node = n, !.pc = "consolidate"]),
         contents' = contents, requests' = requests, next_unused_node_id' = next_unused_node_id
  PROVE  ContentsInv' /\ Progresses(t)
<1> DEFINE c == ctx[t]
           b == WithPar(c, n)
           d == [c EXCEPT !.par.node = n, !.pc = "consolidate"]
<1>1. /\ c \in ContextSet /\ Holds(mapping, next_unused_node_id, c) /\ Here(c) /\ Busy(c)
      /\ c.op # "none"
  BY AtWorkKnown, AtWork
<1>2. mapping' = [mapping EXCEPT ![c.par.id] = n]
      /\ ctx' = [u \in Threads |-> IF u = t THEN d ELSE Outdated(ctx[u], c.par.id)]
  BY DEF Install
<1>3. Kin(mapping[c.par.id], n) /\ n \in AnyNode /\ d = At(b, "consolidate") /\ b \in ContextSet
  <2>1. Kin(mapping[c.par.id], n) /\ n \in AnyNode /\ d = At(b, "consolidate")
    <3>1. Kin(mapping[c.par.id], n) /\ n \in AnyNode
      <4> HIDE DEF c
      <4>1. c.cur.node.type # "remove" /\ HasParentNode(c) /\ Kin(c.par.node, n)
        BY DEF c
      <4> QED
        BY <1>1, <4>1, WithParOK
    <3>2. d = At(b, "consolidate")
      <4> HIDE DEF c
      <4> QED
        BY <1>1 DEF At, WithPar, ContextSet
    <3> QED
      BY <3>1, <3>2
  <2> QED
    BY <1>1, <2>1, WithParFields
<1>4. /\ Known(mapping', contents, b) /\ SameCall(c, b) /\ Busy(b)
      /\ Elsewhere(mapping, next_unused_node_id, mapping', c.par.id)
      /\ Linked(mapping', next_unused_node_id, contents)
  BY <1>2, <1>3, ParentInstalled
<1> HIDE DEF b, d, c
<1>5. Known(mapping', contents, d) /\ Progress(b, d)
  BY <1>3, <1>4, AtKnown DEF Working
<1>6. Progress(c, d)
  BY <1>1, <1>4, <1>5, ProgressSame
<1>7. LeafKnown(mapping', d) /\ Sees(d, contents)
  BY <1>5 DEF Known, LeafKnown
<1> QED
  BY <1>2, <1>4, <1>6, <1>7, InstallContents DEF c

LEMMA PostInnerDeleteNodeContents ==
  ASSUME StructInv, ContentsInv, NEW t \in Threads, PostInnerDeleteNode(t)
  PROVE  ContentsInv' /\ Progresses(t)
<1> DEFINE c == ctx[t]
           n == InnerDeleteNode(c.par.node, c.cur.node.sep)
           d == [c EXCEPT !.par.node = n, !.pc = "consolidate"]
<1>1. /\ c.pc = "postDelete"
      /\ IF Current(c.par) THEN Install(t, c.par.id, n, d)
         ELSE UNCHANGED mapping /\ Continue(t, Abort(c))
      /\ UNCHANGED <<root_id, blocked, next_unused_node_id, contents, lru_cache, bounds>>
  BY DEF PostInnerDeleteNode
<1>2. /\ c \in ContextSet /\ Holds(mapping, next_unused_node_id, c)
      /\ Here(c) /\ Ready(c, "postDelete") /\ Busy(c) /\ c.pc \in Working \ {"abortUndo"}
  BY <1>1, AtWorkKnown DEF Working
<1>3. /\ HasParentNode(c) /\ c.cur.node.type = "merge" /\ c.cur.node.sep # c.par.node.low
  BY <1>2 DEF Ready, Found
<1>4. Sound(mapping, next_unused_node_id, c.par.node) /\ ~IsLeaf(c.par.node)
  BY <1>2, <1>3 DEF Holds, Taken
<1>5. Sound(mapping, next_unused_node_id, n) /\ Kin(c.par.node, n)
  <2> HIDE DEF c
  <2> QED
    BY <1>3, <1>4, InnerDeleteNodeSound
<1>6. CASE ~Current(c.par)
  BY <1>1, <1>2, <1>6, AbortContents DEF bounds
<1>7. CASE Current(c.par)
  <2>1. c.cur.node.type # "remove"
    BY <1>3
  <2> HIDE DEF n
  <2> QED
    BY <1>1, <1>2, <1>3, <1>5, <1>7, <2>1, ParentChangedContents DEF bounds
<1> QED
  BY <1>6, <1>7

LEMMA PostInnerInsertNodeContents ==
  ASSUME StructInv, ContentsInv, NEW t \in Threads, PostInnerInsertNode(t)
  PROVE  ContentsInv' /\ Progresses(t)
<1> DEFINE c == ctx[t]
           k == c.cur.node.sep
           id == c.cur.node.other
           n == InnerInsertNode(c.par.node, k, id)
           d == [c EXCEPT !.par.node = n, !.pc = "consolidate"]
<1>1. /\ c.pc = "postInsert"
      /\ IF Current(c.par) THEN Install(t, c.par.id, n, d)
         ELSE UNCHANGED mapping /\ Continue(t, Abort(c))
      /\ UNCHANGED <<root_id, blocked, next_unused_node_id, contents, released, lru_cache, bounds>>
  BY DEF PostInnerInsertNode
<1>2. /\ c \in ContextSet /\ Holds(mapping, next_unused_node_id, c)
      /\ Here(c) /\ Ready(c, "postInsert") /\ Busy(c) /\ c.pc \in Working \ {"abortUndo"}
  BY <1>1, AtWorkKnown DEF Working
<1>3. /\ HasParentNode(c) /\ c.cur.node.type = "split" /\ InRange(c.par.node, k)
  BY <1>2 DEF Ready
<1>4. /\ Sound(mapping, next_unused_node_id, c.par.node) /\ ~IsLeaf(c.par.node)
      /\ Sound(mapping, next_unused_node_id, c.cur.node) /\ c.par.node.low <= c.cur.node.low
  BY <1>2, <1>3 DEF Holds, Here, Taken
<1>5. /\ k \in Nat /\ id \in 0 .. MaxId /\ c.cur.node.low \in Nat /\ c.par.node.low \in Nat
  BY <1>2 DEF ContextSet, SnapSet, AnyNode
<1>6. c.cur.node.low < k /\ StartsAt(mapping, next_unused_node_id, id, k)
  <2>1. c.cur.node.high = <<k, id>> /\ id # INVALID_NODE_ID
    BY <1>3, <1>4 DEF Sound, SoundDelta
  <2>2. c.cur.node.high[1] = k /\ GetNextNodeID(c.cur.node) = id
    BY <2>1 DEF GetNextNodeID
  <2> QED
    BY <1>4, <2>1, <2>2 DEF Sound, SoundSibling
<1>7. c.par.node.low <= k
  BY <1>4, <1>5, <1>6
<1>8. Sound(mapping, next_unused_node_id, n) /\ Kin(c.par.node, n)
  <2> HIDE DEF c, k, id
  <2> QED
    BY <1>3, <1>4, <1>5, <1>6, <1>7, InnerInsertNodeSound
<1>9. CASE ~Current(c.par)
  BY <1>1, <1>2, <1>9, AbortContents DEF bounds
<1>10. CASE Current(c.par)
  <2>1. c.cur.node.type # "remove"
    BY <1>3
  <2> HIDE DEF n
  <2> QED
    BY <1>1, <1>2, <1>3, <1>8, <1>10, <2>1, ParentChangedContents DEF bounds
<1> QED
  BY <1>9, <1>10

\* The CAS on the node in hand succeeds: nobody else has changed it, so that a
\* leaf is what the snapshot holds.
LEMMA CurrentLeaf ==
  ASSUME StructInv, ContentsInv, NEW t \in Threads, ctx[t].pc \in Working \ {"abortUndo"},
         Current(ctx[t].cur)
  PROVE  /\ ctx[t].cur.id \in InUse(next_unused_node_id)
         /\ Kin(mapping[ctx[t].cur.id], ctx[t].cur.node)
         /\ Sound(mapping, next_unused_node_id, ctx[t].cur.node)
         /\ IsLeaf(ctx[t].cur.node) => mapping[ctx[t].cur.id] = ctx[t].cur.node
         /\ IsLeaf(mapping[ctx[t].cur.id]) => mapping[ctx[t].cur.id] = ctx[t].cur.node
<1> DEFINE c == ctx[t]
<1>1. /\ Holds(mapping, next_unused_node_id, c) /\ Here(c) /\ Known(mapping, contents, c)
  BY AtWorkKnown
<1>2. /\ c.cur.id \in InUse(next_unused_node_id) /\ c.cur.id \in NodeIds
      /\ Kin(mapping[c.cur.id], c.cur.node) /\ Sound(mapping, next_unused_node_id, c.cur.node)
  BY <1>1 DEF Holds, Here, Taken
<1>3. IsLeaf(c.cur.node) => mapping[c.cur.id] = c.cur.node
  BY <1>1, <1>2 DEF Known, FreshKnown, AtLeaf, Current
<1> QED
  BY <1>2, <1>3 DEF Kin, IsLeaf

LEMMA CurElsewhere ==
  ASSUME StructInv, ContentsInv, NEW t \in Threads, ctx[t].pc \in Working \ {"abortUndo"},
         Current(ctx[t].cur), ctx[t].cur.node.type # "remove", NEW n,
         mapping' = [mapping EXCEPT ![ctx[t].cur.id] = n]
  PROVE  /\ Elsewhere(mapping, next_unused_node_id, mapping', ctx[t].cur.id)
         /\ mapping'[ctx[t].cur.id] = n
         /\ \A i \in InUse(next_unused_node_id) \ {ctx[t].cur.id} : mapping'[i] = mapping[i]
<1> DEFINE id == ctx[t].cur.id
<1>1. id \in InUse(next_unused_node_id) /\ (IsLeaf(mapping[id]) => mapping[id].type # "remove")
  BY CurrentLeaf
<1>2. \A i \in InUse(next_unused_node_id) : i \in NodeIds
  BY ContentsFacts, TableFacts
<1>3. mapping'[id] = n /\ \A i \in InUse(next_unused_node_id) \ {id} : mapping'[i] = mapping[i]
  BY <1>1, <1>2, ThreadFacts
<1> QED
  BY <1>1, <1>3 DEF Elsewhere

\* A thread knows what it has installed.
LEMMA CurInstalled ==
  ASSUME StructInv, ContentsInv, NEW t \in Threads, ctx[t].pc \in Working \ {"abortUndo"},
         NEW id, id = ctx[t].cur.id, Elsewhere(mapping, next_unused_node_id, mapping', id),
         SoundTable(mapping', next_unused_node_id),
         Linked(mapping', next_unused_node_id, contents),
         NEW d, SameCall(ctx[t], d), Busy(d), Here(d), d.cur.id = id,
         d.cur.node = mapping'[id], d.cur.node.type # "remove",
         \A i \in 1 .. Len(d.pending) :
           \E j \in 1 .. Len(ctx[t].pending) : d.pending[i] = ctx[t].pending[j]
  PROVE  Known(mapping', contents, d)
<1> DEFINE c == ctx[t]
<1>1. /\ Holds(mapping, next_unused_node_id, c) /\ Here(c) /\ RemovedKnown(mapping, c)
      /\ Sees(c, contents) /\ Busy(c)
  BY AtWorkKnown
<1>2. id \in InUse(next_unused_node_id)
  BY <1>1 DEF Holds, Here, Taken
<1>3. RemovedKnown(mapping', d)
  <2>1. \A j \in 1 .. Len(c.pending) :
          IsLeaf(c.pending[j][2]) => c.pending[j][2] = mapping'[c.pending[j][1]]
    BY <1>1, PendingElsewhere
  <2> QED
    BY <2>1 DEF RemovedKnown
<1>4. d.cur.node.low <= d.key
  BY DEF Here
<1> HIDE DEF c
<1>5. SameCall(c, d)
  BY DEF c
<1> QED
  BY <1>1, <1>2, <1>3, <1>4, <1>5, LoadKnown

LEMMA ConsolidateNodeContents ==
  ASSUME StructInv, ContentsInv, NEW t \in Threads, ConsolidateNode(t)
  PROVE  ContentsInv' /\ Progresses(t)
<1> DEFINE c == ctx[t]
           n == Consolidated(c.cur.node)
           F(d) == IF c.pc = "consolidate" THEN TryConsolidateNode(d) ELSE AdjustNodeSize(d)
           d == WithCur(c, n)
<1>1. /\ c.pc \in {"consolidate", "tryConsolidate"}
      /\ IF Current(c.cur) THEN Install(t, c.cur.id, n, F(d))
         ELSE UNCHANGED mapping /\ Continue(t, F(c))
      /\ UNCHANGED <<root_id, blocked, next_unused_node_id, contents, released, lru_cache, bounds>>
  BY DEF ConsolidateNode, WithCur
<1>2. /\ c \in ContextSet /\ Holds(mapping, next_unused_node_id, c)
      /\ Here(c) /\ Ready(c, c.pc) /\ Busy(c) /\ Known(mapping, contents, c)
      /\ c.pc \in Working \ {"abortUndo"} /\ next_unused_node_id \in 1 .. MaxId + 1
  BY <1>1, AtWorkKnown DEF Working
<1>3. c.cur.node.type # "remove"
  BY <1>1, <1>2 DEF Ready
<1>4. /\ Sound(mapping, next_unused_node_id, n) /\ Kin(c.cur.node, n) /\ n.type = "base"
      /\ n.high = c.cur.node.high /\ Seps(n) = Seps(c.cur.node)
  <2>1. Sound(mapping, next_unused_node_id, c.cur.node)
    BY <1>2 DEF Holds, Here, Taken
  <2>2. n.type = "base" /\ n.high = c.cur.node.high /\ Seps(n) = Seps(c.cur.node)
    BY DEF Consolidated, Base, Seps
  <2> HIDE DEF c
  <2>3. 0 \in Nat
    OBVIOUS
  <2> QED
    BY <2>1, <2>2, <2>3, ConsolidatedSound DEF Consolidated, Base
<1> HIDE DEF n
<1>5. /\ n \in AnyNode /\ d \in ContextSet /\ Holds(mapping, next_unused_node_id, d) /\ Here(d)
      /\ Kin(mapping[c.cur.id], n) /\ c.cur.id \in InUse(next_unused_node_id)
  <2> HIDE DEF c
  <2> QED
    BY <1>2, <1>4, WithCurOK
<1>6. /\ d.cur.id = c.cur.id /\ d.cur.node = n /\ d.pending = c.pending /\ SameCall(c, d)
      /\ d.pc = c.pc /\ Busy(d)
  <2> HIDE DEF c
  <2>1. /\ d.cur.id = c.cur.id /\ d.cur.node = n /\ d.pending = c.pending /\ SameCall(c, d)
        /\ d.pc = c.pc
    BY <1>2, <1>5, WithCurFields DEF SameCall
  <2> QED
    BY <1>2, <2>1 DEF Busy
<1> HIDE DEF d
<1>7. Outcome(c, F(c)) /\ Outcome(d, F(d))
  <2>1. d.cur.node.type # "remove"
    BY <1>4, <1>6
  <2> HIDE DEF c
  <2> QED
    BY <1>2, <1>3, <1>5, <2>1, TryConsolidateNodeOutcome, AdjustNodeSizeOutcome
<1> HIDE DEF F
<1>8. CASE ~Current(c.cur)
  BY <1>1, <1>2, <1>7, <1>8, OwnOutcomeContents DEF bounds
<1>9. CASE Current(c.cur)
  <2>1. mapping' = [mapping EXCEPT ![c.cur.id] = n]
        /\ ctx' = [u \in Threads |-> IF u = t THEN F(d) ELSE Outdated(ctx[u], c.cur.id)]
    BY <1>1, <1>9 DEF Install
  <2>2. Elsewhere(mapping, next_unused_node_id, mapping', c.cur.id) /\ mapping'[c.cur.id] = n
    BY <1>2, <1>3, <1>9, <2>1, CurElsewhere
  <2>3. Linked(mapping', next_unused_node_id, contents)
    <3>1. IsLeaf(n) => /\ mapping[c.cur.id].type # "remove" /\ n.high = mapping[c.cur.id].high
                       /\ Seps(n) = Seps(mapping[c.cur.id])
      BY <1>2, <1>3, <1>4, <1>5, <1>9, CurrentLeaf DEF Kin, IsLeaf
    <3>2. c.cur.id \in InUse(next_unused_node_id) /\ Kin(mapping[c.cur.id], n)
      BY <1>5
    <3> HIDE DEF c
    <3> QED
      BY <2>1, <3>1, <3>2, ContentsFacts, LinkedInstall
  <2>4. StructInv'
    BY StepStructInv DEF Step
  <2>5. SoundTable(mapping', next_unused_node_id)
    BY <1>1, <2>4 DEF StructInv, TreeOK, SoundTable
  <2>6. Known(mapping', contents, d)
    <3>1. \A i \in 1 .. Len(d.pending) :
            \E j \in 1 .. Len(c.pending) : d.pending[i] = c.pending[j]
      BY <1>6
    <3>2. d.cur.node.type # "remove" /\ d.cur.node = mapping'[c.cur.id]
      BY <1>4, <1>6, <2>2
    <3> QED
      BY <1>2, <1>5, <1>6, <2>2, <2>3, <2>5, <3>1, <3>2, CurInstalled
  <2>7. Holds(mapping', next_unused_node_id, d)
    <3>1. Grows(mapping, next_unused_node_id, mapping', next_unused_node_id)
      <4> HIDE DEF c
      <4> QED
        BY <1>4, <1>5, <2>1, ThreadFacts, InstallTreeOK
    <3> QED
      BY <1>5, <3>1, TakenGrows DEF Holds
  <2>8. Known(mapping', contents, F(d)) /\ Progress(d, F(d))
    BY <1>2, <1>5, <1>6, <1>7, <2>6, <2>7, OutcomeKnown
  <2>9. Progress(c, F(d))
    BY <1>2, <1>6, <2>8, ProgressSame
  <2>10. LeafKnown(mapping', F(d)) /\ Sees(F(d), contents)
    BY <2>8 DEF Known, LeafKnown
  <2> HIDE DEF c
  <2> QED
    BY <1>1, <2>1, <2>2, <2>3, <2>9, <2>10, InstallContents DEF bounds, c
<1> QED
  BY <1>8, <1>9

LEMMA PostMergeNodeContents ==
  ASSUME StructInv, ContentsInv, NEW t \in Threads, PostMergeNode(t)
  PROVE  ContentsInv' /\ Progresses(t)
<1> DEFINE c == ctx[t]
           next == next_unused_node_id
           id == c.cur.id
           gone == Head(c.pending)[1]
           right == Head(c.pending)[2]
           n == MergeNode(c.cur.node, right, gone)
           d == Popped(WithCur(c, n))
           e == [c EXCEPT !.cur.node = n, !.pending = Tail(@), !.pc = "mergeCheck"]
<1>1. /\ c.pc = "mergePost"
      /\ IF Current(c.cur) THEN Install(t, id, n, e)
         ELSE UNCHANGED mapping /\ Continue(t, Abort(c))
      /\ UNCHANGED <<root_id, blocked, next, contents, released, lru_cache, bounds>>
  BY DEF PostMergeNode
<1>2. /\ c \in ContextSet /\ Holds(mapping, next, c) /\ Here(c) /\ Ready(c, "mergePost")
      /\ Busy(c) /\ RemovedKnown(mapping, c) /\ c.pc \in Working \ {"abortUndo"}
  BY <1>1, AtWorkKnown DEF Working
<1>3. /\ Sound(mapping, next, n) /\ n.type = "merge" /\ Kin(mapping[id], n)
      /\ Kin(c.cur.node, n) /\ id \in InUse(next) /\ d \in ContextSet /\ Here(d)
      /\ d.cur.id = id /\ d.cur.node = n /\ d.op = c.op /\ d.key = c.key
      /\ d.res = c.res /\ d.seen = c.seen /\ d.got = c.got
      /\ d.steady = c.steady /\ d.ever = c.ever
      /\ Len(c.pending) \in Nat /\ 1 \in 1 .. Len(c.pending) /\ Head(c.pending) = c.pending[1]
      /\ \A i \in 1 .. Len(d.pending) :
           i + 1 \in 1 .. Len(c.pending) /\ d.pending[i] = c.pending[i + 1]
  <2>1. MergedHand(mapping, next, c, n, d)
    BY <1>1, MergedContext
  <2> HIDE DEF c, n, d, id
  <2> QED
    BY <2>1 DEF MergedHand, id
<1>4. e = At(d, "mergeCheck")
  <2> HIDE DEF c, n
  <2> QED
    BY <1>2 DEF At, Popped, WithCur, ContextSet
<1>5. c.cur.node.type # "remove" /\ GetNextNodeID(c.cur.node) = gone
  BY <1>1, <1>2 DEF Ready
<1>6. d.pc = c.pc
  <2>1. n \in AnyNode
    BY <1>1, MergedContext DEF MergedHand
  <2> HIDE DEF c, n
  <2>2. WithCur(c, n) \in ContextSet /\ WithCur(c, n).pending = c.pending /\ WithCur(c, n).pc = c.pc
    BY <1>2, <2>1, WithCurFields
  <2>3. c.pending # <<>>
    BY <1>2 DEF Ready
  <2> QED
    BY <2>2, <2>3, PoppedFields
<1>7. CASE ~Current(c.cur)
  BY <1>1, <1>2, <1>7, AbortContents DEF bounds
<1>8. CASE Current(c.cur)
  <2>1. /\ Taken(mapping, next, gone, right) /\ right.type = "remove"
        /\ IsLeaf(right) => right = mapping[gone]
    BY <1>2, <1>3 DEF Holds, RemovedKnown
  <2> HIDE DEF n, d, e
  <2>2. mapping' = [mapping EXCEPT ![id] = n]
        /\ ctx' = [u \in Threads |-> IF u = t THEN e ELSE Outdated(ctx[u], id)]
    BY <1>1, <1>8 DEF Install
  <2>3. /\ Elsewhere(mapping, next, mapping', id) /\ mapping'[id] = n
        /\ \A i \in InUse(next) \ {id} : mapping'[i] = mapping[i]
    BY <1>2, <1>5, <1>8, <2>2, CurElsewhere
  <2>4. ASSUME ~IsLeaf(n) PROVE Linked(mapping', next, contents)
    <3>1. Linked(mapping', next, contents)
      <4> HIDE DEF c, id
      <4> QED
        BY <1>3, <2>2, <2>4, ContentsFacts, LinkedInstall
    <3> QED
      BY <3>1
  <2>5. ASSUME IsLeaf(n) PROVE Linked(mapping', next, contents)
    <3>1. /\ mapping[id] = c.cur.node /\ IsLeaf(mapping[id])
          /\ Sound(mapping, next, c.cur.node) /\ Kin(mapping[gone], right)
          /\ gone \in InUse(next)
      BY <1>2, <1>3, <1>8, <2>1, <2>5, CurrentLeaf DEF Kin, IsLeaf, Taken
    <3>2. mapping[gone].kind = c.cur.node.kind
      <4>1. gone # INVALID_NODE_ID
        BY <3>1, ContentsFacts, TableFacts
      <4> QED
        BY <1>5, <3>1, <4>1 DEF Sound, SoundSibling
    <3>3. IsLeaf(right)
      BY <3>1, <3>2 DEF Kin, IsLeaf
    <3>4. right = mapping[gone] /\ mapping[gone].type = "remove"
      BY <2>1, <3>3
    <3>5. mapping'[id] = MergeNode(mapping[id], mapping[gone], gone)
      BY <2>3, <3>1, <3>4 DEF n
    <3>6. GetNextNodeID(mapping[id]) = gone /\ mapping[id].type # "remove"
      BY <1>5, <3>1
    <3> HIDE DEF c, id, gone
    <3>7. Linked(mapping', next, contents)
      BY <1>3, <2>3, <3>1, <3>4, <3>5, <3>6, ContentsFacts, LinkedMerge
    <3> QED
      BY <3>7
  <2>6. Linked(mapping', next, contents)
    BY <2>4, <2>5
  <2>7. SoundTable(mapping', next)
    <3>1. StructInv'
      BY StepStructInv DEF Step
    <3> QED
      BY <1>1, <3>1 DEF StructInv, TreeOK, SoundTable
  <2>8. SameCall(c, d) /\ Busy(d)
    BY <1>2, <1>3, <1>6 DEF SameCall, Busy
  <2>9. Known(mapping', contents, d)
    <3>1. d.cur.node = mapping'[id] /\ d.cur.node.type # "remove"
      BY <1>3, <2>3
    <3>2. \A i \in 1 .. Len(d.pending) :
            \E j \in 1 .. Len(c.pending) : d.pending[i] = c.pending[j]
      BY <1>3
    <3> QED
      BY <1>2, <1>3, <2>3, <2>6, <2>7, <2>8, <3>1, <3>2, CurInstalled
  <2>10. Known(mapping', contents, e) /\ Progress(d, e)
    BY <1>3, <1>4, <2>8, <2>9, AtKnown DEF Working
  <2>11. Progress(c, e)
    BY <1>2, <2>8, <2>10, ProgressSame
  <2>12. LeafKnown(mapping', e) /\ Sees(e, contents)
    BY <2>10 DEF Known, LeafKnown
  <2> HIDE DEF c, id
  <2> QED
    BY <1>1, <2>2, <2>3, <2>6, <2>11, <2>12, InstallContents DEF bounds, c
<1> QED
  BY <1>7, <1>8

LEMMA PostRemoveNodeContents ==
  ASSUME StructInv, ContentsInv, NEW t \in Threads, PostRemoveNode(t)
  PROVE  ContentsInv' /\ Progresses(t)
<1> DEFINE c == ctx[t]
           next == next_unused_node_id
           id == c.cur.id
           n == RemoveNode(c.cur.node)
           d == At(c, "abortUndo")
<1>1. /\ c.pc = "removePost"
      /\ IF Current(c.cur) THEN Install(t, id, n, d) ELSE UNCHANGED mapping /\ Continue(t, d)
      /\ UNCHANGED <<root_id, blocked, next, contents, released, lru_cache, bounds>>
  BY DEF PostRemoveNode
<1>2. /\ c \in ContextSet /\ Holds(mapping, next, c) /\ Here(c) /\ Ready(c, "removePost")
      /\ Busy(c) /\ Known(mapping, contents, c) /\ c.pc \in Working \ {"abortUndo"}
  BY <1>1, AtWorkKnown DEF Working
<1>3. Known(mapping, contents, d) /\ Progress(c, d)
  BY <1>2, AtKnown DEF Working
<1>4. CASE ~Current(c.cur)
  BY <1>1, <1>3, <1>4, StayContents DEF bounds
<1>5. CASE Current(c.cur)
  <2>1. c.cur.node.type = "base"
    BY <1>2 DEF Ready
  <2>2. /\ Kin(c.cur.node, n) /\ n.high = c.cur.node.high /\ Seps(n) = Seps(c.cur.node)
    <3>1. c.cur.node \in AnyNode /\ Sound(mapping, next, c.cur.node)
      BY <1>2, IsNodeDef DEF Holds, Here, Taken, Sound
    <3> DEFINE x == c.cur.node
    <3>2. x \in AnyNode
      BY <3>1
    <3> HIDE DEF x
    <3>3. /\ RemoveNode(x).kind = x.kind /\ RemoveNode(x).low = x.low
          /\ RemoveNode(x).high = x.high /\ RemoveNode(x).items = x.items
      BY <3>2 DEF RemoveNode, AnyNode
    <3>4. Kin(x, RemoveNode(x)) /\ Seps(RemoveNode(x)) = Seps(x)
      BY <3>3 DEF Kin, Seps
    <3> QED
      BY <3>3, <3>4 DEF x
  <2> HIDE DEF n
  <2>3. mapping' = [mapping EXCEPT ![id] = n]
        /\ ctx' = [u \in Threads |-> IF u = t THEN d ELSE Outdated(ctx[u], id)]
    BY <1>1, <1>5 DEF Install
  <2>4. Elsewhere(mapping, next, mapping', id)
    BY <1>2, <1>5, <2>1, <2>3, CurElsewhere
  <2>5. Linked(mapping', next, contents)
    <3>1. /\ id \in InUse(next) /\ Kin(mapping[id], n)
          /\ IsLeaf(n) => /\ mapping[id].type # "remove" /\ n.high = mapping[id].high
                          /\ Seps(n) = Seps(mapping[id])
      BY <1>2, <1>5, <2>1, <2>2, CurrentLeaf DEF Kin, IsLeaf
    <3> HIDE DEF c, id
    <3> QED
      BY <2>3, <3>1, ContentsFacts, LinkedInstall
  <2>6. /\ d.pc = "abortUndo" /\ d.cur = c.cur /\ d.pending = c.pending
    BY <1>2, AtFields DEF PCs
  <2> HIDE DEF d
  <2>7. RemovedKnown(mapping', d)
    <3>1. \A j \in 1 .. Len(c.pending) :
            IsLeaf(c.pending[j][2]) => c.pending[j][2] = mapping'[c.pending[j][1]]
      BY <1>2, <2>4, PendingElsewhere DEF Known
    <3> QED
      BY <2>1, <2>6, <3>1 DEF RemovedKnown
  <2>8. LeafKnown(mapping', d) /\ Sees(d, contents)
    BY <1>3, <2>6, <2>7 DEF Known, LeafKnown
  <2> QED
    BY <1>1, <1>3, <2>3, <2>4, <2>5, <2>8, InstallContents DEF bounds
<1> QED
  BY <1>4, <1>5

LEMMA InstallRootNodeContents ==
  ASSUME StructInv, ContentsInv, NEW t \in Threads, InstallRootNode(t)
  PROVE  ContentsInv' /\ Progresses(t)
<1> DEFINE c == ctx[t]
           next == next_unused_node_id
           n == RootNode(c)
<1>1. /\ c.pc = "newRoot" /\ Continue(t, Abort(c)) /\ contents' = contents /\ requests' = requests
      /\ IF root_id = c.cur.id
         THEN /\ next <= MaxId /\ mapping' = [mapping EXCEPT ![next] = n]
              /\ next_unused_node_id' = next + 1
         ELSE mapping' = mapping /\ next_unused_node_id' = next
  BY DEF InstallRootNode, RootNode, bounds
<1>2. Busy(c) /\ c \in ContextSet /\ Sees(c, contents) /\ next \in 1 .. MaxId + 1
  BY <1>1, AtWorkKnown DEF Working
<1>3. CASE root_id # c.cur.id
  BY <1>1, <1>2, <1>3, AbortContents
<1>4. CASE root_id = c.cur.id
  <2>1. next \in NodeIds /\ next \in Nat \ {0} /\ next \notin InUse(next)
        /\ \A i \in InUse(next) : i # next
    BY <1>1, <1>2, <1>4, MaxIdType DEF NodeIds, InUse
  <2>2. ~IsLeaf(n)
    BY DEF RootNode, Base, IsLeaf
  <2>3. mapping'[next] = n /\ \A i \in InUse(next) : mapping'[i] = mapping[i]
    <3>1. mapping' = [mapping EXCEPT ![next] = n]
      BY <1>1, <1>4
    <3>2. DOMAIN mapping = NodeIds
      BY ThreadFacts
    <3> HIDE DEF n, next
    <3> QED
      BY <2>1, <3>1, <3>2
  <2> HIDE DEF n
  <2>4. Linked(mapping', next + 1, contents)
    BY <2>1, <2>2, <2>3, ContentsFacts, LinkedAllocate
  <2>5. Known(mapping', contents, Abort(c)) /\ Progress(c, Abort(c))
    BY <1>2, AbortKnown
  <2>6. LeafKnown(mapping', Abort(c)) /\ Sees(Abort(c), contents)
    BY <2>5 DEF Known, LeafKnown
  <2> QED
    BY <1>1, <1>4, <2>3, <2>4, <2>5, <2>6, LocalContents
<1> QED
  BY <1>3, <1>4

LEMMA PostSplitNodeContents ==
  ASSUME StructInv, ContentsInv, NEW t \in Threads, PostSplitNode(t)
  PROVE  ContentsInv' /\ Progresses(t)
<1> DEFINE c == ctx[t]
           next == next_unused_node_id
           n == c.cur.node
           id == c.cur.id
<1>1. /\ c.pc = "split" /\ contents' = contents /\ requests' = requests
      /\ IF Current(c.cur)
         THEN /\ next <= MaxId /\ mapping' = SplitTable(mapping, next, id, n)
              /\ ctx' = [u \in Threads |-> IF u = t THEN Abort(c) ELSE Outdated(ctx[u], id)]
              /\ next_unused_node_id' = next + 1
         ELSE /\ mapping' = mapping /\ next_unused_node_id' = next /\ Continue(t, Loaded(c))
  BY DEF PostSplitNode, SplitTable, bounds
<1>2. /\ c \in ContextSet /\ Holds(mapping, next, c) /\ Here(c) /\ Ready(c, "split")
      /\ Busy(c) /\ Sees(c, contents) /\ c.pc \in Working \ {"abortUndo"}
      /\ next \in 1 .. MaxId + 1
  BY <1>1, AtWorkKnown DEF Working
<1>3. n.type = "base" /\ MaySplit(n)
  BY <1>2 DEF Ready
<1>4. CASE ~Current(c.cur)
  <2>1. Outcome(c, Loaded(c))
    BY <1>2, <1>3, LoadedOutcome
  <2> QED
    BY <1>1, <1>2, <1>4, <2>1, OwnOutcomeContents
<1>5. CASE Current(c.cur)
  <2>1. /\ id \in InUse(next) /\ Kin(mapping[id], n) /\ Sound(mapping, next, n)
        /\ IsLeaf(n) => mapping[id] = n
        /\ IsLeaf(mapping[id]) => mapping[id] = n
    BY <1>2, <1>5, CurrentLeaf
  <2>2. next \in NodeIds /\ next \in Nat \ {0} /\ id # next /\ \A i \in InUse(next) : i \in NodeIds \ {next}
    BY <1>1, <1>2, <1>5, <2>1, MaxIdType DEF NodeIds, InUse
  <2>3. /\ mapping'[id] = SplitNode(n, next) /\ mapping'[next] = SplitSibling(n)
        /\ \A i \in NodeIds \ {next, id} : mapping'[i] = mapping[i]
    <3>1. mapping' = SplitTable(mapping, next, id, n) /\ DOMAIN mapping = NodeIds
      BY <1>1, <1>5, ThreadFacts
    <3> HIDE DEF n, id, c, next
    <3> QED
      BY <1>3, <2>1, <2>2, <3>1, SplitSound
  <2>4. \A i \in InUse(next) \ {id} : mapping'[i] = mapping[i]
    BY <2>2, <2>3
  <2>5. Elsewhere(mapping, next, mapping', id)
    BY <1>3, <2>1, <2>4 DEF Elsewhere
  <2>6. ASSUME IsLeaf(n) PROVE Linked(mapping', next + 1, contents)
    <3>1. /\ mapping[id].type = "base" /\ MaySplit(mapping[id])
          /\ mapping' = SplitTable(mapping, next, id, mapping[id])
      BY <1>1, <1>3, <1>5, <2>1, <2>6
    <3> HIDE DEF n, id, c, next
    <3>2. SoundTable(mapping, next) /\ Linked(mapping, next, contents)
      BY ContentsFacts DEF next
    <3> QED
      BY <2>1, <2>2, <3>1, <3>2, LinkedSplit
  <2>7. ASSUME ~IsLeaf(n) PROVE Linked(mapping', next + 1, contents)
    <3> DEFINE lft == SplitNode(n, next)
               m1 == [mapping EXCEPT ![id] = lft]
    <3>1. SoundItems(n) /\ n \in AnyNode /\ next \in 0 .. MaxId
      BY <2>1, <2>2, IsNodeDef, MaxIdType DEF Sound, NodeIds
    <3>2. Kin(n, lft) /\ SplitSibling(n).kind = n.kind
      <4> DEFINE x == n
      <4>1. SoundItems(x) /\ x \in AnyNode /\ MaySplit(x) /\ next \in 0 .. MaxId
        BY <1>3, <3>1
      <4> HIDE DEF x, next
      <4>2. Kin(x, SplitNode(x, next)) /\ SplitSibling(x).kind = x.kind
        BY <4>1, SplitNodeFields, SplitSiblingFields
      <4> QED
        BY <4>2 DEF x
    <3>3. Kin(mapping[id], lft) /\ ~IsLeaf(lft) /\ ~IsLeaf(SplitSibling(n))
      BY <2>1, <2>7, <3>2, KinTransitive DEF Kin, IsLeaf
    <3>4. SoundTable(mapping, next) /\ Linked(mapping, next, contents) /\ DOMAIN mapping = NodeIds
      BY ContentsFacts, ThreadFacts
    <3> HIDE DEF n, id, c, next, lft
    <3>5. Linked(m1, next, contents)
      BY <2>1, <3>3, <3>4, LinkedInstall
    <3>6. \A i \in InUse(next) : mapping'[i] = m1[i]
      <4> TAKE i \in InUse(next)
      <4>1. CASE i = id
        BY <2>2, <2>3, <3>4, <4>1 DEF lft
      <4>2. CASE i # id
        BY <2>2, <2>4, <3>4, <4>2
      <4> QED
        BY <4>1, <4>2
    <3>7. ~IsLeaf(mapping'[next])
      BY <2>3, <3>3
    <3> HIDE DEF m1
    <3> QED
      BY <2>2, <3>5, <3>6, <3>7, LinkedAllocate
  <2>8. Linked(mapping', next_unused_node_id', contents)
    BY <1>1, <1>5, <2>6, <2>7
  <2>9. Known(mapping', contents, Abort(c)) /\ Progress(c, Abort(c))
    BY <1>2, AbortKnown
  <2>10. LeafKnown(mapping', Abort(c)) /\ Sees(Abort(c), contents)
    BY <2>9 DEF Known, LeafKnown
  <2> HIDE DEF id, n
  <2> QED
    BY <1>1, <1>5, <2>5, <2>8, <2>9, <2>10, InstallContents
<1> QED
  BY <1>4, <1>5

-----------------------------------------------------------------------------
(* Updates, calls and returns.                                             *)

\* What a leaf in the mapping table has of the keys.
LEMMA LeafHas ==
  ASSUME NEW m, NEW next, SoundTable(m, next), NEW keys, Linked(m, next, keys),
         NEW id \in InUse(next), IsLeaf(m[id]), m[id].type # "remove"
  PROVE  /\ Seps(m[id]) \subseteq keys
         /\ \A k \in keys : m[id].low <= k /\ InRange(m[id], k) => k \in Seps(m[id])
<1>1. PICK leaves \in SUBSET InUse(next) :
        LeavesLinked(m, next, leaves) /\ keys = LeafKeys(m, leaves)
  BY DEF Linked
<1> QED
  BY <1>1, LeafExact

\* What the caller of another operation knows once the key k is or is not there.
SeenBy(call, k, now) ==
  IF call.state = "busy" /\ call.key = k THEN [call EXCEPT !.seen = @ \cup {(k \in now)}] ELSE call

LEMMA ObserveCall ==
  ASSUME NEW c \in ContextSet, NEW k, NEW now \in SUBSET Nat
  PROVE  CallOf(Observe(c, k, now)) = SeenBy(CallOf(c), k, now)
<1> DEFINE d == Observe(c, k, now)
           call == CallOf(c)
<1>1. SameView(c, d) /\ d.res = c.res
  BY ObserveFields
<1>2. CASE c.pc = "idle" \/ c.op = "scan"
  <2>1. d.pc = "idle" \/ d.op = "scan"
    BY <1>1, <1>2 DEF SameView
  <2>2. CallOf(d) = CallOf(c) /\ call.state = "idle"
    BY <1>2, <2>1 DEF CallOf
  <2> QED
    BY <2>2 DEF SeenBy
<1>3. CASE ~(c.pc = "idle" \/ c.op = "scan")
  <2>1. /\ call = [state |-> IF c.pc = "done" THEN "done" ELSE "busy",
                   op |-> Promised(c.op), key |-> c.key, res |-> c.res,
                   seen |-> IF c.pc = "done" THEN {} ELSE c.seen]
        /\ CallOf(d) = [state |-> IF c.pc = "done" THEN "done" ELSE "busy",
                        op |-> Promised(c.op), key |-> c.key, res |-> c.res,
                        seen |-> IF c.pc = "done" THEN {} ELSE d.seen]
    <3>1. d.pc = c.pc /\ d.op = c.op /\ d.key = c.key /\ d.res = c.res
      BY <1>1 DEF SameView
    <3> HIDE DEF d
    <3> QED
      BY <1>3, <3>1 DEF CallOf
  <2>2. d.seen = IF c.key = k THEN c.seen \cup {(k \in now)} ELSE c.seen
    <3>1. CASE c.key = k
      <4>1. d = [c EXCEPT !.seen = c.seen \cup {(k \in now)}]
        BY <1>3, <3>1 DEF Observe, ContextSet
      <4>2. c.seen \cup {(k \in now)} \in SUBSET BOOLEAN
        <5>1. c.seen \in SUBSET BOOLEAN
          BY DEF ContextSet
        <5> QED
          BY <5>1, SeenType
      <4> HIDE DEF d
      <4> QED
        BY <3>1, <4>1, <4>2 DEF ContextSet
    <3>2. CASE c.key # k
      BY <1>3, <3>2 DEF Observe
    <3> QED
      BY <3>1, <3>2
  <2> HIDE DEF d, call
  <2>3. SeenBy(call, k, now) =
          [state |-> IF c.pc = "done" THEN "done" ELSE "busy",
           op |-> Promised(c.op), key |-> c.key, res |-> c.res,
           seen |-> IF c.pc = "done" THEN {} ELSE d.seen]
    <3>1. CASE c.pc = "done"
      BY <2>1, <3>1 DEF SeenBy
    <3>2. CASE c.pc # "done" /\ c.key # k
      BY <2>1, <2>2, <3>2 DEF SeenBy
    <3>3. CASE c.pc # "done" /\ c.key = k
      <4>1. call = [state |-> "busy", op |-> Promised(c.op), key |-> c.key, res |-> c.res,
                    seen |-> c.seen]
        BY <2>1, <3>3
      <4>2. SeenBy(call, k, now) = [call EXCEPT !.seen = c.seen \cup {(k \in now)}]
        BY <3>3, <4>1 DEF SeenBy
      <4> QED
        BY <2>2, <3>3, <4>1, <4>2
    <3> QED
      BY <3>1, <3>2, <3>3
  <2> QED
    BY <2>1, <2>3 DEF d, call
<1> QED
  BY <1>2, <1>3

LEMMA ObserveSees ==
  ASSUME NEW c \in ContextSet, NEW keys, Sees(c, keys), NEW k, NEW now \in SUBSET Nat,
         \A j : j # k => (j \in now <=> j \in keys)
  PROVE  Sees(Observe(c, k, now), now)
<1> DEFINE d == Observe(c, k, now)
<1>1. SameView(c, d) /\ d.got = c.got /\ d.res = c.res
  BY ObserveFields
<1>2. CASE c.op = "scan" /\ c.pc # "done"
  <2>1. d.steady = c.steady \cap now /\ d.ever = c.ever \cup now
    <3>1. d = [c EXCEPT !.steady = c.steady \cap now, !.ever = c.ever \cup now]
      BY <1>2 DEF Observe, ContextSet
    <3> HIDE DEF d
    <3> QED
      BY <3>1 DEF ContextSet
  <2> HIDE DEF d
  <2>2. LeafClaim(c) /\ Yields(c, keys)
    BY <1>2 DEF Sees
  <2>3. LeafClaim(d)
    BY <1>1, <1>2, <2>1, <2>2 DEF LeafClaim, AtLeaf, SameView
  <2>4. Yields(d, now)
    BY <1>1, <1>2, <2>1, <2>2 DEF Yields, SameView
  <2> QED
    BY <1>1, <1>2, <2>3, <2>4 DEF Sees, SameView, d
<1>3. CASE c.op = "scan" /\ c.pc = "done"
  <2>1. d = c
    BY <1>3 DEF Observe
  <2>2. LeafClaim(c) /\ Yields(c, keys)
    BY <1>3 DEF Sees
  <2>3. Yields(c, now)
    BY <1>3, <2>2 DEF Yields
  <2> QED
    BY <1>3, <2>1, <2>2, <2>3 DEF Sees
<1>4. CASE c.op # "scan"
  <2>1. d.seen = IF c.key = k THEN c.seen \cup {(k \in now)} ELSE c.seen
    <3>1. CASE c.key = k
      <4>1. d = [c EXCEPT !.seen = c.seen \cup {(k \in now)}]
        BY <1>4, <3>1 DEF Observe, ContextSet
      <4>2. c.seen \cup {(k \in now)} \in SUBSET BOOLEAN
        <5>1. c.seen \in SUBSET BOOLEAN
          BY DEF ContextSet
        <5> QED
          BY <5>1, SeenType
      <4> HIDE DEF d
      <4> QED
        BY <3>1, <4>1, <4>2 DEF ContextSet
    <3>2. CASE c.key # k
      BY <1>4, <3>2 DEF Observe
    <3> QED
      BY <3>1, <3>2
  <2> HIDE DEF d
  <2>2. c.seen \subseteq d.seen
    BY <2>1
  <2>3. LeafClaim(d)
    BY <1>1, <1>4, <2>2 DEF Sees, LeafClaim, AtLeaf, SameView
  <2>4. c.pc \notin {"idle", "done"} => (c.key \in now) \in d.seen
    <3> SUFFICES ASSUME c.pc \notin {"idle", "done"} PROVE (c.key \in now) \in d.seen
      OBVIOUS
    <3>1. CASE c.key = k
      <4>1. d.seen = c.seen \cup {(k \in now)}
        BY <2>1, <3>1
      <4>2. (c.key \in now) = (k \in now)
        BY <3>1
      <4>3. (k \in now) \in c.seen \cup {(k \in now)}
        OBVIOUS
      <4> QED
        BY <4>1, <4>2, <4>3, Zenon
    <3>2. CASE c.key # k
      <4>1. (c.key \in keys) \in c.seen
        BY <1>4 DEF Sees
      <4>2. (c.key \in keys) = (c.key \in now)
        BY <3>2
      <4> QED
        BY <2>2, <4>1, <4>2
    <3> QED
      BY <3>1, <3>2
  <2> QED
    BY <1>1, <1>4, <2>3, <2>4 DEF Sees, SameView, d
<1> QED
  BY <1>2, <1>3, <1>4

\* An update takes effect.
Updates(t) ==
  LET c == ctx[t]
      d == ctx'[t] IN
  /\ c.op # "scan" /\ Busy(c)
  /\ \/ Promised(c.op) = "insert" /\ c.key \notin contents /\ contents' = contents \cup {c.key}
     \/ c.op = "delete" /\ c.key \in contents /\ contents' = contents \ {c.key}
  /\ d.pc = "done" /\ d.op = c.op /\ d.key = c.key /\ d.res = TRUE
  /\ \A u \in Threads \ {t} : CallOf(ctx'[u]) = SeenBy(CallOf(ctx[u]), c.key, contents')

\* What another thread knows after an update of the leaf id.
LEMMA OtherUpdated ==
  ASSUME StructInv, ContentsInv, NEW u \in Threads, NEW id,
         Elsewhere(mapping, next_unused_node_id, mapping', id), NEW k,
         contents' \in SUBSET Nat, \A j : j # k => (j \in contents' <=> j \in contents),
         ctx'[u] = Observe(Outdated(ctx[u], id), k, contents')
  PROVE  /\ LeafKnown(mapping', ctx'[u]) /\ Sees(ctx'[u], contents')
         /\ CallOf(ctx'[u]) = SeenBy(CallOf(ctx[u]), k, contents')
<1> DEFINE o == Outdated(ctx[u], id)
           now == contents'
           d == Observe(o, k, now)
<1>1. o \in ContextSet
  BY ThreadFacts, OutdatedFields
<1>2. /\ ctx[u] \in ContextSet /\ Holds(mapping, next_unused_node_id, ctx[u])
      /\ LeafKnown(mapping, ctx[u]) /\ Sees(ctx[u], contents)
  BY ThreadFacts, ContentsFacts
<1>3. LeafKnown(mapping', o) /\ Sees(o, contents) /\ CallOf(o) = CallOf(ctx[u])
  BY <1>2, OthersKnown
<1>4. now \in SUBSET Nat /\ \A j : j # k => (j \in now <=> j \in contents)
  OBVIOUS
<1>5. ctx'[u] = d
  OBVIOUS
<1> HIDE DEF now, o
<1>6. SameView(o, d) /\ d.cur.fresh = o.cur.fresh
  BY <1>1, <1>4, ObserveFields
<1>7. Sees(d, now)
  BY <1>1, <1>3, <1>4, ObserveSees
<1>8. CallOf(d) = SeenBy(CallOf(o), k, now)
  BY <1>1, <1>4, ObserveCall
<1> HIDE DEF d
<1>9. LeafKnown(mapping', d)
  BY <1>3, <1>6 DEF LeafKnown, FreshKnown, RemovedKnown, AtLeaf, SameView
<1> QED
  BY <1>3, <1>5, <1>7, <1>8, <1>9 DEF now

LEMMA PostLeafNodeContents ==
  ASSUME StructInv, ContentsInv, NEW t \in Threads, PostLeafNode(t)
  PROVE  ContentsInv' /\ (Updates(t) \/ Progresses(t))
<1> DEFINE c == ctx[t]
           k == c.key
           id == c.cur.id
           next == next_unused_node_id
           inserts == Promised(c.op) = "insert"
           n == IF inserts THEN LeafInsertNode(c.cur.node, k) ELSE LeafDeleteNode(c.cur.node, k)
           b == [c EXCEPT !.seen = {(k \in contents)}]
<1>1. /\ c.pc = "op" /\ requests' = requests /\ next_unused_node_id' = next
      /\ IF Current(c.cur)
         THEN /\ mapping' = [mapping EXCEPT ![id] = n]
              /\ contents' = IF inserts THEN contents \cup {k} ELSE contents \ {k}
              /\ ctx' = [u \in Threads |->
                   IF u = t THEN Done(b, TRUE) ELSE Observe(Outdated(ctx[u], id), k, contents')]
         ELSE mapping' = mapping /\ contents' = contents /\ Continue(t, Begin(c, lru_cache[t]))
  BY DEF PostLeafNode, bounds
<1>2. /\ c \in ContextSet /\ Holds(mapping, next, c) /\ Here(c) /\ Ready(c, "op") /\ Busy(c)
      /\ Sees(c, contents) /\ c.pc \in Working \ {"abortUndo"} /\ c.op # "none"
      /\ CacheOK(mapping, next, lru_cache[t]) /\ next \in 1 .. MaxId + 1
  BY <1>1, ThreadFacts, AtWork, AtWorkKnown DEF Working
<1>3. /\ IsLeaf(c.cur.node) /\ InRange(c.cur.node, k) /\ c.pending = <<>>
      /\ c.op \in {"insert", "insertLRU", "delete"} /\ (inserts <=> k \notin Seps(c.cur.node))
      /\ c.cur.node.type # "remove" /\ c.cur.node.low <= k /\ k \in Nat
  <2>1. c.op \in Ops /\ k \in Nat
    BY <1>2 DEF ContextSet
  <2> QED
    BY <1>1, <1>2, <2>1 DEF Ready, Here, Ops
<1>4. CASE ~Current(c.cur)
  <2> DEFINE e == Begin(c, lru_cache[t])
  <2>1. /\ SameCall(c, e) /\ e.pc \in {"root", "hit"} /\ e.cur = NoSnap /\ e.pending = <<>>
    <3> HIDE DEF c
    <3> QED
      BY <1>2, BeginFields DEF SameCall
  <2> HIDE DEF e
  <2>2. FreshKnown(mapping, e) /\ RemovedKnown(mapping, e) /\ LeafClaim(e) /\ Busy(e)
    BY <2>1, NoLeafKnown DEF Busy
  <2>3. Known(mapping, contents, e) /\ Progress(c, e)
    BY <1>2, <2>1, <2>2, SameCallSees DEF Known
  <2> QED
    BY <1>1, <1>4, <2>3, StayContents DEF e
<1>5. CASE Current(c.cur)
  <2>1. /\ id \in InUse(next) /\ mapping[id] = c.cur.node /\ Sound(mapping, next, c.cur.node)
    BY <1>2, <1>3, <1>5, CurrentLeaf
  <2>2. /\ Seps(mapping[id]) \subseteq contents
        /\ \A j \in contents : mapping[id].low <= j /\ InRange(mapping[id], j) => j \in Seps(mapping[id])
    <3>1. SoundTable(mapping, next) /\ Linked(mapping, next, contents)
      BY ContentsFacts
    <3>2. IsLeaf(mapping[id]) /\ mapping[id].type # "remove"
      BY <1>3, <2>1
    <3> HIDE DEF id, next
    <3> QED
      BY <2>1, <3>1, <3>2, LeafHas
  <2>3. k \in contents <=> k \in Seps(c.cur.node)
    BY <1>3, <2>1, <2>2
  <2>4. /\ Kin(c.cur.node, n) /\ n.high = c.cur.node.high
        /\ inserts => Seps(n) = Seps(c.cur.node) \cup {k}
        /\ ~inserts => Seps(n) = Seps(c.cur.node) \ {k}
    <3>1. k \in Nat /\ c.cur.node.low <= k /\ InRange(c.cur.node, k) /\ IsLeaf(c.cur.node)
      BY <1>3
    <3> HIDE DEF c, k
    <3> QED
      BY <2>1, <3>1, LeafInsertNodeSound, LeafDeleteNodeSound
  <2> HIDE DEF n, inserts
  <2>5. mapping' = [mapping EXCEPT ![id] = n]
    BY <1>1, <1>5
  <2>6. Elsewhere(mapping, next, mapping', id)
    BY <1>2, <1>3, <1>5, <2>5, CurElsewhere
  <2>7. Linked(mapping', next, contents')
    <3>1. SoundTable(mapping, next) /\ Linked(mapping, next, contents)
      BY ContentsFacts
    <3>2. /\ Kin(mapping[id], n) /\ IsLeaf(n) /\ mapping[id].type # "remove"
          /\ n.high = mapping[id].high /\ mapping[id].low <= k /\ InRange(mapping[id], k)
          /\ inserts => Seps(n) = Seps(mapping[id]) \cup {k}
          /\ ~inserts => Seps(n) = Seps(mapping[id]) \ {k}
      BY <1>3, <2>1, <2>4 DEF Kin, IsLeaf
    <3>3. contents' = IF inserts THEN contents \cup {k} ELSE contents \ {k}
      BY <1>1, <1>5
    <3>4. k \in Nat
      BY <1>3
    <3> HIDE DEF id, next, k
    <3>5. /\ Seps(n) = Seps(mapping[id]) \cup {k} => Linked(mapping', next, contents \cup {k})
          /\ Seps(n) = Seps(mapping[id]) \ {k} => Linked(mapping', next, contents \ {k})
      BY <2>1, <2>5, <3>1, <3>2, <3>4, LinkedUpdate
    <3> QED
      BY <3>2, <3>3, <3>5
  <2>8. contents' \in SUBSET Nat /\ \A j : j # k => (j \in contents' <=> j \in contents)
    <3>1. contents \in SUBSET Nat
      BY DEF StructInv
    <3> QED
      BY <1>1, <1>3, <1>5, <3>1
  <2>9. /\ ctx'[t] = Done(b, TRUE)
        /\ \A u \in Threads \ {t} : ctx'[u] = Observe(Outdated(ctx[u], id), k, contents')
    BY <1>1, <1>5
  <2>10. /\ ctx'[t].pc = "done" /\ ctx'[t].op = c.op /\ ctx'[t].key = k /\ ctx'[t].res = TRUE
         /\ ctx'[t].cur = NoSnap /\ ctx'[t].pending = <<>>
    <3>1. b \in ContextSet /\ b.op = c.op /\ b.key = k /\ b.pending = <<>>
      <4>1. {(k \in contents)} \in SUBSET BOOLEAN
        OBVIOUS
      <4>2. c.pending = <<>>
        BY <1>3
      <4> DEFINE s == {(k \in contents)}
      <4> HIDE DEF s
      <4>3. b = [c EXCEPT !.seen = s] /\ s \in SUBSET BOOLEAN
        BY <4>1 DEF s
      <4> HIDE DEF b, c
      <4> QED
        BY <1>2, <4>2, <4>3 DEF ContextSet, k
    <3> DEFINE e == Done(b, TRUE)
    <3> HIDE DEF b
    <3>2. /\ e.pc = "done" /\ e.op = b.op /\ e.key = b.key /\ e.res = TRUE
          /\ e.cur = NoSnap /\ e.pending = b.pending
      BY <3>1, DoneFields
    <3>3. ctx'[t] = e
      BY <2>9
    <3> HIDE DEF e
    <3> QED
      BY <3>1, <3>2, <3>3
  <2>11. LeafKnown(mapping', ctx'[t]) /\ Sees(ctx'[t], contents')
    <3> DEFINE e == ctx'[t]
    <3>1. e.cur = NoSnap /\ e.pending = <<>> /\ e.op # "scan" /\ e.pc = "done"
      BY <1>3, <2>10
    <3> HIDE DEF e
    <3>2. FreshKnown(mapping', e) /\ RemovedKnown(mapping', e) /\ LeafClaim(e)
      BY <3>1, NoLeafKnown
    <3>3. LeafKnown(mapping', e) /\ Sees(e, contents')
      BY <3>1, <3>2 DEF LeafKnown, Sees
    <3> QED
      BY <3>3 DEF e
  <2>12. \A u \in Threads \ {t} :
           /\ LeafKnown(mapping', ctx'[u]) /\ Sees(ctx'[u], contents')
           /\ CallOf(ctx'[u]) = SeenBy(CallOf(ctx[u]), k, contents')
    <3> HIDE DEF k, id
    <3> QED
      BY <2>6, <2>8, <2>9, OtherUpdated
  <2>13. ContentsInv'
    <3>1. \A u \in Threads : LeafKnown(mapping', ctx'[u]) /\ Sees(ctx'[u], contents')
      BY <2>11, <2>12
    <3>2. requests' \in {s.requests : s \in Scenarios}
      BY <1>1 DEF ContentsInv
    <3> QED
      BY <1>1, <2>7, <3>1, <3>2 DEF ContentsInv
  <2>14. \/ inserts /\ k \notin contents /\ contents' = contents \cup {k}
         \/ c.op = "delete" /\ k \in contents /\ contents' = contents \ {k}
    <3>1. CASE inserts
      BY <1>1, <1>3, <1>5, <2>3, <3>1
    <3>2. CASE ~inserts
      <4>1. c.op = "delete"
        BY <1>3, <3>2 DEF inserts, Promised
      <4>2. contents' = contents \ {k} /\ k \in contents
        BY <1>1, <1>3, <1>5, <2>3, <3>2
      <4> QED
        BY <4>1, <4>2
    <3> QED
      BY <3>1, <3>2
  <2>15. Updates(t)
    <3>1. c.op # "scan"
      BY <1>3
    <3> QED
      BY <1>2, <2>10, <2>12, <2>14, <3>1 DEF Updates, inserts
  <2> QED
    BY <2>13, <2>15
<1> QED
  BY <1>4, <1>5

\* A step of t that changes nothing that is shared.
LEMMA OwnContents ==
  ASSUME StructInv, ContentsInv, NEW t \in Threads, NEW d, Continue(t, d),
         contents' = contents, requests' = requests, mapping' = mapping,
         next_unused_node_id' = next_unused_node_id,
         LeafKnown(mapping, d), Sees(d, contents)
  PROVE  /\ ContentsInv' /\ ctx'[t] = d
         /\ \A u \in Threads \ {t} : CallOf(ctx'[u]) = CallOf(ctx[u])
<1>1. ctx'[t] = d /\ \A u \in Threads \ {t} : ctx'[u] = ctx[u]
  BY DEF Continue, StructInv
<1>2. \A u \in Threads : LeafKnown(mapping', ctx'[u]) /\ Sees(ctx'[u], contents')
  BY <1>1, ContentsFacts
<1> QED
  BY <1>1, <1>2 DEF ContentsInv

NoCall == [state |-> "idle", op |-> "none", key |-> 0, res |-> FALSE, seen |-> {}]
\* An operation is called; an iteration is none of ConcurrentIndex.
Calls(t) ==
  /\ contents' = contents /\ ctx[t].pc = "idle"
  /\ \/ CallOf(ctx'[t]) = NoCall
     \/ \E r \in Requests :
          CallOf(ctx'[t]) = [state |-> "busy", op |-> r[1], key |-> r[2], res |-> FALSE,
                             seen |-> {(r[2] \in contents)}]
  /\ \A u \in Threads \ {t} : CallOf(ctx'[u]) = CallOf(ctx[u])
Returns(t) ==
  /\ contents' = contents /\ ctx[t].pc = "done" /\ CallOf(ctx'[t]) = NoCall
  /\ \A u \in Threads \ {t} : CallOf(ctx'[u]) = CallOf(ctx[u])

LEMMA CalledSees ==
  ASSUME NEW keys \in SUBSET Nat, NEW d \in ContextSet, d.pc \in {"root", "hit"},
         d.cur = NoSnap, d.pending = <<>>, d.got = <<>>, d.res = FALSE,
         d.op = "scan" => d.steady = {k \in keys : k >= d.key} /\ d.ever = keys,
         d.op # "scan" => d.seen = {(d.key \in keys)}
  PROVE  \A m : LeafKnown(m, d) /\ Sees(d, keys)
<1> TAKE m
<1>1. FreshKnown(m, d) /\ RemovedKnown(m, d) /\ LeafClaim(d)
  BY NoLeafKnown
<1>2. ASSUME d.op = "scan" PROVE Yields(d, keys)
  <2>1. ToSet(d.got) = {} /\ Len(d.got) = 0
    BY DEF ToSet
  <2>2. Increasing(d.got)
    BY <2>1 DEF Increasing
  <2>3. d.key \in Nat
    BY DEF ContextSet
  <2>4. d.steady \subseteq keys
    BY <1>2
  <2>5. \A k \in d.steady : ~(k < d.key)
    <3> TAKE k \in d.steady
    <3>1. k \in Nat /\ k >= d.key
      BY <1>2
    <3> QED
      BY <2>3, <3>1
  <2> QED
    BY <1>2, <2>1, <2>2, <2>4, <2>5 DEF Yields
<1>3. d.op # "scan" => (d.key \in keys) \in d.seen
  OBVIOUS
<1> QED
  BY <1>1, <1>2, <1>3 DEF LeafKnown, Sees

LEMMA StartContents ==
  ASSUME StructInv, ContentsInv, NEW t \in Threads, Start(t)
  PROVE  ContentsInv' /\ Calls(t)
<1>1. /\ ctx[t].pc = "idle" /\ UNCHANGED <<shared, requests>>
      /\ \E r \in requests : Continue(t, Begin(Called(r[1], r[2]), lru_cache[t]))
  BY DEF Start
<1>2. PICK r \in requests : Continue(t, Begin(Called(r[1], r[2]), lru_cache[t]))
  BY <1>1
<1>3. r[1] \in Ops /\ r[2] \in Nat /\ contents \in SUBSET Nat /\ released \subseteq NodeIds
  BY DEF StructInv
<1> DEFINE b == Called(r[1], r[2])
           d == Begin(b, lru_cache[t])
<1>4. /\ b \in ContextSet /\ b.op = r[1] /\ b.key = r[2] /\ b.got = <<>> /\ b.res = FALSE
      /\ r[1] = "scan" => b.steady = From(contents, r[2]) /\ b.ever = contents
      /\ r[1] # "scan" => b.seen = SeenNow(r[2], contents)
  <2>1. contents \subseteq Nat /\ released \subseteq NodeIds
    BY <1>3
  <2> QED
    BY <1>3, <2>1, CalledFields
<1> HIDE DEF b
<1>5. /\ d \in ContextSet /\ d.op = b.op /\ d.key = b.key /\ d.pc \in {"root", "hit"}
      /\ d.cur = NoSnap /\ d.pending = <<>>
      /\ d.res = b.res /\ d.seen = b.seen /\ d.got = b.got
      /\ d.steady = b.steady /\ d.ever = b.ever
  BY <1>4, ThreadFacts, BeginFields
<1> HIDE DEF d
<1>6. LeafKnown(mapping, d) /\ Sees(d, contents)
  BY <1>3, <1>4, <1>5, CalledSees DEF From, SeenNow
<1>7. Continue(t, d)
  BY <1>2 DEF d, b
<1>8. /\ ContentsInv' /\ ctx'[t] = d
      /\ \A u \in Threads \ {t} : CallOf(ctx'[u]) = CallOf(ctx[u])
  BY <1>1, <1>6, <1>7, OwnContents DEF shared
<1>9. CASE r[1] = "scan"
  <2>1. CallOf(d) = NoCall
    BY <1>4, <1>5, <1>9 DEF CallOf, NoCall
  <2> QED
    BY <1>1, <1>8, <2>1 DEF Calls, shared
<1>10. CASE r[1] # "scan"
  <2>1. CallOf(d) = [state |-> "busy", op |-> Promised(r[1]), key |-> r[2], res |-> FALSE,
                     seen |-> {(r[2] \in contents)}]
    BY <1>4, <1>5, <1>10 DEF CallOf, SeenNow
  <2>2. <<Promised(r[1]), r[2]>> \in Requests
    <3>1. PICK s \in Scenarios : requests = s.requests
      BY DEF ContentsInv
    <3>2. r \in UNION {z.requests : z \in Scenarios}
      BY <3>1
    <3> QED
      BY <1>10, <3>2 DEF Requests
  <2>3. \E q \in Requests :
          CallOf(ctx'[t]) = [state |-> "busy", op |-> q[1], key |-> q[2], res |-> FALSE,
                             seen |-> {(q[2] \in contents)}]
    <3> DEFINE q == <<Promised(r[1]), r[2]>>
    <3>1. q \in Requests /\ q[1] = Promised(r[1]) /\ q[2] = r[2]
      BY <2>2
    <3> HIDE DEF q
    <3> QED
      BY <1>8, <2>1, <3>1
  <2> QED
    BY <1>1, <1>8, <2>3 DEF Calls, shared
<1> QED
  BY <1>9, <1>10

LEMMA IdleKnown ==
  ASSUME NEW m, NEW keys
  PROVE  LeafKnown(m, IdleContext) /\ Sees(IdleContext, keys) /\ CallOf(IdleContext) = NoCall
<1> DEFINE d == IdleContext
<1>1. /\ d.pc = "idle" /\ d.op = "none" /\ d.cur = NoSnap /\ d.pending = <<>> /\ d.res = FALSE
  BY DEF IdleContext
<1> HIDE DEF d
<1>2. FreshKnown(m, d) /\ RemovedKnown(m, d) /\ LeafClaim(d)
  BY <1>1, NoLeafKnown
<1>3. LeafKnown(m, d) /\ Sees(d, keys)
  BY <1>1, <1>2 DEF LeafKnown, Sees
<1>4. CallOf(d) = NoCall
  BY <1>1 DEF CallOf, NoCall
<1> QED
  BY <1>3, <1>4 DEF d

LEMMA ReturnContents ==
  ASSUME StructInv, ContentsInv, NEW t \in Threads, Return(t)
  PROVE  ContentsInv' /\ Returns(t)
<1>1. ctx[t].pc = "done" /\ Continue(t, IdleContext) /\ UNCHANGED <<shared, bounds>>
  BY DEF Return
<1>2. /\ LeafKnown(mapping, IdleContext) /\ Sees(IdleContext, contents)
      /\ CallOf(IdleContext) = NoCall
  BY IdleKnown
<1>3. /\ ContentsInv' /\ ctx'[t] = IdleContext
      /\ \A u \in Threads \ {t} : CallOf(ctx'[u]) = CallOf(ctx[u])
  BY <1>1, <1>2, OwnContents DEF shared, bounds
<1> QED
  BY <1>1, <1>2, <1>3 DEF Returns, shared

LEMMA StepContents ==
  ASSUME StructInv, ContentsInv, NEW t \in Threads, Step(t)
  PROVE  ContentsInv' /\ (Progresses(t) \/ Updates(t) \/ Returns(t))
BY CacheHitContents, LoadRootContents, LoadNodeIDContents, JumpToNodeIDContents,
   JumpToLeftSiblingContents, ConsolidateParentContents, PostMergeNodeContents,
   CheckMergeContents, PostInnerDeleteNodeContents, PostInnerInsertNodeContents,
   InstallRootNodeContents, ConsolidateNodeContents, ProbeSplitChildContents,
   PostSplitNodeContents, PostAbortOnParentContents, PostRemoveNodeContents,
   RemoveAbortOnParentContents, PostLeafNodeContents, ReturnContents DEF Step

LEMMA NextContents ==
  ASSUME StructInv, ContentsInv, [Next]_vars
  PROVE  ContentsInv'
<1>1. ASSUME NEW t \in Threads, Start(t) PROVE ContentsInv'
  BY <1>1, StartContents
<1>2. ASSUME NEW t \in Threads, Step(t) PROVE ContentsInv'
  BY <1>2, StepContents
<1>3. ASSUME UNCHANGED vars PROVE ContentsInv'
  BY <1>3 DEF vars, shared, bounds, ContentsInv
<1> QED
  BY <1>1, <1>2, <1>3 DEF Next

\* The tree that a run starts from.
LEMMA InitLeaves ==
  ASSUME Init
  PROVE  \E leaves \in SUBSET InUse(next_unused_node_id) :
           LeavesLinked(mapping, next_unused_node_id, leaves)
<1>1. PICK s \in Scenarios : mapping = s.tree.mapping /\ next_unused_node_id = s.tree.next
  BY DEF Init
<1>2. WellFormed(s.tree)
  BY ScenarioAssumption
<1> QED
  BY <1>1, <1>2 DEF WellFormed

LEMMA InitContents ==
  ASSUME Init
  PROVE  ContentsInv
<1>1. StructInv
  BY InitStructInv
<1>2. PICK leaves \in SUBSET InUse(next_unused_node_id) :
        LeavesLinked(mapping, next_unused_node_id, leaves)
  BY InitLeaves
<1>3. LeafIds = leaves
  BY <1>1, <1>2, LeafIdsAreLinked DEF StructInv, TreeOK
<1>4. contents = UNION {Seps(mapping[id]) : id \in LeafIds}
  BY DEF Init
<1>5. Linked(mapping, next_unused_node_id, contents)
  BY <1>2, <1>3, <1>4 DEF Linked, LeafKeys
<1>6. requests \in {s.requests : s \in Scenarios}
  BY DEF Init
<1>7. \A t \in Threads : LeafKnown(mapping, ctx[t]) /\ Sees(ctx[t], contents)
  <2>1. \A t \in Threads : ctx[t] = IdleContext
    BY DEF Init
  <2> QED
    BY <2>1, IdleKnown
<1> QED
  BY <1>5, <1>6, <1>7 DEF ContentsInv

LEMMA ContentsAlways == Spec => [](StructInv /\ ContentsInv)
<1>1. Init => StructInv /\ ContentsInv
  BY InitStructInv, InitContents
<1>2. StructInv /\ ContentsInv /\ [Next]_vars => (StructInv /\ ContentsInv)'
  BY NextStructInv, NextContents
<1> QED
  BY <1>1, <1>2, PTL DEF Spec

-----------------------------------------------------------------------------
(* The steps of the tree as steps of the index.                            *)

Calling == [u \in Threads |-> CallOf(ctx[u])]

\* A step that only t's caller notices.
LEMMA OneCall ==
  ASSUME NEW t \in Threads, \A u \in Threads \ {t} : CallOf(ctx'[u]) = CallOf(ctx[u])
  PROVE  /\ Calling' = [Calling EXCEPT ![t] = CallOf(ctx'[t])]
         /\ CallOf(ctx'[t]) = CallOf(ctx[t]) => Calling' = Calling
BY DEF Calling

LEMMA BusyCall ==
  ASSUME NEW c, c.op # "scan", Busy(c)
  PROVE  CallOf(c) = [state |-> "busy", op |-> Promised(c.op), key |-> c.key, res |-> c.res,
                      seen |-> c.seen]
BY DEF CallOf, Busy

LEMMA DoneCall ==
  ASSUME NEW c, c.op # "scan", c.pc = "done"
  PROVE  CallOf(c) = [state |-> "done", op |-> Promised(c.op), key |-> c.key, res |-> c.res,
                      seen |-> {}]
BY DEF CallOf

LEMMA ProgressRefines ==
  ASSUME NEW t \in Threads, ctx[t] \in ContextSet, ctx[t].op # "none", Progresses(t)
  PROVE  Index!Answer(t) \/ UNCHANGED Index!vars
<1> DEFINE c == ctx[t]
           d == ctx'[t]
<1>1. contents' = contents
  BY DEF Progresses
<1>2. /\ Calling' = [Calling EXCEPT ![t] = CallOf(d)]
      /\ CallOf(d) = CallOf(c) => Calling' = Calling
  BY OneCall DEF Progresses
<1>3. ASSUME CallOf(d) = CallOf(c) PROVE UNCHANGED Index!vars
  BY <1>1, <1>2, <1>3 DEF Index!vars, Calling
<1>4. CASE c.op = "scan" /\ d.op = "scan"
  BY <1>3, <1>4 DEF CallOf
<1>5. CASE c.op # "scan" /\ Busy(c) /\ Busy(d) /\ SameCall(c, d)
  <2>1. d.op # "scan" /\ d.op = c.op /\ d.key = c.key /\ d.res = c.res /\ d.seen = c.seen
    BY <1>5 DEF SameCall
  <2>2. CallOf(d) = CallOf(c)
    BY <1>5, <2>1, BusyCall
  <2> QED
    BY <1>3, <2>2
<1>6. CASE c.op # "scan" /\ Busy(c) /\ Answered(c, d)
  <2> DEFINE call == CallOf(c)
  <2>1. call = [state |-> "busy", op |-> Promised(c.op), key |-> c.key, res |-> c.res,
                seen |-> c.seen]
    BY <1>6, BusyCall
  <2>2. d.op = c.op /\ d.key = c.key /\ d.pc = "done" /\ d.op # "scan"
    BY <1>6 DEF Answered
  <2>3. CallOf(d) = [state |-> "done", op |-> Promised(c.op), key |-> c.key, res |-> d.res,
                     seen |-> {}]
    BY <2>2, DoneCall
  <2>4. CallOf(d) = Index!Answered(call, d.res)
    BY <2>1, <2>3 DEF Index!Answered
  <2>5. Calling[t] = call /\ call.state = "busy" /\ call.seen = c.seen /\ call.op = Promised(c.op)
    BY <2>1 DEF Calling
  <2>6. Calling' = [Calling EXCEPT ![t] = Index!Answered(call, d.res)]
    BY <1>2, <2>4
  <2> HIDE DEF call
  <2>7. \/ Promised(c.op) = "insert" /\ TRUE \in c.seen /\ d.res = FALSE
        \/ Promised(c.op) = "delete" /\ FALSE \in c.seen /\ d.res = FALSE
        \/ Promised(c.op) = "get" /\ d.res \in c.seen
    <3>1. c.op \in {"insert", "insertLRU", "delete", "get"}
      BY <1>6 DEF ContextSet, Ops
    <3>2. CASE c.op \in {"insert", "insertLRU"}
      BY <1>6, <3>2 DEF Answered, Promised
    <3>3. CASE c.op = "delete"
      BY <1>6, <3>3 DEF Answered, Promised
    <3>4. CASE c.op = "get"
      BY <1>6, <3>4 DEF Answered, Promised
    <3> QED
      BY <3>1, <3>2, <3>3, <3>4
  <2>8. Index!Answer(t)
    BY <1>1, <2>5, <2>6, <2>7 DEF Index!Answer, Calling
  <2> QED
    BY <2>8
<1> QED
  BY <1>4, <1>5, <1>6 DEF Progresses, Progress

LEMMA UpdateRefines ==
  ASSUME NEW t \in Threads, Updates(t)
  PROVE  Index!Update(t)
<1> DEFINE c == ctx[t]
           d == ctx'[t]
           k == c.key
           call == CallOf(c)
<1>1. call = [state |-> "busy", op |-> Promised(c.op), key |-> k, res |-> c.res, seen |-> c.seen]
  BY BusyCall DEF Updates
<1>2. Calling[t] = call /\ call.state = "busy" /\ call.key = k /\ call.op = Promised(c.op)
  BY <1>1 DEF Calling
<1>3. CallOf(d) = [state |-> "done", op |-> Promised(c.op), key |-> k, res |-> TRUE, seen |-> {}]
  BY DoneCall DEF Updates
<1>4. CallOf(d) = Index!Answered(call, TRUE)
  BY <1>1, <1>3 DEF Index!Answered
<1>5. \/ call.op = "insert" /\ k \notin contents /\ contents' = contents \cup {k}
      \/ call.op = "delete" /\ k \in contents /\ contents' = contents \ {k}
  BY <1>2 DEF Updates, Promised
<1>6. \A u \in Threads \ {t} : CallOf(ctx'[u]) = SeenBy(CallOf(ctx[u]), k, contents')
  BY DEF Updates
<1> HIDE DEF call, k
<1>7. Calling' = [u \in Threads |->
                    IF u = t THEN Index!Answered(call, TRUE)
                    ELSE IF Calling[u].state = "busy" /\ Calling[u].key = k
                         THEN [Calling[u] EXCEPT !.seen = @ \cup {(k \in contents')}]
                         ELSE Calling[u]]
  BY <1>4, <1>6 DEF Calling, SeenBy
<1> QED
  BY <1>2, <1>5, <1>7 DEF Index!Update, Calling

LEMMA CallRefines ==
  ASSUME NEW t \in Threads, Calls(t)
  PROVE  Index!Call(t) \/ UNCHANGED Index!vars
<1>1. contents' = contents /\ CallOf(ctx[t]) = NoCall
  BY DEF Calls, CallOf, NoCall
<1>2. /\ Calling' = [Calling EXCEPT ![t] = CallOf(ctx'[t])]
      /\ CallOf(ctx'[t]) = CallOf(ctx[t]) => Calling' = Calling
  BY OneCall DEF Calls
<1>3. CASE CallOf(ctx'[t]) = NoCall
  BY <1>1, <1>2, <1>3 DEF Index!vars, Calling
<1>4. ASSUME NEW r \in Requests,
             CallOf(ctx'[t]) = [state |-> "busy", op |-> r[1], key |-> r[2], res |-> FALSE,
                                seen |-> {(r[2] \in contents)}]
      PROVE  Index!Call(t)
  <2>1. Calling[t].state = "idle"
    BY <1>1 DEF Calling, NoCall
  <2> QED
    BY <1>1, <1>2, <1>4, <2>1 DEF Index!Call, Calling
<1> QED
  BY <1>3, <1>4 DEF Calls

LEMMA ReturnRefines ==
  ASSUME NEW t \in Threads, Returns(t)
  PROVE  Index!Return(t) \/ UNCHANGED Index!vars
<1>1. contents' = contents /\ CallOf(ctx'[t]) = NoCall /\ ctx[t].pc = "done"
  BY DEF Returns
<1>2. /\ Calling' = [Calling EXCEPT ![t] = NoCall]
      /\ CallOf(ctx[t]) = NoCall => Calling' = Calling
  BY <1>1, OneCall DEF Returns
<1>3. CASE ctx[t].op = "scan"
  <2>1. CallOf(ctx[t]) = NoCall
    BY <1>3 DEF CallOf, NoCall
  <2> QED
    BY <1>1, <1>2, <2>1 DEF Index!vars, Calling
<1>4. CASE ctx[t].op # "scan"
  <2>1. Calling[t].state = "done"
    BY <1>1, <1>4, DoneCall DEF Calling
  <2> QED
    BY <1>1, <1>2, <2>1 DEF Index!Return, Index!NoCall, NoCall, Calling
<1> QED
  BY <1>3, <1>4

LEMMA NextRefines ==
  ASSUME StructInv, ContentsInv, [Next]_vars
  PROVE  [Index!Next]_(Index!vars)
<1>1. ASSUME NEW t \in Threads, Start(t) PROVE [Index!Next]_(Index!vars)
  <2>1. Index!Call(t) \/ UNCHANGED Index!vars
    BY <1>1, StartContents, CallRefines
  <2> QED
    BY <2>1 DEF Index!Next
<1>2. ASSUME NEW t \in Threads, Step(t) PROVE [Index!Next]_(Index!vars)
  <2>1. Index!Answer(t) \/ Index!Update(t) \/ Index!Return(t) \/ UNCHANGED Index!vars
    <3>1. ctx[t] \in ContextSet /\ (Progresses(t) => ctx[t].op # "none")
      <4>1. ctx[t] \in ContextSet /\ Placed(mapping, next_unused_node_id, ctx[t])
        BY ThreadFacts
      <4> QED
        BY <4>1 DEF Placed, Progresses, Progress, Busy
    <3>2. Progresses(t) \/ Updates(t) \/ Returns(t)
      BY <1>2, StepContents
    <3> QED
      BY <3>1, <3>2, ProgressRefines, UpdateRefines, ReturnRefines
  <2> QED
    BY <2>1 DEF Index!Next
<1>3. ASSUME UNCHANGED vars PROVE [Index!Next]_(Index!vars)
  BY <1>3 DEF vars, shared, Index!vars
<1> QED
  BY <1>1, <1>2, <1>3 DEF Next

-----------------------------------------------------------------------------
(* What is always so.                                                      *)

\* Whatever SMOs are half done, the sibling links from the first leaf visit leaves
\* that divide the keys among them, each at its high key, and hold exactly the
\* keys that were inserted and not deleted: no step of AdjustNodeSize() and
\* FinishPartialSMO(), and no Insert() or Delete() that meets one half done, loses
\* a key, leaves one behind in a merged leaf, or invents one.
THEOREM KeysAreKept == Spec => []ContentsKept
<1>1. ASSUME StructInv, ContentsInv PROVE ContentsKept
  <2> DEFINE m == mapping
             next == next_unused_node_id
  <2>1. PICK leaves \in SUBSET InUse(next) :
          LeavesLinked(m, next, leaves) /\ contents = LeafKeys(m, leaves)
    BY <1>1 DEF ContentsInv, Linked
  <2>2. LeafIds = leaves
    BY <1>1, <2>1, LeafIdsAreLinked DEF StructInv, TreeOK
  <2>3. contents = UNION {Seps(mapping[id]) : id \in LeafIds}
    BY <2>1, <2>2 DEF LeafKeys
  <2>4. ASSUME NEW id \in LeafIds
        PROVE  LET n == mapping[id] IN
               /\ IsLeaf(n)
               /\ \A k \in Seps(n) : n.low <= k /\ InRange(n, k)
               /\ GetNextNodeID(n) # INVALID_NODE_ID => mapping[GetNextNodeID(n)].low = n.high[1]
    <3>1. IsLeaf(mapping[id]) /\ id \in InUse(next)
      BY <2>1, <2>2 DEF LeavesLinked
    <3>2. Sound(m, next, mapping[id])
      BY <1>1, <3>1 DEF StructInv, TreeOK
    <3> QED
      BY <3>1, <3>2 DEF Sound, SoundItems, SoundSibling, StartsAt
  <2> QED
    BY <2>3, <2>4 DEF ContentsKept
<1> QED
  BY <1>1, ContentsAlways, PTL

\* However many pages split, merge and change between two LowerBound() calls of
\* an iteration, it yields keys in order and none twice, only keys that have been
\* there since it began, and every key that has been there all the time.
THEOREM IterationsAreExact == Spec => []ScanExact
<1>1. ASSUME StructInv, ContentsInv PROVE ScanExact
  <2> SUFFICES ASSUME NEW t \in Threads, ctx[t].op = "scan"
               PROVE  LET c == ctx[t] IN
                      /\ \A i \in 1 .. Len(c.got) - 1 : c.got[i] < c.got[i + 1]
                      /\ ToSet(c.got) \subseteq c.ever
                      /\ \A k \in c.steady : k < c.key \/ c.pc = "done" => k \in ToSet(c.got)
    BY DEF ScanExact
  <2> DEFINE c == ctx[t]
  <2>1. c \in ContextSet /\ Yields(c, contents)
    BY <1>1, ThreadFacts DEF ContentsInv, Sees
  <2> HIDE DEF c
  <2>2. \A i \in 1 .. Len(c.got) - 1 : c.got[i] < c.got[i + 1]
    <3>1. Len(c.got) \in Nat
      BY <2>1 DEF ContextSet
    <3>2. \A i \in 1 .. Len(c.got) - 1 : i \in 1 .. Len(c.got) /\ i + 1 \in 1 .. Len(c.got) /\ i < i + 1
      BY <3>1
    <3> QED
      BY <2>1, <3>2 DEF Yields, Increasing
  <2>3. ToSet(c.got) \subseteq c.ever
    BY <2>1 DEF Yields
  <2>4. \A k \in c.steady : k < c.key \/ c.pc = "done" => k \in ToSet(c.got)
    BY <2>1 DEF Yields
  <2> QED
    BY <2>2, <2>3, <2>4 DEF c
<1> QED
  BY <1>1, ContentsAlways, PTL

LEMMA InitRefines ==
  ASSUME Init
  PROVE  Index!Init
<1>1. \A u \in Threads : CallOf(ctx[u]) = NoCall
  BY IdleKnown DEF Init
<1> QED
  BY <1>1 DEF Index!Init, Index!NoCall, NoCall

\* The tree is the index it promises to be: with any number of threads, SMOs half
\* done and thresholds, every Insert(), Insert_LRU(), Delete() and GetValue() answers
\* as a set of keys would at one moment between its call and its return.
THEOREM TreeRefinesIndex == Spec => RefinesIndex
<1>1. Init => Index!Init
  BY InitRefines
<1>2. StructInv /\ ContentsInv /\ [Next]_vars => [Index!Next]_(Index!vars)
  BY NextRefines
<1> QED
  BY <1>1, <1>2, ContentsAlways, PTL DEF Spec, RefinesIndex, Index!Spec
=============================================================================
