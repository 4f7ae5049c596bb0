--------------------------- MODULE LeafChainProofs ---------------------------
(***************************************************************************)
(* What holds of the delta chains of leaf nodes for any keys, any values   *)
(* and any thresholds: the walks and consolidation find exactly the pairs  *)
(* that the leaf should hold.  The theorems are about the programs that    *)
(* give ConditionalInsert() no pair a delta of the chain is about          *)
(* (~Reinserts).                                                           *)
(***************************************************************************)
EXTENDS LeafChain, FiniteSetTheorems, SequenceTheorems, TLAPS

-----------------------------------------------------------------------------
(* Finite sets of keys in order.                                           *)

\* Every non-empty set of natural numbers has a least element.
LEMMA NatMin ==
  ASSUME NEW S \in SUBSET Nat, S # {}
  PROVE  \E x \in S : \A y \in S : x <= y
<1> DEFINE R == OpToRel(<, Nat)
<1>1. IsWellFoundedOn(R, Nat)
  BY NatLessThanWellFounded
<1>2. PICK x \in S : \A y \in S : ~ (<<y, x>> \in R)
  <2> HIDE DEF R
  <2> QED
    BY <1>1, WFMin
<1>3. \A y \in S : x <= y
  <2> TAKE y \in S
  <2>1. ~ (y < x)
    BY <1>2 DEF OpToRel
  <2> QED
    BY <2>1
<1> QED
  BY <1>3

LEMMA MinIn ==
  ASSUME NEW S \in SUBSET Nat, S # {}
  PROVE  Min(S) \in S /\ \A y \in S : Min(S) <= y
BY NatMin DEF Min

\* The elements of S below k, and how many they are.
Below(S, k) == {j \in S : j < k}

LEMMA BelowFinite ==
  ASSUME NEW S \in SUBSET Nat, IsFiniteSet(S), NEW k \in Nat
  PROVE  /\ IsFiniteSet(Below(S, k)) /\ Cardinality(Below(S, k)) \in Nat
         /\ Cardinality(Below(S, k)) <= Cardinality(S)
<1>1. Below(S, k) \in SUBSET S
  BY DEF Below
<1> QED
  BY <1>1, FS_Subset, FS_CardinalityType

\* The greater an element, the more there are below it.
LEMMA BelowGrows ==
  ASSUME NEW S \in SUBSET Nat, IsFiniteSet(S), NEW j \in S, NEW k \in S, j < k
  PROVE  Cardinality(Below(S, j)) < Cardinality(Below(S, k))
<1>0. j \in Nat /\ k \in Nat /\ \A x \in S : x \in Nat
  OBVIOUS
<1>1. Below(S, j) \in SUBSET Below(S, k) /\ j \in Below(S, k) /\ j \notin Below(S, j)
  <2>1. ~(j < j) /\ \A x \in S : x < j => x < k
    BY <1>0
  <2> QED
    BY <2>1 DEF Below
<1>2. IsFiniteSet(Below(S, k)) /\ Cardinality(Below(S, k)) \in Nat
      /\ Cardinality(Below(S, j)) \in Nat
  BY BelowFinite
<1>3. /\ Cardinality(Below(S, j)) <= Cardinality(Below(S, k))
      /\ Cardinality(Below(S, k)) = Cardinality(Below(S, j)) => Below(S, k) = Below(S, j)
  BY <1>1, <1>2, FS_Subset
<1> QED
  BY <1>1, <1>2, <1>3

LEMMA MaxIn ==
  ASSUME NEW S \in SUBSET Nat, IsFiniteSet(S), S # {}
  PROVE  Max(S) \in S /\ \A y \in S : Max(S) >= y
<1> DEFINE Missing(k) == Cardinality(S) - Cardinality(Below(S, k))
           T == {Missing(k) : k \in S}
<1>1. \A k \in S : Missing(k) \in Nat
  BY BelowFinite, FS_CardinalityType
<1>2. T \in SUBSET Nat /\ T # {}
  BY <1>1
<1>3. PICK m \in T : \A y \in T : m <= y
  <2> HIDE DEF T
  <2> QED
    BY <1>2, NatMin
<1>4. PICK k \in S : m = Missing(k)
  BY <1>3
<1>5. \A y \in S : k >= y
  <2> SUFFICES ASSUME NEW y \in S, k < y PROVE FALSE
    OBVIOUS
  <2>1. Cardinality(Below(S, k)) < Cardinality(Below(S, y))
    BY BelowGrows
  <2>2. Missing(k) <= Missing(y)
    BY <1>3, <1>4
  <2>3. Cardinality(S) \in Nat /\ Cardinality(Below(S, k)) \in Nat /\ Cardinality(Below(S, y)) \in Nat
    BY BelowFinite, FS_CardinalityType
  <2> QED
    BY <2>1, <2>2, <2>3
<1> QED
  BY <1>5 DEF Max

\* Nth() counts from 0 and finds an element for every index.
LEMMA NthIn ==
  ASSUME NEW S \in SUBSET Nat, IsFiniteSet(S), NEW i \in 0 .. Cardinality(S) - 1
  PROVE  Nth(S, i) \in S /\ Cardinality(Below(S, Nth(S, i))) = i
<1> DEFINE T == {k \in S : Cardinality(Below(S, k)) >= i}
<1>0. Cardinality(S) \in Nat /\ \A k \in S : Cardinality(Below(S, k)) \in Nat
  BY BelowFinite, FS_CardinalityType
<1>1. S # {}
  BY <1>0, FS_EmptySet
<1>2. Max(S) \in S /\ \A y \in S : Max(S) >= y
  BY <1>1, MaxIn
<1>3. Below(S, Max(S)) = S \ {Max(S)}
  <2>1. \A y \in S : y \in Nat /\ Max(S) \in Nat
    BY <1>2
  <2>2. \A y \in S : y < Max(S) <=> y # Max(S)
    BY <1>2, <2>1
  <2> QED
    BY <2>2, <1>2 DEF Below
<1>4. Cardinality(Below(S, Max(S))) = Cardinality(S) - 1
  <2> DEFINE m == Max(S)
  <2>1. m \in S /\ Below(S, m) = S \ {m}
    BY <1>2, <1>3
  <2> HIDE DEF m
  <2>2. Cardinality(S \ {m}) = Cardinality(S) - 1
    BY <2>1, FS_RemoveElement
  <2>3. Cardinality(Below(S, m)) = Cardinality(S) - 1
    BY <2>1, <2>2
  <2> QED
    BY <2>3 DEF m
<1>5. T \in SUBSET Nat /\ T # {}
  <2>1. Cardinality(S) - 1 >= i
    BY <1>0
  <2>2. Max(S) \in T
    BY <1>2, <1>4, <2>1
  <2> QED
    BY <2>2
<1>6. PICK k \in T : \A y \in T : k <= y
  <2> HIDE DEF T
  <2> QED
    BY <1>5, NatMin
<1>7. Cardinality(Below(S, k)) = i
  <2> SUFFICES ASSUME Cardinality(Below(S, k)) > i PROVE FALSE
    BY <1>0, <1>6
  <2>1. IsFiniteSet(Below(S, k)) /\ Below(S, k) \in SUBSET Nat
    BY BelowFinite, <1>6 DEF Below
  <2>2. Below(S, k) # {}
    BY <1>0, FS_EmptySet
  <2> DEFINE j == Max(Below(S, k))
  <2>3. j \in Below(S, k) /\ \A y \in Below(S, k) : j >= y
    BY <2>1, <2>2, MaxIn
  <2>4. j \in S /\ j < k
    BY <2>3 DEF Below
  <2>5. Below(S, j) = Below(S, k) \ {j}
    <3>1. k \in Nat /\ j \in Nat /\ \A y \in S : y \in Nat
      BY <1>6, <2>4
    <3>2. \A y \in S : y < j <=> (y < k /\ y # j)
      <4> TAKE y \in S
      <4>1. y < k => j >= y
        BY <2>3 DEF Below
      <4> QED
        BY <3>1, <2>4, <4>1
    <3> QED
      BY <3>2, <2>4 DEF Below
  <2> HIDE DEF j
  <2>6. Cardinality(Below(S, j)) = Cardinality(Below(S, k)) - 1
    <3>1. Cardinality(Below(S, k) \ {j}) = Cardinality(Below(S, k)) - 1
      BY <2>1, <2>3, FS_RemoveElement
    <3> QED
      BY <3>1, <2>5
  <2>7. j \in T
    BY <2>4, <2>6, <1>0, <1>6
  <2>8. k <= j /\ k \in Nat /\ j \in Nat
    BY <2>4, <2>7, <1>6
  <2> QED
    BY <2>4, <2>8
<1> QED
  BY <1>6, <1>7 DEF Nth, Below

\* The positions of a chain on which a delta has been pushed.
Shift(S) == {i + 1 : i \in S}

LEMMA MinShift ==
  ASSUME NEW S \in SUBSET Nat, S # {}
  PROVE  Min(Shift(S)) = Min(S) + 1
<1>1. Min(S) \in S /\ \A y \in S : Min(S) <= y
  BY MinIn
<1>2. Shift(S) \in SUBSET Nat /\ Shift(S) # {}
  <2>1. \A i \in S : i + 1 \in Nat
    OBVIOUS
  <2> QED
    BY <2>1 DEF Shift
<1>3. Min(Shift(S)) \in Shift(S) /\ \A y \in Shift(S) : Min(Shift(S)) <= y
  BY <1>2, MinIn
<1>4. Min(S) + 1 \in Shift(S) /\ \A y \in Shift(S) : Min(S) + 1 <= y
  <2>1. \A y \in S : Min(S) + 1 <= y + 1
    <3> TAKE y \in S
    <3>1. Min(S) \in Nat /\ y \in Nat /\ Min(S) <= y
      BY <1>1
    <3> QED
      BY <3>1
  <2> QED
    BY <1>1, <2>1 DEF Shift
<1> DEFINE a == Min(Shift(S))
           b == Min(S) + 1
<1>5. a \in Nat /\ b \in Nat /\ a <= b /\ b <= a
  BY <1>1, <1>2, <1>3, <1>4
<1> HIDE DEF a, b
<1>6. a = b
  BY <1>5
<1> QED
  BY <1>6 DEF a, b

\* The least element of a set that holds 1 is 1.
LEMMA MinOne ==
  ASSUME NEW S \in SUBSET (Nat \ {0}), 1 \in S
  PROVE  Min(S) = 1
<1>1. Min(S) \in S /\ \A y \in S : Min(S) <= y
  BY MinIn
<1> DEFINE a == Min(S)
<1>2. a \in Nat \ {0} /\ a <= 1
  BY <1>1
<1> HIDE DEF a
<1>3. a = 1
  BY <1>2
<1> QED
  BY <1>3 DEF a

\* The greatest element of a set with an element that no other exceeds.
LEMMA MaxIs ==
  ASSUME NEW S \in SUBSET Nat, NEW x \in S, \A y \in S : y <= x
  PROVE  Max(S) = x
<1>1. \A y \in S : x >= y
  OBVIOUS
<1>2. Max(S) \in S /\ \A y \in S : Max(S) >= y
  BY <1>1 DEF Max
<1> DEFINE a == Max(S)
<1>3. a \in Nat /\ x \in Nat /\ a >= x /\ a <= x
  BY <1>2
<1> HIDE DEF a
<1>4. a = x
  BY <1>3
<1> QED
  BY <1>4 DEF a

\* The same for the least element.
LEMMA MinIs ==
  ASSUME NEW S \in SUBSET Nat, NEW x \in S, \A y \in S : x <= y
  PROVE  Min(S) = x
<1>2. Min(S) \in S /\ \A y \in S : Min(S) <= y
  BY MinIn
<1> DEFINE a == Min(S)
<1>3. a \in Nat /\ x \in Nat /\ a >= x /\ a <= x
  BY <1>2
<1> HIDE DEF a
<1>4. a = x
  BY <1>3
<1> QED
  BY <1>4 DEF a

-----------------------------------------------------------------------------
(* The inductive invariant: what holds of one chain of the index ix, which *)
(* should hold the pairs c, none of them with a key below low.             *)

PairsOf(ix) == ix.keys \X Values
Inside(l, low, k) == low <= k /\ (HighOf(l)[2] # 0 => k < HighOf(l)[1])

DeltaTypes == {"insert", "delete", "split", "merge"}
BaseNodes(ix) == [items : Seq(PairsOf(ix)), high : Nat \X Nat]
Deltas(ix) ==
  [type : DeltaTypes, item : Nat \X (Values \cup Nat), index : Nat, over : BOOLEAN,
   right : BaseNodes(ix), depth : 0 .. MaxDepth, count : Nat, high : Nat \X Nat]
Chains(ix) == [deltas : Seq(Deltas(ix)), base : BaseNodes(ix)]

\* A base node: its items in the order of their keys, all different.
Ordered(items, unique) ==
  /\ \A p, q \in DOMAIN items : p < q => items[p][1] <= items[q][1]
  /\ \A p, q \in DOMAIN items : Matches(items[p], items[q], unique) => p = q

\* There is at most one merge delta: the chain below it ends at its key, and
\* its right branch starts there and has no high key.
MergesSound(l, unique) ==
  \A m \in Merges(l) :
    LET d == l.deltas[m] IN
    /\ \A j \in Merges(l) : j = m
    /\ Ordered(d.right.items, unique) /\ d.right.high = NoHigh
    /\ \A p \in DOMAIN d.right.items : d.right.items[p][1] >= d.item[1]
    /\ LeftmostHigh(l) = d.item /\ d.item[2] # 0
    /\ HighOf(l) = NoHigh
    /\ \A i \in DOMAIN l.deltas : i > m /\ IsData(l.deltas[i]) => l.deltas[i].item[1] < d.item[1]

\* The index of a delta on an item says where the base node has it, or where
\* the items with its key end.
Placed(l, item, place, over, unique) ==
  LET items == BaseFor(l, item[1]).items IN
  /\ place \in 0 .. Len(items)
  /\ over => place + 1 \in DOMAIN items /\ Matches(items[place + 1], item, unique)
  /\ ~over => \A p \in DOMAIN items : /\ p <= place <=> items[p][1] <= item[1]
                                      /\ ~Matches(items[p], item, unique)

\* No key is below low; those of a base node without deltas are below its high key.
BaseSound(l, low, unique) ==
  /\ Ordered(l.base.items, unique)
  /\ \A p \in DOMAIN l.base.items :
       /\ low <= l.base.items[p][1]
       /\ l.deltas = <<>> => Inside(l, low, l.base.items[p][1])
  /\ \A m \in Merges(l) : low <= l.deltas[m].item[1]

DeltasSound(l, low, ix) ==
  \A i \in DOMAIN l.deltas : LET d == l.deltas[i] IN IsData(d) =>
    /\ d.item \in PairsOf(ix) /\ Inside(l, low, d.item[1])
    /\ Placed(l, d.item, d.index, d.over, ix.unique)

ContentSound(l, low, c, ix) ==
  /\ c \in SUBSET PairsOf(ix) /\ IsFiniteSet(c) /\ CountOf(l) = Cardinality(c)
  /\ \A x \in c : Inside(l, low, x[1])
  /\ \A x, y \in c : Matches(x, y, ix.unique) => x = y

\* The newest delta that matches a pair tells whether the leaf holds it (one that
\* matches it); if there is none the base node does.
Holds(l, pair, unique) ==
  IF On(l, pair, unique) # {} THEN l.deltas[Min(On(l, pair, unique))].type = "insert"
  ELSE LET items == BaseFor(l, pair[1]).items
       IN  \E p \in DOMAIN items : Matches(items[p], pair, unique)
KnownExact(l, low, c, ix) ==
  \A pair \in PairsOf(ix), unique \in {FALSE, ix.unique} : Inside(l, low, pair[1]) =>
    (Holds(l, pair, unique) <=> \E x \in c : Matches(x, pair, unique))

ChainOK(l, low, c, ix) ==
  /\ l \in Chains(ix) /\ low \in Nat /\ BaseSound(l, low, ix.unique)
  /\ MergesSound(l, ix.unique) /\ DeltasSound(l, low, ix)
  /\ ContentSound(l, low, c, ix) /\ KnownExact(l, low, c, ix)

LeavesOK(l1, l2, c1, c2, ix) ==
  /\ ChainOK(l1, 0, c1, ix)
  /\ \/ l2 = NoLeaf /\ c2 = {} /\ HighOf(l1) = NoHigh
     \/ /\ ChainOK(l2, HighOf(l1)[1], c2, ix) /\ HighOf(l2) = NoHigh
        /\ Merges(l1) = {} /\ HighOf(l1)[2] = 2

LeafInv ==
  /\ index \in Indexes /\ DOMAIN leaf = 1 .. 2 /\ content \in [1 .. 2 -> SUBSET Pairs]
  /\ LeavesOK(leaf[1], leaf[2], content[1], content[2], index)

-----------------------------------------------------------------------------
(* Chains and the deltas that are pushed on them.                          *)

\* An index is one of those that the constants name.
IndexOK(ix) == ix.keys \in SUBSET (Nat \ {0}) /\ ix.unique \in BOOLEAN

LEMMA IndexAssumed ==
  ASSUME NEW ix \in Indexes
  PROVE  IndexOK(ix)
BY LeafChainAssumption DEF IndexOK

LEMMA PairFields ==
  ASSUME NEW ix, IndexOK(ix), NEW x \in PairsOf(ix)
  PROVE  /\ x = <<x[1], x[2]>> /\ x[1] \in ix.keys /\ x[1] \in Nat /\ x[2] \in Values
         /\ x \in Nat \X Values
BY DEF IndexOK, PairsOf

LEMMA MatchesProperties ==
  ASSUME NEW ix, IndexOK(ix), NEW x \in PairsOf(ix), NEW y \in PairsOf(ix)
  PROVE  /\ Matches(x, y, FALSE) <=> x = y
         /\ \A unique \in BOOLEAN : /\ Matches(x, y, unique) => x[1] = y[1]
                                    /\ Matches(x, x, unique)
                                    /\ Matches(x, y, unique) <=> Matches(y, x, unique)
                                    /\ x = y => Matches(x, y, unique)
<1>1. x = <<x[1], x[2]>> /\ y = <<y[1], y[2]>>
  BY PairFields
<1> QED
  BY <1>1 DEF Matches

LEMMA ChainFields ==
  ASSUME NEW ix, NEW l \in Chains(ix)
  PROVE  /\ l = [deltas |-> l.deltas, base |-> l.base]
         /\ l.deltas \in Seq(Deltas(ix)) /\ Len(l.deltas) \in Nat
         /\ DOMAIN l.deltas = 1 .. Len(l.deltas)
         /\ \A i \in DOMAIN l.deltas : l.deltas[i] \in Deltas(ix) /\ i \in Nat \ {0}
         /\ l.base \in BaseNodes(ix)
<1>1. l.deltas \in Seq(Deltas(ix)) /\ l.base \in BaseNodes(ix) /\ l = [deltas |-> l.deltas, base |-> l.base]
  BY DEF Chains
<1> QED
  BY <1>1, LenProperties

LEMMA BaseFields ==
  ASSUME NEW ix, IndexOK(ix), NEW b \in BaseNodes(ix)
  PROVE  /\ b.items \in Seq(PairsOf(ix)) /\ Len(b.items) \in Nat
         /\ b.high \in Nat \X Nat /\ b.high[1] \in Nat /\ b.high[2] \in Nat
         /\ DOMAIN b.items = 1 .. Len(b.items)
         /\ \A p \in DOMAIN b.items : b.items[p] \in PairsOf(ix) /\ b.items[p][1] \in Nat
<1>1. b.items \in Seq(PairsOf(ix)) /\ b.high \in Nat \X Nat
  BY DEF BaseNodes
<1>2. Len(b.items) \in Nat /\ DOMAIN b.items = 1 .. Len(b.items)
      /\ \A p \in 1 .. Len(b.items) : b.items[p] \in PairsOf(ix)
  BY <1>1
<1>3. \A p \in DOMAIN b.items : b.items[p] \in PairsOf(ix) /\ b.items[p][1] \in Nat
  BY <1>2, PairFields
<1> QED
  BY <1>1, <1>2, <1>3

LEMMA DeltaFields ==
  ASSUME NEW ix, NEW d \in Deltas(ix)
  PROVE  /\ d.type \in DeltaTypes /\ d.item \in Nat \X (Values \cup Nat) /\ d.item[1] \in Nat
         /\ d.index \in Nat /\ d.over \in BOOLEAN /\ d.right \in BaseNodes(ix)
         /\ d.depth \in 0 .. MaxDepth /\ d.count \in Nat
         /\ d.high \in Nat \X Nat /\ d.high[1] \in Nat /\ d.high[2] \in Nat
<1>1. /\ d.type \in DeltaTypes /\ d.item \in Nat \X (Values \cup Nat)
      /\ d.index \in Nat /\ d.over \in BOOLEAN /\ d.right \in BaseNodes(ix)
      /\ d.depth \in 0 .. MaxDepth /\ d.count \in Nat /\ d.high \in Nat \X Nat
  BY DEF Deltas
<1> QED
  BY <1>1

LEMMA HighType ==
  ASSUME NEW ix, IndexOK(ix), NEW l \in Chains(ix)
  PROVE  /\ HighOf(l) \in Nat \X Nat /\ HighOf(l)[1] \in Nat /\ HighOf(l)[2] \in Nat
         /\ HighOf(l) = <<HighOf(l)[1], HighOf(l)[2]>>
         /\ CountOf(l) \in Nat /\ DepthOf(l) \in 0 .. MaxDepth
<1>1. HighOf(l) \in Nat \X Nat /\ CountOf(l) \in Nat /\ DepthOf(l) \in 0 .. MaxDepth
  <2>1. CASE l.deltas = <<>>
    <3>1. MaxDepth \in Nat
      BY LeafChainAssumption
    <3> QED
      BY <2>1, <3>1, ChainFields, BaseFields DEF HighOf, CountOf, DepthOf
  <2>2. CASE l.deltas # <<>>
    <3>1. Head(l.deltas) \in Deltas(ix)
      BY <2>2, ChainFields, HeadTailProperties
    <3> QED
      BY <2>2, <3>1, DeltaFields DEF HighOf, CountOf, DepthOf
  <2> QED
    BY <2>1, <2>2
<1> QED
  BY <1>1

LEMMA PushFields ==
  ASSUME NEW ix, NEW l \in Chains(ix), NEW d \in Deltas(ix)
  PROVE  LET l2 == Push(l, d) IN
         /\ l2 \in Chains(ix) /\ l2.base = l.base /\ l2.deltas # <<>>
         /\ Len(l2.deltas) = Len(l.deltas) + 1
         /\ DOMAIN l2.deltas = {1} \cup Shift(DOMAIN l.deltas)
         /\ l2.deltas[1] = d
         /\ \A i \in DOMAIN l.deltas : l2.deltas[i + 1] = l.deltas[i]
         /\ HighOf(l2) = d.high /\ CountOf(l2) = d.count /\ DepthOf(l2) = d.depth
         /\ TypeOf(l2) = d.type
<1> DEFINE l2 == Push(l, d)
           n == Len(l.deltas)
<1>1. /\ l.deltas \in Seq(Deltas(ix)) /\ n \in Nat /\ DOMAIN l.deltas = 1 .. n /\ l.base \in BaseNodes(ix)
  BY ChainFields
<1>2. l2.deltas = <<d>> \o l.deltas /\ l2.base = l.base
  BY DEF Push
<1>3. <<d>> \in Seq(Deltas(ix)) /\ Len(<<d>>) = 1 /\ <<d>>[1] = d
  OBVIOUS
<1>4. /\ l2.deltas \in Seq(Deltas(ix)) /\ Len(l2.deltas) = 1 + n
      /\ \A i \in 1 .. 1 + n : l2.deltas[i] = IF i <= 1 THEN <<d>>[i] ELSE l.deltas[i - 1]
  BY <1>1, <1>2, <1>3, ConcatProperties
<1>5. l2.deltas[1] = d /\ \A i \in 1 .. n : l2.deltas[i + 1] = l.deltas[i]
  <2>1. 1 \in 1 .. 1 + n /\ \A i \in 1 .. n : i + 1 \in 1 .. 1 + n /\ ~(i + 1 <= 1) /\ (i + 1) - 1 = i
    BY <1>1
  <2> HIDE DEF l2, n
  <2> QED
    BY <2>1, <1>3, <1>4
<1>6. DOMAIN l2.deltas = {1} \cup Shift(1 .. n)
  <2>1. DOMAIN l2.deltas = 1 .. 1 + n
    BY <1>4, LenProperties
  <2>2. \A i : i \in 1 .. 1 + n <=> i = 1 \/ \E j \in 1 .. n : i = j + 1
    <3>1. ASSUME NEW i \in 1 .. 1 + n, i # 1 PROVE i - 1 \in 1 .. n /\ i = (i - 1) + 1
      BY <1>1, <3>1
    <3>2. ASSUME NEW j \in 1 .. n PROVE j + 1 \in 1 .. 1 + n
      BY <1>1
    <3>3. 1 \in 1 .. 1 + n
      BY <1>1
    <3> HIDE DEF n
    <3> QED
      BY <3>1, <3>2, <3>3, Zenon
  <2> QED
    BY <2>1, <2>2 DEF Shift
<1>7. l2 \in Chains(ix) /\ l2.deltas # <<>>
  <2>1. l2.deltas # <<>>
    BY <1>1, <1>4, EmptySeq
  <2>2. l2 = [deltas |-> l2.deltas, base |-> l2.base]
    BY DEF Push
  <2> HIDE DEF l2
  <2> QED
    BY <1>1, <1>2, <1>4, <2>1, <2>2 DEF Chains
<1>8. Head(l2.deltas) = d
  BY <1>4, <1>5, <1>7, HeadTailProperties
<1> QED
  <2> HIDE DEF l2
  <2>1. /\ HighOf(l2) = d.high /\ CountOf(l2) = d.count /\ DepthOf(l2) = d.depth
        /\ TypeOf(l2) = d.type
    BY <1>7, <1>8 DEF HighOf, CountOf, DepthOf, TypeOf
  <2>3. Len(l2.deltas) = Len(l.deltas) + 1
    BY <1>1, <1>4
  <2> QED
    BY <1>1, <1>2, <1>5, <1>6, <1>7, <2>1, <2>3 DEF l2

LEMMA TurnsType ==
  ASSUME NEW ix, NEW l \in Chains(ix), NEW k
  PROVE  /\ RightTurns(l, k) \in SUBSET Merges(l) /\ Merges(l) \in SUBSET DOMAIN l.deltas
         /\ Merges(l) \in SUBSET (Nat \ {0}) /\ RightTurns(l, k) \in SUBSET (Nat \ {0})
         /\ Visited(l, k) \in SUBSET DOMAIN l.deltas
<1>1. DOMAIN l.deltas \in SUBSET (Nat \ {0})
  BY ChainFields
<1>2. /\ RightTurns(l, k) \in SUBSET Merges(l) /\ Merges(l) \in SUBSET DOMAIN l.deltas
  BY DEF RightTurns, Merges
<1>3. Visited(l, k) \in SUBSET DOMAIN l.deltas
  BY DEF Visited
<1> QED
  BY <1>1, <1>2, <1>3

LEMMA OnType ==
  ASSUME NEW ix, NEW l \in Chains(ix), NEW pair, NEW unique
  PROVE  /\ On(l, pair, unique) \in SUBSET DOMAIN l.deltas
         /\ On(l, pair, unique) \in SUBSET (Nat \ {0})
         /\ On(l, pair, unique) # {} =>
              LET i == Min(On(l, pair, unique)) IN
              /\ i \in On(l, pair, unique) /\ i \in DOMAIN l.deltas
              /\ IsData(l.deltas[i]) /\ Matches(l.deltas[i].item, pair, unique)
<1> DEFINE S == On(l, pair, unique)
<1>1. S \in SUBSET DOMAIN l.deltas /\ DOMAIN l.deltas \in SUBSET (Nat \ {0})
  BY TurnsType, ChainFields DEF On
<1>2. S # {} => Min(S) \in S
  <2> HIDE DEF S
  <2> QED
    BY <1>1, MinIn
<1>3. \A i \in S : IsData(l.deltas[i]) /\ Matches(l.deltas[i].item, pair, unique)
  BY DEF On
<1> QED
  BY <1>1, <1>2, <1>3

\* A data or split delta hides nothing of the base nodes.
LEMMA PushTurns ==
  ASSUME NEW ix, NEW l \in Chains(ix), NEW d \in Deltas(ix), d.type # "merge", NEW k
  PROVE  LET l2 == Push(l, d) IN
         /\ RightTurns(l2, k) = Shift(RightTurns(l, k)) /\ Merges(l2) = Shift(Merges(l))
         /\ BaseFor(l2, k) = BaseFor(l, k)
         /\ Visited(l2, k) = {1} \cup Shift(Visited(l, k))
<1> DEFINE l2 == Push(l, d)
           T == RightTurns(l, k)
<1>1. /\ DOMAIN l2.deltas = {1} \cup Shift(DOMAIN l.deltas) /\ l2.deltas[1] = d
      /\ \A i \in DOMAIN l.deltas : l2.deltas[i + 1] = l.deltas[i]
      /\ l2.base = l.base
  BY PushFields
<1>3. DOMAIN l.deltas \in SUBSET (Nat \ {0}) /\ T \in SUBSET DOMAIN l.deltas /\ T \in SUBSET Nat
  BY ChainFields, TurnsType
<1> HIDE DEF l2
<1>4. RightTurns(l2, k) = Shift(T)
  <2>1. \A i : i \in RightTurns(l2, k) <=>
               i \in DOMAIN l2.deltas /\ l2.deltas[i].type = "merge" /\ k >= l2.deltas[i].item[1]
    BY DEF RightTurns
  <2>2. \A i : i \in RightTurns(l2, k) <=>
               \E j \in DOMAIN l.deltas : i = j + 1 /\ l.deltas[j].type = "merge" /\ k >= l.deltas[j].item[1]
    BY <2>1, <1>1 DEF Shift
  <2> QED
    BY <2>2 DEF Shift, RightTurns
<1>5. Merges(l2) = Shift(Merges(l))
  <2>1. \A i : i \in Merges(l2) <=> i \in DOMAIN l2.deltas /\ l2.deltas[i].type = "merge"
    BY DEF Merges
  <2>2. \A i : i \in Merges(l2) <=> \E j \in DOMAIN l.deltas : i = j + 1 /\ l.deltas[j].type = "merge"
    BY <2>1, <1>1 DEF Shift
  <2> QED
    BY <2>2 DEF Shift, Merges
<1> HIDE DEF T
<1>6. BaseFor(l2, k) = BaseFor(l, k)
  <2>0. BaseFor(l, k) = IF T = {} THEN l.base ELSE l.deltas[Min(T)].right
    BY DEF BaseFor, T
  <2>00. BaseFor(l2, k) = IF Shift(T) = {} THEN l2.base ELSE l2.deltas[Min(Shift(T))].right
    BY <1>4 DEF BaseFor
  <2>1. CASE T = {}
    <3>1. Shift(T) = {}
      BY <2>1 DEF Shift
    <3> QED
      BY <2>1, <3>1, <1>1, <2>0, <2>00
  <2>2. CASE T # {}
    <3>1. Shift(T) # {} /\ Min(Shift(T)) = Min(T) + 1
      <4>1. Shift(T) # {}
        BY <2>2 DEF Shift
      <4> QED
        BY <4>1, <2>2, <1>3, MinShift
    <3>2. Min(T) \in DOMAIN l.deltas
      BY <2>2, <1>3, MinIn
    <3> QED
      BY <2>2, <3>1, <3>2, <1>1, <2>0, <2>00
  <2> QED
    BY <2>1, <2>2
<1>7. Visited(l2, k) = {1} \cup Shift(Visited(l, k))
  <2>0. /\ \A j : j \in Visited(l, k) <=> j \in DOMAIN l.deltas /\ \A t \in T : j <= t
        /\ \A j : j \in Visited(l2, k) <=> j \in DOMAIN l2.deltas /\ \A t \in Shift(T) : j <= t
    BY <1>4 DEF Visited, T
  <2>1. \A i \in Nat : \A t \in Nat : i + 1 <= t + 1 <=> i <= t
    OBVIOUS
  <2>2. \A t \in Nat : 1 <= t + 1
    OBVIOUS
  <2>3. \A t \in T : t \in Nat
    BY <1>3
  <2>4. 1 \in Visited(l2, k)
    BY <1>1, <2>0, <2>2, <2>3 DEF Shift
  <2>5. ASSUME NEW j \in DOMAIN l.deltas
        PROVE  j + 1 \in Visited(l2, k) <=> j \in Visited(l, k)
    <3>1. j \in Nat /\ j + 1 \in DOMAIN l2.deltas
      BY <1>1, <1>3 DEF Shift
    <3>2. (\A t \in T : j <= t) <=> (\A u \in Shift(T) : j + 1 <= u)
      BY <3>1, <2>1, <2>3 DEF Shift
    <3> QED
      BY <3>1, <3>2, <2>0
  <2>6. Visited(l2, k) \in SUBSET ({1} \cup Shift(DOMAIN l.deltas))
    BY <1>1, <2>0
  <2>7. \A i : i \in Visited(l2, k) <=> i = 1 \/ \E j \in Visited(l, k) : i = j + 1
    <3>1. Visited(l, k) \in SUBSET DOMAIN l.deltas
      BY <2>0
    <3> QED
      BY <2>4, <2>5, <2>6, <3>1 DEF Shift
  <2> QED
    BY <2>7 DEF Shift
<1> QED
  BY <1>4, <1>5, <1>6, <1>7 DEF l2, T

LEMMA MergeOnce ==
  ASSUME NEW ix, NEW l \in Chains(ix), NEW unique, MergesSound(l, unique), NEW m \in Merges(l)
  PROVE  Merges(l) = {m} /\ Max(Merges(l)) = m /\ m \in DOMAIN l.deltas /\ m \in Nat \ {0}
<1>1. Merges(l) = {m}
  BY DEF MergesSound
<1>2. m \in DOMAIN l.deltas /\ m \in Nat \ {0}
  BY ChainFields DEF Merges
<1>3. Max({m}) = m
  BY <1>2, MaxIs
<1> QED
  BY <1>1, <1>2, <1>3

LEMMA PushLeftmostHigh ==
  ASSUME NEW ix, NEW l \in Chains(ix), NEW unique, MergesSound(l, unique),
         NEW d \in Deltas(ix), IsData(d), d.high = HighOf(l)
  PROVE  LeftmostHigh(Push(l, d)) = LeftmostHigh(l)
<1> DEFINE l2 == Push(l, d)
<1>0. d.type # "merge"
  BY DEF IsData
<1>1. /\ DOMAIN l2.deltas = {1} \cup Shift(DOMAIN l.deltas) /\ l2.deltas[1] = d
      /\ \A i \in DOMAIN l.deltas : l2.deltas[i + 1] = l.deltas[i]
      /\ Len(l2.deltas) = Len(l.deltas) + 1 /\ HighOf(l2) = d.high /\ l2.base = l.base
  BY PushFields
<1>2. Merges(l2) = Shift(Merges(l))
  BY <1>0, PushTurns
<1>3. Len(l.deltas) \in Nat /\ DOMAIN l.deltas = 1 .. Len(l.deltas)
  BY ChainFields
<1> HIDE DEF l2
<1>4. CASE Merges(l) = {}
  <2>1. Merges(l2) = {}
    BY <1>2, <1>4 DEF Shift
  <2>2. LeftmostHigh(l2) = LeftmostHigh(l)
    BY <2>1, <1>1, <1>4 DEF LeftmostHigh
  <2> QED
    BY <2>2 DEF l2
<1>5. CASE Merges(l) # {}
  <2>1. PICK m \in Merges(l) : TRUE
    BY <1>5
  <2>2. Merges(l) = {m} /\ Max(Merges(l)) = m /\ m \in DOMAIN l.deltas /\ m \in Nat \ {0}
    BY <2>1, MergeOnce
  <2>3. Merges(l2) = {m + 1} /\ Max(Merges(l2)) = m + 1
    <3>1. Merges(l2) = {m + 1}
      BY <1>2, <2>2 DEF Shift
    <3>2. Max({m + 1}) = m + 1
      BY <2>2, MaxIs
    <3> QED
      BY <3>1, <3>2
  <2>4. CASE m = Len(l.deltas)
    <3>1. m + 1 = Len(l2.deltas)
      BY <2>4, <1>1
    <3>2. LeftmostHigh(l2) = l2.base.high
      BY <2>3, <3>1 DEF LeftmostHigh
    <3>3. LeftmostHigh(l) = l.base.high
      BY <2>2, <2>4 DEF LeftmostHigh
    <3> QED
      BY <3>2, <3>3, <1>1 DEF l2
  <2>5. CASE m # Len(l.deltas)
    <3>1. m + 1 # Len(l2.deltas) /\ m + 1 \in DOMAIN l.deltas
      BY <2>5, <2>2, <1>1, <1>3
    <3>2. LeftmostHigh(l2) = l2.deltas[(m + 1) + 1].high
      BY <2>3, <3>1 DEF LeftmostHigh
    <3>3. LeftmostHigh(l) = l.deltas[m + 1].high
      BY <2>2, <2>5 DEF LeftmostHigh
    <3> QED
      BY <3>1, <3>2, <3>3, <1>1 DEF l2
  <2> QED
    BY <2>4, <2>5
<1> QED
  BY <1>4, <1>5

-----------------------------------------------------------------------------
(* Posting a data delta.                                                   *)

\* The new delta decides about the pairs that match its own.
LEMMA PushHolds ==
  ASSUME NEW ix, NEW l \in Chains(ix), NEW d \in Deltas(ix), IsData(d), NEW pair, NEW unique
  PROVE  Holds(Push(l, d), pair, unique) <=>
           IF Matches(d.item, pair, unique) THEN d.type = "insert" ELSE Holds(l, pair, unique)
<1> DEFINE l2 == Push(l, d)
           S  == On(l, pair, unique)
           S2 == On(l2, pair, unique)
<1>0. d.type # "merge"
  BY DEF IsData
<1>1. /\ DOMAIN l2.deltas = {1} \cup Shift(DOMAIN l.deltas) /\ l2.deltas[1] = d
      /\ \A i \in DOMAIN l.deltas : l2.deltas[i + 1] = l.deltas[i]
      /\ l2 \in Chains(ix)
  BY PushFields
<1>2. /\ BaseFor(l2, pair[1]) = BaseFor(l, pair[1])
      /\ Visited(l2, pair[1]) = {1} \cup Shift(Visited(l, pair[1]))
  BY <1>0, PushTurns
<1> HIDE DEF l2
<1>3. /\ Visited(l, pair[1]) \in SUBSET DOMAIN l.deltas
      /\ S \in SUBSET DOMAIN l.deltas /\ S \in SUBSET (Nat \ {0}) /\ S2 \in SUBSET (Nat \ {0})
      /\ S # {} => Min(S) \in DOMAIN l.deltas
  BY <1>1, TurnsType, OnType
<1>4. /\ \A i : i \in S2 <=> /\ i \in Visited(l2, pair[1])
                             /\ IsData(l2.deltas[i]) /\ Matches(l2.deltas[i].item, pair, unique)
      /\ \A i : i \in S <=> /\ i \in Visited(l, pair[1])
                            /\ IsData(l.deltas[i]) /\ Matches(l.deltas[i].item, pair, unique)
  BY DEF On
<1>5. /\ Holds(l2, pair, unique) <=>
           IF S2 # {} THEN l2.deltas[Min(S2)].type = "insert"
           ELSE \E p \in DOMAIN BaseFor(l, pair[1]).items :
                   Matches(BaseFor(l, pair[1]).items[p], pair, unique)
      /\ Holds(l, pair, unique) <=>
           IF S # {} THEN l.deltas[Min(S)].type = "insert"
           ELSE \E p \in DOMAIN BaseFor(l, pair[1]).items :
                   Matches(BaseFor(l, pair[1]).items[p], pair, unique)
  BY <1>2 DEF Holds
<1> HIDE DEF S, S2
<1>6. /\ 1 \in S2 <=> Matches(d.item, pair, unique)
      /\ \A j \in S : j + 1 \in S2
      /\ \A i \in S2 : i # 1 => \E j \in S : i = j + 1
  <2>1. 1 \in S2 <=> Matches(d.item, pair, unique)
    BY <1>1, <1>2, <1>4
  <2>2. \A j \in Visited(l, pair[1]) : j + 1 \in Visited(l2, pair[1]) /\ l2.deltas[j + 1] = l.deltas[j]
    BY <1>1, <1>2, <1>3 DEF Shift
  <2>3. \A j \in S : j + 1 \in S2
    BY <1>4, <2>2
  <2>4. \A i \in S2 : i # 1 => \E j \in S : i = j + 1
    BY <1>2, <1>4, <2>2 DEF Shift
  <2> QED
    BY <2>1, <2>3, <2>4
<1>7. CASE Matches(d.item, pair, unique)
  <2>1. S2 # {} /\ Min(S2) = 1
    BY <1>3, <1>6, <1>7, MinOne
  <2> QED
    BY <2>1, <1>1, <1>5, <1>7 DEF l2
<1>8. CASE ~Matches(d.item, pair, unique)
  <2>1. S2 = Shift(S)
    BY <1>3, <1>6, <1>8 DEF Shift
  <2>2. CASE S = {}
    <3>1. S2 = {}
      BY <2>1, <2>2 DEF Shift
    <3> QED
      BY <3>1, <2>2, <1>5, <1>8 DEF l2
  <2>3. CASE S # {}
    <3>1. S2 # {} /\ Min(S2) = Min(S) + 1
      <4>1. S2 # {}
        BY <2>1, <2>3 DEF Shift
      <4>2. Min(Shift(S)) = Min(S) + 1
        BY <2>3, <1>3, MinShift
      <4> QED
        BY <4>1, <4>2, <2>1
    <3>2. l2.deltas[Min(S2)] = l.deltas[Min(S)]
      BY <3>1, <2>3, <1>1, <1>3
    <3> QED
      BY <3>1, <3>2, <2>3, <1>5, <1>8 DEF l2
  <2> QED
    BY <2>2, <2>3
<1> QED
  BY <1>7, <1>8

\* Delta d turns the pairs c into c2: it is right about those that match its own.
Decides(d, c, c2, ix) ==
  \A pair \in PairsOf(ix), unique \in {FALSE, ix.unique} :
    (\E x \in c2 : Matches(x, pair, unique)) <=>
      IF Matches(d.item, pair, unique) THEN d.type = "insert"
      ELSE \E x \in c : Matches(x, pair, unique)

LEMMA PushData ==
  ASSUME NEW ix, IndexOK(ix), NEW l, NEW low, NEW c, ChainOK(l, low, c, ix),
         NEW d \in Deltas(ix), IsData(d), d.item \in PairsOf(ix), Inside(l, low, d.item[1]),
         Placed(l, d.item, d.index, d.over, ix.unique), d.high = HighOf(l),
         NEW c2, ContentSound(Push(l, d), low, c2, ix), Decides(d, c, c2, ix)
  PROVE  ChainOK(Push(l, d), low, c2, ix)
<1> DEFINE l2 == Push(l, d)
           u  == ix.unique
<1>0. l \in Chains(ix) /\ MergesSound(l, u) /\ d.type # "merge"
  BY DEF ChainOK, IsData
<1>1. /\ DOMAIN l2.deltas = {1} \cup Shift(DOMAIN l.deltas) /\ l2.deltas[1] = d
      /\ \A i \in DOMAIN l.deltas : l2.deltas[i + 1] = l.deltas[i]
      /\ HighOf(l2) = d.high /\ l2.base = l.base
      /\ CountOf(l2) = d.count /\ l2 \in Chains(ix) /\ l2.deltas # <<>>
  BY <1>0, PushFields
<1>2. /\ \A k : BaseFor(l2, k) = BaseFor(l, k)
      /\ Merges(l2) = Shift(Merges(l))
  BY <1>0, PushTurns
<1>3. LeftmostHigh(l2) = LeftmostHigh(l)
  BY <1>0, PushLeftmostHigh
<1>4. \A pair, unique : Holds(l2, pair, unique) <=>
        IF Matches(d.item, pair, unique) THEN d.type = "insert" ELSE Holds(l, pair, unique)
  BY <1>0, PushHolds
<1>6. DOMAIN l.deltas = 1 .. Len(l.deltas) /\ Len(l.deltas) \in Nat
      /\ \A i \in DOMAIN l.deltas : i \in Nat \ {0} /\ l.deltas[i] \in Deltas(ix)
  BY <1>0, ChainFields
<1> HIDE DEF l2
<1>7. \A k : Inside(l2, low, k) <=> Inside(l, low, k)
  BY <1>1 DEF Inside
<1>8. MergesSound(l2, u)
  <2> SUFFICES ASSUME NEW m \in Merges(l2)
               PROVE  LET e == l2.deltas[m] IN
                 /\ \A j \in Merges(l2) : j = m
                 /\ Ordered(e.right.items, u) /\ e.right.high = NoHigh
                 /\ \A p \in DOMAIN e.right.items : e.right.items[p][1] >= e.item[1]
                 /\ LeftmostHigh(l2) = e.item /\ e.item[2] # 0
                 /\ HighOf(l2) = NoHigh
                 /\ \A i \in DOMAIN l2.deltas :
                      i > m /\ IsData(l2.deltas[i]) => l2.deltas[i].item[1] < e.item[1]
    BY DEF MergesSound
  <2>1. PICK n \in Merges(l) : m = n + 1
    BY <1>2 DEF Shift
  <2>2. n \in DOMAIN l.deltas /\ n \in Nat \ {0} /\ Merges(l) = {n} /\ l2.deltas[m] = l.deltas[n]
    BY <2>1, <1>0, <1>1, MergeOnce
  <2> DEFINE e == l.deltas[n]
  <2>3. /\ Ordered(e.right.items, u) /\ e.right.high = NoHigh
        /\ \A p \in DOMAIN e.right.items : e.right.items[p][1] >= e.item[1]
        /\ LeftmostHigh(l) = e.item /\ e.item[2] # 0
        /\ HighOf(l) = NoHigh
        /\ \A i \in DOMAIN l.deltas : i > n /\ IsData(l.deltas[i]) => l.deltas[i].item[1] < e.item[1]
    BY <1>0 DEF MergesSound
  <2>4. \A j \in Merges(l2) : j = m
    BY <1>2, <2>1, <2>2 DEF Shift
  <2>5. ASSUME NEW i \in DOMAIN l2.deltas, i > m, IsData(l2.deltas[i])
        PROVE  l2.deltas[i].item[1] < e.item[1]
    <3>1. PICK j \in DOMAIN l.deltas : i = j + 1
      <4>1. i # 1
        BY <2>1, <2>2, <2>5
      <4> QED
        BY <4>1, <1>1 DEF Shift
    <3>2. j > n
      BY <3>1, <2>1, <2>2, <2>5, <1>6
    <3>3. l2.deltas[i] = l.deltas[j]
      BY <3>1, <1>1
    <3> QED
      BY <3>2, <3>3, <2>3, <2>5
  <2> HIDE DEF e
  <2>6. LeftmostHigh(l2) = e.item /\ HighOf(l2) = NoHigh
    BY <2>3, <1>1, <1>3
  <2>7. l2.deltas[m] = e
    BY <2>2 DEF e
  <2> QED
    BY <2>3, <2>4, <2>5, <2>6, <2>7
<1>9. \A item, i, over : Placed(l2, item, i, over, u) <=> Placed(l, item, i, over, u)
  BY <1>2 DEF Placed
<1>10. DeltasSound(l2, low, ix)
  <2> SUFFICES ASSUME NEW i \in DOMAIN l2.deltas, IsData(l2.deltas[i])
               PROVE  LET e == l2.deltas[i] IN
                      /\ e.item \in PairsOf(ix) /\ Inside(l, low, e.item[1])
                      /\ Placed(l, e.item, e.index, e.over, u)
    BY <1>7, <1>9 DEF DeltasSound
  <2>1. CASE i = 1
    <3>1. l2.deltas[i] = d
      BY <2>1, <1>1
    <3> HIDE DEF u
    <3> QED
      BY <3>1 DEF u
  <2>2. CASE i # 1
    <3>1. PICK j \in DOMAIN l.deltas : i = j + 1
      BY <2>2, <1>1 DEF Shift
    <3>2. l2.deltas[i] = l.deltas[j]
      BY <3>1, <1>1
    <3>3. DeltasSound(l, low, ix)
      BY DEF ChainOK
    <3> QED
      BY <3>2, <3>3 DEF DeltasSound
  <2> QED
    BY <2>1, <2>2
<1>11. ContentSound(l2, low, c2, ix)
  BY DEF l2
<1>12. KnownExact(l2, low, c2, ix)
  <2> SUFFICES ASSUME NEW pair \in PairsOf(ix), NEW unique \in {FALSE, ix.unique},
                      Inside(l, low, pair[1])
               PROVE  Holds(l2, pair, unique) <=> \E x \in c2 : Matches(x, pair, unique)
    BY <1>7 DEF KnownExact
  <2>1. KnownExact(l, low, c, ix)
    BY DEF ChainOK
  <2>2. Holds(l, pair, unique) <=> \E x \in c : Matches(x, pair, unique)
    BY <2>1 DEF KnownExact
  <2> QED
    <3>1. pair \in PairsOf(ix) /\ unique \in {FALSE, ix.unique} /\ Decides(d, c, c2, ix)
      OBVIOUS
    <3>2. (\E x \in c2 : Matches(x, pair, unique)) <=>
            IF Matches(d.item, pair, unique) THEN d.type = "insert"
            ELSE \E x \in c : Matches(x, pair, unique)
      BY <3>1 DEF Decides
    <3> QED
      BY <2>2, <3>2, <1>4
<1>13. BaseSound(l2, low, u)
  <2>1. BaseSound(l, low, u)
    BY DEF ChainOK
  <2>2. ASSUME NEW m \in Merges(l2) PROVE low <= l2.deltas[m].item[1]
    <3>1. PICK n \in Merges(l) : m = n + 1
      BY <1>2 DEF Shift
    <3>2. l2.deltas[m] = l.deltas[n]
      BY <3>1, <1>1 DEF Merges
    <3> QED
      BY <3>2, <2>1 DEF BaseSound
  <2> QED
    BY <1>1, <2>1, <2>2 DEF BaseSound
<1>14. low \in Nat
  BY DEF ChainOK
<1> QED
  BY <1>1, <1>8, <1>10, <1>11, <1>12, <1>13, <1>14 DEF ChainOK, l2

LEMMA NoBaseType ==
  ASSUME NEW ix
  PROVE  NoBase \in BaseNodes(ix)
<1>1. <<>> \in Seq(PairsOf(ix)) /\ NoHigh \in Nat \X Nat
  BY DEF NoHigh
<1> QED
  BY <1>1 DEF NoBase, BaseNodes

-----------------------------------------------------------------------------
(* Where a delta belongs.                                                  *)

\* The base node at which a walk for k ends is in order.
LEMMA BaseForOrdered ==
  ASSUME NEW ix, IndexOK(ix), NEW l, NEW low, NEW c, ChainOK(l, low, c, ix), NEW k
  PROVE  BaseFor(l, k) \in BaseNodes(ix) /\ Ordered(BaseFor(l, k).items, ix.unique)
<1>1. l \in Chains(ix) /\ MergesSound(l, ix.unique) /\ Ordered(l.base.items, ix.unique)
  BY DEF ChainOK, BaseSound
<1>2. l.base \in BaseNodes(ix)
  BY <1>1, ChainFields
<1>3. CASE RightTurns(l, k) = {}
  BY <1>1, <1>2, <1>3 DEF BaseFor
<1>4. CASE RightTurns(l, k) # {}
  <2> DEFINE m == Min(RightTurns(l, k))
  <2>1. m \in Merges(l) /\ m \in DOMAIN l.deltas
    <3>1. RightTurns(l, k) \in SUBSET Nat /\ RightTurns(l, k) \in SUBSET Merges(l) /\ Merges(l) \in SUBSET DOMAIN l.deltas
      BY <1>1, TurnsType
    <3> QED
      BY <3>1, <1>4, MinIn
  <2>2. BaseFor(l, k) = l.deltas[m].right
    BY <1>4 DEF BaseFor
  <2>3. l.deltas[m].right \in BaseNodes(ix)
    BY <2>1, <1>1, ChainFields, DeltaFields
  <2> HIDE DEF m
  <2> QED
    BY <2>1, <2>2, <2>3, <1>1 DEF MergesSound
<1> QED
  BY <1>3, <1>4

\* A set of positions without gaps, from the first one on.
LEMMA PrefixCount ==
  ASSUME NEW n \in Nat, NEW S \in SUBSET (1 .. n), \A p \in S : \A q \in 1 .. p : q \in S
  PROVE  S = 1 .. Cardinality(S) /\ Cardinality(S) \in 0 .. n
<1>1. IsFiniteSet(S) /\ S \in SUBSET Nat /\ IsFiniteSet(1 .. n) /\ Cardinality(1 .. n) = n
  <2>1. IsFiniteSet(1 .. n) /\ Cardinality(1 .. n) = n
    BY FS_Interval
  <2>2. IsFiniteSet(S)
    BY <2>1, FS_Subset
  <2> QED
    BY <2>1, <2>2
<1>2. CASE S = {}
  <2>1. Cardinality(S) = 0
    BY <1>2, FS_EmptySet
  <2> QED
    BY <2>1, <1>2
<1>3. CASE S # {}
  <2> DEFINE m == Max(S)
  <2>1. m \in S /\ \A y \in S : m >= y
    BY <1>1, <1>3, MaxIn
  <2> HIDE DEF m
  <2>2. m \in 1 .. n
    BY <2>1
  <2>4. \A y \in 1 .. n : y <= m <=> y \in 1 .. m
    BY <2>2
  <2>5. S \in SUBSET (1 .. m)
    <3>1. \A y \in S : y \in 1 .. n /\ y <= m
      BY <2>1, <2>2
    <3> QED
      BY <3>1, <2>4
  <2>6. \A y \in 1 .. m : y \in S
    BY <2>1
  <2>7. S = 1 .. m
    BY <2>5, <2>6
  <2>3. Cardinality(1 .. m) = m
    <3>1. m \in Nat /\ 1 \in Int /\ m - 1 + 1 = m /\ m >= 1
      BY <2>2
    <3> QED
      BY <3>1, FS_Interval
  <2> QED
    BY <2>2, <2>3, <2>7
<1> QED
  BY <1>2, <1>3

LEMMA UpperBoundIs ==
  ASSUME NEW ix, IndexOK(ix), NEW items \in Seq(PairsOf(ix)), NEW unique, Ordered(items, unique),
         NEW k \in Nat
  PROVE  /\ UpperBound(items, k) \in 0 .. Len(items)
         /\ \A p \in DOMAIN items : p <= UpperBound(items, k) <=> items[p][1] <= k
<1> DEFINE S == {i \in DOMAIN items : items[i][1] <= k}
           n == Len(items)
<1>1. DOMAIN items = 1 .. n /\ n \in Nat
  OBVIOUS
<1>2. \A p \in 1 .. n : items[p][1] \in Nat
  BY <1>1, PairFields
<1>3. ASSUME NEW p \in S, NEW q \in 1 .. p PROVE q \in S
  <2>1. p \in 1 .. n /\ q \in 1 .. n /\ items[p][1] <= k /\ (q = p \/ q < p)
    BY <1>1
  <2>2. items[q][1] <= items[p][1]
    <3>1. CASE q = p
      BY <3>1, <2>1, <1>2
    <3>2. CASE q < p
      BY <3>2, <2>1, <1>1 DEF Ordered
    <3> QED
      BY <3>1, <3>2, <2>1
  <2> DEFINE a == items[q][1]
             b == items[p][1]
  <2>3. a \in Nat /\ b \in Nat /\ a <= b /\ b <= k
    BY <2>1, <2>2, <1>2
  <2> HIDE DEF a, b
  <2>4. a <= k
    BY <2>3
  <2> QED
    BY <2>1, <2>4, <1>1 DEF a
<1>4. S = 1 .. Cardinality(S) /\ Cardinality(S) \in 0 .. n
  <2>1. S \in SUBSET (1 .. n)
    BY <1>1
  <2> HIDE DEF S, n
  <2> QED
    BY <1>1, <1>3, <2>1, PrefixCount
<1>5. UpperBound(items, k) = Cardinality(S)
  BY DEF UpperBound
<1>6. \A p \in DOMAIN items : p \in S <=> items[p][1] <= k
  OBVIOUS
<1> HIDE DEF S
<1> DEFINE v == Cardinality(S)
<1>7. v \in 0 .. n /\ \A p : p \in S <=> p \in 1 .. v
  BY <1>4
<1> HIDE DEF v
<1>8. \A p \in DOMAIN items : p <= v <=> p \in S
  BY <1>1, <1>7
<1>9. UpperBound(items, k) = v
  BY <1>5 DEF v
<1> QED
  BY <1>6, <1>7, <1>8, <1>9


LEMMA MatchesChain ==
  ASSUME NEW x, NEW y, NEW z, NEW unique, Matches(x, y, unique), Matches(y, z, unique)
  PROVE  Matches(x, z, unique)
BY DEF Matches

LEMMA MatchesSwap ==
  ASSUME NEW x, NEW y, NEW unique
  PROVE  Matches(x, y, unique) <=> Matches(y, x, unique)
BY DEF Matches

LEMMA PlacedMove ==
  ASSUME NEW l, NEW x, NEW y, NEW place, NEW over, NEW unique,
         Placed(l, x, place, over, unique), Matches(x, y, unique)
  PROVE  Placed(l, y, place, over, unique)
<1> DEFINE items == BaseFor(l, x[1]).items
<1>1. x[1] = y[1] /\ BaseFor(l, y[1]).items = items
  BY DEF Matches
<1>2. /\ place \in 0 .. Len(items)
      /\ over => place + 1 \in DOMAIN items /\ Matches(items[place + 1], x, unique)
      /\ ~over => \A p \in DOMAIN items : /\ p <= place <=> items[p][1] <= x[1]
                                          /\ ~Matches(items[p], x, unique)
  BY DEF Placed
<1> HIDE DEF items
<1>3. \A z : Matches(z, x, unique) <=> Matches(z, y, unique)
  BY DEF Matches
<1> QED
  BY <1>1, <1>2, <1>3 DEF Placed

\* A pair that nothing in the base node matches goes behind the items of its key.
LEMMA BasePlace ==
  ASSUME NEW ix, IndexOK(ix), NEW l, NEW low, NEW c, ChainOK(l, low, c, ix),
         NEW pair \in PairsOf(ix), NEW unique,
         \A p \in DOMAIN BaseFor(l, pair[1]).items : ~Matches(BaseFor(l, pair[1]).items[p], pair, unique)
  PROVE  Placed(l, pair, UpperBound(BaseFor(l, pair[1]).items, pair[1]), FALSE, unique)
<1> DEFINE items == BaseFor(l, pair[1]).items
<1>1. items \in Seq(PairsOf(ix)) /\ Ordered(items, ix.unique)
  <2>1. BaseFor(l, pair[1]) \in BaseNodes(ix) /\ Ordered(items, ix.unique)
    BY BaseForOrdered
  <2> QED
    BY <2>1, BaseFields
<1>2. pair[1] \in Nat
  BY PairFields
<1>3. \A p \in DOMAIN items : ~Matches(items[p], pair, unique)
  OBVIOUS
<1> DEFINE k == pair[1]
<1> HIDE DEF items, k
<1>4. /\ UpperBound(items, k) \in 0 .. Len(items)
      /\ \A p \in DOMAIN items : p <= UpperBound(items, k) <=> items[p][1] <= k
  <2>1. k \in Nat
    BY <1>2 DEF k
  <2> QED
    BY <1>1, <2>1, UpperBoundIs
<1> DEFINE n == UpperBound(items, k)
<1> HIDE DEF n
<1>5. n \in 0 .. Len(items) /\ \A p \in DOMAIN items : p <= n <=> items[p][1] <= k
  BY <1>4 DEF n
<1> QED
  BY <1>3, <1>5 DEF Placed, items, k, n

\* The delta that a search stops at, if any.
LEMMA NewestPlaced ==
  ASSUME NEW ix, IndexOK(ix), NEW l, NEW low, NEW c, ChainOK(l, low, c, ix),
         NEW pair, NEW unique, On(l, pair, unique) # {}
  PROVE  LET d == l.deltas[Min(On(l, pair, unique))] IN
         /\ d \in Deltas(ix) /\ IsData(d) /\ Matches(d.item, pair, unique)
         /\ d.item \in PairsOf(ix) /\ Inside(l, low, d.item[1])
         /\ Placed(l, d.item, d.index, d.over, ix.unique)
<1>1. l \in Chains(ix) /\ DeltasSound(l, low, ix)
  BY DEF ChainOK
<1> DEFINE i == Min(On(l, pair, unique))
<1>2. i \in DOMAIN l.deltas /\ IsData(l.deltas[i]) /\ Matches(l.deltas[i].item, pair, unique)
  BY <1>1, OnType
<1> HIDE DEF i
<1>3. l.deltas[i] \in Deltas(ix)
  BY <1>1, <1>2, ChainFields
<1>4. /\ l.deltas[i].item \in PairsOf(ix) /\ Inside(l, low, l.deltas[i].item[1])
      /\ Placed(l, l.deltas[i].item, l.deltas[i].index, l.deltas[i].over, ix.unique)
  BY <1>1, <1>2 DEF DeltasSound
<1> QED
  BY <1>2, <1>3, <1>4 DEF i

LEMMA NavigateFound ==
  ASSUME NEW l, NEW k, NEW v, NEW unique
  PROVE  NavigateValue(l, k, v, unique).found <=> Holds(l, <<k, v>>, unique)
<1> DEFINE hits  == On(l, <<k, v>>, unique)
           items == BaseFor(l, k).items
           same  == {p \in DOMAIN items : Matches(items[p], <<k, v>>, unique)}
<1>1. CASE hits # {}
  <2>1. NavigateValue(l, k, v, unique).found = (l.deltas[Min(hits)].type = "insert")
    BY <1>1 DEF NavigateValue
  <2>2. Holds(l, <<k, v>>, unique) = (l.deltas[Min(hits)].type = "insert")
    BY <1>1 DEF Holds
  <2> QED
    BY <2>1, <2>2
<1>2. CASE hits = {}
  <2>1. NavigateValue(l, k, v, unique).found = (same # {})
    BY <1>2 DEF NavigateValue
  <2>2. Holds(l, <<k, v>>, unique) = \E p \in DOMAIN items : Matches(items[p], <<k, v>>, unique)
    BY <1>2 DEF Holds
  <2> QED
    BY <2>1, <2>2
<1> QED
  BY <1>1, <1>2

\* What a search for a pair gives is the place of a delta on it.
LEMMA NavigatePlaced ==
  ASSUME NEW ix, IndexOK(ix), NEW l, NEW low, NEW c, ChainOK(l, low, c, ix),
         NEW k, NEW v, <<k, v>> \in PairsOf(ix), NEW unique \in BOOLEAN, unique => ix.unique,
         NavigateValue(l, k, v, unique).found \/ unique = ix.unique
  PROVE  LET at == NavigateValue(l, k, v, unique).at IN
         at[2] \in BOOLEAN /\ Placed(l, <<k, v>>, at[1], at[2], ix.unique)
<1> DEFINE pair  == <<k, v>>
           nav   == NavigateValue(l, k, v, unique)
           hits  == On(l, pair, unique)
           items == BaseFor(l, k).items
           same  == {p \in DOMAIN items : Matches(items[p], pair, unique)}
           u     == ix.unique
<1>0. pair[1] = k /\ \A x : Matches(x, pair, unique) => Matches(x, pair, u)
  BY DEF Matches
<1>1. CASE hits # {}
  <2> DEFINE d == l.deltas[Min(hits)]
  <2>1. d \in Deltas(ix) /\ Matches(d.item, pair, unique) /\ Placed(l, d.item, d.index, d.over, u)
    BY <1>1, NewestPlaced
  <2>2. nav.at = <<d.index, d.over>>
    BY <1>1 DEF NavigateValue
  <2> HIDE DEF d
  <2>3. d.over \in BOOLEAN
    BY <2>1, DeltaFields
  <2> HIDE DEF nav, pair, u
  <2>4. Placed(l, pair, d.index, d.over, u)
    BY <2>1, <1>0, PlacedMove
  <2> QED
    BY <2>2, <2>3, <2>4 DEF nav, pair, u
<1>2. CASE hits = {} /\ same # {}
  <2> DEFINE p == Min(same)
  <2>1. nav.at = <<p - 1, TRUE>>
    BY <1>2 DEF NavigateValue
  <2>2. items \in Seq(PairsOf(ix))
    BY BaseForOrdered, BaseFields
  <2>3. p \in same
    <3>1. same \in SUBSET Nat
      BY <2>2
    <3> HIDE DEF same
    <3> QED
      BY <3>1, <1>2, MinIn
  <2>4. p \in 1 .. Len(items) /\ Len(items) \in Nat /\ Matches(items[p], pair, u)
    BY <2>2, <2>3, <1>0
  <2> HIDE DEF p
  <2>5. p - 1 \in 0 .. Len(items) /\ (p - 1) + 1 = p /\ p \in DOMAIN items
    BY <2>4, <2>2
  <2>7. items = BaseFor(l, pair[1]).items
    OBVIOUS
  <2> HIDE DEF nav, items, u, pair
  <2>6. Placed(l, pair, p - 1, TRUE, u)
    BY <2>4, <2>5, <2>7 DEF Placed
  <2>8. nav.at[1] = p - 1 /\ nav.at[2] = TRUE
    BY <2>1
  <2> QED
    BY <2>6, <2>8 DEF nav, u, pair
<1>3. CASE hits = {} /\ same = {}
  <2>1. nav.at = <<UpperBound(items, k), FALSE>> /\ ~nav.found
    BY <1>3 DEF NavigateValue
  <2>2. unique = u
    BY <2>1
  <2>3. \A p \in DOMAIN BaseFor(l, pair[1]).items : ~Matches(BaseFor(l, pair[1]).items[p], pair, u)
    BY <1>3, <2>2
  <2>4. pair \in PairsOf(ix)
    OBVIOUS
  <2>6. BaseFor(l, pair[1]).items = items /\ pair[1] = k
    OBVIOUS
  <2> HIDE DEF pair, u, nav
  <2>5. Placed(l, pair, UpperBound(BaseFor(l, pair[1]).items, pair[1]), FALSE, u)
    BY <2>3, <2>4, BasePlace
  <2> HIDE DEF items
  <2>7. Placed(l, pair, UpperBound(items, k), FALSE, u)
    BY <2>5, <2>6
  <2>8. nav.at[1] = UpperBound(items, k) /\ nav.at[2] = FALSE
    BY <2>1
  <2> QED
    BY <2>7, <2>8 DEF nav, pair, u
<1> QED
  BY <1>1, <1>2, <1>3

-----------------------------------------------------------------------------
(* The three operations on a chain.                                        *)

LEMMA InsertChain ==
  ASSUME NEW ix, IndexOK(ix), NEW l, NEW low, NEW c, ChainOK(l, low, c, ix),
         NEW pair \in PairsOf(ix), Inside(l, low, pair[1]), DepthOf(l) < MaxDepth,
         \A x \in c : ~Matches(x, pair, ix.unique),
         NEW at, at[2] \in BOOLEAN, Placed(l, pair, at[1], at[2], ix.unique)
  PROVE  /\ ChainOK(Push(l, LeafInsertNode(l, pair, at)), low, c \cup {pair}, ix)
         /\ LeafInsertNode(l, pair, at) \in Deltas(ix)
<1> DEFINE d  == LeafInsertNode(l, pair, at)
           c2 == c \cup {pair}
<1>1. l \in Chains(ix) /\ ContentSound(l, low, c, ix)
  BY DEF ChainOK
<1>2. /\ d.type = "insert" /\ d.item = pair /\ d.index = at[1] /\ d.over = at[2]
      /\ d.count = CountOf(l) + 1 /\ d.high = HighOf(l)
  BY DEF LeafInsertNode
<1>3. /\ HighOf(l) \in Nat \X Nat /\ CountOf(l) \in Nat /\ DepthOf(l) + 1 \in 0 .. MaxDepth
  <2>1. HighOf(l) \in Nat \X Nat /\ CountOf(l) \in Nat /\ DepthOf(l) \in 0 .. MaxDepth
    BY <1>1, HighType
  <2>2. MaxDepth \in Nat
    BY LeafChainAssumption
  <2> QED
    BY <2>1, <2>2
<1>4. pair \in Nat \X (Values \cup Nat) /\ at[1] \in Nat
  <2>1. pair \in Nat \X Values
    BY PairFields
  <2>2. at[1] \in 0 .. Len(BaseFor(l, pair[1]).items)
    BY DEF Placed
  <2>3. Len(BaseFor(l, pair[1]).items) \in Nat
    BY BaseForOrdered, BaseFields
  <2> QED
    BY <2>1, <2>2, <2>3
<1>5. d \in Deltas(ix)
  <2>1. NoBase \in BaseNodes(ix)
    BY NoBaseType
  <2> QED
    BY <1>3, <1>4, <2>1 DEF LeafInsertNode, Deltas, DeltaTypes
<1>6. /\ c \in SUBSET PairsOf(ix) /\ IsFiniteSet(c) /\ CountOf(l) = Cardinality(c)
      /\ \A x \in c : Inside(l, low, x[1])
      /\ \A x, y \in c : Matches(x, y, ix.unique) => x = y
  BY <1>1 DEF ContentSound
<1>7. IsFiniteSet(c2) /\ Cardinality(c2) = CountOf(l) + 1
  <2>1. pair \notin c
    <3>1. Matches(pair, pair, ix.unique)
      BY DEF Matches
    <3> QED
      BY <3>1
  <2> QED
    BY <1>6, <2>1, FS_AddElement
<1>8. ASSUME NEW x \in c2, NEW y \in c2, Matches(x, y, ix.unique)
      PROVE  x = y
  <2>1. Matches(y, x, ix.unique)
    BY <1>8, MatchesSwap
  <2> QED
    BY <1>6, <1>8, <2>1
<1>9. \A q, unique : (\E x \in c2 : Matches(x, q, unique)) <=>
                        IF Matches(pair, q, unique) THEN TRUE ELSE \E x \in c : Matches(x, q, unique)
  OBVIOUS
<1>10. /\ c2 \in SUBSET PairsOf(ix) /\ \A x \in c2 : Inside(l, low, x[1])
  BY <1>6
<1> HIDE DEF d, c2
<1>11. IsData(d)
  BY <1>2 DEF IsData
<1>12. ChainOK(Push(l, d), low, c2, ix)
  <2>0. HighOf(Push(l, d)) = HighOf(l) /\ CountOf(Push(l, d)) = Cardinality(c2)
    BY <1>1, <1>2, <1>5, <1>7, PushFields
  <2>1. /\ IndexOK(ix) /\ ChainOK(l, low, c, ix)
        /\ IsData(d) /\ d.item \in PairsOf(ix) /\ Inside(l, low, d.item[1])
        /\ Placed(l, d.item, d.index, d.over, ix.unique) /\ d.high = HighOf(l)
    BY <1>2, <1>10, <1>11
  <2>2. Decides(d, c, c2, ix)
    BY <1>2, <1>9 DEF Decides
  <2>3. ContentSound(Push(l, d), low, c2, ix)
    BY <2>0, <1>7, <1>8, <1>10 DEF ContentSound, Inside
  <2> QED
    BY <1>5, <2>1, <2>2, <2>3, PushData
<1> QED
  BY <1>5, <1>12 DEF d, c2

LEMMA DeleteChain ==
  ASSUME NEW ix, IndexOK(ix), NEW l, NEW low, NEW c, ChainOK(l, low, c, ix),
         NEW pair \in c, DepthOf(l) < MaxDepth,
         NEW at, at[2] \in BOOLEAN, Placed(l, pair, at[1], at[2], ix.unique)
  PROVE  /\ ChainOK(Push(l, LeafDeleteNode(l, pair, at)), low, c \ {pair}, ix)
         /\ LeafDeleteNode(l, pair, at) \in Deltas(ix)
<1> DEFINE d  == LeafDeleteNode(l, pair, at)
           c2 == c \ {pair}
<1>1. l \in Chains(ix) /\ ContentSound(l, low, c, ix)
  BY DEF ChainOK
<1>2. /\ d.type = "delete" /\ d.item = pair /\ d.index = at[1] /\ d.over = at[2]
      /\ d.count = CountOf(l) - 1 /\ d.high = HighOf(l)
  BY DEF LeafDeleteNode
<1>3. /\ HighOf(l) \in Nat \X Nat /\ CountOf(l) \in Nat /\ DepthOf(l) + 1 \in 0 .. MaxDepth
  <2>1. HighOf(l) \in Nat \X Nat /\ CountOf(l) \in Nat /\ DepthOf(l) \in 0 .. MaxDepth
    BY <1>1, HighType
  <2>2. MaxDepth \in Nat
    BY LeafChainAssumption
  <2> QED
    BY <2>1, <2>2
<1>6. /\ c \in SUBSET PairsOf(ix) /\ IsFiniteSet(c) /\ CountOf(l) = Cardinality(c)
      /\ \A x \in c : Inside(l, low, x[1])
      /\ \A x, y \in c : Matches(x, y, ix.unique) => x = y
  BY <1>1 DEF ContentSound
<1>4. pair \in Nat \X (Values \cup Nat) /\ at[1] \in Nat /\ pair \in PairsOf(ix)
  <2>0. pair \in PairsOf(ix)
    BY <1>6
  <2>1. pair \in Nat \X Values
    BY <2>0, PairFields
  <2>2. at[1] \in 0 .. Len(BaseFor(l, pair[1]).items)
    BY DEF Placed
  <2>3. Len(BaseFor(l, pair[1]).items) \in Nat
    BY BaseForOrdered, BaseFields
  <2> QED
    BY <2>0, <2>1, <2>2, <2>3
<1>7. IsFiniteSet(c2) /\ Cardinality(c2) = CountOf(l) - 1 /\ CountOf(l) - 1 \in Nat
  <2>1. IsFiniteSet(c2) /\ Cardinality(c2) = Cardinality(c) - 1
    BY <1>6, FS_RemoveElement
  <2>2. Cardinality(c2) \in Nat
    BY <2>1, FS_CardinalityType
  <2> QED
    BY <2>1, <2>2, <1>6
<1>5. d \in Deltas(ix)
  <2>1. NoBase \in BaseNodes(ix)
    BY NoBaseType
  <2> QED
    BY <1>3, <1>4, <1>7, <2>1 DEF LeafDeleteNode, Deltas, DeltaTypes
<1>9. ASSUME NEW q, NEW unique \in {FALSE, ix.unique}
      PROVE  (\E x \in c2 : Matches(x, q, unique)) <=>
               IF Matches(pair, q, unique) THEN FALSE ELSE \E x \in c : Matches(x, q, unique)
  <2>1. CASE Matches(pair, q, unique)
    <3>1. ASSUME NEW x \in c2, Matches(x, q, unique) PROVE FALSE
      <4>1. Matches(q, pair, unique)
        BY <2>1, MatchesSwap
      <4>2. Matches(x, pair, unique)
        BY <3>1, <4>1, MatchesChain
      <4>3. x \in PairsOf(ix) /\ x \in c /\ x # pair
        BY <1>6
      <4>4. Matches(x, pair, ix.unique)
        BY <4>2 DEF Matches
      <4> QED
        BY <4>3, <4>4, <1>6
    <3> QED
      BY <2>1, <3>1
  <2>2. CASE ~Matches(pair, q, unique)
    BY <2>2
  <2> QED
    BY <2>1, <2>2
<1>10. /\ c2 \in SUBSET PairsOf(ix) /\ \A x \in c2 : Inside(l, low, x[1])
       /\ \A x, y \in c2 : Matches(x, y, ix.unique) => x = y
       /\ Inside(l, low, pair[1])
  BY <1>6
<1> HIDE DEF d, c2
<1>11. IsData(d)
  BY <1>2 DEF IsData
<1>12. ChainOK(Push(l, d), low, c2, ix)
  <2>0. HighOf(Push(l, d)) = HighOf(l) /\ CountOf(Push(l, d)) = Cardinality(c2)
    BY <1>1, <1>2, <1>5, <1>7, PushFields
  <2>1. /\ IndexOK(ix) /\ ChainOK(l, low, c, ix)
        /\ IsData(d) /\ d.item \in PairsOf(ix) /\ Inside(l, low, d.item[1])
        /\ Placed(l, d.item, d.index, d.over, ix.unique) /\ d.high = HighOf(l)
    BY <1>2, <1>4, <1>10, <1>11
  <2>2. Decides(d, c, c2, ix)
    BY <1>2, <1>9 DEF Decides
  <2>3. ContentSound(Push(l, d), low, c2, ix)
    BY <2>0, <1>7, <1>10 DEF ContentSound, Inside
  <2> QED
    BY <1>5, <2>1, <2>2, <2>3, PushData
<1> QED
  BY <1>5, <1>12 DEF d, c2

-----------------------------------------------------------------------------
(* Base nodes, splits and merges.                                          *)

\* A delta without an item of its own changes nothing for the keys that go past it.
LEMMA PushPast ==
  ASSUME NEW ix, NEW l \in Chains(ix), NEW d \in Deltas(ix), ~IsData(d), NEW pair, NEW unique,
         BaseFor(Push(l, d), pair[1]) = BaseFor(l, pair[1]),
         Visited(Push(l, d), pair[1]) = {1} \cup Shift(Visited(l, pair[1]))
  PROVE  Holds(Push(l, d), pair, unique) <=> Holds(l, pair, unique)
<1> DEFINE l2 == Push(l, d)
           S  == On(l, pair, unique)
           S2 == On(l2, pair, unique)
<1>1. /\ DOMAIN l2.deltas = {1} \cup Shift(DOMAIN l.deltas) /\ l2.deltas[1] = d
      /\ \A i \in DOMAIN l.deltas : l2.deltas[i + 1] = l.deltas[i]
  BY PushFields
<1>2. /\ BaseFor(l2, pair[1]) = BaseFor(l, pair[1])
      /\ Visited(l2, pair[1]) = {1} \cup Shift(Visited(l, pair[1]))
  OBVIOUS
<1> HIDE DEF l2
<1>3. /\ Visited(l, pair[1]) \in SUBSET DOMAIN l.deltas
      /\ S \in SUBSET Nat
      /\ S # {} => Min(S) \in DOMAIN l.deltas
  BY TurnsType, OnType
<1>4. /\ \A i : i \in S2 <=> /\ i \in Visited(l2, pair[1])
                             /\ IsData(l2.deltas[i]) /\ Matches(l2.deltas[i].item, pair, unique)
      /\ \A i : i \in S <=> /\ i \in Visited(l, pair[1])
                            /\ IsData(l.deltas[i]) /\ Matches(l.deltas[i].item, pair, unique)
  BY DEF On
<1>5. /\ Holds(l2, pair, unique) <=>
           IF S2 # {} THEN l2.deltas[Min(S2)].type = "insert"
           ELSE \E p \in DOMAIN BaseFor(l, pair[1]).items :
                   Matches(BaseFor(l, pair[1]).items[p], pair, unique)
      /\ Holds(l, pair, unique) <=>
           IF S # {} THEN l.deltas[Min(S)].type = "insert"
           ELSE \E p \in DOMAIN BaseFor(l, pair[1]).items :
                   Matches(BaseFor(l, pair[1]).items[p], pair, unique)
  BY <1>2 DEF Holds
<1> HIDE DEF S, S2
<1>6. S2 = Shift(S)
  <2>1. \A j \in Visited(l, pair[1]) : j + 1 \in Visited(l2, pair[1]) /\ l2.deltas[j + 1] = l.deltas[j]
    BY <1>1, <1>2, <1>3 DEF Shift
  <2>2. \A j \in S : j + 1 \in S2
    BY <1>4, <2>1
  <2>3. 1 \notin S2
    BY <1>1, <1>4
  <2>4. \A i \in S2 : \E j \in S : i = j + 1
    BY <1>2, <1>4, <2>1, <2>3 DEF Shift
  <2> QED
    BY <2>2, <2>4 DEF Shift
<1>7. CASE S = {}
  <2>1. S2 = {}
    BY <1>6, <1>7 DEF Shift
  <2> QED
    BY <2>1, <1>7, <1>5 DEF l2
<1>8. CASE S # {}
  <2>1. S2 # {}
    BY <1>6, <1>8 DEF Shift
  <2>2. Min(S2) = Min(S) + 1
    BY <1>3, <1>6, <1>8, MinShift
  <2>3. l2.deltas[Min(S2)] = l.deltas[Min(S)]
    BY <2>2, <1>8, <1>1, <1>3
  <2> QED
    BY <2>1, <2>3, <1>8, <1>5 DEF l2
<1> QED
  BY <1>7, <1>8

LEMMA NoDeltas ==
  ASSUME NEW l, l.deltas = <<>>
  PROVE  /\ HighOf(l) = l.base.high /\ CountOf(l) = Len(l.base.items) /\ DepthOf(l) = 0
         /\ Merges(l) = {}
         /\ \A k : BaseFor(l, k) = l.base
         /\ \A pair, unique :
              Holds(l, pair, unique) <=> \E p \in DOMAIN l.base.items : Matches(l.base.items[p], pair, unique)
<1>1. DOMAIN l.deltas = {}
  OBVIOUS
<1>2. Merges(l) = {} /\ \A k : RightTurns(l, k) = {} /\ Visited(l, k) = {}
  BY <1>1 DEF Merges, RightTurns, Visited
<1>3. \A k : BaseFor(l, k) = l.base
  BY <1>2 DEF BaseFor
<1>4. \A pair, unique : On(l, pair, unique) = {}
  BY <1>2 DEF On
<1>5. \A pair, unique :
        Holds(l, pair, unique) <=> \E p \in DOMAIN l.base.items : Matches(l.base.items[p], pair, unique)
  BY <1>3, <1>4 DEF Holds
<1> QED
  BY <1>2, <1>3, <1>5 DEF HighOf, CountOf, DepthOf

LEMMA ItemsCount ==
  ASSUME NEW S, NEW items \in Seq(S), \A p, q \in DOMAIN items : items[p] = items[q] => p = q,
         NEW c, \A x : x \in c <=> \E p \in DOMAIN items : items[p] = x
  PROVE  IsFiniteSet(c) /\ Cardinality(c) = Len(items)
<1> DEFINE n == Len(items)
           f == [p \in 1 .. n |-> items[p]]
<1>1. DOMAIN items = 1 .. n /\ n \in Nat
  OBVIOUS
<1>2. f \in Bijection(1 .. n, c)
  <2>1. f \in [1 .. n -> c]
    BY <1>1
  <2>2. \A p, q \in 1 .. n : f[p] = f[q] => p = q
    BY <1>1
  <2>3. \A x \in c : \E p \in 1 .. n : f[p] = x
    BY <1>1
  <2> QED
    BY <2>1, <2>2, <2>3 DEF Bijection, Injection, Surjection, IsInjective
<1>3. IsFiniteSet(1 .. n) /\ Cardinality(1 .. n) = n
  <2>1. n \in Int /\ 1 \in Int /\ (1 > n => n = 0) /\ n - 1 + 1 = n
    BY <1>1
  <2> HIDE DEF n
  <2> QED
    BY <2>1, FS_Interval
<1> HIDE DEF f
<1> QED
  BY <1>2, <1>3, FS_Bijection DEF ExistsBijection

\* An ordered list of the pairs of c.
ListOf(items, c, ix) ==
  /\ items \in Seq(PairsOf(ix)) /\ Ordered(items, ix.unique)
  /\ \A x : x \in c <=> \E p \in DOMAIN items : items[p] = x

LEMMA ListCount ==
  ASSUME NEW ix, NEW items, NEW c, ListOf(items, c, ix)
  PROVE  IsFiniteSet(c) /\ Cardinality(c) = Len(items)
<1>1. \A p, q \in DOMAIN items : Matches(items[p], items[q], ix.unique) => p = q
  BY DEF ListOf, Ordered
<1>2. \A p, q \in DOMAIN items : items[p] = items[q] => p = q
  BY <1>1 DEF Matches
<1>3. items \in Seq(PairsOf(ix)) /\ \A x : x \in c <=> \E p \in DOMAIN items : items[p] = x
  BY DEF ListOf
<1> QED
  BY <1>2, <1>3, ItemsCount

LEMMA BaseChain ==
  ASSUME NEW ix, IndexOK(ix), NEW items, NEW c, ListOf(items, c, ix),
         NEW high \in Nat \X Nat, NEW low \in Nat,
         \A p \in DOMAIN items : low <= items[p][1] /\ (high[2] # 0 => items[p][1] < high[1])
  PROVE  LET l == [deltas |-> <<>>, base |-> [items |-> items, high |-> high]] IN
         /\ ChainOK(l, low, c, ix) /\ Merges(l) = {} /\ HighOf(l) = high /\ l.deltas = <<>>
         /\ l.base.items = items
<1> DEFINE l == [deltas |-> <<>>, base |-> [items |-> items, high |-> high]]
           u == ix.unique
<1>0. /\ items \in Seq(PairsOf(ix)) /\ Ordered(items, u)
      /\ \A x : x \in c <=> \E p \in DOMAIN items : items[p] = x
  BY DEF ListOf
<1>1. l.deltas = <<>> /\ l.base.items = items /\ l.base.high = high
  OBVIOUS
<1>2. l \in Chains(ix)
  <2>1. <<>> \in Seq(Deltas(ix)) /\ [items |-> items, high |-> high] \in BaseNodes(ix)
    BY <1>0 DEF BaseNodes
  <2> QED
    BY <2>1 DEF Chains
<1> HIDE DEF l
<1>3. /\ HighOf(l) = high /\ CountOf(l) = Len(items) /\ Merges(l) = {}
      /\ \A pair, unique :
           Holds(l, pair, unique) <=> \E p \in DOMAIN items : Matches(items[p], pair, unique)
  BY <1>1, NoDeltas
<1>4. \A p \in DOMAIN items : items[p] \in PairsOf(ix)
  BY <1>0
<1>5. \A p \in DOMAIN items : Inside(l, low, items[p][1])
  BY <1>3 DEF Inside
<1>6. BaseSound(l, low, u) /\ MergesSound(l, u) /\ DeltasSound(l, low, ix)
  <2>1. DOMAIN l.deltas = {}
    BY <1>1
  <2> QED
    BY <1>0, <1>1, <1>3, <1>5, <2>1 DEF BaseSound, MergesSound, DeltasSound
<1>7. ContentSound(l, low, c, ix)
  <2>1. \A p, q \in DOMAIN items : Matches(items[p], items[q], u) => p = q
    BY <1>0 DEF Ordered
  <2>3. IsFiniteSet(c) /\ Cardinality(c) = Len(items)
    BY ListCount
  <2>4. \A x, y \in c : Matches(x, y, u) => x = y
    BY <1>0, <2>1
  <2>5. c \in SUBSET PairsOf(ix) /\ \A x \in c : Inside(l, low, x[1])
    BY <1>0, <1>4, <1>5
  <2> QED
    BY <2>3, <2>4, <2>5, <1>3 DEF ContentSound
<1>8. KnownExact(l, low, c, ix)
  BY <1>0, <1>3 DEF KnownExact
<1>9. ChainOK(l, low, c, ix)
  BY <1>2, <1>6, <1>7, <1>8 DEF ChainOK
<1> QED
  BY <1>1, <1>3, <1>9 DEF l

LEMMA BaseListed ==
  ASSUME NEW ix, IndexOK(ix), NEW l, NEW low, NEW c, ChainOK(l, low, c, ix), l.deltas = <<>>
  PROVE  /\ ListOf(l.base.items, c, ix) /\ l.base \in BaseNodes(ix)
         /\ \A p \in DOMAIN l.base.items : Inside(l, low, l.base.items[p][1])
<1> DEFINE items == l.base.items
<1>1. /\ l \in Chains(ix) /\ BaseSound(l, low, ix.unique) /\ KnownExact(l, low, c, ix)
      /\ ContentSound(l, low, c, ix)
  BY DEF ChainOK
<1>2. l.base \in BaseNodes(ix) /\ Ordered(items, ix.unique)
      /\ \A p \in DOMAIN items : Inside(l, low, items[p][1])
  BY <1>1, ChainFields DEF BaseSound
<1>3. \A p \in DOMAIN items : items[p] \in PairsOf(ix)
  BY <1>2, BaseFields
<1>4. c \in SUBSET PairsOf(ix) /\ \A x \in c : Inside(l, low, x[1])
  BY <1>1 DEF ContentSound
<1>5. \A pair : Holds(l, pair, FALSE) <=> \E p \in DOMAIN items : Matches(items[p], pair, FALSE)
  BY NoDeltas
<1> HIDE DEF items
<1>6. ASSUME NEW x \in PairsOf(ix), Inside(l, low, x[1])
      PROVE  x \in c <=> \E p \in DOMAIN items : items[p] = x
  <2>1. \A y \in PairsOf(ix) : Matches(y, x, FALSE) <=> y = x
    BY MatchesProperties
  <2>2. Holds(l, x, FALSE) <=> \E y \in c : Matches(y, x, FALSE)
    BY <1>1, <1>6 DEF KnownExact
  <2>3. (\E p \in DOMAIN items : Matches(items[p], x, FALSE)) <=> \E p \in DOMAIN items : items[p] = x
    BY <2>1, <1>3
  <2>4. (\E y \in c : Matches(y, x, FALSE)) <=> x \in c
    BY <2>1, <1>4
  <2> QED
    BY <2>2, <2>3, <2>4, <1>5
<1>7. \A x : x \in c <=> \E p \in DOMAIN items : items[p] = x
  BY <1>2, <1>3, <1>4, <1>6 DEF items
<1>8. items \in Seq(PairsOf(ix))
  BY <1>2, BaseFields DEF items
<1>9. ListOf(items, c, ix)
  BY <1>2, <1>7, <1>8 DEF ListOf, items
<1> QED
  BY <1>2, <1>9 DEF items

\* Where FindSplitPoint() cuts no key has values on both sides, and neither side
\* is so small that it is removed.
LEMMA SplitPoint ==
  ASSUME NEW ix, IndexOK(ix), NEW items \in Seq(PairsOf(ix)), Ordered(items, ix.unique),
         Len(items) >= UpperThreshold, FindSplitPoint(items) # -1
  PROVE  LET at == FindSplitPoint(items) IN
         /\ at \in 1 .. Len(items) - 1 /\ items[at][1] < items[at + 1][1]
         /\ at > LowerThreshold /\ Len(items) - at > LowerThreshold
<1> DEFINE n       == Len(items)
           central == n \div 2
           key     == items[central + 1][1]
           S       == {0} \cup {i \in 1 .. central - 1 : items[i + 1][1] # key}
           left    == Max(S) + 1
           right   == UpperBound(items, key)
           at      == FindSplitPoint(items)
<1>0. n \in Nat /\ DOMAIN items = 1 .. n
  OBVIOUS
<1>1. LowerThreshold \in Nat \ {0} /\ UpperThreshold \in Nat /\ 2 * LowerThreshold <= UpperThreshold
      /\ n >= UpperThreshold
  BY LeafChainAssumption
<1>2. /\ central \in Nat /\ central >= LowerThreshold /\ central >= 1 /\ 2 * central <= n
      /\ central + 1 \in 1 .. n
  <2> HIDE DEF n
  <2> QED
    BY <1>0, <1>1
<1>3. \A p \in 1 .. n : items[p][1] \in Nat
  BY <1>0, PairFields
<1>4. \A p, q \in 1 .. n : p < q => items[p][1] <= items[q][1]
  BY <1>0 DEF Ordered
<1>5. at = IF left > LowerThreshold THEN left
           ELSE IF n - right > LowerThreshold THEN right ELSE -1
  BY DEF FindSplitPoint
<1>6. key \in Nat
  BY <1>2, <1>3
<1> HIDE DEF n, central
<1>7. CASE left > LowerThreshold
  <2>1. S \in SUBSET Nat /\ IsFiniteSet(S) /\ S # {}
    <3>1. S \in SUBSET (0 .. central)
      BY <1>2
    <3>2. IsFiniteSet(0 .. central)
      BY <1>2, FS_Interval
    <3> QED
      BY <3>1, <3>2, <1>2, FS_Subset
  <2>2. Max(S) \in S /\ \A y \in S : Max(S) >= y
    <3> HIDE DEF S
    <3> QED
      BY <2>1, MaxIn
  <2> DEFINE i == Max(S)
  <2>3. i \in Nat /\ i + 1 > LowerThreshold /\ i \in S /\ \A y \in S : i >= y
    BY <2>1, <2>2, <1>7
  <2> HIDE DEF i
  <2>4. i >= 1
    BY <2>3, <1>1
  <2>5. i \in 1 .. central - 1 /\ items[i + 1][1] # key
    BY <2>3, <2>4
  <2>6. items[(i + 1) + 1][1] = key
    <3>1. CASE i = central - 1
      <4>1. (i + 1) + 1 = central + 1
        BY <3>1, <1>2
      <4> QED
        BY <4>1
    <3>2. CASE i # central - 1
      <4>1. i + 1 \in 1 .. central - 1 /\ ~(i >= i + 1)
        BY <3>2, <2>5, <1>2
      <4>2. i + 1 \notin S
        BY <4>1, <2>3
      <4> QED
        BY <4>1, <4>2
    <3> QED
      BY <3>1, <3>2
  <2>7. items[i + 1][1] < key
    <3>1. i + 1 \in 1 .. n /\ central + 1 \in 1 .. n /\ i + 1 < central + 1
      BY <2>5, <1>2, <1>0
    <3>2. items[i + 1][1] <= key /\ items[i + 1][1] \in Nat
      BY <3>1, <1>3, <1>4
    <3> DEFINE a == items[i + 1][1]
    <3>3. a \in Nat /\ a <= key /\ a # key
      BY <3>2, <2>5
    <3> HIDE DEF a, key
    <3>4. a < key
      BY <3>3, <1>6
    <3> QED
      BY <3>4 DEF a
  <2>8. at = i + 1
    BY <1>5, <1>7 DEF i
  <2>9. i + 1 \in 1 .. n - 1 /\ n - (i + 1) > LowerThreshold
    BY <2>5, <2>3, <1>0, <1>1, <1>2
  <2> HIDE DEF at, key
  <2>10. at \in 1 .. n - 1 /\ items[at][1] < items[at + 1][1] /\ at > LowerThreshold /\ n - at > LowerThreshold
    BY <2>3, <2>6, <2>7, <2>8, <2>9
  <2> QED
    BY <2>10 DEF at, n
<1>8. CASE ~(left > LowerThreshold)
  <2>1. at = right /\ n - right > LowerThreshold
    BY <1>5, <1>8 DEF n, at
  <2>2. right \in 0 .. n /\ \A p \in DOMAIN items : p <= right <=> items[p][1] <= key
    <3> HIDE DEF key
    <3> QED
      BY <1>6, UpperBoundIs DEF n
  <2> HIDE DEF right, at
  <2>3. right >= central + 1
    <3> DEFINE p == central + 1
    <3>1. p \in DOMAIN items /\ items[p][1] = key
      BY <1>0, <1>2
    <3>2. items[p][1] <= key
      BY <3>1, <1>6
    <3> HIDE DEF p
    <3>3. p <= right
      BY <3>1, <3>2, <2>2
    <3> QED
      BY <3>3, <2>2, <1>0, <1>2 DEF p
  <2>4. right \in 1 .. n - 1 /\ right \in 1 .. n /\ right + 1 \in 1 .. n /\ ~(right + 1 <= right)
    BY <2>1, <2>2, <2>3, <1>0, <1>1, <1>2
  <2> DEFINE a == items[right][1]
             b == items[right + 1][1]
  <2>5. a \in Nat /\ b \in Nat /\ a <= key /\ ~(b <= key)
    <3>1. a \in Nat /\ b \in Nat
      BY <2>4, <1>3
    <3>2. right <= right
      BY <2>4
    <3> QED
      BY <3>1, <3>2, <2>2, <2>4, <1>0
  <2> HIDE DEF a, b, key
  <2>6. a < b
    BY <2>5, <1>6
  <2>7. right > LowerThreshold
    BY <2>3, <2>4, <1>0, <1>1, <1>2
  <2>8. items[right][1] < items[right + 1][1]
    BY <2>6 DEF a, b
  <2> QED
    BY <2>1, <2>4, <2>7, <2>8 DEF n, at
<1> QED
  BY <1>7, <1>8

\* The two parts of an ordered list that is cut between two keys.
\* Position at of a list cuts it into one and two, and the pairs c, at the given key.
CutAt(items, at, key, one, two) ==
  /\ at \in 1 .. Len(items) - 1 /\ key = items[at + 1][1] /\ items[at][1] < key
  /\ one = SubSeq(items, 1, at) /\ two = SubSeq(items, at + 1, Len(items))
Cut(c, key, c1, c2) ==
  /\ \A x : x \in c1 <=> x \in c /\ x[1] < key
  /\ \A x : x \in c2 <=> x \in c /\ x[1] >= key

LEMMA Halves ==
  ASSUME NEW ix, IndexOK(ix), NEW items, NEW c, ListOf(items, c, ix),
         NEW at, NEW key, NEW one, NEW two, CutAt(items, at, key, one, two),
         NEW c1, NEW c2, Cut(c, key, c1, c2)
  PROVE  /\ ListOf(one, c1, ix) /\ Len(one) = at
         /\ ListOf(two, c2, ix) /\ Len(two) = Len(items) - at /\ two[1][1] = key
         /\ key \in Nat
<1> DEFINE n == Len(items)
<1> USE DEF CutAt
<1>0. /\ items \in Seq(PairsOf(ix)) /\ Ordered(items, ix.unique)
      /\ \A x : x \in c <=> \E p \in DOMAIN items : items[p] = x
  BY DEF ListOf
<1>1. n \in Nat /\ DOMAIN items = 1 .. n /\ at \in 1 .. n /\ at + 1 \in 1 .. n /\ at \in Nat
  BY <1>0
<1>2. \A p \in 1 .. n : items[p][1] \in Nat /\ items[p] \in PairsOf(ix)
  BY <1>0, <1>1, PairFields
<1>3. /\ one \in Seq(PairsOf(ix)) /\ Len(one) = at /\ DOMAIN one = 1 .. at
      /\ \A p \in 1 .. at : one[p] = items[p]
  <2>1. \A p \in 1 .. at : items[p] \in PairsOf(ix)
    BY <1>1, <1>2
  <2>2. /\ one \in Seq(PairsOf(ix)) /\ Len(one) = at
        /\ \A p \in 1 .. at : one[p] = items[p]
    BY <1>0, <1>1, <2>1, SubSeqProperties
  <2> QED
    BY <2>2
<1>4. /\ two \in Seq(PairsOf(ix)) /\ Len(two) = n - at /\ DOMAIN two = 1 .. n - at
      /\ \A p \in 1 .. n - at : two[p] = items[at + p]
  <2>1. \A p \in at + 1 .. n : items[p] \in PairsOf(ix)
    BY <1>1, <1>2
  <2>3. at + 1 \in 1 .. Len(items) /\ n \in (at + 1) .. Len(items)
    BY <1>1
  <2>2. /\ two \in Seq(PairsOf(ix)) /\ Len(two) = n - (at + 1) + 1
        /\ \A p \in 1 .. n - (at + 1) + 1 : two[p] = items[(at + 1) + p - 1]
    BY <1>0, <1>1, <2>1, <2>3, SubSeqProperties
  <2>4. n - (at + 1) + 1 = n - at /\ \A p \in 1 .. n - at : (at + 1) + p - 1 = at + p
    BY <1>1
  <2> HIDE DEF n
  <2> QED
    BY <2>2, <2>4
<1> HIDE DEF n
<1>5. /\ \A p, q \in 1 .. n : p < q => items[p][1] <= items[q][1]
      /\ \A p, q \in 1 .. n : Matches(items[p], items[q], ix.unique) => p = q
  BY <1>0, <1>1 DEF Ordered
<1>6. Ordered(one, ix.unique)
  <2>1. \A p \in 1 .. at : p \in 1 .. n
    BY <1>1
  <2> QED
    BY <2>1, <1>3, <1>5 DEF Ordered
<1>7. Ordered(two, ix.unique)
  <2>1. \A p \in 1 .. n - at : at + p \in 1 .. n
    BY <1>1
  <2>2. \A p, q \in 1 .. n - at : (p < q => at + p < at + q) /\ (at + p = at + q => p = q)
    BY <1>1
  <2>3. \A p, q \in DOMAIN two : p < q => two[p][1] <= two[q][1]
    BY <2>1, <2>2, <1>4, <1>5
  <2>4. \A p, q \in DOMAIN two : Matches(two[p], two[q], ix.unique) => p = q
    BY <2>1, <2>2, <1>4, <1>5
  <2> QED
    BY <2>3, <2>4 DEF Ordered
<1>8. two[1][1] = key /\ key \in Nat
  <2>1. 1 \in 1 .. n - at
    BY <1>1
  <2> QED
    BY <2>1, <1>1, <1>2, <1>4
<1>9. ASSUME NEW p \in 1 .. n
      PROVE  /\ p <= at <=> items[p][1] < key
             /\ p > at <=> items[p][1] >= key
  <2> DEFINE v == items[p][1]
             a == items[at][1]
  <2>1. v \in Nat /\ a \in Nat /\ a < key
    BY <1>1, <1>2
  <2>2. CASE p <= at
    <3>1. v <= a
      <4>1. CASE p = at
        BY <4>1, <2>1
      <4>2. CASE p # at
        <5>1. p < at
          BY <4>2, <2>2, <1>1
        <5> QED
          BY <5>1, <1>1, <1>5
      <4> QED
        BY <4>1, <4>2
    <3> HIDE DEF v, a
    <3>2. v < key /\ ~(v >= key) /\ ~(p > at)
      BY <3>1, <2>1, <2>2, <1>1, <1>8
    <3> QED
      BY <3>2, <2>2 DEF v
  <2>3. CASE ~(p <= at)
    <3>1. key <= v
      <4>1. CASE p = at + 1
        BY <4>1, <2>1
      <4>2. CASE p # at + 1
        <5>1. at + 1 < p
          BY <4>2, <2>3, <1>1
        <5> QED
          BY <5>1, <1>1, <1>5
      <4> QED
        BY <4>1, <4>2
    <3> HIDE DEF v, a
    <3>2. ~(v < key) /\ v >= key /\ p > at
      BY <3>1, <2>1, <2>3, <1>1, <1>8
    <3> QED
      BY <3>2, <2>3 DEF v
  <2> QED
    BY <2>2, <2>3
<1>10. ASSUME NEW x
       PROVE  x \in c1 <=> \E p \in DOMAIN one : one[p] = x
  <2>1. \A p : p \in 1 .. at <=> p \in 1 .. n /\ p <= at
    BY <1>1
  <2>2. x \in c1 <=> x[1] < key /\ \E p \in 1 .. n : items[p] = x
    BY <1>0, <1>1 DEF Cut
  <2>3. x \in c1 <=> \E p \in 1 .. n : items[p] = x /\ items[p][1] < key
    BY <2>2
  <2> QED
    BY <2>1, <2>3, <1>3, <1>9
<1>11. ASSUME NEW x
       PROVE  x \in c2 <=> \E p \in DOMAIN two : two[p] = x
  <2>1. \A p \in 1 .. n - at : at + p \in 1 .. n /\ at + p > at
    BY <1>1
  <2>2. ASSUME NEW p \in 1 .. n, p > at PROVE p - at \in 1 .. n - at /\ at + (p - at) = p
    BY <1>1, <2>2
  <2>6. x \in c2 <=> x[1] >= key /\ \E p \in 1 .. n : items[p] = x
    BY <1>0, <1>1 DEF Cut
  <2>3. x \in c2 <=> \E p \in 1 .. n : items[p] = x /\ items[p][1] >= key
    BY <2>6
  <2>4. ASSUME NEW p \in DOMAIN two, two[p] = x PROVE x \in c2
    BY <2>1, <2>3, <2>4, <1>4, <1>9
  <2>5. ASSUME NEW p \in 1 .. n, items[p] = x, items[p][1] >= key PROVE \E q \in DOMAIN two : two[q] = x
    <3>1. p > at
      BY <2>5, <1>9
    <3> QED
      BY <3>1, <2>2, <2>5, <1>4
  <2> QED
    BY <2>3, <2>4, <2>5
<1> QED
  BY <1>3, <1>4, <1>6, <1>7, <1>8, <1>10, <1>11 DEF ListOf, n

\* The left part of a split leaf keeps its base node under the split delta.
SplitCut(l, c, at, key, new, c1, c2) ==
  /\ at \in 1 .. Len(l.base.items) - 1 /\ key = l.base.items[at + 1][1] /\ l.base.items[at][1] < key
  /\ new = SplitSibling(l.base, at) /\ Cut(c, key, c1, c2)
LEMMA SplitLeft ==
  ASSUME NEW ix, IndexOK(ix), NEW l, NEW low, NEW c, ChainOK(l, low, c, ix), l.deltas = <<>>,
         NEW at, NEW key, NEW new, NEW c1, NEW c2, SplitCut(l, c, at, key, new, c1, c2),
         NEW d, d = LeafSplitNode(l, new, 2), NEW l1, l1 = Push(l, d)
  PROVE  /\ ChainOK(l1, low, c1, ix) /\ Merges(l1) = {}
         /\ HighOf(l1) = <<key, 2>> /\ CountOf(l1) = at /\ l1.base = l.base
<1> DEFINE items == l.base.items
           u     == ix.unique
           one   == SubSeq(items, 1, at)
           two   == SubSeq(items, at + 1, Len(items))
<1> USE DEF SplitCut
<1>1. /\ l \in Chains(ix) /\ BaseSound(l, low, u) /\ ContentSound(l, low, c, ix) /\ low \in Nat
  BY DEF ChainOK
<1>2. ListOf(items, c, ix)
  BY BaseListed
<1>3. ListOf(one, c1, ix) /\ Len(one) = at /\ two[1][1] = key /\ Len(two) = Len(items) - at /\ key \in Nat
  <2>1. CutAt(items, at, key, one, two) /\ Cut(c, key, c1, c2)
    BY DEF CutAt
  <2> HIDE DEF one, two, items
  <2> QED
    BY <1>2, <2>1, Halves
<1>4. IsFiniteSet(c1) /\ Cardinality(c1) = at
  <2> HIDE DEF one
  <2> QED
    BY <1>3, ListCount
<1>5. /\ d.type = "split" /\ d.item = NoItem /\ d.high = <<key, 2>> /\ d.count = at
      /\ d.index = 0 /\ d.over = FALSE /\ d.right = NoBase /\ d.depth = DepthOf(l)
      /\ d = [type |-> d.type, item |-> d.item, index |-> d.index, over |-> d.over,
              right |-> d.right, depth |-> d.depth, count |-> d.count, high |-> d.high]
  <2>1. CountOf(l) = Len(items) /\ Len(items) \in Nat
    BY <1>2, NoDeltas DEF ListOf
  <2>2. new.items = two
    BY DEF SplitSibling
  <2>3. d.count = CountOf(l) - Len(two) /\ d.high = <<two[1][1], 2>>
    BY <2>2 DEF LeafSplitNode
  <2>4. /\ d.type = "split" /\ d.item = NoItem
        /\ d.index = 0 /\ d.over = FALSE /\ d.right = NoBase /\ d.depth = DepthOf(l)
        /\ d = [type |-> d.type, item |-> d.item, index |-> d.index, over |-> d.over,
                right |-> d.right, depth |-> d.depth, count |-> d.count, high |-> d.high]
    BY DEF LeafSplitNode
  <2> HIDE DEF items, two
  <2>5. Len(items) - (Len(items) - at) = at
    BY <2>1
  <2> QED
    BY <1>3, <2>1, <2>3, <2>4, <2>5
<1>6. d \in Deltas(ix)
  <2>1. NoBase \in BaseNodes(ix) /\ DepthOf(l) \in 0 .. MaxDepth
    BY <1>1, NoBaseType, HighType
  <2>2. NoItem \in Nat \X (Values \cup Nat)
    BY DEF NoItem
  <2>5. d.type \in DeltaTypes /\ at \in Nat
    BY <1>5 DEF DeltaTypes
  <2>6. <<key, 2>> \in Nat \X Nat
    BY <1>3
  <2>3. /\ d.type \in DeltaTypes /\ d.item \in Nat \X (Values \cup Nat) /\ d.index \in Nat
        /\ d.over \in BOOLEAN /\ d.right \in BaseNodes(ix) /\ d.depth \in 0 .. MaxDepth
        /\ d.count \in Nat /\ d.high \in Nat \X Nat
    <3>1. d.item = NoItem /\ d.high = <<key, 2>> /\ d.count = at /\ d.index = 0 /\ d.over = FALSE
          /\ d.right = NoBase /\ d.depth = DepthOf(l)
      BY <1>5
    <3>2. 0 \in Nat /\ FALSE \in BOOLEAN
      OBVIOUS
    <3> QED
      BY <3>1, <3>2, <2>1, <2>2, <2>5, <2>6, Zenon
  <2>4. d = [type |-> d.type, item |-> d.item, index |-> d.index, over |-> d.over,
             right |-> d.right, depth |-> d.depth, count |-> d.count, high |-> d.high]
    BY <1>5
  <2> QED
    BY <2>3, <2>4 DEF Deltas
<1>7. ~IsData(d) /\ d.type # "merge"
  BY <1>5 DEF IsData
<1>8. /\ l1 \in Chains(ix) /\ l1.base = l.base /\ l1.deltas # <<>>
      /\ DOMAIN l1.deltas = {1} \cup Shift(DOMAIN l.deltas) /\ l1.deltas[1] = d
      /\ HighOf(l1) = d.high /\ CountOf(l1) = d.count
  BY <1>1, <1>6, PushFields
<1>9. /\ \A k : BaseFor(l1, k) = BaseFor(l, k)
      /\ \A k : Visited(l1, k) = {1} \cup Shift(Visited(l, k))
      /\ Merges(l1) = Shift(Merges(l))
  BY <1>1, <1>6, <1>7, PushTurns
<1>10. Merges(l1) = {} /\ DOMAIN l1.deltas = {1}
  <2>1. Merges(l) = {} /\ DOMAIN l.deltas = {}
    BY NoDeltas
  <2> QED
    BY <2>1, <1>8, <1>9 DEF Shift
<1>11. \A pair, unique : Holds(l1, pair, unique) <=> \E p \in DOMAIN items : Matches(items[p], pair, unique)
  <2>1. \A pair, unique : Holds(l1, pair, unique) <=> Holds(l, pair, unique)
    BY <1>1, <1>6, <1>7, <1>9, PushPast
  <2> QED
    BY <2>1, NoDeltas
<1>12. \A k : Inside(l1, low, k) <=> low <= k /\ k < key
  BY <1>5, <1>8 DEF Inside
<1>13. BaseSound(l1, low, u) /\ MergesSound(l1, u)
  BY <1>1, <1>8, <1>10 DEF BaseSound, MergesSound
<1>14. DeltasSound(l1, low, ix)
  BY <1>7, <1>8, <1>10 DEF DeltasSound
<1>15. ContentSound(l1, low, c1, ix)
  <2>1. /\ c \in SUBSET PairsOf(ix) /\ \A x \in c : Inside(l, low, x[1])
        /\ \A x, y \in c : Matches(x, y, u) => x = y
    BY <1>1 DEF ContentSound
  <2>2. \A x \in c1 : Inside(l1, low, x[1])
    <3>1. \A x \in c1 : low <= x[1] /\ x[1] < key
      BY <2>1 DEF Inside, Cut
    <3> QED
      BY <3>1, <1>12
  <2> QED
    BY <1>4, <1>5, <1>8, <2>1, <2>2 DEF ContentSound, Cut
<1>16. KnownExact(l1, low, c1, ix)
  <2> SUFFICES ASSUME NEW pair \in PairsOf(ix), NEW unique \in {FALSE, ix.unique}, Inside(l1, low, pair[1])
               PROVE  Holds(l1, pair, unique) <=> \E x \in c1 : Matches(x, pair, unique)
    BY DEF KnownExact
  <2>1. pair[1] < key
    BY <1>12
  <2>2. \A x : Matches(x, pair, unique) => x[1] < key
    BY <2>1 DEF Matches
  <2>3. \A x : x \in c <=> \E p \in DOMAIN items : items[p] = x
    BY <1>2 DEF ListOf
  <2> QED
    BY <1>11, <2>2, <2>3 DEF Cut
<1> QED
  BY <1>1, <1>5, <1>8, <1>10, <1>13, <1>14, <1>15, <1>16 DEF ChainOK

LEMMA SplitRight ==
  ASSUME NEW ix, IndexOK(ix), NEW l, NEW low, NEW c, ChainOK(l, low, c, ix),
         l.deltas = <<>>, HighOf(l) = NoHigh,
         NEW at, NEW key, NEW new, NEW c1, NEW c2, SplitCut(l, c, at, key, new, c1, c2),
         NEW l2, l2 = [deltas |-> <<>>, base |-> new]
  PROVE  /\ ChainOK(l2, key, c2, ix) /\ HighOf(l2) = NoHigh /\ l2.deltas = <<>>
         /\ key \in Nat /\ new.items[1][1] = key /\ Len(new.items) = Len(l.base.items) - at
<1> DEFINE items == l.base.items
           one   == SubSeq(items, 1, at)
           two   == SubSeq(items, at + 1, Len(items))
<1> USE DEF SplitCut
<1>1. ListOf(items, c, ix) /\ l.base.high = NoHigh
  BY BaseListed, NoDeltas
<1>2. ListOf(two, c2, ix) /\ two[1][1] = key /\ Len(two) = Len(items) - at /\ key \in Nat
  <2>1. CutAt(items, at, key, one, two) /\ Cut(c, key, c1, c2)
    BY DEF CutAt
  <2> HIDE DEF one, two, items
  <2> QED
    BY <1>1, <2>1, Halves
<1>3. new = [items |-> two, high |-> NoHigh]
  BY <1>1 DEF SplitSibling
<1>4. NoHigh \in Nat \X Nat /\ NoHigh[2] = 0
  BY DEF NoHigh
<1> HIDE DEF two
<1>5. \A p \in DOMAIN two : key <= two[p][1]
  <2>1. \A p \in DOMAIN two : two[p] \in c2 /\ two[p] \in PairsOf(ix)
    BY <1>2 DEF ListOf
  <2>4. \A p \in DOMAIN two : two[p][1] >= key
    BY <2>1 DEF Cut
  <2>2. \A p \in DOMAIN two : two[p][1] >= key /\ two[p][1] \in Nat
    BY <2>1, <2>4, PairFields
  <2>3. \A v \in Nat : v >= key => key <= v
    BY <1>2
  <2> QED
    BY <2>2, <2>3
<1> DEFINE l3 == [deltas |-> <<>>, base |-> [items |-> two, high |-> NoHigh]]
<1>6. l2 = l3
  BY <1>3
<1>8. \A p \in DOMAIN two : key <= two[p][1] /\ (NoHigh[2] # 0 => two[p][1] < NoHigh[1])
  BY <1>4, <1>5
<1>7. ChainOK(l2, key, c2, ix) /\ HighOf(l2) = NoHigh /\ l2.deltas = <<>>
  <2>1. ChainOK(l3, key, c2, ix) /\ HighOf(l3) = NoHigh /\ l3.deltas = <<>>
    BY <1>2, <1>4, <1>8, BaseChain, SMTT(60)
  <2> HIDE DEF l3
  <2> QED
    BY <2>1, <1>6
<1> QED
  BY <1>2, <1>3, <1>7

\* A merge delta: the keys from the merge key on are those of the right branch.
LEMMA MergeWalks ==
  ASSUME NEW ix, IndexOK(ix), NEW l \in Chains(ix), Merges(l) = {},
         NEW d \in Deltas(ix), d.type = "merge", NEW l2, l2 = Push(l, d)
  PROVE  /\ Merges(l2) = {1}
         /\ \A k : k >= d.item[1] =>
              BaseFor(l2, k) = d.right /\ \A pair, unique : pair[1] = k => On(l2, pair, unique) = {}
         /\ \A k : ~(k >= d.item[1]) =>
              BaseFor(l2, k) = BaseFor(l, k) /\ Visited(l2, k) = {1} \cup Shift(Visited(l, k))
<1>1. /\ DOMAIN l2.deltas = {1} \cup Shift(DOMAIN l.deltas) /\ l2.deltas[1] = d
      /\ \A i \in DOMAIN l.deltas : l2.deltas[i + 1] = l.deltas[i]
      /\ l2.base = l.base /\ l2 \in Chains(ix)
  BY PushFields
<1>2. DOMAIN l2.deltas \in SUBSET (Nat \ {0})
  BY <1>1, ChainFields
<1>3. \A i \in DOMAIN l2.deltas : l2.deltas[i].type = "merge" <=> i = 1
  <2>1. \A i \in DOMAIN l.deltas : l.deltas[i].type # "merge"
    BY DEF Merges
  <2>2. \A i \in DOMAIN l2.deltas : i # 1 => \E j \in DOMAIN l.deltas : l2.deltas[i] = l.deltas[j]
    BY <1>1 DEF Shift
  <2> QED
    BY <2>1, <2>2, <1>1
<1>4. Merges(l2) = {1}
  BY <1>1, <1>3 DEF Merges
<1>5. ASSUME NEW k, k >= d.item[1]
      PROVE  BaseFor(l2, k) = d.right /\ \A pair, unique : pair[1] = k => On(l2, pair, unique) = {}
  <2>1. RightTurns(l2, k) = {1}
    BY <1>1, <1>3, <1>5 DEF RightTurns
  <2>2. Min({1}) = 1
    BY MinIs
  <2>3. Visited(l2, k) = {1}
    <3>1. \A i \in Nat \ {0} : i <= 1 <=> i = 1
      OBVIOUS
    <3> QED
      BY <2>1, <3>1, <1>1, <1>2 DEF Visited
  <2>4. BaseFor(l2, k) = d.right
    BY <2>1, <2>2, <1>1 DEF BaseFor
  <2>5. ~IsData(l2.deltas[1])
    BY <1>1 DEF IsData
  <2> QED
    BY <2>3, <2>4, <2>5 DEF On
<1>6. ASSUME NEW k, ~(k >= d.item[1])
      PROVE  BaseFor(l2, k) = BaseFor(l, k) /\ Visited(l2, k) = {1} \cup Shift(Visited(l, k))
  <2>1. RightTurns(l2, k) = {} /\ RightTurns(l, k) = {}
    <3>1. RightTurns(l2, k) \in SUBSET {1}
      BY <1>3 DEF RightTurns
    <3>2. 1 \notin RightTurns(l2, k)
      BY <1>1, <1>6 DEF RightTurns
    <3>3. RightTurns(l, k) \in SUBSET Merges(l)
      BY TurnsType
    <3> QED
      BY <3>1, <3>2, <3>3
  <2>2. Visited(l2, k) = DOMAIN l2.deltas /\ Visited(l, k) = DOMAIN l.deltas
    BY <2>1 DEF Visited
  <2> QED
    BY <2>1, <2>2, <1>1 DEF BaseFor
<1> QED
  BY <1>4, <1>5, <1>6

LEMMA MergeHigh ==
  ASSUME NEW ix, IndexOK(ix), NEW l \in Chains(ix),
         NEW d \in Deltas(ix), NEW l2, l2 = Push(l, d), Merges(l2) = {1}
  PROVE  LeftmostHigh(l2) = HighOf(l)
<1>1. /\ \A i \in DOMAIN l.deltas : l2.deltas[i + 1] = l.deltas[i]
      /\ Len(l2.deltas) = Len(l.deltas) + 1 /\ l2.base = l.base
  BY PushFields
<1>2. /\ l.deltas \in Seq(Deltas(ix)) /\ Len(l.deltas) \in Nat /\ DOMAIN l.deltas = 1 .. Len(l.deltas)
  BY ChainFields
<1>3. Max({1}) = 1 /\ {1} # {}
  BY MaxIs
<1>4. CASE l.deltas = <<>>
  <2>1. Len(l2.deltas) = 1
    BY <1>1, <1>4
  <2> QED
    BY <2>1, <1>1, <1>3, <1>4 DEF LeftmostHigh, HighOf
<1>5. CASE l.deltas # <<>>
  <2>1. 1 \in DOMAIN l.deltas /\ Len(l2.deltas) # 1 /\ Head(l.deltas) = l.deltas[1]
    <3>1. Len(l.deltas) # 0
      BY <1>2, <1>5, EmptySeq
    <3>2. Head(l.deltas) = l.deltas[1]
      BY <1>2, <1>5, HeadTailProperties
    <3> QED
      BY <3>1, <3>2, <1>1, <1>2
  <2>2. l2.deltas[1 + 1] = l.deltas[1]
    BY <2>1, <1>1
  <2>3. LeftmostHigh(l2) = l2.deltas[1 + 1].high
    BY <2>1, <1>3 DEF LeftmostHigh
  <2>4. HighOf(l) = Head(l.deltas).high
    BY <1>5 DEF HighOf
  <2> QED
    BY <2>1, <2>2, <2>3, <2>4
<1> QED
  BY <1>4, <1>5

MergesAt(l, low, key, r) ==
  /\ Merges(l) = {} /\ HighOf(l)[1] = key /\ HighOf(l)[2] # 0 /\ low <= key
  /\ r.deltas = <<>> /\ HighOf(r) = NoHigh
LEMMA MergeChain ==
  ASSUME NEW ix, IndexOK(ix), NEW l, NEW low, NEW c, ChainOK(l, low, c, ix),
         NEW key, NEW r, NEW c2, ChainOK(r, key, c2, ix), MergesAt(l, low, key, r),
         NEW d, d = LeafMergeNode(l, r.base), NEW l2, l2 = Push(l, d)
  PROVE  ChainOK(l2, low, c \cup c2, ix) /\ HighOf(l2) = NoHigh
<1> DEFINE c3    == c \cup c2
           items == r.base.items
           u     == ix.unique
<1>0. /\ Merges(l) = {} /\ HighOf(l)[1] = key /\ HighOf(l)[2] # 0 /\ low <= key
      /\ r.deltas = <<>> /\ HighOf(r) = NoHigh
  BY DEF MergesAt
<1> USE <1>0
<1>1. /\ l \in Chains(ix) /\ BaseSound(l, low, u) /\ ContentSound(l, low, c, ix) /\ low \in Nat
      /\ KnownExact(l, low, c, ix) /\ DeltasSound(l, low, ix)
  BY DEF ChainOK
<1>2. /\ ListOf(items, c2, ix) /\ r.base \in BaseNodes(ix) /\ r.base.high = NoHigh
      /\ \A p \in DOMAIN items : Inside(r, key, items[p][1])
  BY BaseListed, NoDeltas
<1>3. /\ key \in Nat /\ HighOf(l) \in Nat \X Nat /\ CountOf(l) \in Nat /\ DepthOf(l) \in 0 .. MaxDepth
  BY <1>1, HighType
<1>4. /\ d.type = "merge" /\ d.item = HighOf(l) /\ d.right = r.base /\ d.high = NoHigh
      /\ d.count = CountOf(l) + Len(items)
      /\ d.index = 0 /\ d.over = FALSE /\ d.depth = DepthOf(l)
      /\ d = [type |-> d.type, item |-> d.item, index |-> d.index, over |-> d.over,
              right |-> d.right, depth |-> d.depth, count |-> d.count, high |-> d.high]
  BY <1>2 DEF LeafMergeNode, MergedCount
<1>5. d \in Deltas(ix)
  <2>1. /\ d.type \in DeltaTypes /\ NoHigh \in Nat \X Nat
    BY <1>4 DEF DeltaTypes, NoHigh
  <2>2. CountOf(l) + Len(items) \in Nat
    <3>1. Len(items) \in Nat
      BY <1>2, BaseFields
    <3> QED
      BY <3>1, <1>3
  <2>3. HighOf(l) \in Nat \X (Values \cup Nat)
    BY <1>3
  <2>4. /\ d.type \in DeltaTypes /\ d.item \in Nat \X (Values \cup Nat) /\ d.index \in Nat
        /\ d.over \in BOOLEAN /\ d.right \in BaseNodes(ix) /\ d.depth \in 0 .. MaxDepth
        /\ d.count \in Nat /\ d.high \in Nat \X Nat
    <3>1. 0 \in Nat /\ FALSE \in BOOLEAN
      OBVIOUS
    <3> QED
      BY <3>1, <2>1, <2>2, <2>3, <1>2, <1>3, <1>4, Zenon
  <2>5. d = [type |-> d.type, item |-> d.item, index |-> d.index, over |-> d.over,
             right |-> d.right, depth |-> d.depth, count |-> d.count, high |-> d.high]
    BY <1>4
  <2> QED
    BY <2>4, <2>5 DEF Deltas
<1>6. /\ l2 \in Chains(ix) /\ l2.base = l.base /\ l2.deltas # <<>>
      /\ DOMAIN l2.deltas = {1} \cup Shift(DOMAIN l.deltas) /\ l2.deltas[1] = d
      /\ \A i \in DOMAIN l.deltas : l2.deltas[i + 1] = l.deltas[i]
      /\ HighOf(l2) = NoHigh /\ CountOf(l2) = d.count
  BY <1>1, <1>4, <1>5, PushFields
<1>7. /\ Merges(l2) = {1}
      /\ \A k : k >= key =>
           BaseFor(l2, k) = r.base /\ \A pair, unique : pair[1] = k => On(l2, pair, unique) = {}
      /\ \A k : ~(k >= key) =>
           BaseFor(l2, k) = BaseFor(l, k) /\ Visited(l2, k) = {1} \cup Shift(Visited(l, k))
  BY <1>1, <1>4, <1>5, MergeWalks
<1>8. LeftmostHigh(l2) = HighOf(l)
  BY <1>1, <1>5, <1>7, MergeHigh
<1>9. /\ \A k : Inside(l2, low, k) <=> low <= k
      /\ \A k : Inside(r, key, k) <=> key <= k
      /\ \A k : Inside(l, low, k) <=> low <= k /\ k < key
  BY <1>6 DEF Inside, NoHigh
<1>10. \A i \in DOMAIN l.deltas : IsData(l.deltas[i]) =>
         /\ l.deltas[i].item \in PairsOf(ix) /\ l.deltas[i].item[1] \in Nat
         /\ low <= l.deltas[i].item[1] /\ l.deltas[i].item[1] < key
         /\ Placed(l, l.deltas[i].item, l.deltas[i].index, l.deltas[i].over, u)
  BY <1>1, <1>9, PairFields DEF DeltasSound
<1>11. \A i \in DOMAIN l2.deltas : IsData(l2.deltas[i]) =>
         \E j \in DOMAIN l.deltas : i = j + 1 /\ l2.deltas[i] = l.deltas[j]
  <2>1. ~IsData(d)
    BY <1>4 DEF IsData
  <2> QED
    BY <2>1, <1>6 DEF Shift
<1>12. DeltasSound(l2, low, ix)
  <2> SUFFICES ASSUME NEW i \in DOMAIN l2.deltas, IsData(l2.deltas[i])
               PROVE  LET e == l2.deltas[i] IN
                      /\ e.item \in PairsOf(ix) /\ Inside(l2, low, e.item[1])
                      /\ Placed(l2, e.item, e.index, e.over, ix.unique)
    BY DEF DeltasSound
  <2>1. PICK j \in DOMAIN l.deltas : l2.deltas[i] = l.deltas[j]
    BY <1>11
  <2> DEFINE e == l.deltas[j]
  <2>2. /\ e.item \in PairsOf(ix) /\ e.item[1] \in Nat /\ low <= e.item[1] /\ e.item[1] < key
        /\ Placed(l, e.item, e.index, e.over, u)
    BY <2>1, <1>10
  <2> HIDE DEF e
  <2>3. ~(e.item[1] >= key)
    BY <2>2, <1>3
  <2>4. Placed(l2, e.item, e.index, e.over, u)
    BY <2>2, <2>3, <1>7 DEF Placed
  <2> QED
    BY <2>1, <2>2, <2>4, <1>9 DEF e
<1>13. MergesSound(l2, u)
  <2>1. Ordered(items, u)
    BY <1>2 DEF ListOf
  <2>2. \A p \in DOMAIN items : items[p][1] >= key
    <3>1. \A p \in DOMAIN items : items[p][1] \in Nat /\ key <= items[p][1]
      BY <1>2, <1>9, BaseFields
    <3> HIDE DEF items
    <3>2. \A v \in Nat : key <= v => v >= key
      BY <1>3
    <3> QED
      BY <3>1, <3>2
  <2>3. \A i \in DOMAIN l2.deltas : i > 1 /\ IsData(l2.deltas[i]) => l2.deltas[i].item[1] < key
    BY <1>10, <1>11
  <2>4. \A j \in Merges(l2) : j = 1
    BY <1>7
  <2>5. /\ Ordered(d.right.items, u) /\ d.right.high = NoHigh
        /\ \A p \in DOMAIN d.right.items : d.right.items[p][1] >= d.item[1]
        /\ LeftmostHigh(l2) = d.item /\ d.item[2] # 0
        /\ HighOf(l2) = NoHigh
        /\ \A i \in DOMAIN l2.deltas : i > 1 /\ IsData(l2.deltas[i]) => l2.deltas[i].item[1] < d.item[1]
    BY <2>1, <2>2, <2>3, <1>2, <1>4, <1>6, <1>8
  <2> QED
    BY <2>4, <2>5, <1>6 DEF MergesSound
<1>14. BaseSound(l2, low, u)
  BY <1>1, <1>4, <1>6, <1>7 DEF BaseSound
<1>15. /\ c \in SUBSET PairsOf(ix) /\ IsFiniteSet(c) /\ CountOf(l) = Cardinality(c)
       /\ \A x, y \in c : Matches(x, y, u) => x = y
       /\ \A x \in c : low <= x[1] /\ x[1] < key /\ x[1] \in Nat
  BY <1>1, <1>9, PairFields DEF ContentSound
<1>16. /\ c2 \in SUBSET PairsOf(ix) /\ IsFiniteSet(c2) /\ Len(items) = Cardinality(c2)
       /\ \A x, y \in c2 : Matches(x, y, u) => x = y
       /\ \A x \in c2 : x[1] >= key /\ low <= x[1] /\ x[1] \in Nat
  <2>1. ContentSound(r, key, c2, ix)
    BY DEF ChainOK
  <2>2. /\ c2 \in SUBSET PairsOf(ix)
        /\ \A x, y \in c2 : Matches(x, y, u) => x = y
        /\ \A x \in c2 : Inside(r, key, x[1])
    BY <2>1 DEF ContentSound
  <2>3. IsFiniteSet(c2) /\ Cardinality(c2) = Len(items)
    BY <1>2, ListCount
  <2>4. \A x \in c2 : key <= x[1] /\ x[1] \in Nat
    BY <2>2, <1>9, PairFields
  <2>5. \A v \in Nat : key <= v => v >= key /\ low <= v
    BY <1>1, <1>3
  <2> QED
    BY <2>2, <2>3, <2>4, <2>5
<1>17. ContentSound(l2, low, c3, ix)
  <2>1. IsFiniteSet(c3) /\ Cardinality(c3) = CountOf(l2)
    <3>1. c \cap c2 = {}
      <4>1. \A v \in Nat : ~(v < key /\ v >= key)
        BY <1>3
      <4> QED
        BY <4>1, <1>15, <1>16
    <3>2. IsFiniteSet(c3) /\ Cardinality(c3) = Cardinality(c) + Cardinality(c2) - 0
      BY <3>1, <1>15, <1>16, FS_Union, FS_EmptySet
    <3>3. Cardinality(c) + Cardinality(c2) - 0 = Cardinality(c) + Cardinality(c2)
      BY <1>15, <1>16, FS_CardinalityType
    <3> QED
      BY <3>2, <3>3, <1>4, <1>6, <1>15, <1>16
  <2>2. ASSUME NEW x \in c3, NEW y \in c3, Matches(x, y, u) PROVE x = y
    <3>1. x[1] = y[1]
      BY <2>2 DEF Matches
    <3>2. \A v \in Nat : ~(v < key /\ v >= key)
      BY <1>3
    <3>3. (x \in c /\ y \in c) \/ (x \in c2 /\ y \in c2)
      BY <3>1, <3>2, <1>15, <1>16
    <3> QED
      BY <3>3, <2>2, <1>15, <1>16
  <2>3. c3 \in SUBSET PairsOf(ix) /\ \A x \in c3 : Inside(l2, low, x[1])
    BY <1>9, <1>15, <1>16
  <2> QED
    BY <2>1, <2>2, <2>3 DEF ContentSound
<1>18. KnownExact(l2, low, c3, ix)
  <2> SUFFICES ASSUME NEW pair \in PairsOf(ix), NEW unique \in {FALSE, ix.unique}, Inside(l2, low, pair[1])
               PROVE  Holds(l2, pair, unique) <=> \E x \in c3 : Matches(x, pair, unique)
    BY DEF KnownExact
  <2> DEFINE k == pair[1]
  <2>0. k \in Nat /\ low <= k
    BY <1>9, PairFields
  <2>1. CASE k >= key
    <3>1. key <= k /\ ~(k < key)
      BY <2>0, <2>1, <1>3
    <3>2. On(l2, pair, unique) = {} /\ BaseFor(l2, k) = r.base
      BY <2>1, <1>7
    <3>3. Holds(l2, pair, unique) <=> \E p \in DOMAIN items : Matches(items[p], pair, unique)
      BY <3>2 DEF Holds
    <3>4. \A x : x \in c2 <=> \E p \in DOMAIN items : items[p] = x
      BY <1>2 DEF ListOf
    <3>5. \A x \in c : ~Matches(x, pair, unique)
      BY <3>1, <1>15 DEF Matches
    <3> QED
      BY <3>3, <3>4, <3>5
  <2>2. CASE ~(k >= key)
    <3>1. k < key
      BY <2>0, <2>2, <1>3
    <3>2. Holds(l2, pair, unique) <=> Holds(l, pair, unique)
      <4>1. /\ BaseFor(l2, pair[1]) = BaseFor(l, pair[1]) /\ ~IsData(d)
            /\ Visited(l2, pair[1]) = {1} \cup Shift(Visited(l, pair[1]))
        BY <2>2, <1>4, <1>7 DEF IsData
      <4> HIDE DEF k
      <4> QED
        BY <4>1, <1>1, <1>5, PushPast
    <3>3. Holds(l, pair, unique) <=> \E x \in c : Matches(x, pair, unique)
      BY <3>1, <2>0, <1>1, <1>9 DEF KnownExact
    <3>4. \A x \in c2 : ~Matches(x, pair, unique)
      BY <2>2, <1>16 DEF Matches
    <3> QED
      BY <3>2, <3>3, <3>4
  <2> QED
    BY <2>1, <2>2
<1> QED
  BY <1>1, <1>6, <1>12, <1>13, <1>14, <1>17, <1>18 DEF ChainOK

-----------------------------------------------------------------------------
(* The order of the entries that a consolidation collects.                 *)

Place == [1 .. 5 -> Nat]

LEMMA PrecedesOnce ==
  ASSUME NEW x \in Place
  PROVE  ~Precedes(x, x)
<1>1. \A i \in 1 .. 5 : x[i] \in Nat /\ ~(x[i] < x[i])
  BY DEF Place
<1>2. DOMAIN x = 1 .. 5
  BY DEF Place
<1> QED
  BY <1>1, <1>2 DEF Precedes

LEMMA PrecedesFurther ==
  ASSUME NEW x \in Place, NEW y \in Place, NEW z \in Place, Precedes(x, y), Precedes(y, z)
  PROVE  Precedes(x, z)
<1>0. /\ DOMAIN x = 1 .. 5 /\ DOMAIN y = 1 .. 5
      /\ \A i \in 1 .. 5 : x[i] \in Nat /\ y[i] \in Nat /\ z[i] \in Nat
  BY DEF Place
<1>1. PICK i \in 1 .. 5 : x[i] < y[i] /\ \A j \in 1 .. i - 1 : x[j] = y[j]
  BY <1>0 DEF Precedes
<1>2. PICK k \in 1 .. 5 : y[k] < z[k] /\ \A j \in 1 .. k - 1 : y[j] = z[j]
  BY <1>0 DEF Precedes
<1>3. CASE i < k
  <2>1. i \in 1 .. k - 1
    BY <1>3
  <2>2. x[i] < z[i]
    BY <2>1, <1>1, <1>2
  <2>3. \A j \in 1 .. i - 1 : j \in 1 .. k - 1
    BY <2>1
  <2>4. \A j \in 1 .. i - 1 : x[j] = z[j]
    BY <2>3, <1>1, <1>2
  <2> QED
    BY <2>2, <2>4, <1>0 DEF Precedes
<1>4. CASE i = k
  <2>1. x[i] < z[i]
    <3> DEFINE a == x[i]
               b == y[i]
               d == z[i]
    <3>1. a \in Nat /\ b \in Nat /\ d \in Nat /\ a < b /\ b < d
      BY <1>0, <1>1, <1>2, <1>4
    <3> HIDE DEF a, b, d
    <3>2. a < d
      BY <3>1
    <3> QED
      BY <3>2 DEF a, d
  <2>2. \A j \in 1 .. i - 1 : x[j] = z[j]
    BY <1>1, <1>2, <1>4
  <2> QED
    BY <2>1, <2>2, <1>0 DEF Precedes
<1>5. CASE k < i
  <2>1. k \in 1 .. i - 1
    BY <1>5
  <2>2. x[k] < z[k]
    BY <2>1, <1>1, <1>2
  <2>3. \A j \in 1 .. k - 1 : j \in 1 .. i - 1
    BY <2>1
  <2>4. \A j \in 1 .. k - 1 : x[j] = z[j]
    BY <2>3, <1>1, <1>2
  <2> QED
    BY <2>2, <2>4, <1>0 DEF Precedes
<1> QED
  BY <1>3, <1>4, <1>5

LEMMA PrecedesTotal ==
  ASSUME NEW x \in Place, NEW y \in Place, x # y
  PROVE  Precedes(x, y) \/ Precedes(y, x)
<1> DEFINE D == {i \in 1 .. 5 : x[i] # y[i]}
<1>0. /\ DOMAIN x = 1 .. 5 /\ DOMAIN y = 1 .. 5
      /\ \A i \in 1 .. 5 : x[i] \in Nat /\ y[i] \in Nat
  BY DEF Place
<1>1. D # {} /\ D \in SUBSET Nat
  BY DEF Place
<1>2. PICK i \in D : \A j \in D : i <= j
  BY <1>1, NatMin
<1>3. i \in 1 .. 5 /\ x[i] # y[i]
  OBVIOUS
<1>4. \A j \in 1 .. i - 1 : j \in 1 .. 5 /\ ~(i <= j)
  BY <1>3
<1>5. \A j \in 1 .. i - 1 : x[j] = y[j]
  BY <1>2, <1>4
<1>6. x[i] < y[i] \/ y[i] < x[i]
  <2> DEFINE a == x[i]
             b == y[i]
  <2>1. a \in Nat /\ b \in Nat /\ a # b
    BY <1>0, <1>3
  <2> HIDE DEF a, b
  <2>2. a < b \/ b < a
    BY <2>1
  <2> QED
    BY <2>2 DEF a, b
<1> QED
  BY <1>0, <1>3, <1>5, <1>6 DEF Precedes

\* Entries with a place of their own, and those before one of them.
Entered(entries) ==
  /\ IsFiniteSet(entries)
  /\ \A e \in entries : e.at \in Place
  /\ \A e, f \in entries : e.at = f.at => e = f
Earlier(entries, e) == {f \in entries : Precedes(f.at, e.at)}

LEMMA RankGrows ==
  ASSUME NEW entries, Entered(entries), NEW e \in entries, NEW f \in entries, Precedes(e.at, f.at)
  PROVE  Rank(entries, e) < Rank(entries, f)
<1> DEFINE A == Earlier(entries, e)
           B == Earlier(entries, f)
<1>0. \A g \in entries : g.at \in Place
  BY DEF Entered
<1>1. A \in SUBSET B /\ e \in B /\ e \notin A
  <2>1. \A g \in A : g \in entries /\ Precedes(g.at, f.at)
    BY <1>0, PrecedesFurther DEF Earlier
  <2>2. ~Precedes(e.at, e.at)
    BY <1>0, PrecedesOnce
  <2> QED
    BY <2>1, <2>2 DEF Earlier
<1>2. IsFiniteSet(B)
  <2>1. B \in SUBSET entries
    BY DEF Earlier
  <2> QED
    BY <2>1, FS_Subset DEF Entered
<1>3. Rank(entries, e) = Cardinality(A) /\ Rank(entries, f) = Cardinality(B)
  BY DEF Rank, Earlier
<1> HIDE DEF A, B
<1>4. /\ IsFiniteSet(A) /\ Cardinality(A) <= Cardinality(B)
      /\ Cardinality(A) # Cardinality(B)
  BY <1>1, <1>2, FS_Subset
<1>5. Cardinality(A) \in Nat /\ Cardinality(B) \in Nat
  BY <1>2, <1>4, FS_CardinalityType
<1> QED
  BY <1>3, <1>4, <1>5

LEMMA RankIn ==
  ASSUME NEW entries, Entered(entries), NEW e \in entries
  PROVE  Rank(entries, e) \in 0 .. Cardinality(entries) - 1
<1> DEFINE A == Earlier(entries, e)
<1>1. A \in SUBSET entries /\ e \notin A
  <2>1. ~Precedes(e.at, e.at)
    BY PrecedesOnce DEF Entered
  <2> QED
    BY <2>1 DEF Earlier
<1>2. Rank(entries, e) = Cardinality(A)
  BY DEF Rank, Earlier
<1> HIDE DEF A
<1>3. IsFiniteSet(entries)
  BY DEF Entered
<1>4. /\ IsFiniteSet(A) /\ Cardinality(A) <= Cardinality(entries)
      /\ Cardinality(A) # Cardinality(entries)
  BY <1>1, <1>3, FS_Subset
<1>5. Cardinality(A) \in Nat /\ Cardinality(entries) \in Nat
  BY <1>3, <1>4, FS_CardinalityType
<1> QED
  BY <1>2, <1>4, <1>5

\* The entry that comes p-th, from 1.
EntryAt(entries, p) == CHOOSE e \in entries : Rank(entries, e) = p - 1

LEMMA EntriesInOrder ==
  ASSUME NEW entries, Entered(entries)
  PROVE  /\ \A p \in 1 .. Cardinality(entries) : EntryAt(entries, p) \in entries
         /\ \A e \in entries : \E p \in 1 .. Cardinality(entries) : EntryAt(entries, p) = e
         /\ \A p, q \in 1 .. Cardinality(entries) :
              p < q => Precedes(EntryAt(entries, p).at, EntryAt(entries, q).at)
<1> DEFINE n == Cardinality(entries)
           I == 0 .. n - 1
           r == [e \in entries |-> Rank(entries, e)]
<1>1. IsFiniteSet(entries) /\ n \in Nat
  BY FS_CardinalityType DEF Entered
<1>2. \A e \in entries : Rank(entries, e) \in I
  BY RankIn
<1>3. \A e, f \in entries : e # f => Rank(entries, e) < Rank(entries, f) \/ Rank(entries, f) < Rank(entries, e)
  <2>1. \A e, f \in entries : e # f => e.at \in Place /\ f.at \in Place /\ e.at # f.at
    BY DEF Entered
  <2>2. \A e, f \in entries : e # f => Precedes(e.at, f.at) \/ Precedes(f.at, e.at)
    BY <2>1, PrecedesTotal
  <2> QED
    BY <2>2, RankGrows
<1>4. \A e, f \in entries : Rank(entries, e) = Rank(entries, f) => e = f
  <2>1. \A i \in I : ~(i < i)
    BY <1>1
  <2> QED
    BY <2>1, <1>2, <1>3
<1>5. IsFiniteSet(I) /\ Cardinality(I) = n
  <2> HIDE DEF n
  <2>1. 0 \in Int /\ n - 1 \in Int
    BY <1>1
  <2>2. IsFiniteSet(I) /\ Cardinality(I) = IF 0 > n - 1 THEN 0 ELSE (n - 1) - 0 + 1
    BY <2>1, FS_Interval
  <2> QED
    BY <2>2, <1>1
<1>6. r \in Injection(entries, I)
  <2>1. r \in [entries -> I]
    BY <1>2
  <2>2. \A e, f \in entries : r[e] = r[f] => e = f
    BY <1>4
  <2> HIDE DEF r, I
  <2> QED
    BY <2>1, <2>2 DEF Injection, IsInjective
<1>7. r \in Surjection(entries, I)
  <2> HIDE DEF r, I
  <2> QED
    BY <1>1, <1>5, <1>6, FS_Injection
<1>8. \A i \in I : \E e \in entries : Rank(entries, e) = i
  BY <1>7 DEF Surjection
<1>9. \A p \in 1 .. n : EntryAt(entries, p) \in entries /\ Rank(entries, EntryAt(entries, p)) = p - 1
  <2>1. \A p \in 1 .. n : p - 1 \in I
    BY <1>1
  <2>2. \A p \in 1 .. n : \E e \in entries : Rank(entries, e) = p - 1
    BY <2>1, <1>8
  <2> HIDE DEF n
  <2> QED
    BY <2>2 DEF EntryAt
<1>10. ASSUME NEW e \in entries PROVE \E p \in 1 .. n : EntryAt(entries, p) = e
  <2> DEFINE p == Rank(entries, e) + 1
  <2>1. p \in 1 .. n /\ p - 1 = Rank(entries, e)
    <3> HIDE DEF n
    <3> QED
      BY <1>1, <1>2
  <2> HIDE DEF p, n
  <2>2. EntryAt(entries, p) = e
    BY <2>1, <1>4, <1>9
  <2> QED
    BY <2>1, <2>2
<1>11. ASSUME NEW p \in 1 .. n, NEW q \in 1 .. n, p < q
       PROVE  Precedes(EntryAt(entries, p).at, EntryAt(entries, q).at)
  <2> DEFINE e == EntryAt(entries, p)
             f == EntryAt(entries, q)
  <2>1. e \in entries /\ f \in entries /\ Rank(entries, e) = p - 1 /\ Rank(entries, f) = q - 1
    BY <1>9
  <2> HIDE DEF e, f
  <2>2. p - 1 # q - 1 /\ ~(q - 1 < p - 1)
    BY <1>1, <1>11
  <2>3. e # f /\ e.at # f.at
    BY <2>1, <2>2 DEF Entered
  <2>4. ~Precedes(f.at, e.at)
    BY <2>1, <2>2, RankGrows
  <2>5. Precedes(e.at, f.at)
    BY <2>1, <2>3, <2>4, PrecedesTotal DEF Entered
  <2> QED
    BY <2>5 DEF e, f
<1> QED
  BY <1>9, <1>10, <1>11

LEMMA CollectInOrder ==
  ASSUME NEW l
  PROVE  /\ DOMAIN Collect(l) = 1 .. Cardinality(Entries(l))
         /\ \A p \in 1 .. Cardinality(Entries(l)) : Collect(l)[p] = EntryAt(Entries(l), p).item
BY DEF Collect, EntryAt

-----------------------------------------------------------------------------
(* The segments that a consolidation merges the deltas with.               *)

LEMMA SegmentsOne ==
  ASSUME NEW l, Merges(l) = {}
  PROVE  Segments(l) = <<[items |-> l.base.items, high |-> HighOf(l)]>>
<1>1. Cardinality(Merges(l)) = 0
  BY FS_EmptySet
<1>2. LeftmostHigh(l) = HighOf(l)
  BY DEF LeftmostHigh
<1> DEFINE seg  == [items |-> l.base.items, high |-> HighOf(l)]
           rest == [n \in 1 .. 0 |-> l.deltas[Nth(Merges(l), 0 - n)].right]
<1>3. Segments(l) = <<seg>> \o rest
  BY <1>1, <1>2 DEF Segments
<1>4. rest = <<>>
  OBVIOUS
<1> HIDE DEF seg, rest
<1>5. <<seg>> \o <<>> = <<seg>>
  OBVIOUS
<1> QED
  BY <1>3, <1>4, <1>5 DEF seg

LEMMA PairConcat ==
  ASSUME NEW s, NEW t
  PROVE  <<s>> \o <<t>> = <<s, t>>
<1> DEFINE S == {s, t}
<1>1. /\ <<s>> \in Seq(S) /\ <<t>> \in Seq(S)
      /\ Len(<<s>>) = 1 /\ Len(<<t>>) = 1 /\ <<s>>[1] = s /\ <<t>>[1] = t
  OBVIOUS
<1> DEFINE a == <<s>>
           b == <<t>>
<1> HIDE DEF S, a, b
<1>2. a \in Seq(S) /\ b \in Seq(S) /\ Len(a) = 1 /\ Len(b) = 1 /\ a[1] = s /\ b[1] = t
  BY <1>1 DEF a, b
<1>3. /\ a \o b \in Seq(S) /\ Len(a \o b) = 2 /\ DOMAIN (a \o b) = 1 .. 2
      /\ (a \o b)[1] = s /\ (a \o b)[2] = t
  <2>1. /\ a \o b \in Seq(S) /\ Len(a \o b) = Len(a) + Len(b)
        /\ \A i \in 1 .. Len(a) + Len(b) : (a \o b)[i] = IF i <= Len(a) THEN a[i] ELSE b[i - Len(a)]
    BY <1>2, ConcatProperties
  <2> QED
    BY <2>1, <1>2, LenProperties
<1> DEFINE ab == a \o b
<1>4. ab \in Seq(S) /\ Len(ab) = 2 /\ ab[1] = s /\ ab[2] = t
  BY <1>3
<1> HIDE DEF ab
<1>5. s \in S /\ t \in S
  BY DEF S
<1>6. ab = <<s, t>>
  BY <1>4, <1>5
<1> QED
  BY <1>6 DEF ab, a, b

LEMMA SegmentsTwo ==
  ASSUME NEW l, NEW m \in Nat, Merges(l) = {m}
  PROVE  Segments(l) = <<[items |-> l.base.items, high |-> LeftmostHigh(l)], l.deltas[m].right>>
<1>1. IsFiniteSet({m}) /\ Cardinality({m}) = 1
  BY FS_Singleton
<1>2. Nth({m}, 0) = m
  <2>1. {m} \in SUBSET Nat /\ 0 \in 0 .. Cardinality({m}) - 1
    BY <1>1
  <2>2. Nth({m}, 0) \in {m}
    BY <2>1, <1>1, NthIn
  <2> QED
    BY <2>2
<1> DEFINE seg  == [items |-> l.base.items, high |-> LeftmostHigh(l)]
           right == l.deltas[m].right
           rest == [n \in 1 .. 1 |-> l.deltas[Nth({m}, 1 - n)].right]
<1>3. Segments(l) = <<seg>> \o rest
  BY <1>1 DEF Segments
<1>4. rest = <<right>>
  <2>1. \A n \in 1 .. 1 : l.deltas[Nth({m}, 1 - n)].right = right
    <3>1. \A n \in 1 .. 1 : 1 - n = 0
      OBVIOUS
    <3> QED
      BY <3>1, <1>2
  <2>2. rest = [n \in 1 .. 1 |-> right]
    BY <2>1
  <2> HIDE DEF right
  <2>3. [n \in 1 .. 1 |-> right] = <<right>>
    OBVIOUS
  <2> QED
    BY <2>2, <2>3
<1> HIDE DEF seg, rest, right
<1>5. <<seg>> \o <<right>> = <<seg, right>>
  BY PairConcat
<1> QED
  BY <1>3, <1>4, <1>5 DEF seg, right

\* The keys whose items a segment has.
InSegment(l, n, k) ==
  /\ n \in DOMAIN Segments(l) /\ BelowHigh(Segments(l)[n], k)
  /\ n = 1 \/ ~BelowHigh(Segments(l)[n - 1], k)

LEMMA SegmentFields ==
  ASSUME NEW ix, IndexOK(ix), NEW l, NEW low, NEW c, ChainOK(l, low, c, ix)
  PROVE  \/ /\ Merges(l) = {} /\ DOMAIN Segments(l) = {1}
            /\ Segments(l)[1].items = l.base.items /\ Segments(l)[1].high = HighOf(l)
         \/ \E m \in Merges(l) :
              /\ Merges(l) = {m} /\ DOMAIN Segments(l) = {1, 2}
              /\ Segments(l)[1].items = l.base.items /\ Segments(l)[1].high = l.deltas[m].item
              /\ Segments(l)[2].items = l.deltas[m].right.items /\ Segments(l)[2].high = NoHigh
              /\ l.deltas[m].item[2] # 0 /\ HighOf(l) = NoHigh /\ l.deltas[m] \in Deltas(ix)
              /\ low <= l.deltas[m].item[1]
              /\ \A p \in DOMAIN l.deltas[m].right.items : l.deltas[m].right.items[p][1] >= l.deltas[m].item[1]
<1>0. l \in Chains(ix) /\ MergesSound(l, ix.unique) /\ BaseSound(l, low, ix.unique)
  BY DEF ChainOK
<1>1. CASE Merges(l) = {}
  <2> DEFINE seg == [items |-> l.base.items, high |-> HighOf(l)]
  <2>1. Segments(l) = <<seg>>
    BY <1>1, SegmentsOne
  <2>2. seg.items = l.base.items /\ seg.high = HighOf(l)
    OBVIOUS
  <2> HIDE DEF seg
  <2>3. DOMAIN <<seg>> = {1} /\ <<seg>>[1] = seg
    OBVIOUS
  <2> QED
    BY <1>1, <2>1, <2>2, <2>3
<1>2. CASE Merges(l) # {}
  <2>1. PICK m \in Merges(l) : TRUE
    BY <1>2
  <2>2. Merges(l) = {m} /\ m \in DOMAIN l.deltas /\ m \in Nat
    BY <1>0, <2>1, MergeOnce
  <2> DEFINE d     == l.deltas[m]
             seg   == [items |-> l.base.items, high |-> LeftmostHigh(l)]
             right == d.right
  <2>3. Segments(l) = <<seg, right>>
    BY <2>2, SegmentsTwo
  <2>4. /\ LeftmostHigh(l) = d.item /\ d.item[2] # 0 /\ right.high = NoHigh /\ HighOf(l) = NoHigh
        /\ \A p \in DOMAIN d.right.items : d.right.items[p][1] >= d.item[1]
        /\ low <= d.item[1]
    BY <1>0, <2>1 DEF MergesSound, BaseSound
  <2>5. d \in Deltas(ix)
    BY <1>0, <2>2, ChainFields
  <2>6. seg.items = l.base.items /\ seg.high = LeftmostHigh(l)
    OBVIOUS
  <2> HIDE DEF seg, right
  <2>7. DOMAIN <<seg, right>> = {1, 2} /\ <<seg, right>>[1] = seg /\ <<seg, right>>[2] = right
    OBVIOUS
  <2>8. /\ DOMAIN Segments(l) = {1, 2}
        /\ Segments(l)[1].items = l.base.items /\ Segments(l)[1].high = d.item
        /\ Segments(l)[2].items = d.right.items /\ Segments(l)[2].high = NoHigh
    BY <2>3, <2>4, <2>6, <2>7 DEF right
  <2> QED
    BY <2>1, <2>2, <2>4, <2>5, <2>8
<1> QED
  BY <1>1, <1>2

\* A walk for a key ends at the segment it belongs to.
LEMMA SegmentWalk ==
  ASSUME NEW ix, IndexOK(ix), NEW l, NEW low, NEW c, ChainOK(l, low, c, ix), NEW k \in Nat
  PROVE  /\ \A n : InSegment(l, n, k) => BaseFor(l, k).items = Segments(l)[n].items /\ n \in {1, 2}
         /\ Inside(l, low, k) => \E n : InSegment(l, n, k)
<1>1. CASE /\ Merges(l) = {} /\ DOMAIN Segments(l) = {1}
           /\ Segments(l)[1].items = l.base.items /\ Segments(l)[1].high = HighOf(l)
  <2>1. RightTurns(l, k) = {}
    BY <1>1 DEF RightTurns, Merges
  <2>2. BaseFor(l, k) = l.base
    BY <2>1 DEF BaseFor
  <2>3. Inside(l, low, k) => InSegment(l, 1, k)
    BY <1>1 DEF Inside, InSegment, BelowHigh
  <2> QED
    BY <1>1, <2>2, <2>3 DEF InSegment
<1>2. ASSUME NEW m \in Merges(l), Merges(l) = {m}, DOMAIN Segments(l) = {1, 2},
             Segments(l)[1].items = l.base.items, Segments(l)[1].high = l.deltas[m].item,
             Segments(l)[2].items = l.deltas[m].right.items, Segments(l)[2].high = NoHigh,
             l.deltas[m].item[2] # 0, l.deltas[m] \in Deltas(ix)
      PROVE  /\ \A n : InSegment(l, n, k) => BaseFor(l, k).items = Segments(l)[n].items /\ n \in {1, 2}
             /\ \E n : InSegment(l, n, k)
  <2> DEFINE key == l.deltas[m].item[1]
  <2>1. key \in Nat /\ m \in Nat
    <3>1. l \in Chains(ix)
      BY DEF ChainOK
    <3> QED
      BY <1>2, <3>1, DeltaFields, TurnsType
  <2>2. /\ InSegment(l, 1, k) <=> k < key
        /\ InSegment(l, 2, k) <=> ~(k < key)
        /\ \A n : InSegment(l, n, k) => n \in {1, 2}
    BY <1>2 DEF InSegment, BelowHigh, NoHigh
  <2>3. RightTurns(l, k) = IF k >= key THEN {m} ELSE {}
    <3>1. RightTurns(l, k) \in SUBSET {m}
      BY <1>2 DEF RightTurns, Merges
    <3>2. m \in RightTurns(l, k) <=> k >= key
      BY DEF RightTurns, Merges
    <3> QED
      BY <3>1, <3>2
  <2>4. CASE k < key
    <3>1. ~(k >= key)
      BY <2>1, <2>4
    <3>2. BaseFor(l, k) = l.base
      BY <3>1, <2>3 DEF BaseFor
    <3> QED
      BY <3>2, <2>2, <2>4, <1>2
  <2>5. CASE ~(k < key)
    <3>1. k >= key
      BY <2>1, <2>5
    <3>2. Min({m}) = m /\ RightTurns(l, k) = {m}
      BY <3>1, <2>1, <2>3, MinIs
    <3>3. BaseFor(l, k) = l.deltas[m].right
      BY <3>2 DEF BaseFor
    <3> QED
      BY <3>3, <2>2, <2>5, <1>2
  <2> QED
    BY <2>4, <2>5
<1> QED
  BY <1>1, <1>2, SegmentFields

LEMMA SegmentsApart ==
  ASSUME NEW ix, IndexOK(ix), NEW l, NEW low, NEW c, ChainOK(l, low, c, ix),
         NEW j \in Nat, NEW k \in Nat, NEW n, NEW m, InSegment(l, n, j), InSegment(l, m, k)
  PROVE  /\ n \in {1, 2} /\ m \in {1, 2}
         /\ n < m => j < k
         /\ j = k => n = m
<1>1. n \in {1, 2} /\ m \in {1, 2}
  BY SegmentWalk
<1>2. ASSUME n = 1, m = 2 PROVE j < k
  <2>1. BelowHigh(Segments(l)[1], j) /\ ~BelowHigh(Segments(l)[1], k) /\ 2 \in DOMAIN Segments(l)
    BY <1>2 DEF InSegment
  <2>2. PICK d \in Deltas(ix) : Segments(l)[1].high = d.item /\ d.item[2] # 0
    BY <2>1, SegmentFields
  <2>3. d.item[1] \in Nat
    BY DeltaFields
  <2> DEFINE key == d.item[1]
  <2>4. j < key /\ ~(k < key) /\ key \in Nat
    BY <2>1, <2>2, <2>3 DEF BelowHigh
  <2> HIDE DEF key
  <2> QED
    BY <2>4
<1>3. ASSUME n = 2, m = 1 PROVE k < j
  <2>1. BelowHigh(Segments(l)[1], k) /\ ~BelowHigh(Segments(l)[1], j) /\ 2 \in DOMAIN Segments(l)
    BY <1>3 DEF InSegment
  <2>2. PICK d \in Deltas(ix) : Segments(l)[1].high = d.item /\ d.item[2] # 0
    BY <2>1, SegmentFields
  <2>3. d.item[1] \in Nat
    BY DeltaFields
  <2> DEFINE key == d.item[1]
  <2>4. k < key /\ ~(j < key) /\ key \in Nat
    BY <2>1, <2>2, <2>3 DEF BelowHigh
  <2> HIDE DEF key
  <2> QED
    BY <2>4
<1> QED
  BY <1>1, <1>2, <1>3

\* The items of a segment below its high key are those of the leaf.
LEMMA SegmentItems ==
  ASSUME NEW ix, IndexOK(ix), NEW l, NEW low, NEW c, ChainOK(l, low, c, ix), NEW n \in DOMAIN Segments(l)
  PROVE  LET items == Segments(l)[n].items IN
         /\ items \in Seq(PairsOf(ix)) /\ Ordered(items, ix.unique)
         /\ \A p \in DOMAIN items : BelowHigh(Segments(l)[n], items[p][1]) =>
              InSegment(l, n, items[p][1]) /\ Inside(l, low, items[p][1])
<1>0. /\ l \in Chains(ix) /\ MergesSound(l, ix.unique) /\ BaseSound(l, low, ix.unique) /\ low \in Nat
      /\ l.base \in BaseNodes(ix)
  BY ChainFields DEF ChainOK
<1>1. l.base.items \in Seq(PairsOf(ix)) /\ Ordered(l.base.items, ix.unique)
  BY <1>0, BaseFields DEF BaseSound
<1>2. CASE /\ Merges(l) = {} /\ DOMAIN Segments(l) = {1}
           /\ Segments(l)[1].items = l.base.items /\ Segments(l)[1].high = HighOf(l)
  <2>1. n = 1
    BY <1>2
  <2>2. \A p \in DOMAIN l.base.items : low <= l.base.items[p][1]
    BY <1>0 DEF BaseSound
  <2> QED
    BY <2>1, <2>2, <1>1, <1>2 DEF InSegment, Inside, BelowHigh
<1>3. ASSUME NEW m \in Merges(l), Merges(l) = {m}, DOMAIN Segments(l) = {1, 2},
             Segments(l)[1].items = l.base.items, Segments(l)[1].high = l.deltas[m].item,
             Segments(l)[2].items = l.deltas[m].right.items, Segments(l)[2].high = NoHigh,
             l.deltas[m].item[2] # 0, l.deltas[m] \in Deltas(ix), HighOf(l) = NoHigh,
             low <= l.deltas[m].item[1],
             \A p \in DOMAIN l.deltas[m].right.items : l.deltas[m].right.items[p][1] >= l.deltas[m].item[1]
      PROVE  LET items == Segments(l)[n].items IN
             /\ items \in Seq(PairsOf(ix)) /\ Ordered(items, ix.unique)
             /\ \A p \in DOMAIN items : BelowHigh(Segments(l)[n], items[p][1]) =>
                  InSegment(l, n, items[p][1]) /\ Inside(l, low, items[p][1])
  <2> DEFINE d == l.deltas[m]
  <2>1. HighOf(l)[2] = 0
    BY <1>3 DEF NoHigh
  <2>2. CASE n = 1
    <3>1. \A p \in DOMAIN l.base.items : low <= l.base.items[p][1]
      BY <1>0 DEF BaseSound
    <3> QED
      BY <3>1, <2>1, <2>2, <1>1, <1>3 DEF InSegment, Inside
  <2>3. CASE n = 2
    <3> DEFINE items == d.right.items
               key   == d.item[1]
    <3>1. items \in Seq(PairsOf(ix)) /\ Ordered(items, ix.unique)
      <4>1. d.right \in BaseNodes(ix)
        BY <1>3, DeltaFields
      <4>2. Ordered(d.right.items, ix.unique)
        BY <1>0 DEF MergesSound
      <4> QED
        BY <4>1, <4>2, BaseFields
    <3>2. \A p \in DOMAIN items : low <= items[p][1] /\ ~(items[p][1] < key)
      <4>1. \A p \in DOMAIN items : items[p][1] \in Nat /\ items[p][1] >= key
        <5>1. \A p \in DOMAIN items : items[p] \in PairsOf(ix)
          BY <3>1
        <5> QED
          BY <5>1, <1>3, PairFields
      <4>2. key \in Nat /\ low <= key
        BY <1>3, DeltaFields
      <4> HIDE DEF items, key
      <4>3. \A v \in Nat : v >= key => low <= v /\ ~(v < key)
        BY <4>2, <1>0
      <4> QED
        BY <4>1, <4>3
    <3>3. \A p \in DOMAIN items : ~BelowHigh(Segments(l)[1], items[p][1])
      BY <3>2, <1>3 DEF BelowHigh
    <3>4. \A p \in DOMAIN items : Inside(l, low, items[p][1])
      BY <3>2, <2>1 DEF Inside
    <3>5. Segments(l)[n].items = items /\ n - 1 = 1
      BY <2>3, <1>3
    <3> HIDE DEF items
    <3> QED
      BY <3>1, <3>3, <3>4, <3>5 DEF InSegment
  <2> QED
    BY <2>2, <2>3, <1>3
<1> QED
  BY <1>2, <1>3, SegmentFields

-----------------------------------------------------------------------------
(* The entries of a consolidation are the pairs that the leaf holds.       *)

\* Pairs that match when any other value of the key is passed over are the same.
LEMMA SameItem ==
  ASSUME NEW ix, IndexOK(ix), NEW x \in PairsOf(ix), NEW y \in PairsOf(ix)
  PROVE  Matches(x, y, FALSE) <=> x = y
<1>1. x = <<x[1], x[2]>> /\ y = <<y[1], y[2]>>
  BY PairFields
<1> QED
  BY <1>1 DEF Matches

\* A search for the item of a delta comes past it.
LEMMA OnIs ==
  ASSUME NEW ix, IndexOK(ix), NEW l, NEW low, NEW c, ChainOK(l, low, c, ix), NEW pair, NEW unique, NEW i
  PROVE  i \in On(l, pair, unique) <=>
           i \in DOMAIN l.deltas /\ IsData(l.deltas[i]) /\ Matches(l.deltas[i].item, pair, unique)
<1>0. l \in Chains(ix) /\ MergesSound(l, ix.unique) /\ DeltasSound(l, low, ix)
  BY DEF ChainOK
<1>1. ASSUME i \in On(l, pair, unique)
      PROVE  i \in DOMAIN l.deltas /\ IsData(l.deltas[i]) /\ Matches(l.deltas[i].item, pair, unique)
  BY <1>1 DEF On, Visited
<1>2. ASSUME i \in DOMAIN l.deltas, IsData(l.deltas[i]), Matches(l.deltas[i].item, pair, unique)
      PROVE  i \in On(l, pair, unique)
  <2> DEFINE k == pair[1]
  <2>1. l.deltas[i].item[1] = k
    BY <1>2 DEF Matches
  <2>2. ASSUME NEW m \in RightTurns(l, k) PROVE i <= m
    <3>1. /\ m \in Merges(l) /\ m \in DOMAIN l.deltas /\ k >= l.deltas[m].item[1]
      BY DEF RightTurns, Merges
    <3>2. i > m => k < l.deltas[m].item[1]
      BY <3>1, <2>1, <1>0, <1>2 DEF MergesSound
    <3>3. k \in Nat /\ l.deltas[m].item[1] \in Nat /\ i \in Nat /\ m \in Nat
      <4>1. l.deltas[i] \in Deltas(ix) /\ l.deltas[m] \in Deltas(ix) /\ i \in Nat /\ m \in Nat
        BY <3>1, <1>0, <1>2, ChainFields
      <4> QED
        BY <4>1, <2>1, DeltaFields
    <3> DEFINE key == l.deltas[m].item[1]
    <3>4. k >= key /\ (i > m => k < key) /\ key \in Nat /\ k \in Nat
      BY <3>1, <3>2, <3>3
    <3> HIDE DEF k, key
    <3> QED
      BY <3>3, <3>4
  <2>3. i \in Visited(l, k)
    BY <2>2, <1>2 DEF Visited
  <2> QED
    BY <2>3, <1>2 DEF On
<1> QED
  BY <1>1, <1>2

\* The deltas that are left are the newest on their items.
LEMMA LiveIs ==
  ASSUME NEW ix, IndexOK(ix), NEW l, NEW low, NEW c, ChainOK(l, low, c, ix)
  PROVE  /\ \A i \in LiveDeltas(l) :
              /\ i \in DOMAIN l.deltas /\ IsData(l.deltas[i]) /\ l.deltas[i].item \in PairsOf(ix)
              /\ On(l, l.deltas[i].item, FALSE) # {} /\ Min(On(l, l.deltas[i].item, FALSE)) = i
         /\ \A pair \in PairsOf(ix) : On(l, pair, FALSE) # {} =>
              Min(On(l, pair, FALSE)) \in LiveDeltas(l) /\ l.deltas[Min(On(l, pair, FALSE))].item = pair
<1>0. l \in Chains(ix) /\ DeltasSound(l, low, ix)
  BY DEF ChainOK
<1>1. DOMAIN l.deltas = 1 .. Len(l.deltas) /\ Len(l.deltas) \in Nat
  BY <1>0, ChainFields
<1>2. \A i \in DOMAIN l.deltas : IsData(l.deltas[i]) => l.deltas[i].item \in PairsOf(ix)
  BY <1>0 DEF DeltasSound
<1>3. \A pair \in PairsOf(ix) : \A i : i \in On(l, pair, FALSE) <=>
        i \in DOMAIN l.deltas /\ IsData(l.deltas[i]) /\ l.deltas[i].item = pair
  <2> SUFFICES ASSUME NEW pair \in PairsOf(ix), NEW i
               PROVE  i \in On(l, pair, FALSE) <=>
                        i \in DOMAIN l.deltas /\ IsData(l.deltas[i]) /\ l.deltas[i].item = pair
    OBVIOUS
  <2>1. i \in On(l, pair, FALSE) <=>
          i \in DOMAIN l.deltas /\ IsData(l.deltas[i]) /\ Matches(l.deltas[i].item, pair, FALSE)
    BY OnIs
  <2>2. ASSUME i \in DOMAIN l.deltas, IsData(l.deltas[i])
        PROVE  Matches(l.deltas[i].item, pair, FALSE) <=> l.deltas[i].item = pair
    <3>1. l.deltas[i].item \in PairsOf(ix)
      BY <2>2, <1>2
    <3> QED
      BY <3>1, SameItem, ZenonT(60)
  <2> QED
    BY <2>1, <2>2
<1>4. ASSUME NEW i \in LiveDeltas(l)
      PROVE  /\ i \in DOMAIN l.deltas /\ IsData(l.deltas[i]) /\ l.deltas[i].item \in PairsOf(ix)
             /\ On(l, l.deltas[i].item, FALSE) # {} /\ Min(On(l, l.deltas[i].item, FALSE)) = i
  <2>1. /\ i \in DOMAIN l.deltas /\ IsData(l.deltas[i])
        /\ \A j \in 1 .. i - 1 : ~(IsData(l.deltas[j]) /\ l.deltas[j].item = l.deltas[i].item)
    BY DEF LiveDeltas
  <2> DEFINE pair == l.deltas[i].item
             S    == On(l, pair, FALSE)
  <2>2. pair \in PairsOf(ix)
    BY <2>1, <1>2
  <2>3. i \in S /\ S \in SUBSET Nat /\ i \in Nat
    <3>1. i \in S /\ S \in SUBSET DOMAIN l.deltas
      BY <2>1, <2>2, <1>3
    <3>2. DOMAIN l.deltas \in SUBSET (Nat \ {0})
      BY <1>1
    <3> HIDE DEF S
    <3> QED
      BY <3>1, <3>2, <2>1
  <2>4. \A y \in S : i <= y
    <3>1. ASSUME NEW y \in S PROVE y \in Nat \ {0} /\ y \notin 1 .. i - 1
      <4>1. y \in DOMAIN l.deltas /\ IsData(l.deltas[y]) /\ l.deltas[y].item = pair
        BY <2>2, <1>3
      <4>2. y \in Nat \ {0}
        BY <4>1, <1>1
      <4> HIDE DEF S
      <4> QED
        BY <4>1, <4>2, <2>1
    <3> HIDE DEF S
    <3> QED
      BY <3>1, <2>3
  <2>5. Min(S) = i
    <3> HIDE DEF S
    <3> QED
      BY <2>3, <2>4, MinIs
  <2> QED
    BY <2>1, <2>2, <2>3, <2>5
<1>5. ASSUME NEW pair \in PairsOf(ix), On(l, pair, FALSE) # {}
      PROVE  Min(On(l, pair, FALSE)) \in LiveDeltas(l) /\ l.deltas[Min(On(l, pair, FALSE))].item = pair
  <2> DEFINE S == On(l, pair, FALSE)
             i == Min(S)
  <2>1. S \in SUBSET DOMAIN l.deltas /\ S \in SUBSET Nat
    <3>1. S \in SUBSET DOMAIN l.deltas
      BY <1>3
    <3>2. DOMAIN l.deltas \in SUBSET Nat
      BY <1>1
    <3> HIDE DEF S
    <3> QED
      BY <3>1, <3>2
  <2>2. i \in S /\ \A y \in S : i <= y
    <3> HIDE DEF S
    <3> QED
      BY <2>1, <1>5, MinIn DEF S
  <2> HIDE DEF i
  <2>3. i \in DOMAIN l.deltas /\ IsData(l.deltas[i]) /\ l.deltas[i].item = pair
    BY <2>2, <1>3
  <2>4. ASSUME NEW j \in 1 .. i - 1, IsData(l.deltas[j]), l.deltas[j].item = pair PROVE FALSE
    <3>1. j \in DOMAIN l.deltas /\ ~(i <= j)
      BY <2>3, <1>1
    <3>2. j \in S
      BY <3>1, <2>4, <1>3
    <3> QED
      BY <3>1, <3>2, <2>2
  <2> QED
    BY <2>3, <2>4 DEF LiveDeltas, i
<1> QED
  BY <1>4, <1>5

\* What an entry says of its item: it stands at its index among the items of its
\* segment, and a delta gives it exactly if one is about it.
EntryOK(l, c, e, ix) ==
  LET n     == e.at[1]
      a     == e.at[2]
      items == Segments(l)[n].items
      on    == On(l, e.item, FALSE)
  IN  /\ e = [item |-> e.item, at |-> e.at] /\ e.item \in c /\ e.at \in Place
      /\ InSegment(l, n, e.item[1]) /\ a \in 0 .. Len(items)
      /\ \A p \in DOMAIN items : /\ p <= a => items[p][1] <= e.item[1]
                                 /\ p > a => items[p][1] >= e.item[1]
      /\ \/ /\ e.at[3] = 0 /\ on # {} /\ e.at[4] = e.item[1] /\ e.at[5] = Min(on)
            /\ l.deltas[Min(on)].item = e.item /\ l.deltas[Min(on)].index = a
         \/ /\ e.at[3] = 1 /\ on = {} /\ e.at[4] = 0 /\ e.at[5] = 0
            /\ a + 1 \in DOMAIN items /\ items[a + 1] = e.item

LEMMA AtIs ==
  ASSUME NEW n \in Nat, NEW a \in Nat, NEW b \in Nat, NEW k \in Nat, NEW i \in Nat, NEW at,
         at = <<n, a, b, k, i>>
  PROVE  /\ at \in Place
         /\ at[1] = n /\ at[2] = a /\ at[3] = b /\ at[4] = k /\ at[5] = i
<1>1. at[1] = n /\ at[2] = a /\ at[3] = b /\ at[4] = k /\ at[5] = i
  OBVIOUS
<1>2. at \in Place
  <2>1. at = [j \in 1 .. 5 |-> at[j]]
    OBVIOUS
  <2>2. \A j \in 1 .. 5 : at[j] \in Nat
    <3>1. \A j \in 1 .. 5 : j = 1 \/ j = 2 \/ j = 3 \/ j = 4 \/ j = 5
      OBVIOUS
    <3> QED
      BY <3>1, <1>1
  <2> QED
    BY <2>1, <2>2 DEF Place
<1> QED
  BY <1>1, <1>2

\* Where a delta is placed bounds the keys on both sides of its index.
LEMMA PlacedBounds ==
  ASSUME NEW ix, IndexOK(ix), NEW items \in Seq(PairsOf(ix)), Ordered(items, ix.unique),
         NEW l, NEW pair \in PairsOf(ix), BaseFor(l, pair[1]).items = items,
         NEW a, NEW over, Placed(l, pair, a, over, ix.unique)
  PROVE  /\ a \in 0 .. Len(items)
         /\ \A p \in DOMAIN items : /\ p <= a => items[p][1] <= pair[1]
                                    /\ p > a => items[p][1] >= pair[1]
<1> DEFINE k == pair[1]
<1>1. /\ a \in 0 .. Len(items)
      /\ over => a + 1 \in DOMAIN items /\ items[a + 1][1] = k
      /\ ~over => \A p \in DOMAIN items : p <= a <=> items[p][1] <= k
  BY DEF Placed, Matches
<1>2. /\ DOMAIN items = 1 .. Len(items) /\ Len(items) \in Nat /\ k \in Nat
      /\ \A p \in DOMAIN items : items[p][1] \in Nat
  BY PairFields
<1> HIDE DEF k
<1>3. ASSUME NEW p \in DOMAIN items
      PROVE  /\ p <= a => items[p][1] <= k
             /\ p > a => items[p][1] >= k
  <2>1. p \in Nat /\ a \in Nat /\ (p > a => ~(p <= a))
    BY <1>1, <1>2
  <2> DEFINE v == items[p][1]
  <2>2. v \in Nat
    BY <1>2
  <2>3. CASE ~over
    <3>1. p <= a <=> v <= k
      BY <2>3, <1>1
    <3> HIDE DEF v
    <3>2. (p <= a => v <= k) /\ (p > a => v >= k)
      BY <3>1, <2>1, <2>2, <1>2
    <3> QED
      BY <3>2 DEF v
  <2>4. CASE over
    <3>1. a + 1 \in DOMAIN items /\ items[a + 1][1] = k
      BY <2>4, <1>1
    <3>2. /\ p < a + 1 => v <= k
          /\ a + 1 < p => k <= v
      BY <3>1 DEF Ordered
    <3>3. p = a + 1 => v = k
      BY <3>1
    <3> HIDE DEF v
    <3>4. (p <= a => v <= k) /\ (p > a => v >= k)
      BY <3>2, <3>3, <2>1, <2>2, <1>2
    <3> QED
      BY <3>4 DEF v
  <2> QED
    BY <2>3, <2>4
<1> QED
  BY <1>1, <1>3 DEF k

LEMMA InsertedOK ==
  ASSUME NEW ix, IndexOK(ix), NEW l, NEW low, NEW c, ChainOK(l, low, c, ix),
         NEW n \in DOMAIN Segments(l), NEW e \in Inserted(l, n)
  PROVE  EntryOK(l, c, e, ix) /\ e.at[1] = n
<1>1. PICK i \in Mine(l, n) :
        /\ l.deltas[i].type = "insert"
        /\ e = [item |-> l.deltas[i].item,
                at |-> <<n, l.deltas[i].index, 0, l.deltas[i].item[1], i>>]
  BY DEF Inserted
<1> DEFINE d  == l.deltas[i]
           on == On(l, d.item, FALSE)
           k  == d.item[1]
<1>2. i \in LiveDeltas(l) /\ InSegment(l, n, k)
  BY DEF Mine, InSegment
<1>3. /\ i \in DOMAIN l.deltas /\ IsData(d) /\ d.item \in PairsOf(ix)
      /\ on # {} /\ Min(on) = i
  BY <1>2, LiveIs
<1>4. l \in Chains(ix) /\ KnownExact(l, low, c, ix) /\ ContentSound(l, low, c, ix) /\ DeltasSound(l, low, ix)
  BY DEF ChainOK
<1>5. d \in Deltas(ix) /\ i \in Nat /\ k \in Nat
  BY <1>3, <1>4, ChainFields, PairFields
<1>6. Inside(l, low, k) /\ Placed(l, d.item, d.index, d.over, ix.unique)
  BY <1>3, <1>4 DEF DeltasSound
<1>7. d.item \in c
  <2>1. Holds(l, d.item, FALSE)
    BY <1>1, <1>3 DEF Holds
  <2>2. \E x \in c : Matches(x, d.item, FALSE)
    BY <2>1, <1>3, <1>4, <1>6 DEF KnownExact
  <2>3. \A x \in c : x \in PairsOf(ix)
    BY <1>4 DEF ContentSound
  <2>10. PICK z \in c : Matches(z, d.item, FALSE)
    BY <2>2
  <2>11. z \in PairsOf(ix)
    BY <2>3
  <2>12. z = d.item
    BY <2>10, <2>11, <1>3, SameItem
  <2> QED
    BY <2>12
<1> DEFINE items == Segments(l)[n].items
<1>8. n \in {1, 2} /\ BaseFor(l, k).items = items
  BY <1>2, <1>5, SegmentWalk
<1>9. items \in Seq(PairsOf(ix)) /\ Ordered(items, ix.unique)
  BY SegmentItems
<1>10. /\ d.index \in 0 .. Len(items) /\ d.index \in Nat
       /\ \A p \in DOMAIN items : /\ p <= d.index => items[p][1] <= k
                                  /\ p > d.index => items[p][1] >= k
  <2>1. d.index \in Nat
    BY <1>5, DeltaFields
  <2> HIDE DEF items, d
  <2> QED
    BY <2>1, <1>3, <1>6, <1>8, <1>9, PlacedBounds
<1>11. /\ e.item = d.item /\ e.at = <<n, d.index, 0, k, i>>
       /\ e = [item |-> e.item, at |-> e.at]
  BY <1>1
<1> HIDE DEF d, items
<1>12. /\ e.at \in Place /\ e.at[1] = n /\ e.at[2] = d.index /\ e.at[3] = 0 /\ e.at[4] = k /\ e.at[5] = i
  <2>1. n \in Nat /\ 0 \in Nat
    BY <1>8
  <2> DEFINE a == d.index
  <2>2. a \in Nat /\ e.at = <<n, a, 0, k, i>>
    BY <1>10, <1>11
  <2> HIDE DEF k, a
  <2>3. /\ e.at \in Place /\ e.at[1] = n /\ e.at[2] = a /\ e.at[3] = 0 /\ e.at[4] = k /\ e.at[5] = i
    BY <2>1, <2>2, <1>5, AtIs, SMTT(60)
  <2> QED
    BY <2>3 DEF a
<1> QED
  BY <1>2, <1>3, <1>7, <1>10, <1>11, <1>12 DEF EntryOK, items, d

\* An item of a base node stands for itself exactly if no delta is about it.
LEMMA KeptWhen ==
  ASSUME NEW ix, IndexOK(ix), NEW l, NEW low, NEW c, ChainOK(l, low, c, ix),
         NEW n \in DOMAIN Segments(l), NEW p \in DOMAIN Segments(l)[n].items,
         NEW x, x = Segments(l)[n].items[p], BelowHigh(Segments(l)[n], x[1]), On(l, x, FALSE) # {}
  PROVE  \E i \in Mine(l, n) : l.deltas[i].index = p - 1 /\ l.deltas[i].over
<1> DEFINE items == Segments(l)[n].items
           i     == Min(On(l, x, FALSE))
           d     == l.deltas[i]
<1>1. items \in Seq(PairsOf(ix)) /\ Ordered(items, ix.unique) /\ InSegment(l, n, x[1]) /\ Inside(l, low, x[1])
  BY SegmentItems
<1>2. x \in PairsOf(ix)
  BY <1>1
<1>3. x[1] \in Nat
  BY <1>2, PairFields
<1>4. i \in LiveDeltas(l) /\ d.item = x
  BY <1>2, LiveIs
<1>5. i \in Mine(l, n)
  BY <1>1, <1>4 DEF Mine, InSegment
<1>6. Placed(l, x, d.index, d.over, ix.unique)
  <2>1. i \in DOMAIN l.deltas /\ IsData(d)
    BY <1>4 DEF LiveDeltas
  <2>2. DeltasSound(l, low, ix)
    BY DEF ChainOK
  <2> HIDE DEF i
  <2> QED
    BY <2>1, <2>2, <1>4 DEF DeltasSound
<1>7. BaseFor(l, x[1]).items = items
  BY <1>1, <1>3, SegmentWalk
<1>8. Matches(items[p], x, ix.unique)
  BY DEF Matches
<1>9. p \in DOMAIN items
  OBVIOUS
<1> HIDE DEF items, d
<1>10. d.over /\ d.index + 1 \in DOMAIN items /\ Matches(items[d.index + 1], x, ix.unique) /\ d.index \in Nat
  <2>1. d.index \in 0 .. Len(items) /\ Len(items) \in Nat
    BY <1>1, <1>6, <1>7 DEF Placed
  <2> QED
    BY <2>1, <1>6, <1>7, <1>8, <1>9 DEF Placed
<1>11. d.index + 1 = p
  <2>1. Matches(items[d.index + 1], items[p], ix.unique)
    BY <1>8, <1>10, MatchesChain, MatchesSwap
  <2> QED
    BY <2>1, <1>1, <1>9, <1>10 DEF Ordered
<1>12. d.index = p - 1
  BY <1>10, <1>11
<1> QED
  BY <1>5, <1>10, <1>12 DEF d

LEMMA KeptOK ==
  ASSUME NEW ix, IndexOK(ix), NEW l, NEW low, NEW c, ChainOK(l, low, c, ix),
         NEW n \in DOMAIN Segments(l), NEW e \in Kept(l, n)
  PROVE  EntryOK(l, c, e, ix) /\ e.at[1] = n
<1> DEFINE items == Segments(l)[n].items
<1>1. PICK p \in DOMAIN items :
        /\ BelowHigh(Segments(l)[n], items[p][1])
        /\ \A i \in Mine(l, n) : ~(l.deltas[i].index = p - 1 /\ l.deltas[i].over)
        /\ e = [item |-> items[p], at |-> <<n, p - 1, 1, 0, 0>>]
  BY DEF Kept
<1> DEFINE x == items[p]
<1>2. items \in Seq(PairsOf(ix)) /\ Ordered(items, ix.unique) /\ InSegment(l, n, x[1]) /\ Inside(l, low, x[1])
  BY <1>1, SegmentItems
<1>3. /\ x \in PairsOf(ix) /\ DOMAIN items = 1 .. Len(items) /\ Len(items) \in Nat
      /\ \A q \in DOMAIN items : items[q] \in PairsOf(ix) /\ items[q][1] \in Nat
  BY <1>2, PairFields
<1>4. On(l, x, FALSE) = {}
  BY <1>1, KeptWhen
<1>5. n \in {1, 2} /\ BaseFor(l, x[1]).items = items
  BY <1>2, <1>3, SegmentWalk
<1>6. x \in c
  <2>1. Matches(items[p], x, FALSE)
    BY DEF Matches
  <2>2. Holds(l, x, FALSE)
    BY <2>1, <1>4, <1>5 DEF Holds
  <2>3. KnownExact(l, low, c, ix) /\ ContentSound(l, low, c, ix)
    BY DEF ChainOK
  <2>4. \E y \in c : Matches(y, x, FALSE)
    BY <2>2, <2>3, <1>2, <1>3 DEF KnownExact
  <2>5. \A y \in c : y \in PairsOf(ix)
    BY <2>3 DEF ContentSound
  <2>10. PICK z \in c : Matches(z, x, FALSE)
    BY <2>4
  <2>11. z \in PairsOf(ix)
    BY <2>5
  <2>12. z = x
    BY <2>10, <2>11, <1>3, SameItem
  <2> QED
    BY <2>12
<1>7. /\ e.item = x /\ e.at = <<n, p - 1, 1, 0, 0>> /\ e = [item |-> e.item, at |-> e.at]
  BY <1>1
<1>8. p - 1 \in 0 .. Len(items) /\ p - 1 \in Nat /\ (p - 1) + 1 = p
  BY <1>3
<1>9. /\ e.at \in Place /\ e.at[1] = n /\ e.at[2] = p - 1 /\ e.at[3] = 1 /\ e.at[4] = 0 /\ e.at[5] = 0
  <2>1. n \in Nat /\ 0 \in Nat /\ 1 \in Nat
    BY <1>5
  <2> DEFINE a == p - 1
  <2> HIDE DEF a
  <2>2. a \in Nat /\ e.at = <<n, a, 1, 0, 0>>
    BY <1>7, <1>8 DEF a
  <2> HIDE DEF items
  <2>3. /\ e.at \in Place /\ e.at[1] = n /\ e.at[2] = a /\ e.at[3] = 1 /\ e.at[4] = 0 /\ e.at[5] = 0
    BY <2>1, <2>2, AtIs, SMTT(60)
  <2> QED
    BY <2>3 DEF a
<1>10. ASSUME NEW q \in DOMAIN items
       PROVE  /\ q <= p - 1 => items[q][1] <= x[1]
              /\ q > p - 1 => items[q][1] >= x[1]
  <2>1. q \in Nat /\ p \in Nat /\ items[q][1] \in Nat /\ x[1] \in Nat
    BY <1>3
  <2>2. (q < p => items[q][1] <= x[1]) /\ (p < q => x[1] <= items[q][1]) /\ (p = q => items[q][1] = x[1])
    BY <1>2 DEF Ordered
  <2> DEFINE v == items[q][1]
             w == x[1]
  <2> HIDE DEF v, w
  <2>3. /\ v \in Nat /\ w \in Nat
        /\ (q < p => v <= w) /\ (p < q => w <= v) /\ (p = q => v = w)
    BY <2>1, <2>2 DEF v, w
  <2>4. (q <= p - 1 => v <= w) /\ (q > p - 1 => v >= w)
    BY <2>1, <2>3
  <2> QED
    BY <2>4 DEF v, w
<1>11. (p - 1) + 1 \in DOMAIN items /\ items[(p - 1) + 1] = e.item
  BY <1>7, <1>8
<1> DEFINE a == p - 1
<1>12. /\ a \in 0 .. Len(items) /\ a + 1 \in DOMAIN items /\ items[a + 1] = e.item /\ e.at[2] = a
       /\ \A q \in DOMAIN items : /\ q <= a => items[q][1] <= e.item[1]
                                  /\ q > a => items[q][1] >= e.item[1]
  BY <1>7, <1>8, <1>9, <1>10, <1>11
<1>13. e.item \in c /\ On(l, e.item, FALSE) = {} /\ InSegment(l, n, e.item[1])
  BY <1>2, <1>4, <1>6, <1>7
<1> HIDE DEF items, a, x
<1> QED
  BY <1>7, <1>9, <1>12, <1>13 DEF EntryOK, items

-----------------------------------------------------------------------------
(* Consolidation collects the pairs that the leaf should hold.             *)

LEMMA EntriesOK ==
  ASSUME NEW ix, IndexOK(ix), NEW l, NEW low, NEW c, ChainOK(l, low, c, ix), NEW e \in Entries(l)
  PROVE  EntryOK(l, c, e, ix)
<1>1. PICK n \in DOMAIN Segments(l) : e \in Inserted(l, n) \/ e \in Kept(l, n)
  BY DEF Entries
<1> QED
  BY <1>1, InsertedOK, KeptOK

\* Of the values that a unique index is given for one key only the newest is left.
LEMMA NewestHeld ==
  ASSUME NEW ix, IndexOK(ix), NEW l, NEW low, NEW c, ChainOK(l, low, c, ix), NEW x \in c,
         ix.unique = TRUE, On(l, x, TRUE) # {}
  PROVE  On(l, x, FALSE) # {}
<1> DEFINE S == On(l, x, TRUE)
           j == Min(S)
           d == l.deltas[j]
           y == d.item
           T == On(l, y, FALSE)
<1>0. l \in Chains(ix) /\ KnownExact(l, low, c, ix) /\ ContentSound(l, low, c, ix)
  BY DEF ChainOK
<1>1. x \in PairsOf(ix) /\ Inside(l, low, x[1])
  BY <1>0 DEF ContentSound
<1>2. d.type = "insert"
  <2>1. Matches(x, x, TRUE)
    BY DEF Matches
  <2>2. TRUE \in {FALSE, ix.unique}
    OBVIOUS
  <2>3. Holds(l, x, TRUE)
    BY <2>1, <2>2, <1>0, <1>1 DEF KnownExact
  <2> QED
    BY <2>3 DEF Holds
<1>3. IsData(d) /\ Matches(y, x, TRUE) /\ y \in PairsOf(ix) /\ Inside(l, low, y[1])
  BY NewestPlaced
<1>4. j \in S /\ (\A i \in S : j <= i) /\ j \in DOMAIN l.deltas
  <2>1. S \in SUBSET DOMAIN l.deltas /\ S \in SUBSET (Nat \ {0}) /\ S # {}
    BY <1>0, OnType
  <2> HIDE DEF S
  <2> QED
    BY <2>1, MinIn
<1>5. j \in T
  <2>1. Matches(y, y, FALSE)
    BY DEF Matches
  <2> HIDE DEF j
  <2> QED
    BY <2>1, <1>3, <1>4, OnIs
<1>6. T \in SUBSET S
  <2> SUFFICES ASSUME NEW i \in T PROVE i \in S
    OBVIOUS
  <2>1. i \in DOMAIN l.deltas /\ IsData(l.deltas[i]) /\ Matches(l.deltas[i].item, y, FALSE)
    BY OnIs
  <2>2. Matches(l.deltas[i].item, x, TRUE)
    BY <2>1, <1>3 DEF Matches
  <2> HIDE DEF S
  <2> QED
    BY <2>1, <2>2, OnIs DEF S
<1>7. Min(T) = j /\ T # {}
  <2>1. T \in SUBSET Nat
    BY <1>0, OnType
  <2> HIDE DEF T, j
  <2> QED
    BY <2>1, <1>4, <1>5, <1>6, MinIs
<1>8. y \in c
  <2>1. Holds(l, y, FALSE)
    BY <1>2, <1>7 DEF Holds
  <2>2. \E z \in c : Matches(z, y, FALSE)
    BY <2>1, <1>0, <1>3 DEF KnownExact
  <2>3. PICK z \in c : Matches(z, y, FALSE)
    BY <2>2
  <2>4. z \in PairsOf(ix)
    BY <1>0 DEF ContentSound
  <2>5. z = y
    <3> HIDE DEF y
    <3> QED
      BY <2>3, <2>4, <1>3, SameItem
  <2> QED
    BY <2>5
<1>9. y = x
  BY <1>0, <1>3, <1>8 DEF ContentSound
<1> QED
  BY <1>7, <1>9

\* A delta that overwrites the item of a pair that the leaf holds is about the pair.
LEMMA OverItem ==
  ASSUME NEW ix, IndexOK(ix), NEW l, NEW low, NEW c, ChainOK(l, low, c, ix), NEW x \in c,
         NEW n, InSegment(l, n, x[1]), NEW p \in DOMAIN Segments(l)[n].items,
         Segments(l)[n].items[p] = x,
         NEW i \in Mine(l, n), l.deltas[i].index = p - 1, l.deltas[i].over
  PROVE  On(l, x, FALSE) # {}
<1> DEFINE d     == l.deltas[i]
           items == Segments(l)[n].items
<1>0. l \in Chains(ix) /\ DeltasSound(l, low, ix) /\ ContentSound(l, low, c, ix)
  BY DEF ChainOK
<1>1. x \in PairsOf(ix) /\ x[1] \in Nat
  BY <1>0, PairFields DEF ContentSound
<1>2. n \in DOMAIN Segments(l) /\ i \in LiveDeltas(l) /\ InSegment(l, n, d.item[1])
  BY DEF Mine, InSegment
<1>3. i \in DOMAIN l.deltas /\ IsData(d) /\ d.item \in PairsOf(ix) /\ d.item[1] \in Nat
  BY <1>2, LiveIs, PairFields
<1>4. Placed(l, d.item, d.index, d.over, ix.unique)
  BY <1>0, <1>3 DEF DeltasSound
<1>5. BaseFor(l, d.item[1]).items = items
  BY <1>2, <1>3, SegmentWalk
<1>6. items \in Seq(PairsOf(ix)) /\ p \in Nat /\ d.index + 1 = p
  <2>1. items \in Seq(PairsOf(ix))
    BY <1>2, SegmentItems
  <2>2. p \in Nat
    BY <2>1
  <2> QED
    BY <2>1, <2>2
<1>7. Matches(x, d.item, ix.unique)
  <2>1. Matches(items[d.index + 1], d.item, ix.unique)
    BY <1>4, <1>5 DEF Placed
  <2> HIDE DEF d
  <2> QED
    BY <2>1, <1>6
<1>8. Matches(d.item, x, ix.unique)
  BY <1>7, MatchesSwap
<1>9. CASE ix.unique = TRUE
  <2>1. i \in On(l, x, TRUE)
    BY <1>3, <1>8, <1>9, OnIs
  <2> QED
    BY <2>1, <1>9, NewestHeld
<1>10. CASE ix.unique = FALSE
  <2>1. i \in On(l, x, FALSE)
    BY <1>3, <1>8, <1>10, OnIs
  <2> QED
    BY <2>1
<1> QED
  BY <1>9, <1>10 DEF IndexOK

LEMMA EntryFor ==
  ASSUME NEW ix, IndexOK(ix), NEW l, NEW low, NEW c, ChainOK(l, low, c, ix), NEW x \in c
  PROVE  \E e \in Entries(l) : e.item = x
<1>0. l \in Chains(ix) /\ KnownExact(l, low, c, ix) /\ ContentSound(l, low, c, ix)
  BY DEF ChainOK
<1>1. x \in PairsOf(ix) /\ x[1] \in Nat /\ Inside(l, low, x[1])
  BY <1>0, PairFields DEF ContentSound
<1>2. PICK n : InSegment(l, n, x[1])
  BY <1>1, SegmentWalk
<1> DEFINE items == Segments(l)[n].items
<1>3. n \in DOMAIN Segments(l) /\ BelowHigh(Segments(l)[n], x[1]) /\ BaseFor(l, x[1]).items = items
  BY <1>1, <1>2, SegmentWalk DEF InSegment
<1>4. items \in Seq(PairsOf(ix))
  BY <1>3, SegmentItems
<1>5. Holds(l, x, FALSE)
  <2>1. Matches(x, x, FALSE)
    BY DEF Matches
  <2> QED
    BY <2>1, <1>0, <1>1 DEF KnownExact
<1>6. CASE On(l, x, FALSE) # {}
  <2> DEFINE i == Min(On(l, x, FALSE))
  <2>1. i \in LiveDeltas(l) /\ l.deltas[i].item = x
    BY <1>1, <1>6, LiveIs
  <2>2. l.deltas[i].type = "insert"
    BY <1>5, <1>6 DEF Holds
  <2> HIDE DEF i
  <2>3. i \in Mine(l, n)
    BY <2>1, <1>2 DEF Mine, InSegment
  <2> DEFINE e == [item |-> l.deltas[i].item, at |-> <<n, l.deltas[i].index, 0, l.deltas[i].item[1], i>>]
  <2>4. e \in Inserted(l, n) /\ e.item = x
    BY <2>1, <2>2, <2>3 DEF Inserted
  <2>5. e \in Entries(l)
    BY <2>4, <1>3 DEF Entries
  <2> QED
    BY <2>4, <2>5
<1>7. CASE On(l, x, FALSE) = {}
  <2>1. PICK p \in DOMAIN items : Matches(items[p], x, FALSE)
    BY <1>3, <1>5, <1>7 DEF Holds
  <2>2. items[p] \in PairsOf(ix)
    BY <1>4
  <2>3. items[p] = x
    <3> DEFINE y == items[p]
    <3> HIDE DEF y
    <3>1. y \in PairsOf(ix) /\ Matches(y, x, FALSE)
      BY <2>1, <2>2 DEF y
    <3>2. y = x
      BY <3>1, <1>1, SameItem
    <3> QED
      BY <3>2 DEF y
  <2>4. \A i \in Mine(l, n) : ~(l.deltas[i].index = p - 1 /\ l.deltas[i].over)
    BY <2>3, <1>2, <1>7, OverItem
  <2> DEFINE e == [item |-> Segments(l)[n].items[p], at |-> <<n, p - 1, 1, 0, 0>>]
  <2>5. e \in Kept(l, n) /\ e.item = x
    BY <2>3, <2>4, <1>3 DEF Kept
  <2>6. e \in Entries(l)
    BY <2>5, <1>3 DEF Entries
  <2> QED
    BY <2>5, <2>6
<1> QED
  BY <1>6, <1>7

LEMMA EntryFields ==
  ASSUME NEW ix, IndexOK(ix), NEW l, NEW low, NEW c, ChainOK(l, low, c, ix),
         NEW e, EntryOK(l, c, e, ix)
  PROVE  /\ e.item \in PairsOf(ix) /\ e.item[1] \in Nat
         /\ Segments(l)[e.at[1]].items \in Seq(PairsOf(ix))
         /\ Ordered(Segments(l)[e.at[1]].items, ix.unique)
<1>1. e.item \in c /\ InSegment(l, e.at[1], e.item[1])
  BY DEF EntryOK
<1>2. e.item \in PairsOf(ix)
  BY <1>1 DEF ChainOK, ContentSound
<1>3. e.at[1] \in DOMAIN Segments(l)
  BY <1>1 DEF InSegment
<1> QED
  BY <1>2, <1>3, PairFields, SegmentItems

\* An item of a base node is not twice in it.
LEMMA ItemOnce ==
  ASSUME NEW items, NEW unique, Ordered(items, unique), NEW p \in DOMAIN items, NEW q \in DOMAIN items,
         items[p] = items[q]
  PROVE  p = q
<1>1. Matches(items[p], items[q], unique)
  BY DEF Matches
<1> QED
  BY <1>1 DEF Ordered

LEMMA PlaceSame ==
  ASSUME NEW x \in Place, NEW y \in Place,
         x[1] = y[1], x[2] = y[2], x[3] = y[3], x[4] = y[4], x[5] = y[5]
  PROVE  x = y
<1>1. x = [j \in 1 .. 5 |-> x[j]] /\ y = [j \in 1 .. 5 |-> y[j]]
  BY DEF Place
<1>2. \A j \in 1 .. 5 : j = 1 \/ j = 2 \/ j = 3 \/ j = 4 \/ j = 5
  OBVIOUS
<1>3. \A j \in 1 .. 5 : x[j] = y[j]
  BY <1>2
<1> QED
  BY <1>1, <1>3

\* No item has two entries, and no two entries have one place.
LEMMA EntryOnce ==
  ASSUME NEW ix, IndexOK(ix), NEW l, NEW low, NEW c, ChainOK(l, low, c, ix),
         NEW e, EntryOK(l, c, e, ix), NEW f, EntryOK(l, c, f, ix), e.item = f.item \/ e.at = f.at
  PROVE  e = f
<1> DEFINE n == e.at[1]
           m == f.at[1]
           a == e.at[2]
           b == f.at[2]
           items == Segments(l)[n].items
           jtems == Segments(l)[m].items
           on == On(l, e.item, FALSE)
           om == On(l, f.item, FALSE)
<1>1. /\ e = [item |-> e.item, at |-> e.at] /\ e.at \in Place
      /\ e.item[1] \in Nat /\ InSegment(l, n, e.item[1]) /\ a \in 0 .. Len(items)
      /\ Ordered(items, ix.unique)
      /\ \/ /\ e.at[3] = 0 /\ on # {} /\ e.at[4] = e.item[1] /\ e.at[5] = Min(on)
            /\ l.deltas[Min(on)].item = e.item /\ l.deltas[Min(on)].index = a
         \/ /\ e.at[3] = 1 /\ on = {} /\ e.at[4] = 0 /\ e.at[5] = 0
            /\ a + 1 \in DOMAIN items /\ items[a + 1] = e.item
  BY EntryFields DEF EntryOK
<1>2. /\ f = [item |-> f.item, at |-> f.at] /\ f.at \in Place
      /\ f.item[1] \in Nat /\ InSegment(l, m, f.item[1]) /\ b \in 0 .. Len(jtems)
      /\ \/ /\ f.at[3] = 0 /\ om # {} /\ f.at[4] = f.item[1] /\ f.at[5] = Min(om)
            /\ l.deltas[Min(om)].item = f.item /\ l.deltas[Min(om)].index = b
         \/ /\ f.at[3] = 1 /\ om = {} /\ f.at[4] = 0 /\ f.at[5] = 0
            /\ b + 1 \in DOMAIN jtems /\ jtems[b + 1] = f.item
  BY EntryFields DEF EntryOK
<1>3. CASE e.item = f.item
  <2>1. n = m
    <3> DEFINE j == e.item[1]
               k == f.item[1]
    <3>1. j \in Nat /\ k \in Nat /\ InSegment(l, n, j) /\ InSegment(l, m, k) /\ j = k
      BY <1>1, <1>2, <1>3
    <3> HIDE DEF j, k, n, m
    <3> QED
      BY <3>1, SegmentsApart
  <2>2. on = om /\ items = jtems
    BY <1>3, <2>1
  <2>3. CASE on # {}
    <3>1. e.at[3] = f.at[3] /\ e.at[4] = f.at[4] /\ e.at[5] = f.at[5] /\ a = b
      BY <1>1, <1>2, <1>3, <2>2, <2>3
    <3>2. e.at = f.at
      BY <3>1, <2>1, <1>1, <1>2, PlaceSame
    <3> QED
      BY <3>2, <1>1, <1>2, <1>3
  <2>4. CASE on = {}
    <3>1. e.at[3] = f.at[3] /\ e.at[4] = f.at[4] /\ e.at[5] = f.at[5]
      BY <1>1, <1>2, <2>2, <2>4
    <3>2. a + 1 \in DOMAIN items /\ items[a + 1] = e.item /\ b + 1 \in DOMAIN items /\ items[b + 1] = e.item
      BY <1>1, <1>2, <1>3, <2>2, <2>4
    <3>3. a + 1 = b + 1
      <4> DEFINE p == a + 1
                 q == b + 1
      <4>1. p \in DOMAIN items /\ q \in DOMAIN items /\ items[p] = items[q]
        BY <3>2
      <4> HIDE DEF p, q, items
      <4>2. p = q
        BY <4>1, <1>1, ItemOnce
      <4> QED
        BY <4>2 DEF p, q
    <3>4. a = b
      <4> HIDE DEF a, b, items, jtems
      <4> QED
        BY <3>3, <1>1, <1>2
    <3>5. e.at = f.at
      BY <3>1, <3>4, <2>1, <1>1, <1>2, PlaceSame
    <3> QED
      BY <3>5, <1>1, <1>2, <1>3
  <2> QED
    BY <2>3, <2>4
<1>4. CASE e.at = f.at
  <2>1. items = jtems /\ a = b
    BY <1>4
  <2>2. CASE e.at[3] = 0
    <3>1. e.at[5] = Min(on) /\ l.deltas[Min(on)].item = e.item
      <4>1. e.at[3] # 1
        BY <2>2
      <4> HIDE DEF on, items, a, n
      <4> QED
        BY <4>1, <1>1, Zenon
    <3>2. f.at[5] = Min(om) /\ l.deltas[Min(om)].item = f.item
      <4>1. f.at[3] # 1
        BY <2>2, <1>4
      <4> HIDE DEF om, jtems, b, m
      <4> QED
        BY <4>1, <1>2, Zenon
    <3>3. e.item = f.item
      BY <3>1, <3>2, <1>4
    <3> QED
      BY <3>3, <1>1, <1>2, <1>4
  <2>3. CASE e.at[3] = 1
    <3>1. items[a + 1] = e.item /\ items[a + 1] = f.item
      BY <1>1, <1>2, <1>4, <2>1, <2>3
    <3> QED
      BY <3>1, <1>1, <1>2, <1>4
  <2> QED
    BY <1>1, <2>2, <2>3
<1> QED
  BY <1>3, <1>4

\* The entries are in the order of their keys.
LEMMA EntryOrder ==
  ASSUME NEW ix, IndexOK(ix), NEW l, NEW low, NEW c, ChainOK(l, low, c, ix),
         NEW e, EntryOK(l, c, e, ix), NEW f, EntryOK(l, c, f, ix), Precedes(e.at, f.at)
  PROVE  e.item[1] <= f.item[1]
<1> DEFINE n == e.at[1]
           m == f.at[1]
           a == e.at[2]
           b == f.at[2]
           items == Segments(l)[n].items
           jtems == Segments(l)[m].items
           j == e.item[1]
           k == f.item[1]
           on == On(l, e.item, FALSE)
           om == On(l, f.item, FALSE)
<1>1. /\ e.at \in Place /\ j \in Nat /\ InSegment(l, n, j) /\ a \in 0 .. Len(items)
      /\ items \in Seq(PairsOf(ix))
      /\ \A p \in DOMAIN items : /\ p <= a => items[p][1] <= j
                                 /\ p > a => items[p][1] >= j
      /\ \/ e.at[3] = 0 /\ e.at[4] = j
         \/ e.at[3] = 1 /\ e.at[4] = 0 /\ e.at[5] = 0
  BY EntryFields DEF EntryOK
<1>2. /\ f.at \in Place /\ k \in Nat /\ InSegment(l, m, k) /\ b \in 0 .. Len(jtems)
      /\ \A p \in DOMAIN jtems : /\ p <= b => jtems[p][1] <= k
                                 /\ p > b => jtems[p][1] >= k
      /\ \/ f.at[3] = 0 /\ f.at[4] = k
         \/ f.at[3] = 1 /\ f.at[4] = 0 /\ f.at[5] = 0 /\ b + 1 \in DOMAIN jtems /\ jtems[b + 1] = f.item
  BY EntryFields DEF EntryOK
<1>3. PICK i \in 1 .. 5 : e.at[i] < f.at[i] /\ \A h \in 1 .. i - 1 : e.at[h] = f.at[h]
  BY <1>1 DEF Precedes, Place
<1>4. \A p \in DOMAIN items : p \in Nat /\ items[p][1] \in Nat
  <2> HIDE DEF items
  <2> QED
    BY <1>1, PairFields
<1>5. DOMAIN items = 1 .. Len(items) /\ Len(items) \in Nat
  <2> HIDE DEF items
  <2> QED
    BY <1>1
<1>6. CASE i = 1
  <2>1. n < m
    BY <1>3, <1>6
  <2> HIDE DEF n, m, j, k
  <2>2. j < k
    BY <2>1, <1>1, <1>2, SegmentsApart
  <2>3. j <= k
    BY <2>2, <1>1, <1>2
  <2> QED
    BY <2>3 DEF j, k
<1>7. ASSUME i # 1 PROVE n = m /\ items = jtems
  <2>1. 1 \in 1 .. i - 1
    BY <1>7
  <2> QED
    BY <2>1, <1>3
<1>8. CASE i = 2
  <2>1. a < b /\ items = jtems
    BY <1>3, <1>7, <1>8
  <2>2. a \in Nat /\ b \in Nat /\ b <= Len(items) /\ a + 1 \in DOMAIN items /\ a + 1 > a /\ a + 1 <= b
    <3>1. a \in 0 .. Len(items) /\ b \in 0 .. Len(items)
      BY <1>1, <1>2, <2>1
    <3> HIDE DEF a, b, items
    <3> QED
      BY <3>1, <2>1, <1>5
  <2> DEFINE p == a + 1
             v == items[p][1]
  <2>3. p \in DOMAIN items /\ p > a /\ p <= b
    BY <2>2
  <2> HIDE DEF p
  <2>4. v >= j /\ v <= k /\ v \in Nat
    BY <2>1, <2>3, <1>1, <1>2, <1>4
  <2> HIDE DEF v, j, k
  <2>5. j <= k
    BY <2>4, <1>1, <1>2
  <2> QED
    BY <2>5 DEF j, k
<1>9. CASE i = 3
  <2>1. e.at[3] < f.at[3] /\ items = jtems
    BY <1>3, <1>7, <1>9
  <2>2. a = b
    <3>1. 2 \in 1 .. i - 1
      BY <1>9
    <3> QED
      BY <3>1, <1>3
  <2>3. b + 1 \in DOMAIN items /\ items[b + 1] = f.item
    BY <2>1, <1>1, <1>2
  <2> DEFINE p == b + 1
  <2>4. p \in DOMAIN items /\ p > a /\ items[p] = f.item
    <3>1. b \in Nat
      BY <1>2
    <3>2. p > a
      <4> HIDE DEF b, a
      <4> QED
        BY <3>1, <2>2
    <3> QED
      BY <2>3, <3>2
  <2> HIDE DEF p
  <2>5. k >= j
    BY <2>4, <1>1
  <2> HIDE DEF j, k
  <2>6. j <= k
    BY <2>5, <1>1, <1>2
  <2> QED
    BY <2>6 DEF j, k
<1>10. ASSUME i = 4 \/ i = 5 PROVE e.at[3] = f.at[3]
  <2>1. 3 \in 1 .. i - 1
    BY <1>10
  <2> QED
    BY <2>1, <1>3
<1>11. CASE i = 4
  <2>1. e.at[4] < f.at[4] /\ e.at[3] = f.at[3]
    BY <1>3, <1>10, <1>11
  <2>2. e.at[4] = j /\ f.at[4] = k
    BY <2>1, <1>1, <1>2
  <2>3. j < k
    BY <2>1, <2>2
  <2> HIDE DEF j, k
  <2>4. j <= k
    BY <2>3, <1>1, <1>2
  <2> QED
    BY <2>4 DEF j, k
<1>12. CASE i = 5
  <2>1. e.at[5] < f.at[5] /\ e.at[3] = f.at[3]
    BY <1>3, <1>10, <1>12
  <2>2. e.at[4] = f.at[4]
    <3>1. 4 \in 1 .. i - 1
      BY <1>12
    <3> QED
      BY <3>1, <1>3
  <2>3. e.at[4] = j /\ f.at[4] = k
    BY <2>1, <1>1, <1>2
  <2>4. j = k
    BY <2>2, <2>3
  <2> HIDE DEF j, k
  <2>5. j <= k
    BY <2>4, <1>1, <1>2
  <2> QED
    BY <2>5 DEF j, k
<1>13. i = 1 \/ i = 2 \/ i = 3 \/ i = 4 \/ i = 5
  OBVIOUS
<1> QED
  BY <1>6, <1>8, <1>9, <1>11, <1>12, <1>13

\* There is one entry for each pair that the leaf holds.
LEMMA EntriesCounted ==
  ASSUME NEW ix, IndexOK(ix), NEW l, NEW low, NEW c, ChainOK(l, low, c, ix)
  PROVE  Entered(Entries(l)) /\ Cardinality(Entries(l)) = Cardinality(c)
<1> DEFINE E == Entries(l)
<1>1. \A e \in E : e.item \in c /\ e.at \in Place
  BY EntriesOK DEF EntryOK
<1>2. \A e, f \in E : e.item = f.item \/ e.at = f.at => e = f
  BY EntriesOK, EntryOnce
<1>3. \A x \in c : \E e \in E : e.item = x
  BY EntryFor
<1>4. IsFiniteSet(c)
  BY DEF ChainOK, ContentSound
<1> DEFINE g == [x \in c |-> CHOOSE e \in E : e.item = x]
<1> HIDE DEF E
<1>5. \A x \in c : g[x] \in E /\ g[x].item = x
  BY <1>3
<1>6. \A e \in E : g[e.item] = e
  BY <1>1, <1>2, <1>5
<1>7. g \in Bijection(c, E)
  <2>1. g \in [c -> E] /\ DOMAIN g = c
    BY <1>5
  <2> HIDE DEF g
  <2>2. \A x, y \in c : g[x] = g[y] => x = y
    BY <1>5
  <2>3. \A e \in E : \E x \in c : g[x] = e
    BY <1>1, <1>6
  <2> QED
    BY <2>1, <2>2, <2>3 DEF Bijection, Injection, Surjection, IsInjective
<1>8. IsFiniteSet(E) /\ Cardinality(E) = Cardinality(c)
  <2>1. ExistsBijection(c, E)
    BY <1>7 DEF ExistsBijection
  <2> QED
    BY <2>1, <1>4, <1>7, FS_Bijection
<1> QED
  BY <1>1, <1>2, <1>8 DEF Entered, E

\* Collect() is the list of the pairs that the leaf holds.
LEMMA CollectListed ==
  ASSUME NEW ix, IndexOK(ix), NEW l, NEW low, NEW c, ChainOK(l, low, c, ix)
  PROVE  /\ ListOf(Collect(l), c, ix) /\ Len(Collect(l)) = CountOf(l)
         /\ \A p \in DOMAIN Collect(l) : Inside(l, low, Collect(l)[p][1])
<1> DEFINE E == Entries(l)
           items == Collect(l)
           N == Cardinality(c)
<1>1. Entered(E) /\ Cardinality(E) = N
  BY EntriesCounted
<1>2. /\ IsFiniteSet(c) /\ N \in Nat /\ CountOf(l) = N /\ c \in SUBSET PairsOf(ix)
      /\ \A x \in c : Inside(l, low, x[1])
      /\ \A x, y \in c : Matches(x, y, ix.unique) => x = y
  BY FS_CardinalityType DEF ChainOK, ContentSound
<1>3. \A e \in E : EntryOK(l, c, e, ix) /\ e.item \in c
  BY EntriesOK DEF EntryOK
<1>4. /\ \A p \in 1 .. N : EntryAt(E, p) \in E
      /\ \A e \in E : \E p \in 1 .. N : EntryAt(E, p) = e
      /\ \A p, q \in 1 .. N : p < q => Precedes(EntryAt(E, p).at, EntryAt(E, q).at)
  BY <1>1, EntriesInOrder
<1>5. DOMAIN items = 1 .. N /\ \A p \in 1 .. N : items[p] = EntryAt(E, p).item
  BY <1>1, CollectInOrder
<1>6. items = [p \in 1 .. N |-> items[p]]
  <2>1. items = [p \in DOMAIN items |-> items[p]]
    BY DEF Collect
  <2> HIDE DEF items, N
  <2> QED
    BY <2>1, <1>5
<1> HIDE DEF E, items, N
<1>7. \A p \in 1 .. N : items[p] \in c
  BY <1>3, <1>4, <1>5
<1>8. items \in Seq(PairsOf(ix)) /\ Len(items) = N /\ DOMAIN items = 1 .. N
  <2>1. \A p \in 1 .. N : items[p] \in PairsOf(ix)
    BY <1>2, <1>7
  <2>2. items \in [1 .. N -> PairsOf(ix)]
    BY <1>6, <2>1
  <2> QED
    BY <2>2, <1>2
<1>9. \A p, q \in 1 .. N : p < q => items[p][1] <= items[q][1]
  <2> SUFFICES ASSUME NEW p \in 1 .. N, NEW q \in 1 .. N, p < q
               PROVE  items[p][1] <= items[q][1]
    OBVIOUS
  <2> DEFINE e == EntryAt(E, p)
             f == EntryAt(E, q)
  <2>1. EntryOK(l, c, e, ix) /\ EntryOK(l, c, f, ix) /\ Precedes(e.at, f.at)
    BY <1>3, <1>4
  <2>2. items[p] = e.item /\ items[q] = f.item
    BY <1>5
  <2> HIDE DEF e, f
  <2>3. e.item[1] <= f.item[1]
    BY <2>1, EntryOrder
  <2> QED
    BY <2>2, <2>3
<1>10. \A p, q \in 1 .. N : Matches(items[p], items[q], ix.unique) => p = q
  <2> SUFFICES ASSUME NEW p \in 1 .. N, NEW q \in 1 .. N, Matches(items[p], items[q], ix.unique), p # q
               PROVE  FALSE
    OBVIOUS
  <2>1. items[p] = items[q]
    BY <1>2, <1>7
  <2> DEFINE e == EntryAt(E, p)
             f == EntryAt(E, q)
  <2>2. /\ EntryOK(l, c, e, ix) /\ EntryOK(l, c, f, ix) /\ e.at \in Place
        /\ Precedes(e.at, f.at) \/ Precedes(f.at, e.at)
    <3>1. p < q \/ q < p
      OBVIOUS
    <3> QED
      BY <3>1, <1>3, <1>4 DEF EntryOK
  <2>3. e.item = f.item
    BY <1>5, <2>1
  <2> HIDE DEF e, f
  <2>4. e = f
    BY <2>2, <2>3, EntryOnce
  <2>5. ~Precedes(e.at, e.at)
    BY <2>2, PrecedesOnce
  <2> QED
    BY <2>2, <2>4, <2>5
<1>11. \A x : x \in c <=> \E p \in DOMAIN items : items[p] = x
  <2>1. ASSUME NEW x \in c PROVE \E p \in 1 .. N : items[p] = x
    <3>1. PICK e \in E : e.item = x
      BY EntryFor DEF E
    <3>2. PICK p \in 1 .. N : EntryAt(E, p) = e
      BY <1>4
    <3> QED
      BY <3>1, <3>2, <1>5
  <2> QED
    BY <2>1, <1>7, <1>8
<1>12. ListOf(items, c, ix)
  BY <1>8, <1>9, <1>10, <1>11 DEF ListOf, Ordered
<1> QED
  BY <1>2, <1>7, <1>8, <1>12 DEF items

\* ConsolidateLeafNode() keeps what the leaf holds.
LEMMA ConsolidatedChain ==
  ASSUME NEW ix, IndexOK(ix), NEW l, NEW low, NEW c, ChainOK(l, low, c, ix)
  PROVE  /\ ChainOK(Consolidated(l), low, c, ix) /\ HighOf(Consolidated(l)) = HighOf(l)
         /\ Merges(Consolidated(l)) = {}
<1> DEFINE items == Collect(l)
           high  == HighOf(l)
<1>1. ListOf(items, c, ix)
  BY CollectListed
<1>2. \A p \in DOMAIN items : low <= items[p][1] /\ (high[2] # 0 => items[p][1] < high[1])
  <2>1. \A p \in DOMAIN items : Inside(l, low, items[p][1])
    BY CollectListed
  <2> QED
    BY <2>1 DEF Inside
<1>3. high \in Nat \X Nat /\ low \in Nat
  BY HighType DEF ChainOK
<1> DEFINE l2 == [deltas |-> <<>>, base |-> [items |-> items, high |-> high]]
<1>4. Consolidated(l) = l2
  BY DEF Consolidated
<1> HIDE DEF items, high
<1>5. ChainOK(l2, low, c, ix) /\ Merges(l2) = {} /\ HighOf(l2) = high
  BY <1>1, <1>2, <1>3, BaseChain
<1> QED
  BY <1>4, <1>5 DEF high

-----------------------------------------------------------------------------
(* The walks return what the leaf holds.                                   *)

\* A walk that knows the values of the key in its base node sees those it holds.
InBase(items, k, inBase) ==
  \A v \in Values : v \in inBase <=> \E p \in DOMAIN items : Matches(items[p], <<k, v>>, FALSE)
LEMMA ValuesSeenExact ==
  ASSUME NEW ix, IndexOK(ix), NEW l, NEW low, NEW c, ChainOK(l, low, c, ix),
         NEW k \in ix.keys, Inside(l, low, k), NEW items, items = BaseFor(l, k).items,
         NEW inBase, InBase(items, k, inBase)
  PROVE  ValuesSeen(l, k, inBase) = {v \in Values : <<k, v>> \in c}
<1>0. l \in Chains(ix) /\ KnownExact(l, low, c, ix) /\ ContentSound(l, low, c, ix)
  BY DEF ChainOK
<1>1. ASSUME NEW v \in Values
      PROVE  v \in ValuesSeen(l, k, inBase) <=> <<k, v>> \in c
  <2> DEFINE pair == <<k, v>>
             hits == On(l, pair, FALSE)
  <2>1. pair \in PairsOf(ix) /\ pair[1] = k
    BY DEF PairsOf
  <2>2. hits # {} => l.deltas[Min(hits)].type \in DeltaTypes
    <3>1. hits # {} => Min(hits) \in DOMAIN l.deltas
      BY <1>0, OnType
    <3> HIDE DEF hits
    <3> QED
      BY <3>1, <1>0, ChainFields, DeltaFields
  <2>3. v \in ValuesSeen(l, k, inBase) <=>
          \/ hits # {} /\ l.deltas[Min(hits)].type = "insert"
          \/ hits = {} /\ v \in inBase
    <3> DEFINE newest == NewestOn(l, k, v)
    <3>1. v \in ValuesSeen(l, k, inBase) <=> newest = "insert" \/ (newest = "none" /\ v \in inBase)
      <4> HIDE DEF pair, hits
      <4> QED
        BY Zenon DEF ValuesSeen
    <3>2. newest = IF hits = {} THEN "none" ELSE l.deltas[Min(hits)].type
      BY DEF NewestOn
    <3> HIDE DEF hits, newest, pair
    <3>3. CASE hits = {}
      <4>1. newest = "none"
        BY <3>2, <3>3
      <4> QED
        BY <4>1, <3>1, <3>3
    <3>4. CASE hits # {}
      <4>1. newest = l.deltas[Min(hits)].type /\ newest # "none"
        BY <3>2, <3>4, <2>2 DEF DeltaTypes
      <4> QED
        BY <4>1, <3>1, <3>4
    <3> QED
      BY <3>3, <3>4
  <2>4. Holds(l, pair, FALSE) <=>
          IF hits # {} THEN l.deltas[Min(hits)].type = "insert"
          ELSE \E p \in DOMAIN items : Matches(items[p], pair, FALSE)
    BY <2>1 DEF Holds
  <2>5. v \in ValuesSeen(l, k, inBase) <=> Holds(l, pair, FALSE)
    <3>1. v \in inBase <=> \E p \in DOMAIN items : Matches(items[p], pair, FALSE)
      BY DEF InBase
    <3> HIDE DEF hits, pair
    <3> QED
      BY <3>1, <2>3, <2>4
  <2>6. Holds(l, pair, FALSE) <=> \E x \in c : Matches(x, pair, FALSE)
    BY <2>1, <1>0 DEF KnownExact
  <2>7. (\E x \in c : Matches(x, pair, FALSE)) <=> pair \in c
    <3>1. Matches(pair, pair, FALSE)
      BY DEF Matches
    <3>2. \A x \in c : x \in PairsOf(ix)
      BY <1>0 DEF ContentSound
    <3> HIDE DEF pair
    <3>3. \A x \in c : Matches(x, pair, FALSE) => x = pair
      BY <3>2, <2>1, SameItem
    <3> QED
      BY <3>1, <3>3
  <2> QED
    BY <2>5, <2>6, <2>7
<1>2. ValuesSeen(l, k, inBase) \in SUBSET Values
  BY DEF ValuesSeen
<1> QED
  BY <1>1, <1>2

\* The values of the key among the items at the indexes I.
ValuesAt(items, I) == {items[i][2] : i \in I}
LEMMA ValuesAtExact ==
  ASSUME NEW ix, IndexOK(ix), NEW items \in Seq(PairsOf(ix)), NEW k,
         NEW I, \A i : i \in I <=> i \in DOMAIN items /\ items[i][1] = k
  PROVE  InBase(items, k, ValuesAt(items, I))
<1>1. ASSUME NEW v \in Values
      PROVE  v \in ValuesAt(items, I) <=> \E p \in DOMAIN items : items[p][1] = k /\ items[p][2] = v
  BY DEF ValuesAt
<1>2. ASSUME NEW v \in Values, NEW p \in DOMAIN items
      PROVE  Matches(items[p], <<k, v>>, FALSE) <=> items[p][1] = k /\ items[p][2] = v
  BY DEF Matches
<1> QED
  BY <1>1, <1>2 DEF InBase

LEMMA PredicateExact ==
  ASSUME NEW ix, IndexOK(ix), NEW l, NEW low, NEW c, ChainOK(l, low, c, ix),
         NEW k \in ix.keys, Inside(l, low, k)
  PROVE  NavigatePredicate(l, k) = {v \in Values : <<k, v>> \in c}
<1> DEFINE items == BaseFor(l, k).items
           I     == {q \in DOMAIN items : items[q][1] = k}
<1>1. items \in Seq(PairsOf(ix))
  BY BaseForOrdered, BaseFields
<1>2. NavigatePredicate(l, k) = ValuesSeen(l, k, ValuesAt(items, I))
  BY DEF NavigatePredicate, ValuesAt
<1>3. InBase(items, k, ValuesAt(items, I))
  <2>1. \A i : i \in I <=> i \in DOMAIN items /\ items[i][1] = k
    OBVIOUS
  <2> HIDE DEF items, I
  <2> QED
    BY <1>1, <2>1, ValuesAtExact
<1>4. items = BaseFor(l, k).items
  OBVIOUS
<1> HIDE DEF items, I
<1> QED
  BY <1>2, <1>3, <1>4, ValuesSeenExact

LEMMA ValueExact ==
  ASSUME NEW ix, IndexOK(ix), NEW l, NEW low, NEW c, ChainOK(l, low, c, ix),
         NEW k \in ix.keys, Inside(l, low, k), NEW v \in Values
  PROVE  /\ NavigateValue(l, k, v, FALSE).found <=> <<k, v>> \in c
         /\ NavigateValue(l, k, v, ix.unique).found <=>
              \E w \in (IF ix.unique THEN Values ELSE {v}) : <<k, w>> \in c
<1> DEFINE pair == <<k, v>>
<1>0. KnownExact(l, low, c, ix) /\ ContentSound(l, low, c, ix)
  BY DEF ChainOK
<1>1. pair \in PairsOf(ix) /\ pair[1] = k /\ pair[2] = v
  BY DEF PairsOf
<1>2. \A x \in c : x \in PairsOf(ix) /\ x = <<x[1], x[2]>> /\ x[2] \in Values
  BY <1>0, PairFields DEF ContentSound
<1>3. ASSUME NEW unique \in {FALSE, ix.unique}
      PROVE  NavigateValue(l, k, v, unique).found <=> \E x \in c : Matches(x, pair, unique)
  <2>1. NavigateValue(l, k, v, unique).found <=> Holds(l, pair, unique)
    BY NavigateFound
  <2> QED
    BY <2>1, <1>0, <1>1 DEF KnownExact
<1>4. (\E x \in c : Matches(x, pair, FALSE)) <=> <<k, v>> \in c
  BY <1>1, <1>2 DEF Matches
<1>5. ix.unique = TRUE => ((\E x \in c : Matches(x, pair, TRUE)) <=> \E w \in Values : <<k, w>> \in c)
  <2>1. ASSUME NEW x \in c, Matches(x, pair, TRUE) PROVE \E w \in Values : <<k, w>> \in c
    <3>1. x[1] = k
      BY <2>1, <1>1 DEF Matches
    <3>2. <<k, x[2]>> \in c /\ x[2] \in Values
      BY <3>1, <1>2
    <3> QED
      BY <3>2
  <2>2. ASSUME NEW w \in Values, <<k, w>> \in c PROVE \E x \in c : Matches(x, pair, TRUE)
    <3>1. Matches(<<k, w>>, pair, TRUE)
      BY <1>1 DEF Matches
    <3> QED
      BY <3>1, <2>2
  <2> QED
    BY <2>1, <2>2
<1>6. NavigateValue(l, k, v, FALSE).found <=> <<k, v>> \in c
  BY <1>3, <1>4
<1>7. CASE ix.unique = TRUE
  <2>1. NavigateValue(l, k, v, TRUE).found <=> \E x \in c : Matches(x, pair, TRUE)
    BY <1>3, <1>7
  <2>2. NavigateValue(l, k, v, TRUE).found <=> \E w \in Values : <<k, w>> \in c
    BY <2>1, <1>5, <1>7
  <2> QED
    BY <2>2, <1>6, <1>7
<1>8. CASE ix.unique = FALSE
  <2>1. (\E w \in {v} : <<k, w>> \in c) <=> <<k, v>> \in c
    OBVIOUS
  <2>2. NavigateValue(l, k, v, FALSE).found <=> \E w \in {v} : <<k, w>> \in c
    BY <2>1, <1>6
  <2> QED
    BY <2>2, <1>6, <1>8
<1> QED
  BY <1>7, <1>8 DEF IndexOK

\* Without data deltas above a merge delta, all that a search comes past are about
\* the base node that it ends in.
LEMMA SameBase ==
  ASSUME NEW ix, IndexOK(ix), NEW l, NEW low, NEW c, ChainOK(l, low, c, ix), ~PostedOnMerge(l.deltas),
         NEW k \in Nat, NEW i \in Visited(l, k), IsData(l.deltas[i])
  PROVE  BaseFor(l, l.deltas[i].item[1]) = BaseFor(l, k)
<1>0. l \in Chains(ix) /\ MergesSound(l, ix.unique)
  BY DEF ChainOK
<1> DEFINE j == l.deltas[i].item[1]
<1>1. /\ i \in DOMAIN l.deltas /\ i \in Nat /\ l.deltas[i].type # "merge" /\ j \in Nat
      /\ \A turn \in RightTurns(l, k) : i <= turn
  <2>1. i \in DOMAIN l.deltas
    BY DEF Visited
  <2>2. i \in Nat /\ l.deltas[i] \in Deltas(ix)
    BY <2>1, <1>0, ChainFields
  <2>3. l.deltas[i].type # "merge"
    BY DEF IsData
  <2> QED
    BY <2>1, <2>2, <2>3, DeltaFields DEF Visited
<1>2. \A m \in Merges(l) : m \in DOMAIN l.deltas /\ m \in Nat /\ l.deltas[m].type = "merge" /\ m # i
  BY <1>1, <1>0, TurnsType DEF Merges
<1>3. \A m \in Merges(l) : m < i
  <2> SUFFICES ASSUME NEW m \in Merges(l), ~(m < i) PROVE FALSE
    OBVIOUS
  <2>1. i < m
    BY <1>1, <1>2
  <2> QED
    BY <2>1, <1>1, <1>2 DEF PostedOnMerge
<1>4. RightTurns(l, k) = {}
  <2> SUFFICES ASSUME NEW m \in RightTurns(l, k) PROVE FALSE
    OBVIOUS
  <2>1. m \in Merges(l) /\ i <= m
    BY <1>1 DEF RightTurns, Merges
  <2> QED
    BY <2>1, <1>1, <1>2, <1>3
<1>5. RightTurns(l, j) = {}
  <2> SUFFICES ASSUME NEW m \in RightTurns(l, j) PROVE FALSE
    OBVIOUS
  <2>1. m \in Merges(l) /\ j >= l.deltas[m].item[1]
    BY DEF RightTurns, Merges
  <2>2. m < i /\ i > m
    BY <2>1, <1>1, <1>2, <1>3
  <2>3. j < l.deltas[m].item[1]
    BY <2>1, <2>2, <1>0, <1>1 DEF MergesSound
  <2>4. l.deltas[m].item[1] \in Nat
    BY <2>1, <1>0, <1>2, ChainFields, DeltaFields
  <2> DEFINE key == l.deltas[m].item[1]
  <2> HIDE DEF j, key
  <2>5. j >= key /\ j < key /\ key \in Nat
    BY <2>1, <2>3, <2>4 DEF key, j
  <2> QED
    BY <2>5, <1>1
<1> QED
  BY <1>4, <1>5 DEF BaseFor

\* The indexes that deltas on other keys give bound the items of the key.
Bounds(items, k, s, t) ==
  /\ s \in 0 .. Len(items) /\ t \in 0 .. Len(items)
  /\ \A p \in DOMAIN items : items[p][1] = k => s < p /\ p <= t
LEMMA DeltaBounds ==
  ASSUME NEW ix, IndexOK(ix), NEW l, NEW low, NEW c, ChainOK(l, low, c, ix), ~PostedOnMerge(l.deltas),
         NEW k \in Nat, NEW items, items = BaseFor(l, k).items,
         NEW i \in Visited(l, k), NEW d, d = l.deltas[i], IsData(d)
  PROVE  /\ d.index \in 0 .. Len(items)
         /\ \A p \in DOMAIN items : items[p][1] = k => /\ d.item[1] < k => d.index < p
                                                       /\ d.item[1] > k => p <= d.index
<1>1. i \in DOMAIN l.deltas
  BY DEF Visited
<1>2. d.item \in PairsOf(ix) /\ Placed(l, d.item, d.index, d.over, ix.unique) /\ d.item[1] \in Nat
  BY <1>1, PairFields DEF ChainOK, DeltasSound
<1>3. BaseFor(l, d.item[1]).items = items
  BY SameBase
<1>4. items \in Seq(PairsOf(ix)) /\ Ordered(items, ix.unique)
  BY BaseForOrdered, BaseFields
<1>5. /\ d.index \in 0 .. Len(items)
      /\ \A p \in DOMAIN items : /\ p <= d.index => items[p][1] <= d.item[1]
                                 /\ p > d.index => items[p][1] >= d.item[1]
  BY <1>2, <1>3, <1>4, PlacedBounds
<1> DEFINE j == d.item[1]
           a == d.index
<1>6. ASSUME NEW p \in DOMAIN items, items[p][1] = k
      PROVE  (j < k => a < p) /\ (j > k => p <= a)
  <2>1. (p <= a => k <= j) /\ (p > a => k >= j) /\ p \in Nat /\ a \in Nat /\ j \in Nat
    BY <1>2, <1>4, <1>5, <1>6
  <2> HIDE DEF j, a
  <2> QED
    BY <2>1
<1> QED
  BY <1>5, <1>6

LEMMA ReadBounds ==
  ASSUME NEW ix, IndexOK(ix), NEW l, NEW low, NEW c, ChainOK(l, low, c, ix), ~PostedOnMerge(l.deltas),
         NEW k \in Nat, NEW items, items = BaseFor(l, k).items
  PROVE  Bounds(items, k, StartIndex(l, k), EndIndex(l, k))
<1> DEFINE smaller == {i \in Visited(l, k) : IsData(l.deltas[i]) /\ l.deltas[i].item[1] < k}
           greater == {i \in Visited(l, k) : IsData(l.deltas[i]) /\ l.deltas[i].item[1] > k}
           s == StartIndex(l, k)
           t == EndIndex(l, k)
<1>0. l \in Chains(ix)
  BY DEF ChainOK
<1>1. items \in Seq(PairsOf(ix)) /\ Len(items) \in Nat /\ DOMAIN items = 1 .. Len(items)
  BY BaseForOrdered, BaseFields
<1>2. IsFiniteSet(Visited(l, k)) /\ Visited(l, k) \in SUBSET Nat
  <2>1. Visited(l, k) \in SUBSET (1 .. Len(l.deltas)) /\ Len(l.deltas) \in Nat
    BY <1>0, ChainFields, TurnsType
  <2>2. IsFiniteSet(1 .. Len(l.deltas))
    <3>1. 1 \in Int /\ Len(l.deltas) \in Int
      BY <2>1
    <3> QED
      BY <3>1, FS_Interval
  <2> QED
    BY <2>1, <2>2, FS_Subset
<1>3. ASSUME NEW S \in SUBSET Visited(l, k), S # {}
      PROVE  Max(S) \in S
  <2>1. IsFiniteSet(S) /\ S \in SUBSET Nat
    BY <1>2, FS_Subset
  <2> QED
    BY <2>1, <1>3, MaxIn
<1>4. ASSUME NEW i \in Visited(l, k), IsData(l.deltas[i])
      PROVE  /\ l.deltas[i].index \in 0 .. Len(items)
             /\ \A p \in DOMAIN items : items[p][1] = k =>
                  /\ l.deltas[i].item[1] < k => l.deltas[i].index < p
                  /\ l.deltas[i].item[1] > k => p <= l.deltas[i].index
  BY <1>4, DeltaBounds
<1>5. s \in 0 .. Len(items) /\ \A p \in DOMAIN items : items[p][1] = k => s < p
  <2>1. CASE smaller = {}
    <3>1. s = 0
      BY <2>1 DEF StartIndex
    <3> HIDE DEF s
    <3> QED
      BY <3>1, <1>1
  <2>2. CASE smaller # {}
    <3>1. s = l.deltas[Max(smaller)].index
      BY <2>2 DEF StartIndex
    <3>2. smaller \in SUBSET Visited(l, k)
      OBVIOUS
    <3>3. Max(smaller) \in smaller
      <4> HIDE DEF smaller
      <4> QED
        BY <2>2, <3>2, <1>3
    <3> DEFINE i == Max(smaller)
    <3>4. i \in Visited(l, k) /\ IsData(l.deltas[i]) /\ l.deltas[i].item[1] < k
      <4> HIDE DEF i
      <4> QED
        BY <3>3 DEF i
    <3>5. s = l.deltas[i].index
      BY <3>1
    <3> HIDE DEF i, s
    <3> QED
      BY <3>4, <3>5, <1>4
  <2> QED
    BY <2>1, <2>2
<1>6. t \in 0 .. Len(items) /\ \A p \in DOMAIN items : items[p][1] = k => p <= t
  <2>1. CASE greater = {}
    <3>1. t = Len(items)
      BY <2>1 DEF EndIndex
    <3> HIDE DEF t
    <3> QED
      BY <3>1, <1>1
  <2>2. CASE greater # {}
    <3>1. t = l.deltas[Max(greater)].index
      BY <2>2 DEF EndIndex
    <3>2. greater \in SUBSET Visited(l, k)
      OBVIOUS
    <3>3. Max(greater) \in greater
      <4> HIDE DEF greater
      <4> QED
        BY <2>2, <3>2, <1>3
    <3> DEFINE i == Max(greater)
    <3>4. i \in Visited(l, k) /\ IsData(l.deltas[i]) /\ l.deltas[i].item[1] > k
      <4> HIDE DEF i
      <4> QED
        BY <3>3 DEF i
    <3>5. t = l.deltas[i].index
      BY <3>1
    <3> HIDE DEF i, t
    <3> QED
      BY <3>4, <3>5, <1>4
  <2> QED
    BY <2>1, <2>2
<1> HIDE DEF s, t
<1>7. Bounds(items, k, s, t)
  BY <1>5, <1>6 DEF Bounds
<1> QED
  BY <1>7 DEF s, t

\* Where the read starts, and the items that it reads from there.
Window(items, s, t) == {i \in DOMAIN items : s < i /\ i <= t}
ReadFirst(items, k, s, t) ==
  IF \E i \in Window(items, s, t) : items[i][1] >= k
    THEN Min({i \in Window(items, s, t) : items[i][1] >= k})
    ELSE Max({s, t}) + 1
ReadAt(items, k, first) == {i \in DOMAIN items : i >= first /\ \A j \in first .. i : items[j][1] = k}

LEMMA ReadsKey ==
  ASSUME NEW ix, IndexOK(ix), NEW items \in Seq(PairsOf(ix)), Ordered(items, ix.unique), NEW k \in Nat,
         NEW s, NEW t, Bounds(items, k, s, t), NEW first, first = ReadFirst(items, k, s, t)
  PROVE  \A i : i \in ReadAt(items, k, first) <=> i \in DOMAIN items /\ items[i][1] = k
<1> DEFINE W == Window(items, s, t)
           S == {i \in W : items[i][1] >= k}
<1>1. /\ DOMAIN items = 1 .. Len(items) /\ Len(items) \in Nat
      /\ \A p \in DOMAIN items : p \in Nat /\ items[p][1] \in Nat
  BY PairFields
<1>2. s \in Nat /\ t \in Nat /\ \A p \in DOMAIN items : items[p][1] = k => s < p /\ p <= t
  BY <1>1 DEF Bounds
<1>3. /\ S \in SUBSET Nat /\ S \in SUBSET DOMAIN items /\ \A i \in S : items[i][1] >= k
      /\ \A i \in DOMAIN items : items[i][1] = k => i \in S
  <2>1. \A i : i \in W <=> i \in DOMAIN items /\ s < i /\ i <= t
    BY DEF Window
  <2> HIDE DEF W
  <2>2. ASSUME NEW i \in DOMAIN items, items[i][1] = k PROVE i \in S
    <3>1. i \in W
      BY <2>1, <2>2, <1>2
    <3>2. items[i][1] >= k
      BY <2>2
    <3> QED
      BY <3>1, <3>2
  <2>3. S \in SUBSET DOMAIN items /\ \A i \in S : items[i][1] >= k
    BY <2>1
  <2>4. S \in SUBSET Nat
    <3> HIDE DEF S
    <3> QED
      BY <2>3, <1>1
  <2> QED
    BY <2>2, <2>3, <2>4
<1>4. S # {} => first = Min(S) /\ first \in S /\ \A y \in S : first <= y
  <2>1. ASSUME S # {} PROVE first = Min(S)
    BY <2>1 DEF ReadFirst
  <2> HIDE DEF S
  <2> QED
    BY <2>1, <1>3, MinIn
<1>5. S = {} => first \in Nat
  <2>1. S = {} => first = Max({s, t}) + 1
    BY DEF ReadFirst
  <2>2. Max({s, t}) \in Nat
    <3>1. {s, t} \in SUBSET Nat
      BY <1>2
    <3>2. CASE s <= t
      <4>1. t \in {s, t} /\ \A y \in {s, t} : y <= t
        BY <3>2, <1>2
      <4>2. Max({s, t}) = t
        BY <4>1, <3>1, MaxIs
      <4> QED
        BY <4>2, <1>2
    <3>3. CASE ~(s <= t)
      <4>1. s \in {s, t} /\ \A y \in {s, t} : y <= s
        BY <3>3, <1>2
      <4>2. Max({s, t}) = s
        BY <4>1, <3>1, MaxIs
      <4> QED
        BY <4>2, <1>2
    <3> QED
      BY <3>2, <3>3
  <2> HIDE DEF S
  <2> QED
    BY <2>1, <2>2
<1>6. first \in Nat
  BY <1>3, <1>4, <1>5
<1> HIDE DEF S
<1>7. ASSUME NEW i \in ReadAt(items, k, first)
      PROVE  i \in DOMAIN items /\ items[i][1] = k
  <2>1. i \in DOMAIN items /\ i >= first /\ \A j \in first .. i : items[j][1] = k
    BY DEF ReadAt
  <2>2. i \in first .. i
    BY <2>1, <1>1, <1>6
  <2> QED
    BY <2>1, <2>2
<1>8. ASSUME NEW i \in DOMAIN items, items[i][1] = k
      PROVE  i \in ReadAt(items, k, first)
  <2>1. i \in S /\ i \in Nat
    BY <1>1, <1>3, <1>8
  <2>2. first <= i /\ first \in DOMAIN items /\ items[first][1] >= k
    BY <2>1, <1>3, <1>4
  <2>3. ASSUME NEW j \in first .. i PROVE items[j][1] = k
    <3>1. j \in DOMAIN items /\ j \in Nat /\ first <= j /\ j <= i
      BY <2>2, <2>3, <1>1, <1>6
    <3> DEFINE v == items[j][1]
               w == items[first][1]
    <3>2. v \in Nat /\ w \in Nat /\ w >= k
      BY <3>1, <2>2, <1>1
    <3>3. first < j => w <= v
      BY <3>1, <2>2 DEF Ordered
    <3>4. first = j => w = v
      OBVIOUS
    <3>5. j < i => v <= k
      BY <3>1, <1>8 DEF Ordered
    <3>6. j = i => v = k
      BY <1>8
    <3> HIDE DEF v, w
    <3>7. v = k
      BY <3>1, <3>2, <3>3, <3>4, <3>5, <3>6, <2>1, <1>6
    <3> QED
      BY <3>7 DEF v
  <2>4. i >= first
    BY <2>1, <2>2, <1>6
  <2> QED
    BY <2>3, <2>4 DEF ReadAt
<1> QED
  BY <1>7, <1>8

LEMMA ReadsExact ==
  ASSUME NEW ix, IndexOK(ix), NEW l, NEW low, NEW c, ChainOK(l, low, c, ix), ~PostedOnMerge(l.deltas),
         NEW k \in ix.keys, Inside(l, low, k)
  PROVE  NavigateRead(l, k) = {v \in Values : <<k, v>> \in c}
<1> DEFINE items == BaseFor(l, k).items
           s     == StartIndex(l, k)
           t     == EndIndex(l, k)
           first == ReadFirst(items, k, s, t)
           I     == ReadAt(items, k, first)
<1>1. items \in Seq(PairsOf(ix)) /\ Ordered(items, ix.unique) /\ k \in Nat
  BY BaseForOrdered, BaseFields DEF IndexOK
<1>2. NavigateRead(l, k) = ValuesSeen(l, k, ValuesAt(items, I))
  BY DEF NavigateRead, ValuesAt, ReadAt, ReadFirst, Window
<1>3. items = BaseFor(l, k).items /\ first = ReadFirst(items, k, s, t)
  OBVIOUS
<1>4. Bounds(items, k, s, t)
  BY <1>1, ReadBounds
<1> HIDE DEF items, s, t, first
<1>5. \A i : i \in I <=> i \in DOMAIN items /\ items[i][1] = k
  BY <1>1, <1>3, <1>4, ReadsKey
<1> HIDE DEF I
<1>6. InBase(items, k, ValuesAt(items, I))
  BY <1>1, <1>5, ValuesAtExact
<1> QED
  BY <1>2, <1>3, <1>6, ValuesSeenExact

-----------------------------------------------------------------------------
(* Each operation keeps the invariant.                                     *)

LEMMA ChainUsed ==
  ASSUME NEW ix, NEW l, NEW low, NEW c, ChainOK(l, low, c, ix)
  PROVE  l # NoLeaf /\ l \in Chains(ix) /\ c \in SUBSET PairsOf(ix)
<1>1. l \in Chains(ix) /\ c \in SUBSET PairsOf(ix)
  BY DEF ChainOK, ContentSound
<1>2. l.base.high \in Nat \X Nat
  BY <1>1, ChainFields DEF BaseNodes
<1>3. NoLeaf.base.high \notin Nat \X Nat
  BY DEF NoLeaf
<1> QED
  BY <1>1, <1>2, <1>3

\* The least key a leaf may have.
LowOf(i) == IF i = 1 THEN 0 ELSE HighOf(leaf[1])[1]

LEMMA LeafUsed ==
  ASSUME LeafInv, NEW i \in 1 .. 2, InUse(i)
  PROVE  /\ ChainOK(leaf[i], LowOf(i), content[i], index) /\ IndexOK(index) /\ index \in Indexes
         /\ leaf[i] \in Chains(index) /\ LowOf(i) \in Nat
<1>1. LeavesOK(leaf[1], leaf[2], content[1], content[2], index) /\ index \in Indexes
  BY DEF LeafInv
<1>2. IndexOK(index)
  BY <1>1, IndexAssumed
<1>3. ChainOK(leaf[i], LowOf(i), content[i], index)
  <2>1. CASE i = 1
    BY <2>1, <1>1 DEF LeavesOK, LowOf
  <2>2. CASE i = 2
    <3>1. leaf[2] # NoLeaf
      BY <2>2 DEF InUse
    <3> QED
      BY <3>1, <2>2, <1>1 DEF LeavesOK, LowOf
  <2> QED
    BY <2>1, <2>2
<1>4. LowOf(i) \in Nat
  BY <1>3 DEF ChainOK
<1> QED
  BY <1>1, <1>2, <1>3, <1>4, ChainUsed

LEMMA LeafOwned ==
  ASSUME LeafInv, NEW i \in 1 .. 2, NEW k \in Keys, Owns(i, k)
  PROVE  /\ InUse(i) /\ Inside(leaf[i], LowOf(i), k) /\ k \in index.keys /\ k \in Nat
<1>1. InUse(i) /\ (HighOf(leaf[i])[2] # 0 => k < HighOf(leaf[i])[1]) /\ (i = 2 => k >= HighOf(leaf[1])[1])
  BY DEF Owns
<1>2. k \in index.keys /\ k \in Nat
  BY <1>1, LeafUsed DEF Keys, IndexOK
<1>3. LowOf(i) <= k
  <2>1. CASE i = 1
    BY <2>1, <1>2 DEF LowOf
  <2>2. CASE i = 2
    <3> DEFINE h == HighOf(leaf[1])[1]
    <3>1. LowOf(i) = h /\ k >= h /\ LowOf(i) \in Nat
      BY <1>1, <2>2, LeafUsed DEF LowOf
    <3> HIDE DEF h
    <3> QED
      BY <3>1, <1>2
  <2> QED
    BY <2>1, <2>2
<1> QED
  BY <1>1, <1>2, <1>3 DEF Inside

\* One leaf is replaced by another with the same high key.
LEMMA LeafReplaced ==
  ASSUME LeafInv, NEW i \in 1 .. 2, InUse(i), NEW l, NEW c,
         ChainOK(l, LowOf(i), c, index), HighOf(l) = HighOf(leaf[i]),
         Merges(leaf[i]) = {} => Merges(l) = {},
         leaf' = [leaf EXCEPT ![i] = l], content' = [content EXCEPT ![i] = c], index' = index
  PROVE  LeafInv'
<1>1. /\ DOMAIN leaf = 1 .. 2 /\ content \in [1 .. 2 -> SUBSET Pairs]
      /\ LeavesOK(leaf[1], leaf[2], content[1], content[2], index) /\ index \in Indexes
  BY DEF LeafInv
<1>2. DOMAIN leaf' = 1 .. 2 /\ content' \in [1 .. 2 -> SUBSET Pairs'] /\ index' \in Indexes
  <2>1. Pairs' = Pairs /\ Pairs = PairsOf(index)
    BY DEF Pairs, Keys, PairsOf
  <2>2. c \in SUBSET Pairs
    BY <2>1, ChainUsed
  <2> QED
    BY <2>1, <2>2, <1>1
<1>3. CASE i = 1
  <2>1. leaf'[1] = l /\ leaf'[2] = leaf[2] /\ content'[1] = c /\ content'[2] = content[2]
    BY <1>1, <1>3
  <2>2. LeavesOK(l, leaf[2], c, content[2], index)
    BY <1>1, <1>3 DEF LeavesOK, LowOf
  <2> QED
    BY <2>1, <2>2, <1>2 DEF LeafInv
<1>4. CASE i = 2
  <2>1. leaf'[1] = leaf[1] /\ leaf'[2] = l /\ content'[1] = content[1] /\ content'[2] = c
    BY <1>1, <1>4
  <2>2. leaf[2] # NoLeaf
    BY <1>4 DEF InUse
  <2>3. LeavesOK(leaf[1], l, content[1], c, index)
    BY <2>2, <1>1, <1>4 DEF LeavesOK, LowOf
  <2> QED
    BY <2>1, <2>3, <1>2 DEF LeafInv
<1> QED
  BY <1>3, <1>4

\* Both leaves are replaced.
LEMMA LeavesReplaced ==
  ASSUME LeafInv, NEW l1, NEW l2, NEW c1, NEW c2, LeavesOK(l1, l2, c1, c2, index),
         leaf' = <<l1, l2>>, content' = <<c1, c2>>, index' = index
  PROVE  LeafInv'
<1>1. index \in Indexes
  BY DEF LeafInv
<1>2. Pairs' = Pairs /\ Pairs = PairsOf(index)
  BY DEF Pairs, Keys, PairsOf
<1>3. c1 \in SUBSET Pairs /\ c2 \in SUBSET Pairs
  BY <1>2, ChainUsed DEF LeavesOK
<1>4. DOMAIN leaf' = 1 .. 2 /\ leaf'[1] = l1 /\ leaf'[2] = l2 /\ content'[1] = c1 /\ content'[2] = c2
  OBVIOUS
<1>5. content' \in [1 .. 2 -> SUBSET Pairs']
  <2>1. content' = [i \in 1 .. 2 |-> content'[i]]
    OBVIOUS
  <2>2. \A i \in 1 .. 2 : content'[i] \in SUBSET Pairs'
    BY <1>2, <1>3, <1>4
  <2> QED
    BY <2>1, <2>2
<1> QED
  BY <1>1, <1>4, <1>5 DEF LeafInv

\* A data delta leaves the high key and the merges as they are.
LEMMA DataPushed ==
  ASSUME NEW ix, NEW l \in Chains(ix), NEW d \in Deltas(ix), IsData(d), d.high = HighOf(l)
  PROVE  HighOf(Push(l, d)) = HighOf(l) /\ (Merges(l) = {} => Merges(Push(l, d)) = {})
<1>1. d.type # "merge"
  BY DEF IsData
<1>2. HighOf(Push(l, d)) = d.high
  BY PushFields
<1>3. Merges(Push(l, d)) = Shift(Merges(l))
  BY <1>1, PushTurns
<1> QED
  BY <1>2, <1>3 DEF Shift

NoneOf(c, pair, unique) == \A x \in c : ~Matches(x, pair, unique)
PlacedAt(l, pair, at, unique) == at[2] \in BOOLEAN /\ Placed(l, pair, at[1], at[2], unique)
LEMMA InsertStep ==
  ASSUME NEW ix, IndexOK(ix), NEW l, NEW low, NEW c, ChainOK(l, low, c, ix),
         NEW pair \in PairsOf(ix), Inside(l, low, pair[1]), DepthOf(l) < MaxDepth,
         NoneOf(c, pair, ix.unique), NEW at, PlacedAt(l, pair, at, ix.unique),
         NEW l2, l2 = Push(l, LeafInsertNode(l, pair, at)), NEW c2, c2 = c \cup {pair}
  PROVE  /\ ChainOK(l2, low, c2, ix) /\ HighOf(l2) = HighOf(l)
         /\ Merges(l) = {} => Merges(l2) = {}
<1> DEFINE d == LeafInsertNode(l, pair, at)
<1>1. ChainOK(l2, low, c2, ix) /\ d \in Deltas(ix)
  BY InsertChain DEF NoneOf, PlacedAt
<1>2. IsData(d) /\ d.high = HighOf(l)
  BY DEF LeafInsertNode, IsData
<1>3. l \in Chains(ix) /\ l2 = Push(l, d)
  BY DEF ChainOK
<1> HIDE DEF d
<1>4. HighOf(l2) = HighOf(l) /\ (Merges(l) = {} => Merges(l2) = {})
  BY <1>1, <1>2, <1>3, DataPushed
<1> QED
  BY <1>1, <1>4

LEMMA DeleteStep ==
  ASSUME NEW ix, IndexOK(ix), NEW l, NEW low, NEW c, ChainOK(l, low, c, ix),
         NEW pair \in c, DepthOf(l) < MaxDepth,
         NEW at, PlacedAt(l, pair, at, ix.unique),
         NEW l2, l2 = Push(l, LeafDeleteNode(l, pair, at)), NEW c2, c2 = c \ {pair}
  PROVE  /\ ChainOK(l2, low, c2, ix) /\ HighOf(l2) = HighOf(l)
         /\ Merges(l) = {} => Merges(l2) = {}
<1> DEFINE d == LeafDeleteNode(l, pair, at)
<1>1. ChainOK(l2, low, c2, ix) /\ d \in Deltas(ix)
  BY DeleteChain DEF PlacedAt
<1>2. IsData(d) /\ d.high = HighOf(l)
  BY DEF LeafDeleteNode, IsData
<1>3. l \in Chains(ix) /\ l2 = Push(l, d)
  BY DEF ChainOK
<1> HIDE DEF d
<1>4. HighOf(l2) = HighOf(l) /\ (Merges(l) = {} => Merges(l2) = {})
  BY <1>1, <1>2, <1>3, DataPushed
<1> QED
  BY <1>1, <1>4

\* A pair that a walk of Insert() does not find is matched by none of the leaf.
LEMMA NoneMatches ==
  ASSUME NEW ix, IndexOK(ix), NEW l, NEW low, NEW c, ChainOK(l, low, c, ix),
         NEW k \in ix.keys, Inside(l, low, k), NEW v \in Values,
         ~NavigateValue(l, k, v, ix.unique).found
  PROVE  \A x \in c : ~Matches(x, <<k, v>>, ix.unique)
<1>1. ~Holds(l, <<k, v>>, ix.unique)
  BY NavigateFound
<1> DEFINE pair == <<k, v>>
<1>2. pair \in PairsOf(ix) /\ Inside(l, low, pair[1])
  BY DEF PairsOf
<1>3. KnownExact(l, low, c, ix)
  BY DEF ChainOK
<1> HIDE DEF pair
<1>4. ~Holds(l, pair, ix.unique)
  BY <1>1 DEF pair
<1>5. \A x \in c : ~Matches(x, pair, ix.unique)
  BY <1>2, <1>3, <1>4 DEF KnownExact
<1> QED
  BY <1>5 DEF pair

LEMMA InsertKeeps ==
  ASSUME LeafInv, NEW i \in 1 .. 2, NEW k \in Keys, NEW v \in Values, Insert(i, k, v)
  PROVE  LeafInv'
<1> DEFINE nav  == NavigateValue(leaf[i], k, v, UniqueKeys)
           at   == nav.at
           l    == leaf[i]
           low  == LowOf(i)
           c    == content[i]
           pair == <<k, v>>
           l2   == Push(l, LeafInsertNode(l, pair, at))
           c2   == c \cup {pair}
<1>1. /\ Owns(i, k) /\ MayPost(i) /\ DepthOf(l) < MaxDepth /\ ~nav.found
      /\ leaf' = [leaf EXCEPT ![i] = l2] /\ content' = [content EXCEPT ![i] = c2] /\ index' = index
  BY DEF Insert, MayPost
<1>2. InUse(i) /\ Inside(l, low, k) /\ k \in index.keys
  BY <1>1, LeafOwned
<1>3. ChainOK(l, low, c, index) /\ IndexOK(index) /\ UniqueKeys = index.unique
  BY <1>2, LeafUsed DEF UniqueKeys
<1>4. pair \in PairsOf(index) /\ pair[1] = k
  BY <1>2 DEF PairsOf
<1>5. \A x \in c : ~Matches(x, pair, index.unique)
  <2>1. ~NavigateValue(l, k, v, index.unique).found
    BY <1>1, <1>3
  <2> HIDE DEF l, low, c
  <2> QED
    BY <2>1, <1>2, <1>3, NoneMatches
<1>6. at[2] \in BOOLEAN /\ Placed(l, pair, at[1], at[2], index.unique)
  <2>1. index.unique \in BOOLEAN
    BY <1>3 DEF IndexOK
  <2> QED
    BY <2>1, <1>3, <1>4, NavigatePlaced
<1>7. Inside(l, low, pair[1])
  BY <1>2, <1>4
<1>20. ChainOK(l2, low, c2, index) /\ HighOf(l2) = HighOf(l) /\ (Merges(l) = {} => Merges(l2) = {})
  <2>1. l2 = Push(l, LeafInsertNode(l, pair, at)) /\ c2 = c \cup {pair}
    OBVIOUS
  <2>2. NoneOf(c, pair, index.unique) /\ PlacedAt(l, pair, at, index.unique)
    BY <1>5, <1>6 DEF NoneOf, PlacedAt
  <2> HIDE DEF l, low, c, pair, at, l2, c2
  <2> QED
    BY <2>1, <2>2, <1>1, <1>3, <1>4, <1>7, InsertStep
<1> HIDE DEF l2, c2
<1> QED
  BY <1>1, <1>2, <1>20, LeafReplaced

LEMMA DeleteKeeps ==
  ASSUME LeafInv, NEW i \in 1 .. 2, NEW k \in Keys, NEW v \in Values, Delete(i, k, v)
  PROVE  LeafInv'
<1> DEFINE nav  == NavigateValue(leaf[i], k, v, FALSE)
           at   == nav.at
           l    == leaf[i]
           low  == LowOf(i)
           c    == content[i]
           pair == <<k, v>>
           l2   == Push(l, LeafDeleteNode(l, pair, at))
           c2   == c \ {pair}
<1>1. /\ Owns(i, k) /\ MayPost(i) /\ DepthOf(l) < MaxDepth /\ nav.found
      /\ leaf' = [leaf EXCEPT ![i] = l2] /\ content' = [content EXCEPT ![i] = c2] /\ index' = index
  BY DEF Delete, Deletable, MayPost
<1>2. InUse(i) /\ Inside(l, low, k) /\ k \in index.keys
  BY <1>1, LeafOwned
<1>3. ChainOK(l, low, c, index) /\ IndexOK(index) /\ UniqueKeys = index.unique
  BY <1>2, LeafUsed DEF UniqueKeys
<1>4. pair \in PairsOf(index) /\ pair[1] = k
  BY <1>2 DEF PairsOf
<1>5. pair \in c
  BY <1>1, <1>2, <1>3, ValueExact
<1>6. at[2] \in BOOLEAN /\ Placed(l, pair, at[1], at[2], index.unique)
  BY <1>1, <1>3, <1>4, NavigatePlaced
<1>20. ChainOK(l2, low, c2, index) /\ HighOf(l2) = HighOf(l) /\ (Merges(l) = {} => Merges(l2) = {})
  <2>1. l2 = Push(l, LeafDeleteNode(l, pair, at)) /\ c2 = c \ {pair}
    OBVIOUS
  <2>2. PlacedAt(l, pair, at, index.unique)
    BY <1>6 DEF PlacedAt
  <2> HIDE DEF l, low, c, pair, at, l2, c2
  <2> QED
    BY <2>1, <2>2, <1>1, <1>3, <1>5, DeleteStep
<1> HIDE DEF l2, c2
<1> QED
  BY <1>1, <1>2, <1>20, LeafReplaced

\* A key all of whose values the predicate rejects has none that matches.
LEMMA NoneConditional ==
  ASSUME NEW ix, IndexOK(ix), NEW l, NEW low, NEW c, ChainOK(l, low, c, ix),
         NEW k \in ix.keys, Inside(l, low, k), NEW v \in Values, NEW predicate,
         ix.unique => predicate = Values, NavigatePredicate(l, k) \cap (predicate \cup {v}) = {}
  PROVE  \A x \in c : ~Matches(x, <<k, v>>, ix.unique)
<1> SUFFICES ASSUME NEW x \in c, Matches(x, <<k, v>>, ix.unique)
             PROVE  FALSE
  OBVIOUS
<1>1. NavigatePredicate(l, k) = {w \in Values : <<k, w>> \in c}
  BY PredicateExact
<1>2. x \in PairsOf(ix)
  BY DEF ChainOK, ContentSound
<1>3. x[1] = k /\ (ix.unique \/ x[2] = v)
  BY DEF Matches
<1>4. <<k, x[2]>> \in c /\ x[2] \in Values
  BY <1>2, <1>3, PairFields
<1>5. x[2] \in NavigatePredicate(l, k)
  BY <1>1, <1>4
<1>6. x[2] \in predicate \cup {v}
  BY <1>3, <1>4
<1> QED
  BY <1>5, <1>6

LEMMA ConditionalInsertKeeps ==
  ASSUME ~Reinserts, LeafInv, NEW i \in 1 .. 2, NEW k \in Keys, NEW v \in Values,
         NEW predicate \in Predicates, ConditionalInsert(i, k, v, predicate)
  PROVE  LeafInv'
<1> DEFINE l     == leaf[i]
           pair  == <<k, v>>
           items == BaseFor(l, k).items
           at    == <<UpperBound(items, k), FALSE>>
           low   == LowOf(i)
           c     == content[i]
           l2    == Push(l, LeafInsertNode(l, pair, at))
           c2    == c \cup {pair}
<1>1. /\ Owns(i, k) /\ DepthOf(l) < MaxDepth
      /\ NavigatePredicate(l, k) \cap (predicate \cup {v}) = {}
      /\ On(l, pair, UniqueKeys) = {}
      /\ leaf' = [leaf EXCEPT ![i] = l2] /\ content' = [content EXCEPT ![i] = c2] /\ index' = index
  BY DEF ConditionalInsert, MayPost
<1>2. InUse(i) /\ Inside(l, LowOf(i), k) /\ k \in index.keys
  BY <1>1, LeafOwned
<1>3. ChainOK(l, LowOf(i), content[i], index) /\ IndexOK(index) /\ UniqueKeys = index.unique
  BY <1>2, LeafUsed DEF UniqueKeys
<1>4. \A x \in content[i] : ~Matches(x, <<k, v>>, index.unique)
  <2>1. index.unique => predicate = Values
    BY <1>3 DEF Predicates
  <2> HIDE DEF l
  <2> QED
    BY <2>1, <1>1, <1>2, <1>3, NoneConditional
<1>5. pair \in PairsOf(index) /\ pair[1] = k
  BY <1>2 DEF PairsOf
<1>6. ~Holds(l, pair, index.unique)
  <2>1. KnownExact(l, LowOf(i), content[i], index)
    BY <1>3 DEF ChainOK
  <2>2. \A x \in content[i] : ~Matches(x, pair, index.unique)
    BY <1>4
  <2>3. Inside(l, LowOf(i), pair[1])
    BY <1>2, <1>5
  <2> HIDE DEF pair, l
  <2> QED
    BY <2>1, <2>2, <2>3, <1>5 DEF KnownExact
<1>7. \A p \in DOMAIN items : ~Matches(items[p], pair, index.unique)
  <2>1. On(l, pair, index.unique) = {} /\ items = BaseFor(l, pair[1]).items
    BY <1>1, <1>3, <1>5
  <2> HIDE DEF pair, l, items
  <2> QED
    BY <2>1, <1>6 DEF Holds
<1>8. Placed(l, pair, UpperBound(items, k), FALSE, index.unique)
  <2>1. items = BaseFor(l, pair[1]).items /\ k = pair[1]
    BY <1>5
  <2> HIDE DEF pair, l, items
  <2>2. Placed(l, pair, UpperBound(BaseFor(l, pair[1]).items, pair[1]), FALSE, index.unique)
    BY <2>1, <1>3, <1>5, <1>7, BasePlace
  <2> QED
    BY <2>1, <2>2
<1>9. at[2] \in BOOLEAN /\ Placed(l, pair, at[1], at[2], index.unique)
  <2>1. at[1] = UpperBound(items, k) /\ at[2] = FALSE
    OBVIOUS
  <2> HIDE DEF at, items, l, pair
  <2> QED
    BY <2>1, <1>8
<1>10. \A x \in c : ~Matches(x, pair, index.unique)
  BY <1>4
<1>11. DepthOf(l) < MaxDepth /\ pair \in PairsOf(index) /\ Inside(l, low, pair[1])
  BY <1>1, <1>2, <1>5
<1>20. ChainOK(l2, low, c2, index) /\ HighOf(l2) = HighOf(l) /\ (Merges(l) = {} => Merges(l2) = {})
  <2>1. l2 = Push(l, LeafInsertNode(l, pair, at)) /\ c2 = c \cup {pair}
    OBVIOUS
  <2>2. NoneOf(c, pair, index.unique) /\ PlacedAt(l, pair, at, index.unique)
    BY <1>9, <1>10 DEF NoneOf, PlacedAt
  <2>3. ChainOK(l, low, c, index) /\ IndexOK(index)
    BY <1>3
  <2> HIDE DEF l, low, c, pair, items, at, l2, c2
  <2> QED
    BY <2>1, <2>2, <2>3, <1>11, InsertStep
<1> HIDE DEF l2, c2
<1> QED
  BY <1>1, <1>2, <1>20, LeafReplaced

LEMMA ConsolidateKeeps ==
  ASSUME LeafInv, NEW i \in 1 .. 2, Consolidate(i)
  PROVE  LeafInv'
<1> DEFINE l == Consolidated(leaf[i])
<1>1. InUse(i) /\ leaf' = [leaf EXCEPT ![i] = l] /\ content' = content /\ index' = index
  BY DEF Consolidate
<1>2. ChainOK(leaf[i], LowOf(i), content[i], index) /\ IndexOK(index)
  BY <1>1, LeafUsed
<1>3. ChainOK(l, LowOf(i), content[i], index) /\ HighOf(l) = HighOf(leaf[i]) /\ Merges(l) = {}
  BY <1>2, ConsolidatedChain
<1>4. content' = [content EXCEPT ![i] = content[i]]
  BY <1>1 DEF LeafInv
<1> HIDE DEF l
<1> QED
  BY <1>1, <1>3, <1>4, LeafReplaced

\* A leaf that is a base node has no deltas.
LEMMA BaseAlone ==
  ASSUME NEW ix, NEW l \in Chains(ix), IsBase(l)
  PROVE  l.deltas = <<>>
<1> SUFFICES ASSUME l.deltas # <<>> PROVE FALSE
  OBVIOUS
<1>1. Head(l.deltas) \in Deltas(ix)
  BY ChainFields
<1>2. Head(l.deltas).type \in DeltaTypes
  BY <1>1, DeltaFields
<1>3. Head(l.deltas).type = "base"
  BY DEF IsBase, TypeOf
<1> QED
  BY <1>2, <1>3 DEF DeltaTypes


LEMMA SplitChains ==
  ASSUME NEW ix, IndexOK(ix), NEW l, NEW c, ChainOK(l, 0, c, ix), l.deltas = <<>>, HighOf(l) = NoHigh,
         NEW at, NEW key, NEW new, NEW c1, NEW c2, SplitCut(l, c, at, key, new, c1, c2),
         NEW l1, l1 = Push(l, LeafSplitNode(l, new, 2)), NEW l2, l2 = [deltas |-> <<>>, base |-> new]
  PROVE  /\ LeavesOK(l1, l2, c1, c2, ix)
         /\ CountOf(l1) = at /\ l1.base.items[at][1] < HighOf(l1)[1]
         /\ Len(l2.base.items) = Len(l.base.items) - at
<1> DEFINE d   == LeafSplitNode(l, new, 2)
           low == 0
<1>1. l1 = Push(l, d) /\ d = LeafSplitNode(l, new, 2) /\ ChainOK(l, low, c, ix)
  OBVIOUS
<1>2. l.base.items[at][1] < key
  BY DEF SplitCut
<1> HIDE DEF d, low
<1>3. /\ ChainOK(l1, low, c1, ix) /\ Merges(l1) = {}
      /\ HighOf(l1) = <<key, 2>> /\ CountOf(l1) = at /\ l1.base = l.base
  BY <1>1, SplitLeft
<1>4. /\ ChainOK(l2, key, c2, ix) /\ HighOf(l2) = NoHigh /\ l2.deltas = <<>>
      /\ key \in Nat /\ Len(new.items) = Len(l.base.items) - at
  BY <1>1, SplitRight
<1>5. HighOf(l1)[1] = key /\ HighOf(l1)[2] = 2
  BY <1>3
<1>6. LeavesOK(l1, l2, c1, c2, ix)
  BY <1>3, <1>4, <1>5 DEF LeavesOK, low
<1>7. l2.base.items = new.items
  OBVIOUS
<1> QED
  BY <1>2, <1>3, <1>4, <1>5, <1>6, <1>7

LEMMA SplitKeeps ==
  ASSUME LeafInv, Split
  PROVE  /\ LeafInv'
         /\ LET cut == CountOf(leaf'[1])
            IN  /\ leaf'[1].base.items[cut][1] < HighOf(leaf'[1])[1]
                /\ cut > LowerThreshold
                /\ Len(leaf'[2].base.items) > LowerThreshold
<1> DEFINE l   == leaf[1]
           c   == content[1]
           at  == FindSplitPoint(l.base.items)
           new == SplitSibling(l.base, at)
           key == new.items[1][1]
           l1  == Push(l, LeafSplitNode(l, new, 2))
           l2  == [deltas |-> <<>>, base |-> new]
           c1  == {x \in c : x[1] < key}
           c2  == {x \in c : x[1] >= key}
<1>1. /\ IsBase(l) /\ ~InUse(2) /\ Len(l.base.items) >= UpperThreshold /\ at # -1
      /\ leaf' = <<l1, l2>> /\ content' = <<c1, c2>> /\ index' = index
  BY DEF Split
<1>2. ChainOK(l, 0, c, index) /\ IndexOK(index)
  BY IndexAssumed DEF LeafInv, LeavesOK
<1>3. l \in Chains(index) /\ l.deltas = <<>>
  <2>1. l \in Chains(index)
    BY <1>2, ChainUsed
  <2> HIDE DEF l
  <2> QED
    BY <2>1, <1>1, BaseAlone
<1>4. HighOf(l) = NoHigh
  <2>1. leaf[2] = NoLeaf
    BY <1>1 DEF InUse
  <2>2. ~ChainOK(leaf[2], HighOf(leaf[1])[1], content[2], index)
    BY <2>1, ChainUsed
  <2> QED
    BY <2>2 DEF LeafInv, LeavesOK
<1>5. l.base.items \in Seq(PairsOf(index)) /\ Ordered(l.base.items, index.unique)
  BY <1>2, <1>3, ChainFields, BaseFields DEF ChainOK, BaseSound
<1>6. /\ at \in 1 .. Len(l.base.items) - 1 /\ l.base.items[at][1] < l.base.items[at + 1][1]
      /\ at > LowerThreshold /\ Len(l.base.items) - at > LowerThreshold
  <2> HIDE DEF l
  <2> QED
    BY <1>1, <1>2, <1>5, SplitPoint
<1>7. key = l.base.items[at + 1][1]
  <2> DEFINE items == l.base.items
  <2>1. items \in Seq(PairsOf(index)) /\ at \in 1 .. Len(items) - 1
    BY <1>5, <1>6
  <2>2. new.items = SubSeq(items, at + 1, Len(items))
    BY DEF SplitSibling
  <2> HIDE DEF items, at, new
  <2>3. new.items[1] = items[at + 1]
    BY <2>1, <2>2
  <2> QED
    BY <2>3 DEF items
<1>8. Cut(c, key, c1, c2)
  <2> HIDE DEF key, c
  <2> QED
    BY DEF Cut
<1>9. SplitCut(l, c, at, key, new, c1, c2)
  <2>1. new = SplitSibling(l.base, at)
    OBVIOUS
  <2>2. at \in 1 .. Len(l.base.items) - 1 /\ l.base.items[at][1] < key
    BY <1>6, <1>7
  <2> HIDE DEF l, c, at, new, key, c1, c2
  <2> QED
    BY <2>1, <2>2, <1>7, <1>8 DEF SplitCut
<1>13. l1 = Push(l, LeafSplitNode(l, new, 2)) /\ l2 = [deltas |-> <<>>, base |-> new]
  OBVIOUS
<1> HIDE DEF l, c, at, new, key, l1, l2, c1, c2
<1>10. /\ LeavesOK(l1, l2, c1, c2, index)
       /\ CountOf(l1) = at /\ l1.base.items[at][1] < HighOf(l1)[1]
       /\ Len(l2.base.items) = Len(l.base.items) - at
  BY <1>2, <1>3, <1>4, <1>9, <1>13, SplitChains
<1>11. LeafInv'
  BY <1>1, <1>10, LeavesReplaced
<1>12. leaf'[1] = l1 /\ leaf'[2] = l2
  BY <1>1
<1> QED
  BY <1>6, <1>10, <1>11, <1>12

LEMMA MergeKeeps ==
  ASSUME LeafInv, Merge
  PROVE  LeafInv'
<1> DEFINE l  == leaf[1]
           r  == leaf[2]
           c  == content[1]
           c2 == content[2]
           key == HighOf(l)[1]
           d  == LeafMergeNode(l, r.base)
           l1 == Push(l, d)
           cc == c \cup c2
           low == 0
<1>1. /\ InUse(2) /\ IsBase(r)
      /\ leaf' = <<l1, NoLeaf>> /\ content' = <<cc, {}>> /\ index' = index
  BY DEF Merge
<1>2. /\ ChainOK(l, low, c, index) /\ IndexOK(index) /\ ChainOK(r, key, c2, index) /\ HighOf(r) = NoHigh
      /\ Merges(l) = {} /\ HighOf(l)[2] = 2
  BY <1>1, IndexAssumed DEF LeafInv, LeavesOK, InUse
<1>3. r.deltas = <<>> /\ l \in Chains(index)
  <2>1. r \in Chains(index) /\ l \in Chains(index)
    BY <1>2, ChainUsed
  <2> HIDE DEF r
  <2> QED
    BY <2>1, <1>1, BaseAlone
<1>4. HighOf(l)[1] = key /\ HighOf(l)[2] # 0 /\ low <= key
  <2>1. HighOf(l)[1] \in Nat
    BY <1>2, <1>3, HighType
  <2> QED
    BY <2>1, <1>2
<1>5. d = LeafMergeNode(l, r.base) /\ l1 = Push(l, d) /\ cc = c \cup c2
  OBVIOUS
<1> HIDE DEF l, r, c, c2, key, d, l1, cc, low
<1>6. ChainOK(l1, low, cc, index) /\ HighOf(l1) = NoHigh
  <2>1. MergesAt(l, low, key, r)
    BY <1>2, <1>3, <1>4 DEF MergesAt
  <2>2. ChainOK(l, low, c, index) /\ IndexOK(index) /\ ChainOK(r, key, c2, index)
    BY <1>2
  <2>3. ChainOK(l1, low, c \cup c2, index) /\ HighOf(l1) = NoHigh
    BY <2>1, <2>2, <1>5, MergeChain
  <2> QED
    BY <2>3, <1>5
<1>7. LeavesOK(l1, NoLeaf, cc, {}, index)
  BY <1>6 DEF LeavesOK, low
<1> QED
  BY <1>1, <1>7, LeavesReplaced

LEMMA InitKeeps ==
  ASSUME Init
  PROVE  LeafInv
<1> DEFINE l == [deltas |-> <<>>, base |-> [items |-> <<>>, high |-> NoHigh]]
           items == <<>>
           c == {}
           high == NoHigh
<1>1. index \in Indexes /\ leaf = <<l, NoLeaf>> /\ content = <<{}, {}>>
  BY DEF Init
<1>2. ListOf(items, c, index)
  BY DEF ListOf, Ordered
<1>3. high \in Nat \X Nat /\ 0 \in Nat
  BY DEF NoHigh
<1>4. \A p \in DOMAIN items : 0 <= items[p][1] /\ (high[2] # 0 => items[p][1] < high[1])
  OBVIOUS
<1> DEFINE l2 == [deltas |-> <<>>, base |-> [items |-> items, high |-> high]]
<1>5. l = l2 /\ high = NoHigh /\ c = {}
  OBVIOUS
<1>6. IndexOK(index)
  BY <1>1, IndexAssumed
<1> HIDE DEF l, items, c, high
<1>7. ChainOK(l2, 0, c, index) /\ HighOf(l2) = high
  BY <1>2, <1>3, <1>4, <1>6, BaseChain
<1> HIDE DEF l2
<1>8. LeavesOK(l, NoLeaf, {}, {}, index)
  BY <1>5, <1>7 DEF LeavesOK
<1>9. DOMAIN leaf = 1 .. 2 /\ leaf[1] = l /\ leaf[2] = NoLeaf /\ content[1] = {} /\ content[2] = {}
  BY <1>1
<1>10. content \in [1 .. 2 -> SUBSET Pairs]
  <2>1. content = [i \in 1 .. 2 |-> {}]
    BY <1>1
  <2> QED
    BY <2>1
<1> QED
  BY <1>1, <1>8, <1>9, <1>10 DEF LeafInv

LEMMA StutterKeeps ==
  ASSUME LeafInv, UNCHANGED vars
  PROVE  LeafInv'
BY DEF LeafInv, vars, Pairs, Keys

LEMMA NextKeeps ==
  ASSUME ~Reinserts, LeafInv, [Next]_vars
  PROVE  LeafInv'
<1>1. ASSUME NEW i \in 1 .. 2, NEW k \in Keys, NEW v \in Values, Insert(i, k, v) PROVE LeafInv'
  BY <1>1, InsertKeeps
<1>2. ASSUME NEW i \in 1 .. 2, NEW k \in Keys, NEW v \in Values, Delete(i, k, v) PROVE LeafInv'
  BY <1>2, DeleteKeeps
<1>3. ASSUME NEW i \in 1 .. 2, NEW k \in Keys, NEW v \in Values, NEW predicate \in Predicates,
             ConditionalInsert(i, k, v, predicate)
      PROVE LeafInv'
  BY <1>3, ConditionalInsertKeeps
<1>4. ASSUME NEW i \in 1 .. 2, Consolidate(i) PROVE LeafInv'
  BY <1>4, ConsolidateKeeps
<1>5. CASE Split
  BY <1>5, SplitKeeps
<1>6. CASE Merge
  BY <1>6, MergeKeeps
<1>7. CASE UNCHANGED vars
  BY <1>7, StutterKeeps
<1> QED
  BY <1>1, <1>2, <1>3, <1>4, <1>5, <1>6, <1>7 DEF Next

-----------------------------------------------------------------------------
(* The invariant of the program and what follows from it.                  *)

LEMMA TypeFollows ==
  ASSUME LeafInv
  PROVE  TypeOK
<1>1. index \in Indexes /\ DOMAIN leaf = 1 .. 2 /\ content \in [1 .. 2 -> SUBSET Pairs]
  BY DEF LeafInv
<1>2. Pairs = PairsOf(index)
  BY DEF Pairs, Keys, PairsOf
<1>3. ASSUME NEW b \in BaseNodes(index) PROVE b \in BaseType
  <2>1. b = [items |-> b.items, high |-> b.high] /\ b.items \in Seq(Pairs) /\ b.high \in Nat \X Nat
    BY <1>2 DEF BaseNodes
  <2>2. b.high \in Seq(Nat)
    <3> DEFINE h == b.high
    <3>1. h = <<h[1], h[2]>> /\ h[1] \in Nat /\ h[2] \in Nat
      BY <2>1
    <3>2. ASSUME NEW m \in Nat, NEW n \in Nat PROVE <<m, n>> \in Seq(Nat)
      OBVIOUS
    <3> HIDE DEF h
    <3>3. h \in Seq(Nat)
      BY <3>1, <3>2
    <3> QED
      BY <3>3 DEF h
  <2> QED
    BY <2>1, <2>2 DEF BaseType
<1>4. ASSUME NEW i \in 1 .. 2, InUse(i)
      PROVE  /\ leaf[i].base \in BaseType
             /\ \A n \in DOMAIN leaf[i].deltas :
                  LET d == leaf[i].deltas[n]
                  IN  /\ d.type \in {"insert", "delete", "split", "merge"}
                      /\ IsData(d) => d.item \in Pairs
                      /\ d.right \in BaseType
                      /\ d.depth \in 0 .. MaxDepth /\ d.count \in Nat
  <2>1. leaf[i] \in Chains(index) /\ DeltasSound(leaf[i], LowOf(i), index)
    BY <1>4, LeafUsed DEF ChainOK
  <2>2. leaf[i].base \in BaseType
    BY <2>1, <1>3, ChainFields
  <2>3. ASSUME NEW n \in DOMAIN leaf[i].deltas
        PROVE  LET d == leaf[i].deltas[n]
               IN  /\ d.type \in {"insert", "delete", "split", "merge"}
                   /\ IsData(d) => d.item \in Pairs
                   /\ d.right \in BaseType
                   /\ d.depth \in 0 .. MaxDepth /\ d.count \in Nat
    <3> DEFINE d == leaf[i].deltas[n]
    <3>1. d \in Deltas(index)
      BY <2>1, ChainFields
    <3>2. IsData(d) => d.item \in Pairs
      BY <2>1, <1>2 DEF DeltasSound
    <3> HIDE DEF d
    <3>3. d.type \in DeltaTypes /\ d.right \in BaseNodes(index) /\ d.depth \in 0 .. MaxDepth /\ d.count \in Nat
      BY <3>1, DeltaFields
    <3>4. d.right \in BaseType
      BY <3>3, <1>3
    <3> QED
      BY <3>2, <3>3, <3>4 DEF d, DeltaTypes
  <2> QED
    BY <2>2, <2>3
<1> QED
  BY <1>1, <1>4 DEF TypeOK

LEMMA ConsolidationFollows ==
  ASSUME LeafInv
  PROVE  ConsolidationExact
<1> SUFFICES ASSUME NEW i \in 1 .. 2, InUse(i)
             PROVE  LET items == Collect(leaf[i])
                    IN  /\ ToSet(items) = content[i]
                        /\ Len(items) = Cardinality(content[i]) /\ Len(items) = CountOf(leaf[i])
                        /\ \A n \in 1 .. Len(items) - 1 : items[n][1] <= items[n + 1][1]
  BY DEF ConsolidationExact
<1> DEFINE items == Collect(leaf[i])
           c     == content[i]
<1>1. ListOf(items, c, index) /\ Len(items) = CountOf(leaf[i])
  BY LeafUsed, CollectListed
<1>2. Len(items) = Cardinality(c)
  <2> HIDE DEF items, c
  <2> QED
    BY <1>1, ListCount
<1>3. ToSet(items) = c
  <2>1. \A x : x \in c <=> \E p \in DOMAIN items : items[p] = x
    BY <1>1 DEF ListOf
  <2> HIDE DEF items, c
  <2> QED
    BY <2>1 DEF ToSet
<1>4. ASSUME NEW n \in 1 .. Len(items) - 1
      PROVE  items[n][1] <= items[n + 1][1]
  <2>1. items \in Seq(PairsOf(index)) /\ Ordered(items, index.unique)
    BY <1>1 DEF ListOf
  <2> DEFINE p == n
             q == n + 1
  <2>2. p \in DOMAIN items /\ q \in DOMAIN items /\ p < q
    <3> HIDE DEF items
    <3> QED
      BY <2>1
  <2> HIDE DEF items, q
  <2>3. items[p][1] <= items[q][1]
    BY <2>1, <2>2 DEF Ordered
  <2> QED
    BY <2>3 DEF q
<1> QED
  BY <1>1, <1>2, <1>3, <1>4

LEMMA NavigateFollows ==
  ASSUME LeafInv
  PROVE  NavigateExact
<1> SUFFICES ASSUME NEW i \in 1 .. 2, NEW k \in Keys, Owns(i, k)
             PROVE  /\ \A v \in Values :
                         /\ NavigateValue(leaf[i], k, v, FALSE).found <=> <<k, v>> \in content[i]
                         /\ NavigateValue(leaf[i], k, v, UniqueKeys).found <=>
                              \E w \in (IF UniqueKeys THEN Values ELSE {v}) : <<k, w>> \in content[i]
                    /\ NavigatePredicate(leaf[i], k) = {v \in Values : <<k, v>> \in content[i]}
                    /\ ~PostedOnMerge(leaf[i].deltas) =>
                         NavigateRead(leaf[i], k) = {v \in Values : <<k, v>> \in content[i]}
  BY DEF NavigateExact
<1>1. InUse(i) /\ Inside(leaf[i], LowOf(i), k) /\ k \in index.keys
  BY LeafOwned
<1>2. ChainOK(leaf[i], LowOf(i), content[i], index) /\ IndexOK(index)
  BY <1>1, LeafUsed
<1>3. ASSUME NEW v \in Values
      PROVE  /\ NavigateValue(leaf[i], k, v, FALSE).found <=> <<k, v>> \in content[i]
             /\ NavigateValue(leaf[i], k, v, UniqueKeys).found <=>
                  \E w \in (IF UniqueKeys THEN Values ELSE {v}) : <<k, w>> \in content[i]
  <2>1. /\ NavigateValue(leaf[i], k, v, FALSE).found <=> <<k, v>> \in content[i]
        /\ NavigateValue(leaf[i], k, v, index.unique).found <=>
             \E w \in (IF index.unique THEN Values ELSE {v}) : <<k, w>> \in content[i]
    BY <1>1, <1>2, ValueExact
  <2> QED
    BY <2>1 DEF UniqueKeys
<1>4. NavigatePredicate(leaf[i], k) = {v \in Values : <<k, v>> \in content[i]}
  BY <1>1, <1>2, PredicateExact
<1>5. ASSUME ~PostedOnMerge(leaf[i].deltas)
      PROVE  NavigateRead(leaf[i], k) = {v \in Values : <<k, v>> \in content[i]}
  BY <1>1, <1>2, <1>5, ReadsExact
<1> QED
  BY <1>3, <1>4, <1>5

\* Every reachable state satisfies the invariant.
THEOREM LeafInvariant ==
  ASSUME ~Reinserts
  PROVE  Spec => []LeafInv
<1>1. Init => LeafInv
  BY InitKeeps
<1>2. LeafInv /\ [Next]_vars => LeafInv'
  BY NextKeeps
<1> QED
  BY <1>1, <1>2, PTL DEF Spec

\* The leaves and their deltas have the types of the program: no delta chain
\* is deeper than the bound, no item count is negative.
THEOREM LeafTypeCorrect ==
  ASSUME ~Reinserts
  PROVE  Spec => []TypeOK
<1>1. LeafInv => TypeOK
  BY TypeFollows
<1>2. Spec => []LeafInv
  BY LeafInvariant
<1> QED
  BY <1>1, <1>2, PTL

\* CollectAllValuesOnLeaf() returns exactly the pairs of the leaf, in order, and
\* as many of them as item_count says, whatever inserts, deletes, splits and
\* merges made the chain.
THEOREM LeafConsolidationsAreExact ==
  ASSUME ~Reinserts
  PROVE  Spec => []ConsolidationExact
<1>1. LeafInv => ConsolidationExact
  BY ConsolidationFollows
<1>2. Spec => []LeafInv
  BY LeafInvariant
<1> QED
  BY <1>1, <1>2, PTL

\* The overloads of NavigateLeafNode() find exactly what the leaf holds: the ones
\* of Insert(), Delete() and ConditionalInsert() on every chain, the read of
\* GetValue() on those without data deltas above a merge delta.
THEOREM LeafWalksAreExact ==
  ASSUME ~Reinserts
  PROVE  Spec => []NavigateExact
<1>1. LeafInv => NavigateExact
  BY NavigateFollows
<1>2. Spec => []LeafInv
  BY LeafInvariant
<1> QED
  BY <1>1, <1>2, PTL

\* FindSplitPoint() cuts between two keys and leaves each side more than the size
\* at which a leaf is removed.
THEOREM LeafSplitsAreFair ==
  ASSUME ~Reinserts
  PROVE  Spec => SplitFair
<1>1. LeafInv /\ [Next]_vars =>
        [Split =>
           LET cut == CountOf(leaf'[1])
           IN  /\ leaf'[1].base.items[cut][1] < HighOf(leaf'[1])[1]
               /\ cut > LowerThreshold
               /\ Len(leaf'[2].base.items) > LowerThreshold]_vars
  BY SplitKeeps
<1>2. Spec => []LeafInv
  BY LeafInvariant
<1> QED
  BY <1>1, <1>2, PTL DEF Spec, SplitFair
=============================================================================
