--------------------------- MODULE InnerChainProofs ---------------------------
(***************************************************************************)
(* What holds of the delta chains of inner nodes for any keys and any      *)
(* thresholds: the four walks and consolidation find exactly the           *)
(* separators and children that the node should have.                      *)
(***************************************************************************)
EXTENDS InnerChain, FiniteSetTheorems, SequenceTheorems, TLAPS

-----------------------------------------------------------------------------
(* Finite sets of keys in order.                                           *)

\* Every non-empty set of natural numbers has a least element.
LEMMA NatMin ==
  ASSUME NEW S \in SUBSET Nat, S # {}
  PROVE  \E x \in S : \A y \in S : x <= y
<1> DEFINE R == OpToRel(<, Nat)
<1>1. IsWellFoundedOn(R, Nat)
  BY NatLessThanWellFounded
<1>2. PICK x \in S : \A y \in S : ~ (<<y, x>> \in R)
  <2> HIDE DEF R
  <2> QED
    BY <1>1, WFMin
<1>3. \A y \in S : x <= y
  <2> TAKE y \in S
  <2>1. ~ (y < x)
    BY <1>2 DEF OpToRel
  <2> QED
    BY <2>1
<1> QED
  BY <1>3

LEMMA MinIn ==
  ASSUME NEW S \in SUBSET Nat, S # {}
  PROVE  Min(S) \in S /\ \A y \in S : Min(S) <= y
BY NatMin DEF Min

\* The elements of S below k, and how many they are.
Below(S, k) == {j \in S : j < k}

LEMMA BelowFinite ==
  ASSUME NEW S \in SUBSET Nat, IsFiniteSet(S), NEW k \in Nat
  PROVE  /\ IsFiniteSet(Below(S, k)) /\ Cardinality(Below(S, k)) \in Nat
         /\ Cardinality(Below(S, k)) <= Cardinality(S)
<1>1. Below(S, k) \in SUBSET S
  BY DEF Below
<1> QED
  BY <1>1, FS_Subset, FS_CardinalityType

\* The greater an element, the more there are below it.
LEMMA BelowGrows ==
  ASSUME NEW S \in SUBSET Nat, IsFiniteSet(S), NEW j \in S, NEW k \in S, j < k
  PROVE  Cardinality(Below(S, j)) < Cardinality(Below(S, k))
<1>0. j \in Nat /\ k \in Nat /\ \A x \in S : x \in Nat
  OBVIOUS
<1>1. Below(S, j) \in SUBSET Below(S, k) /\ j \in Below(S, k) /\ j \notin Below(S, j)
  <2>1. ~(j < j) /\ \A x \in S : x < j => x < k
    BY <1>0
  <2> QED
    BY <2>1 DEF Below
<1>2. IsFiniteSet(Below(S, k)) /\ Cardinality(Below(S, k)) \in Nat
      /\ Cardinality(Below(S, j)) \in Nat
  BY BelowFinite
<1>3. /\ Cardinality(Below(S, j)) <= Cardinality(Below(S, k))
      /\ Cardinality(Below(S, k)) = Cardinality(Below(S, j)) => Below(S, k) = Below(S, j)
  BY <1>1, <1>2, FS_Subset
<1> QED
  BY <1>1, <1>2, <1>3

LEMMA MaxIn ==
  ASSUME NEW S \in SUBSET Nat, IsFiniteSet(S), S # {}
  PROVE  Max(S) \in S /\ \A y \in S : Max(S) >= y
<1> DEFINE Missing(k) == Cardinality(S) - Cardinality(Below(S, k))
           T == {Missing(k) : k \in S}
<1>1. \A k \in S : Missing(k) \in Nat
  BY BelowFinite, FS_CardinalityType
<1>2. T \in SUBSET Nat /\ T # {}
  BY <1>1
<1>3. PICK m \in T : \A y \in T : m <= y
  <2> HIDE DEF T
  <2> QED
    BY <1>2, NatMin
<1>4. PICK k \in S : m = Missing(k)
  BY <1>3
<1>5. \A y \in S : k >= y
  <2> SUFFICES ASSUME NEW y \in S, k < y PROVE FALSE
    OBVIOUS
  <2>1. Cardinality(Below(S, k)) < Cardinality(Below(S, y))
    BY BelowGrows
  <2>2. Missing(k) <= Missing(y)
    BY <1>3, <1>4
  <2>3. Cardinality(S) \in Nat /\ Cardinality(Below(S, k)) \in Nat /\ Cardinality(Below(S, y)) \in Nat
    BY BelowFinite, FS_CardinalityType
  <2> QED
    BY <2>1, <2>2, <2>3
<1> QED
  BY <1>5 DEF Max

\* Nth() counts from 0 and finds an element for every index.
LEMMA NthIn ==
  ASSUME NEW S \in SUBSET Nat, IsFiniteSet(S), NEW i \in 0 .. Cardinality(S) - 1
  PROVE  Nth(S, i) \in S /\ Cardinality(Below(S, Nth(S, i))) = i
<1> DEFINE T == {k \in S : Cardinality(Below(S, k)) >= i}
<1>0. Cardinality(S) \in Nat /\ \A k \in S : Cardinality(Below(S, k)) \in Nat
  BY BelowFinite, FS_CardinalityType
<1>1. S # {}
  BY <1>0, FS_EmptySet
<1>2. Max(S) \in S /\ \A y \in S : Max(S) >= y
  BY <1>1, MaxIn
<1>3. Below(S, Max(S)) = S \ {Max(S)}
  <2>1. \A y \in S : y \in Nat /\ Max(S) \in Nat
    BY <1>2
  <2>2. \A y \in S : y < Max(S) <=> y # Max(S)
    BY <1>2, <2>1
  <2> QED
    BY <2>2, <1>2 DEF Below
<1>4. Cardinality(Below(S, Max(S))) = Cardinality(S) - 1
  <2> DEFINE m == Max(S)
  <2>1. m \in S /\ Below(S, m) = S \ {m}
    BY <1>2, <1>3
  <2> HIDE DEF m
  <2>2. Cardinality(S \ {m}) = Cardinality(S) - 1
    BY <2>1, FS_RemoveElement
  <2>3. Cardinality(Below(S, m)) = Cardinality(S) - 1
    BY <2>1, <2>2
  <2> QED
    BY <2>3 DEF m
<1>5. T \in SUBSET Nat /\ T # {}
  <2>1. Cardinality(S) - 1 >= i
    BY <1>0
  <2>2. Max(S) \in T
    BY <1>2, <1>4, <2>1
  <2> QED
    BY <2>2
<1>6. PICK k \in T : \A y \in T : k <= y
  <2> HIDE DEF T
  <2> QED
    BY <1>5, NatMin
<1>7. Cardinality(Below(S, k)) = i
  <2> SUFFICES ASSUME Cardinality(Below(S, k)) > i PROVE FALSE
    BY <1>0, <1>6
  <2>1. IsFiniteSet(Below(S, k)) /\ Below(S, k) \in SUBSET Nat
    BY BelowFinite, <1>6 DEF Below
  <2>2. Below(S, k) # {}
    BY <1>0, FS_EmptySet
  <2> DEFINE j == Max(Below(S, k))
  <2>3. j \in Below(S, k) /\ \A y \in Below(S, k) : j >= y
    BY <2>1, <2>2, MaxIn
  <2>4. j \in S /\ j < k
    BY <2>3 DEF Below
  <2>5. Below(S, j) = Below(S, k) \ {j}
    <3>1. k \in Nat /\ j \in Nat /\ \A y \in S : y \in Nat
      BY <1>6, <2>4
    <3>2. \A y \in S : y < j <=> (y < k /\ y # j)
      <4> TAKE y \in S
      <4>1. y < k => j >= y
        BY <2>3 DEF Below
      <4> QED
        BY <3>1, <2>4, <4>1
    <3> QED
      BY <3>2, <2>4 DEF Below
  <2> HIDE DEF j
  <2>6. Cardinality(Below(S, j)) = Cardinality(Below(S, k)) - 1
    <3>1. Cardinality(Below(S, k) \ {j}) = Cardinality(Below(S, k)) - 1
      BY <2>1, <2>3, FS_RemoveElement
    <3> QED
      BY <3>1, <2>5
  <2>7. j \in T
    BY <2>4, <2>6, <1>0, <1>6
  <2>8. k <= j /\ k \in Nat /\ j \in Nat
    BY <2>4, <2>7, <1>6
  <2> QED
    BY <2>4, <2>8
<1> QED
  BY <1>6, <1>7 DEF Nth, Below

\* Sorted() lists the elements of a set in order.
LEMMA SortedProperties ==
  ASSUME NEW S \in SUBSET Nat, IsFiniteSet(S)
  PROVE  /\ Sorted(S) \in Seq(Nat)
         /\ ToSet(Sorted(S)) = S
         /\ \A i, j \in DOMAIN Sorted(S) : i < j => Sorted(S)[i] < Sorted(S)[j]
<1> DEFINE n == Cardinality(S)
<1>1. n \in Nat
  BY FS_CardinalityType
<1>2. DOMAIN Sorted(S) = 1 .. n /\ \A i \in 1 .. n : Sorted(S)[i] = Nth(S, i - 1)
  BY DEF Sorted
<1>3. \A i \in 1 .. n : Sorted(S)[i] \in S /\ Cardinality(Below(S, Sorted(S)[i])) = i - 1
  <2> TAKE i \in 1 .. n
  <2>1. i - 1 \in 0 .. n - 1
    BY <1>1
  <2> QED
    BY <1>2, <2>1, NthIn
<1>4. Sorted(S) \in Seq(Nat)
  <2>1. Sorted(S) \in [1 .. n -> Nat]
    BY <1>2, <1>3 DEF Sorted
  <2> QED
    BY <1>1, <2>1
<1>5. \A i, j \in 1 .. n : i < j => Sorted(S)[i] < Sorted(S)[j]
  <2> SUFFICES ASSUME NEW i \in 1 .. n, NEW j \in 1 .. n, i < j, ~(Sorted(S)[i] < Sorted(S)[j])
               PROVE  FALSE
    OBVIOUS
  <2>0. Sorted(S)[i] \in S /\ Sorted(S)[j] \in S
    BY <1>3
  <2>1. Sorted(S)[i] = Sorted(S)[j] \/ Sorted(S)[j] < Sorted(S)[i]
    <3>1. Sorted(S)[i] \in Nat /\ Sorted(S)[j] \in Nat
      BY <2>0
    <3> QED
      BY <3>1
  <2>2. CASE Sorted(S)[i] = Sorted(S)[j]
    BY <2>2, <1>3
  <2>3. CASE Sorted(S)[j] < Sorted(S)[i]
    <3>1. Cardinality(Below(S, Sorted(S)[j])) < Cardinality(Below(S, Sorted(S)[i]))
      BY <2>0, <2>3, BelowGrows
    <3> QED
      BY <3>1, <1>3
  <2> QED
    BY <2>1, <2>2, <2>3
<1>6. \A k \in S : \E i \in 1 .. n : Sorted(S)[i] = k
  <2> TAKE k \in S
  <2> DEFINE i == Cardinality(Below(S, k)) + 1
  <2>1. Below(S, k) \in SUBSET (S \ {k}) /\ IsFiniteSet(S \ {k}) /\ Cardinality(S \ {k}) = n - 1
    BY FS_RemoveElement DEF Below
  <2>2. Cardinality(Below(S, k)) <= n - 1 /\ Cardinality(Below(S, k)) \in Nat
    BY <2>1, FS_Subset, BelowFinite
  <2>3. i \in 1 .. n
    BY <1>1, <2>2
  <2>4. Sorted(S)[i] \in S /\ Cardinality(Below(S, Sorted(S)[i])) = i - 1
    BY <1>3, <2>3
  <2> DEFINE m == Sorted(S)[i]
  <2>5. m \in S /\ m \in Nat /\ k \in Nat /\ Cardinality(Below(S, m)) = Cardinality(Below(S, k))
    <3>1. m \in S /\ Cardinality(Below(S, m)) = i - 1
      BY <2>4
    <3>2. i - 1 = Cardinality(Below(S, k))
      BY <2>2
    <3> QED
      BY <3>1, <3>2
  <2> HIDE DEF m
  <2>6. ~(m < k) /\ ~(k < m)
    <3>1. m < k => Cardinality(Below(S, m)) < Cardinality(Below(S, k))
      BY <2>5, BelowGrows
    <3>2. k < m => Cardinality(Below(S, k)) < Cardinality(Below(S, m))
      BY <2>5, BelowGrows
    <3> QED
      BY <3>1, <3>2, <2>2, <2>5
  <2>7. m = k
    BY <2>5, <2>6
  <2> QED
    BY <2>3, <2>7 DEF m
<1> QED
  BY <1>2, <1>3, <1>4, <1>5, <1>6 DEF ToSet

\* A set with at most one item for a key is as large as the set of its keys.
LEMMA KeysInCount ==
  ASSUME NEW S, IsFiniteSet(S), \A x, y \in S : x[1] = y[1] => x = y
  PROVE  IsFiniteSet(KeysIn(S)) /\ Cardinality(KeysIn(S)) = Cardinality(S)
<1> DEFINE f == [x \in S |-> x[1]]
<1>1. f \in Bijection(S, KeysIn(S))
  <2>1. f \in [S -> KeysIn(S)]
    BY DEF KeysIn
  <2>2. \A x, y \in S : f[x] = f[y] => x = y
    OBVIOUS
  <2>3. \A k \in KeysIn(S) : \E x \in S : f[x] = k
    BY DEF KeysIn
  <2> HIDE DEF f
  <2> QED
    BY <2>1, <2>2, <2>3 DEF Bijection, Injection, Surjection, IsInjective
<1> QED
  BY <1>1, FS_Bijection DEF ExistsBijection

\* SortedByKey() lists the items of a set in the order of their keys.
LEMMA SortedByKeyProperties ==
  ASSUME NEW V, NEW S \in SUBSET (Nat \X V), IsFiniteSet(S),
         \A x, y \in S : x[1] = y[1] => x = y
  PROVE  /\ SortedByKey(S) \in Seq(S)
         /\ Len(SortedByKey(S)) = Cardinality(S)
         /\ \A x \in S : \E i \in DOMAIN SortedByKey(S) : SortedByKey(S)[i] = x
         /\ \A i, j \in DOMAIN SortedByKey(S) :
              i < j => SortedByKey(S)[i][1] < SortedByKey(S)[j][1]
<1> DEFINE K == KeysIn(S)
           s == SortedByKey(S)
           n == Cardinality(S)
<1>1. IsFiniteSet(K) /\ Cardinality(K) = n /\ n \in Nat
  BY KeysInCount, FS_CardinalityType
<1>2. K \in SUBSET Nat /\ \A x \in S : x[1] \in K
  BY DEF KeysIn
<1>3. /\ DOMAIN Sorted(K) = 1 .. n /\ ToSet(Sorted(K)) = K
      /\ \A i, j \in 1 .. n : i < j => Sorted(K)[i] < Sorted(K)[j]
      /\ \A i \in 1 .. n : Sorted(K)[i] = Nth(K, i - 1)
  <2> HIDE DEF K
  <2>1. DOMAIN Sorted(K) = 1 .. n /\ \A i \in 1 .. n : Sorted(K)[i] = Nth(K, i - 1)
    BY <1>1 DEF Sorted
  <2> QED
    BY <2>1, <1>1, <1>2, SortedProperties
<1>4. s = [i \in 1 .. n |-> CHOOSE x \in S : x[1] = Nth(K, i - 1)]
  BY <1>1 DEF SortedByKey
<1>5. \A i \in 1 .. n : s[i] \in S /\ s[i][1] = Sorted(K)[i]
  <2> TAKE i \in 1 .. n
  <2>1. Sorted(K)[i] \in K
    BY <1>3 DEF ToSet
  <2>2. PICK x \in S : x[1] = Nth(K, i - 1)
    BY <2>1, <1>3 DEF KeysIn
  <2> HIDE DEF K, s, n
  <2>3. s[i] = CHOOSE y \in S : y[1] = Nth(K, i - 1)
    BY <1>4
  <2> QED
    BY <2>2, <2>3, <1>3
<1>6. s \in Seq(S) /\ Len(s) = n /\ DOMAIN s = 1 .. n
  <2> HIDE DEF K, s, n
  <2>1. s \in [1 .. n -> S]
    BY <1>4, <1>5
  <2> QED
    BY <2>1, <1>1
<1>7. \A x \in S : \E i \in 1 .. n : s[i] = x
  <2> TAKE x \in S
  <2>1. PICK i \in 1 .. n : Sorted(K)[i] = x[1]
    BY <1>2, <1>3 DEF ToSet
  <2>2. s[i] \in S /\ s[i][1] = x[1]
    BY <1>5, <2>1
  <2> HIDE DEF K, s, n
  <2> QED
    BY <2>2
<1> QED
  <2> HIDE DEF K, s, n
  <2>1. \A i, j \in 1 .. n : i < j => s[i][1] < s[j][1]
    BY <1>3, <1>5
  <2> QED
    BY <2>1, <1>6, <1>7 DEF s, n

\* FlattenSeq() on the one or two lists that a walk of a chain collects.
LEMMA FlattenOne ==
  ASSUME NEW s
  PROVE  FlattenSeq(<<s>>) = s
<1> DEFINE seqs == <<s>>
           flatten[i \in 1 .. Len(seqs)] ==
             IF i = 1 THEN seqs[i] ELSE flatten[i - 1] \o seqs[i]
           g == [i \in 1 .. Len(seqs) |-> s]
<1>1. Len(seqs) = 1 /\ seqs[1] = s
  OBVIOUS
<1>2. g = [i \in 1 .. Len(seqs) |-> IF i = 1 THEN seqs[i] ELSE g[i - 1] \o seqs[i]]
  BY <1>1
<1>3. flatten = [i \in 1 .. Len(seqs) |->
                   IF i = 1 THEN seqs[i] ELSE flatten[i - 1] \o seqs[i]]
  <2> HIDE DEF g, seqs
  <2> QED
    BY <1>2
<1>4. FlattenSeq(seqs) = flatten[Len(seqs)]
  <2> HIDE DEF seqs
  <2>1. Len(seqs) # 0
    BY <1>1
  <2> QED
    BY <2>1, Zenon DEF FlattenSeq
<1> HIDE DEF flatten, seqs
<1>5. FlattenSeq(seqs) = s
  BY <1>1, <1>3, <1>4
<1> QED
  BY <1>5 DEF seqs

LEMMA FlattenTwo ==
  ASSUME NEW s, NEW t
  PROVE  FlattenSeq(<<s, t>>) = s \o t
<1> DEFINE seqs == <<s, t>>
           flatten[i \in 1 .. Len(seqs)] ==
             IF i = 1 THEN seqs[i] ELSE flatten[i - 1] \o seqs[i]
           g == [i \in 1 .. Len(seqs) |-> IF i = 1 THEN s ELSE s \o t]
<1>1. Len(seqs) = 2 /\ seqs[1] = s /\ seqs[2] = t
  OBVIOUS
<1>2. g = [i \in 1 .. Len(seqs) |-> IF i = 1 THEN seqs[i] ELSE g[i - 1] \o seqs[i]]
  BY <1>1
<1>3. flatten = [i \in 1 .. Len(seqs) |->
                   IF i = 1 THEN seqs[i] ELSE flatten[i - 1] \o seqs[i]]
  <2> HIDE DEF g, seqs
  <2> QED
    BY <1>2
<1>4. FlattenSeq(seqs) = flatten[Len(seqs)]
  <2> HIDE DEF seqs
  <2>1. Len(seqs) # 0
    BY <1>1
  <2> QED
    BY <2>1, Zenon DEF FlattenSeq
<1> HIDE DEF flatten, seqs
<1>5. FlattenSeq(seqs) = s \o t
  BY <1>1, <1>3, <1>4
<1> QED
  BY <1>5 DEF seqs

\* The positions of a chain on which a delta has been pushed.
Shift(S) == {i + 1 : i \in S}

LEMMA MinShift ==
  ASSUME NEW S \in SUBSET Nat, S # {}
  PROVE  Min(Shift(S)) = Min(S) + 1
<1>1. Min(S) \in S /\ \A y \in S : Min(S) <= y
  BY MinIn
<1>2. Shift(S) \in SUBSET Nat /\ Shift(S) # {}
  <2>1. \A i \in S : i + 1 \in Nat
    OBVIOUS
  <2> QED
    BY <2>1 DEF Shift
<1>3. Min(Shift(S)) \in Shift(S) /\ \A y \in Shift(S) : Min(Shift(S)) <= y
  BY <1>2, MinIn
<1>4. Min(S) + 1 \in Shift(S) /\ \A y \in Shift(S) : Min(S) + 1 <= y
  <2>1. \A y \in S : Min(S) + 1 <= y + 1
    <3> TAKE y \in S
    <3>1. Min(S) \in Nat /\ y \in Nat /\ Min(S) <= y
      BY <1>1
    <3> QED
      BY <3>1
  <2> QED
    BY <1>1, <2>1 DEF Shift
<1> DEFINE a == Min(Shift(S))
           b == Min(S) + 1
<1>5. a \in Nat /\ b \in Nat /\ a <= b /\ b <= a
  BY <1>1, <1>2, <1>3, <1>4
<1> HIDE DEF a, b
<1>6. a = b
  BY <1>5
<1> QED
  BY <1>6 DEF a, b

\* The least element of a set that holds 1 is 1.
LEMMA MinOne ==
  ASSUME NEW S \in SUBSET (Nat \ {0}), 1 \in S
  PROVE  Min(S) = 1
<1>1. Min(S) \in S /\ \A y \in S : Min(S) <= y
  BY MinIn
<1> DEFINE a == Min(S)
<1>2. a \in Nat \ {0} /\ a <= 1
  BY <1>1
<1> HIDE DEF a
<1>3. a = 1
  BY <1>2
<1> QED
  BY <1>3 DEF a

\* The greatest element of a set with an element that no other exceeds.
LEMMA MaxIs ==
  ASSUME NEW S \in SUBSET Nat, NEW x \in S, \A y \in S : y <= x
  PROVE  Max(S) = x
<1>1. \A y \in S : x >= y
  OBVIOUS
<1>2. Max(S) \in S /\ \A y \in S : Max(S) >= y
  BY <1>1 DEF Max
<1> DEFINE a == Max(S)
<1>3. a \in Nat /\ x \in Nat /\ a >= x /\ a <= x
  BY <1>2
<1> HIDE DEF a
<1>4. a = x
  BY <1>3
<1> QED
  BY <1>4 DEF a

\* The same for the least element.
LEMMA MinIs ==
  ASSUME NEW S \in SUBSET Nat, NEW x \in S, \A y \in S : x <= y
  PROVE  Min(S) = x
<1>2. Min(S) \in S /\ \A y \in S : Min(S) <= y
  BY MinIn
<1> DEFINE a == Min(S)
<1>3. a \in Nat /\ x \in Nat /\ a >= x /\ a <= x
  BY <1>2
<1> HIDE DEF a
<1>4. a = x
  BY <1>3
<1> QED
  BY <1>4 DEF a

-----------------------------------------------------------------------------
(* The inductive invariant: what holds of one chain and its content.       *)

Low(l)       == LowPairOf(l)[1]
Inside(l, k) == Low(l) <= k /\ (HighOf(l)[2] # INVALID_NODE_ID => k < HighOf(l)[1])
\* IdsFor() in reverse, with the child that is never removed: ids differ where keys do.
Named(pair)  == pair[2] \in {2 * pair[1], 2 * pair[1] + 1}
Touches(d, k) == IsData(d) /\ d.item[1] = k

DeltaTypes == {"insert", "delete", "split", "merge"}
Deltas ==
  [type : DeltaTypes, item : Pairs, prev : Pairs, next : Pairs, location : Nat,
   right : BaseType, count : Nat, high : Pairs]
Chains == [deltas : Seq(Deltas), base : BaseType]

\* A base node: its items in the order of their keys.
Ordered(items) ==
  /\ items # <<>>
  /\ \A p, q \in DOMAIN items : p < q => items[p][1] < items[q][1]
  /\ \A p \in DOMAIN items : Named(items[p])

\* There is at most one merge delta: the chain below it ends at its key, and
\* its right branch starts there and has no high key.
MergesSound(l) ==
  \A m \in Merges(l) :
    LET d == l.deltas[m] IN
    /\ \A j \in Merges(l) : j = m
    /\ Ordered(d.right.items) /\ d.right.items[1][1] = d.item[1] /\ d.right.high = NoHigh
    /\ Low(l) < d.item[1]
    /\ LeftmostHigh(l)[1] = d.item[1] /\ LeftmostHigh(l)[2] # INVALID_NODE_ID
    /\ HighOf(l) = NoHigh
    /\ \A i \in DOMAIN l.deltas : i > m /\ IsData(l.deltas[i]) => l.deltas[i].item[1] < d.item[1]

\* The location of a delta cuts the base node as TypeOK says.
Located(l, d) ==
  LET items == BaseFor(l, RightTurns(l, d.item[1])).items IN
  /\ d.location \in 1 .. Len(items) + 1
  /\ \A p \in DOMAIN items :
       p < d.location <=> items[p][1] < d.item[1] \/ items[p] = LowPairOf(l)

DeltasSound(l) ==
  \A i \in DOMAIN l.deltas : LET d == l.deltas[i] IN IsData(d) =>
    /\ d.item[1] \in Keys /\ Low(l) < d.item[1] /\ Inside(l, d.item[1])
    /\ Located(l, d)

\* The separators of a chain and their children.
ContentSound(l, c) ==
  /\ c \in [DOMAIN c -> Nat] /\ DOMAIN c \subseteq Keys \cup {LowKey} /\ IsFiniteSet(DOMAIN c)
  /\ \A s \in DOMAIN c : Inside(l, s) /\ Named(<<s, c[s]>>)
  /\ Low(l) \in DOMAIN c /\ c[Low(l)] = LowPairOf(l)[2]
  /\ CountOf(l) = Cardinality(DOMAIN c)

\* The separator whose child holds k.
SepBelow(c, k) == Max({s \in DOMAIN c : s <= k})
\* The walk down to the child for k, with the base node searched as a whole.
LastUpTo(items, k) == Max({1} \cup {p \in DOMAIN items : items[p][1] <= k})
Deciding(l, k)     == {i \in Visited(l, RightTurns(l, k)) : Decides(l, l.deltas[i], k)}
Walk(l, k) ==
  LET items == BaseFor(l, RightTurns(l, k)).items IN
  IF Deciding(l, k) # {} THEN Child(NewestOf(l, Deciding(l, k)))
  ELSE items[LastUpTo(items, k)][2]

WalkExact(l, c) == \A k \in Nat : Inside(l, k) => Walk(l, k) = c[SepBelow(c, k)]

\* The newest delta on a key tells whether it is a separator; if there is none
\* the base node does.
KnownExact(l, c) ==
  /\ \A i \in Newest(l.deltas) : LET d == l.deltas[i] IN
       /\ d.type = "insert" => d.item[1] \in DOMAIN c /\ c[d.item[1]] = d.item[2]
       /\ d.type = "delete" => d.item[1] \notin DOMAIN c
  /\ \A k \in Nat : 
       Inside(l, k) /\ (\A i \in DOMAIN l.deltas : ~Touches(l.deltas[i], k)) =>
         LET items == BaseFor(l, RightTurns(l, k)).items IN
         /\ k \in DOMAIN c <=> \E p \in DOMAIN items : items[p][1] = k
         /\ \A p \in DOMAIN items : items[p][1] = k => c[k] = items[p][2]

ChainOK(l, c) ==
  /\ l \in Chains /\ Ordered(l.base.items)
  /\ MergesSound(l) /\ DeltasSound(l)
  /\ ContentSound(l, c) /\ WalkExact(l, c) /\ KnownExact(l, c)
  /\ l.deltas = <<>> => \A p \in DOMAIN l.base.items : Inside(l, l.base.items[p][1])

NodesOK(l1, l2, c1, c2) ==
  /\ ChainOK(l1, c1) /\ Low(l1) = LowKey
  /\ \/ l2 = NoInner /\ c2 = NoContent /\ HighOf(l1) = NoHigh
     \/ /\ ChainOK(l2, c2) /\ HighOf(l2) = NoHigh
        /\ Merges(l1) = {} /\ HighOf(l1) = <<Low(l2), 2>> /\ LowKey < Low(l2)

ChainInv ==
  /\ DOMAIN inner = 1 .. 2 /\ DOMAIN content = 1 .. 2
  /\ NodesOK(inner[1], inner[2], content[1], content[2])

-----------------------------------------------------------------------------
(* Lemmas about constants and numbers.                                     *)

LEMMA Constants ==
  /\ Keys \subseteq Nat \ {0} /\ LowKey = 0 /\ LowChild = 1 /\ INVALID_NODE_ID = 0
  /\ NoHigh = <<0, 0>>
  /\ UpperThreshold \in Nat /\ UpperThreshold > 1
BY InnerChainAssumption DEF InnerChainAssumption, LowKey, LowChild, INVALID_NODE_ID, NoHigh

LEMMA PairsType == Pairs \subseteq Nat \X Nat
<1>1. Keys \cup {LowKey} \subseteq Nat
  BY Constants
<1> QED
  BY <1>1 DEF Pairs

\* Ids differ where keys do.
LEMMA NamedApart ==
  ASSUME NEW x \in Nat \X Nat, NEW y \in Nat \X Nat, Named(x), Named(y)
  PROVE  /\ x[2] = y[2] => x[1] = y[1]
         /\ x = y <=> x[2] = y[2]
<1> DEFINE xk == x[1]
           xi == x[2]
           yk == y[1]
           yi == y[2]
<1>1. /\ xk \in Nat /\ xi \in Nat /\ x = <<xk, xi>> /\ yk \in Nat /\ yi \in Nat /\ y = <<yk, yi>>
      /\ (xi = 2 * xk \/ xi = 2 * xk + 1) /\ (yi = 2 * yk \/ yi = 2 * yk + 1)
  BY DEF Named
<1>2. xi = yi => xk = yk
  <2> HIDE DEF xk, xi, yk, yi
  <2> QED
    BY <1>1
<1> QED
  <2>1. x[2] = y[2] => x[1] = y[1]
    BY <1>2
  <2>2. x[2] = y[2] => x = y
    BY <1>1, <2>1
  <2> QED
    BY <2>1, <2>2

-----------------------------------------------------------------------------
(* Chains and the deltas that are pushed on them.                          *)

LEMMA ChainFields ==
  ASSUME NEW l \in Chains
  PROVE  /\ l = [deltas |-> l.deltas, base |-> l.base]
         /\ l.deltas \in Seq(Deltas) /\ Len(l.deltas) \in Nat
         /\ DOMAIN l.deltas = 1 .. Len(l.deltas)
         /\ \A i \in DOMAIN l.deltas : l.deltas[i] \in Deltas /\ i \in Nat \ {0}
         /\ l.base \in BaseType
<1>1. l.deltas \in Seq(Deltas) /\ l.base \in BaseType /\ l = [deltas |-> l.deltas, base |-> l.base]
  BY DEF Chains
<1> QED
  BY <1>1, LenProperties

LEMMA BaseFields ==
  ASSUME NEW b \in BaseType
  PROVE  /\ b.items \in Seq(Pairs) /\ Len(b.items) \in Nat /\ b.high \in Pairs
         /\ DOMAIN b.items = 1 .. Len(b.items)
         /\ \A p \in DOMAIN b.items : /\ b.items[p] \in Pairs /\ b.items[p] \in Nat \X Nat
                                      /\ b.items[p][1] \in Nat /\ b.items[p][2] \in Nat
                                      /\ b.items[p][1] \in Keys \cup {LowKey}
         /\ b.items # <<>> => 1 \in DOMAIN b.items
<1>1. b.items \in Seq(Pairs) /\ b.high \in Pairs
  BY DEF BaseType
<1>2. Pairs \subseteq Nat \X Nat
  BY PairsType
<1>3. Len(b.items) \in Nat /\ DOMAIN b.items = 1 .. Len(b.items)
      /\ \A p \in 1 .. Len(b.items) : b.items[p] \in Pairs
  BY <1>1
<1>4. b.items # <<>> => Len(b.items) \in Nat \ {0}
  BY <1>1, EmptySeq
<1>5. \A p \in DOMAIN b.items : /\ b.items[p] \in Pairs /\ b.items[p] \in Nat \X Nat
                                /\ b.items[p][1] \in Keys \cup {LowKey}
  BY <1>2, <1>3 DEF Pairs
<1>6. \A x \in Nat \X Nat : x[1] \in Nat /\ x[2] \in Nat
  OBVIOUS
<1> QED
  BY <1>1, <1>3, <1>4, <1>5, <1>6

LEMMA DeltaFields ==
  ASSUME NEW d \in Deltas
  PROVE  /\ d.type \in DeltaTypes
         /\ d.item \in Pairs /\ d.item[1] \in Nat /\ d.item[2] \in Nat
         /\ d.prev \in Pairs /\ d.prev[1] \in Nat /\ d.prev[2] \in Nat
         /\ d.next \in Pairs /\ d.next[1] \in Nat /\ d.next[2] \in Nat
         /\ d.high \in Pairs /\ d.high[1] \in Nat /\ d.high[2] \in Nat
         /\ d.location \in Nat /\ d.count \in Nat /\ d.right \in BaseType
<1>1. Pairs \subseteq Nat \X Nat
  BY PairsType
<1>2. /\ d.type \in DeltaTypes /\ d.item \in Pairs /\ d.prev \in Pairs /\ d.next \in Pairs
      /\ d.high \in Pairs /\ d.location \in Nat /\ d.count \in Nat /\ d.right \in BaseType
  BY DEF Deltas
<1> QED
  BY <1>1, <1>2

LEMMA HighType ==
  ASSUME NEW l \in Chains
  PROVE  /\ HighOf(l) \in Pairs /\ HighOf(l)[1] \in Nat /\ HighOf(l)[2] \in Nat
         /\ CountOf(l) \in Nat
<1>1. Pairs \subseteq Nat \X Nat
  BY PairsType
<1>2. HighOf(l) \in Pairs /\ CountOf(l) \in Nat
  <2>1. CASE l.deltas = <<>>
    BY <2>1, ChainFields, BaseFields DEF HighOf, CountOf
  <2>2. CASE l.deltas # <<>>
    <3>1. Head(l.deltas) \in Deltas
      BY <2>2, ChainFields, HeadTailProperties
    <3> QED
      BY <2>2, <3>1, DeltaFields DEF HighOf, CountOf
  <2> QED
    BY <2>1, <2>2
<1> QED
  BY <1>1, <1>2

LEMMA PushFields ==
  ASSUME NEW l \in Chains, NEW d \in Deltas
  PROVE  LET l2 == Push(l, d) IN
         /\ l2 \in Chains /\ l2.base = l.base /\ l2.deltas # <<>>
         /\ Len(l2.deltas) = Len(l.deltas) + 1
         /\ DOMAIN l2.deltas = {1} \cup Shift(DOMAIN l.deltas)
         /\ l2.deltas[1] = d
         /\ \A i \in DOMAIN l.deltas : l2.deltas[i + 1] = l.deltas[i]
         /\ HighOf(l2) = d.high /\ CountOf(l2) = d.count /\ TypeOf(l2) = d.type
         /\ LowPairOf(l2) = LowPairOf(l) /\ Low(l2) = Low(l)
<1> DEFINE l2 == Push(l, d)
           n == Len(l.deltas)
<1>1. /\ l.deltas \in Seq(Deltas) /\ n \in Nat /\ DOMAIN l.deltas = 1 .. n /\ l.base \in BaseType
  BY ChainFields
<1>2. l2.deltas = <<d>> \o l.deltas /\ l2.base = l.base
  BY DEF Push
<1>3. <<d>> \in Seq(Deltas) /\ Len(<<d>>) = 1 /\ <<d>>[1] = d
  OBVIOUS
<1>4. /\ l2.deltas \in Seq(Deltas) /\ Len(l2.deltas) = 1 + n
      /\ \A i \in 1 .. 1 + n : l2.deltas[i] = IF i <= 1 THEN <<d>>[i] ELSE l.deltas[i - 1]
  BY <1>1, <1>2, <1>3, ConcatProperties
<1>5. l2.deltas[1] = d /\ \A i \in 1 .. n : l2.deltas[i + 1] = l.deltas[i]
  <2>1. 1 \in 1 .. 1 + n /\ \A i \in 1 .. n : i + 1 \in 1 .. 1 + n /\ ~(i + 1 <= 1) /\ (i + 1) - 1 = i
    BY <1>1
  <2> HIDE DEF l2, n
  <2> QED
    BY <2>1, <1>3, <1>4
<1>6. DOMAIN l2.deltas = {1} \cup Shift(1 .. n)
  <2>1. DOMAIN l2.deltas = 1 .. 1 + n
    BY <1>4, LenProperties
  <2>2. \A i : i \in 1 .. 1 + n <=> i = 1 \/ \E j \in 1 .. n : i = j + 1
    <3>1. ASSUME NEW i \in 1 .. 1 + n, i # 1 PROVE i - 1 \in 1 .. n /\ i = (i - 1) + 1
      BY <1>1, <3>1
    <3>2. ASSUME NEW j \in 1 .. n PROVE j + 1 \in 1 .. 1 + n
      BY <1>1
    <3>3. 1 \in 1 .. 1 + n
      BY <1>1
    <3> HIDE DEF n
    <3> QED
      BY <3>1, <3>2, <3>3, Zenon
  <2> QED
    BY <2>1, <2>2 DEF Shift
<1>7. l2 \in Chains /\ l2.deltas # <<>>
  <2>1. l2.deltas # <<>>
    BY <1>1, <1>4, EmptySeq
  <2>2. l2 = [deltas |-> l2.deltas, base |-> l2.base]
    BY DEF Push
  <2> HIDE DEF l2
  <2> QED
    BY <1>1, <1>2, <1>4, <2>1, <2>2 DEF Chains
<1>8. Head(l2.deltas) = d
  BY <1>4, <1>5, <1>7, HeadTailProperties
<1> QED
  <2> HIDE DEF l2
  <2>1. HighOf(l2) = d.high /\ CountOf(l2) = d.count /\ TypeOf(l2) = d.type
    BY <1>7, <1>8 DEF HighOf, CountOf, TypeOf
  <2>2. LowPairOf(l2) = LowPairOf(l) /\ Low(l2) = Low(l)
    BY <1>2 DEF LowPairOf, Low
  <2>3. Len(l2.deltas) = Len(l.deltas) + 1
    BY <1>1, <1>4
  <2> QED
    BY <1>1, <1>2, <1>5, <1>6, <1>7, <2>1, <2>2, <2>3 DEF l2

LEMMA TurnsType ==
  ASSUME NEW l \in Chains, NEW k
  PROVE  /\ RightTurns(l, k) \in SUBSET Merges(l) /\ Merges(l) \in SUBSET DOMAIN l.deltas
         /\ Merges(l) \in SUBSET Nat /\ RightTurns(l, k) \in SUBSET Nat
         /\ Visited(l, RightTurns(l, k)) \in SUBSET DOMAIN l.deltas
         /\ Deciding(l, k) \in SUBSET DOMAIN l.deltas
         /\ Deciding(l, k) \in SUBSET (Nat \ {0})
<1>1. DOMAIN l.deltas \in SUBSET (Nat \ {0})
  BY ChainFields
<1>2. /\ RightTurns(l, k) \in SUBSET Merges(l) /\ Merges(l) \in SUBSET DOMAIN l.deltas
  BY DEF RightTurns, Merges
<1>3. Visited(l, RightTurns(l, k)) \in SUBSET DOMAIN l.deltas
  BY DEF Visited
<1>4. Deciding(l, k) \in SUBSET DOMAIN l.deltas
  BY <1>3 DEF Deciding
<1> QED
  BY <1>1, <1>2, <1>3, <1>4

\* A data delta hides nothing of the base nodes.
LEMMA PushTurns ==
  ASSUME NEW l \in Chains, NEW d \in Deltas, IsData(d), NEW k
  PROVE  LET l2 == Push(l, d) IN
         /\ RightTurns(l2, k) = Shift(RightTurns(l, k)) /\ Merges(l2) = Shift(Merges(l))
         /\ BaseFor(l2, RightTurns(l2, k)) = BaseFor(l, RightTurns(l, k))
         /\ Visited(l2, RightTurns(l2, k)) = {1} \cup Shift(Visited(l, RightTurns(l, k)))
<1> DEFINE l2 == Push(l, d)
           T == RightTurns(l, k)
<1>1. /\ DOMAIN l2.deltas = {1} \cup Shift(DOMAIN l.deltas) /\ l2.deltas[1] = d
      /\ \A i \in DOMAIN l.deltas : l2.deltas[i + 1] = l.deltas[i]
      /\ l2.base = l.base
  BY PushFields
<1>2. d.type # "merge"
  BY DEF IsData
<1>3. DOMAIN l.deltas \in SUBSET (Nat \ {0}) /\ T \in SUBSET DOMAIN l.deltas /\ T \in SUBSET Nat
  BY ChainFields, TurnsType
<1> HIDE DEF l2
<1>4. RightTurns(l2, k) = Shift(T)
  <2>1. \A i : i \in RightTurns(l2, k) <=>
               i \in DOMAIN l2.deltas /\ l2.deltas[i].type = "merge" /\ k >= l2.deltas[i].item[1]
    BY DEF RightTurns
  <2>2. \A i : i \in RightTurns(l2, k) <=>
               \E j \in DOMAIN l.deltas : i = j + 1 /\ l.deltas[j].type = "merge" /\ k >= l.deltas[j].item[1]
    BY <2>1, <1>1, <1>2 DEF Shift
  <2> QED
    BY <2>2 DEF Shift, RightTurns
<1>5. Merges(l2) = Shift(Merges(l))
  <2>1. \A i : i \in Merges(l2) <=> i \in DOMAIN l2.deltas /\ l2.deltas[i].type = "merge"
    BY DEF Merges
  <2>2. \A i : i \in Merges(l2) <=> \E j \in DOMAIN l.deltas : i = j + 1 /\ l.deltas[j].type = "merge"
    BY <2>1, <1>1, <1>2 DEF Shift
  <2> QED
    BY <2>2 DEF Shift, Merges
<1> HIDE DEF T
<1>6. BaseFor(l2, Shift(T)) = BaseFor(l, T)
  <2>1. CASE T = {}
    <3>1. Shift(T) = {}
      BY <2>1 DEF Shift
    <3> QED
      BY <2>1, <3>1, <1>1 DEF BaseFor
  <2>2. CASE T # {}
    <3>1. Shift(T) # {} /\ Min(Shift(T)) = Min(T) + 1
      <4>1. Shift(T) # {}
        BY <2>2 DEF Shift
      <4> QED
        BY <4>1, <2>2, <1>3, MinShift
    <3>2. Min(T) \in DOMAIN l.deltas
      BY <2>2, <1>3, MinIn
    <3> QED
      BY <2>2, <3>1, <3>2, <1>1 DEF BaseFor
  <2> QED
    BY <2>1, <2>2
<1>7. Visited(l2, Shift(T)) = {1} \cup Shift(Visited(l, T))
  <2>1. \A i \in Nat : \A t \in Nat : i + 1 <= t + 1 <=> i <= t
    OBVIOUS
  <2>2. \A t \in Nat : 1 <= t + 1
    OBVIOUS
  <2>3. \A t \in T : t \in Nat
    BY <1>3
  <2>4. 1 \in Visited(l2, Shift(T))
    BY <1>1, <2>2, <2>3 DEF Visited, Shift
  <2>5. ASSUME NEW j \in DOMAIN l.deltas
        PROVE  j + 1 \in Visited(l2, Shift(T)) <=> j \in Visited(l, T)
    <3>1. j \in Nat /\ j + 1 \in DOMAIN l2.deltas
      BY <1>1, <1>3 DEF Shift
    <3>2. (\A t \in T : j <= t) <=> (\A u \in Shift(T) : j + 1 <= u)
      BY <3>1, <2>1, <2>3 DEF Shift
    <3> QED
      BY <3>1, <3>2 DEF Visited
  <2>6. Visited(l2, Shift(T)) \in SUBSET ({1} \cup Shift(DOMAIN l.deltas))
    BY <1>1 DEF Visited
  <2>7. \A i : i \in Visited(l2, Shift(T)) <=> i = 1 \/ \E j \in Visited(l, T) : i = j + 1
    <3>1. Visited(l, T) \in SUBSET DOMAIN l.deltas
      BY DEF Visited
    <3> QED
      BY <2>4, <2>5, <2>6, <3>1 DEF Shift
  <2> QED
    BY <2>7 DEF Shift
<1> QED
  BY <1>4, <1>5, <1>6, <1>7 DEF l2, T

\* Deltas that decide nothing do not change the walk.
LEMMA ShiftWalk ==
  ASSUME NEW l \in Chains, NEW l2 \in Chains, NEW k, Deciding(l2, k) = Shift(Deciding(l, k)),
         \A i \in DOMAIN l.deltas : l2.deltas[i + 1] = l.deltas[i],
         BaseFor(l2, RightTurns(l2, k)) = BaseFor(l, RightTurns(l, k))
  PROVE  Walk(l2, k) = Walk(l, k)
<1> DEFINE D == Deciding(l, k)
           D2 == Deciding(l2, k)
<1>1. D \in SUBSET DOMAIN l.deltas /\ D \in SUBSET Nat
  BY TurnsType
<1>2. CASE D = {}
  <2>1. D2 = {}
    BY <1>2 DEF Shift
  <2> QED
    BY <1>2, <2>1 DEF Walk
<1>3. CASE D # {}
  <2> DEFINE m == Min(D)
  <2>1. m \in D
    BY <1>1, <1>3, MinIn
  <2>2. Min(D2) = m + 1 /\ D2 # {}
    <3>1. Shift(D) # {} /\ Min(Shift(D)) = Min(D) + 1
      <4>1. Shift(D) # {}
        BY <1>3 DEF Shift
      <4> HIDE DEF D
      <4> QED
        BY <4>1, <1>1, <1>3, MinShift
    <3> QED
      BY <3>1
  <2>3. l2.deltas[m + 1] = l.deltas[m]
    BY <2>1, <1>1
  <2> QED
    BY <1>3, <2>2, <2>3 DEF Walk, NewestOf
<1> QED
  BY <1>2, <1>3

LEMMA PushWalk ==
  ASSUME NEW l \in Chains, NEW d \in Deltas, IsData(d), NEW k
  PROVE  Walk(Push(l, d), k) = IF Decides(l, d, k) THEN Child(d) ELSE Walk(l, k)
<1> DEFINE l2 == Push(l, d)
           D == Deciding(l, k)
           D2 == Deciding(l2, k)
<1>1. /\ DOMAIN l2.deltas = {1} \cup Shift(DOMAIN l.deltas) /\ l2.deltas[1] = d
      /\ \A i \in DOMAIN l.deltas : l2.deltas[i + 1] = l.deltas[i]
      /\ l2 \in Chains /\ LowPairOf(l2) = LowPairOf(l)
  BY PushFields
<1>2. /\ BaseFor(l2, RightTurns(l2, k)) = BaseFor(l, RightTurns(l, k))
      /\ Visited(l2, RightTurns(l2, k)) = {1} \cup Shift(Visited(l, RightTurns(l, k)))
  BY PushTurns
<1>3. /\ D \in SUBSET DOMAIN l.deltas /\ D \in SUBSET (Nat \ {0})
      /\ D2 \in SUBSET (Nat \ {0})
      /\ Visited(l, RightTurns(l, k)) \in SUBSET DOMAIN l.deltas
  <2> HIDE DEF l2
  <2> QED
    BY <1>1, TurnsType
<1> HIDE DEF l2
<1>4. \A x : Decides(l2, x, k) <=> Decides(l, x, k)
  BY <1>1 DEF Decides
<1>5. /\ 1 \in D2 <=> Decides(l, d, k)
      /\ \A j \in DOMAIN l.deltas : j \in D => j + 1 \in D2
      /\ \A i \in D2 : i # 1 => \E j \in D : i = j + 1
  <2>1. \A i : i \in D2 <=> i \in Visited(l2, RightTurns(l2, k)) /\ Decides(l, l2.deltas[i], k)
    BY <1>4 DEF Deciding
  <2>2. \A i : i \in D <=> i \in Visited(l, RightTurns(l, k)) /\ Decides(l, l.deltas[i], k)
    BY DEF Deciding
  <2> HIDE DEF D, D2
  <2>3. 1 \in D2 <=> Decides(l, d, k)
    BY <1>1, <1>2, <2>1
  <2>4. \A i \in D2 : i # 1 => \E j \in D : i = j + 1
    BY <1>1, <1>2, <1>3, <2>1, <2>2 DEF Shift
  <2>5. \A j \in DOMAIN l.deltas : j \in D => j + 1 \in D2
    BY <1>1, <1>2, <1>3, <2>1, <2>2 DEF Shift
  <2> QED
    BY <2>3, <2>4, <2>5
<1>6. CASE Decides(l, d, k)
  <2>1. 1 \in D2 /\ Min(D2) = 1
    BY <1>3, <1>5, <1>6, MinOne
  <2>2. Walk(l2, k) = Child(d)
    BY <2>1, <1>1 DEF Walk, NewestOf
  <2> QED
    BY <2>2, <1>6 DEF l2
<1>7. CASE ~Decides(l, d, k)
  <2>1. D2 = Shift(D)
    <3> HIDE DEF D, D2
    <3> QED
      BY <1>3, <1>5, <1>7 DEF Shift
  <2>2. Walk(l2, k) = Walk(l, k)
    BY <2>1, <1>1, <1>2, ShiftWalk
  <2> QED
    BY <2>2, <1>7 DEF l2
<1> QED
  BY <1>6, <1>7

\* The new delta is the newest on its key; the other keys keep theirs.
LEMMA PushNewest ==
  ASSUME NEW l \in Chains, NEW d \in Deltas, IsData(d)
  PROVE  \A i : i \in Newest(Push(l, d).deltas) <=>
                \/ i = 1
                \/ \E j \in Newest(l.deltas) : i = j + 1 /\ l.deltas[j].item[1] # d.item[1]
<1> DEFINE l2 == Push(l, d)
<1>1. /\ DOMAIN l2.deltas = {1} \cup Shift(DOMAIN l.deltas) /\ l2.deltas[1] = d
      /\ \A i \in DOMAIN l.deltas : l2.deltas[i + 1] = l.deltas[i]
      /\ Len(l.deltas) \in Nat /\ DOMAIN l.deltas = 1 .. Len(l.deltas)
  BY PushFields, ChainFields
<1> HIDE DEF l2
<1>2. \A i : i \in Newest(l2.deltas) <=>
        /\ i \in DOMAIN l2.deltas /\ IsData(l2.deltas[i])
        /\ \A j \in 1 .. i - 1 : ~(IsData(l2.deltas[j]) /\ l2.deltas[j].item[1] = l2.deltas[i].item[1])
  BY DEF Newest
<1>3. \A i : i \in Newest(l.deltas) <=>
        /\ i \in DOMAIN l.deltas /\ IsData(l.deltas[i])
        /\ \A j \in 1 .. i - 1 : ~(IsData(l.deltas[j]) /\ l.deltas[j].item[1] = l.deltas[i].item[1])
  BY DEF Newest
<1>4. 1 \in Newest(l2.deltas)
  BY <1>1, <1>2
<1>5. ASSUME NEW j \in DOMAIN l.deltas
      PROVE  j + 1 \in Newest(l2.deltas) <=> j \in Newest(l.deltas) /\ l.deltas[j].item[1] # d.item[1]
  <2>1. j \in Nat \ {0} /\ j + 1 \in DOMAIN l2.deltas /\ l2.deltas[j + 1] = l.deltas[j]
    BY <1>1 DEF Shift
  <2>2. \A x : x \in 1 .. (j + 1) - 1 <=> x = 1 \/ \E y \in 1 .. j - 1 : x = y + 1
    <3>1. ASSUME NEW x \in 1 .. (j + 1) - 1, x # 1 PROVE x - 1 \in 1 .. j - 1 /\ x = (x - 1) + 1
      BY <2>1, <3>1
    <3>2. ASSUME NEW y \in 1 .. j - 1 PROVE y + 1 \in 1 .. (j + 1) - 1
      BY <2>1
    <3>3. 1 \in 1 .. (j + 1) - 1
      BY <2>1
    <3> QED
      BY <3>1, <3>2, <3>3, Zenon
  <2>3. \A y \in 1 .. j - 1 : y \in DOMAIN l.deltas /\ l2.deltas[y + 1] = l.deltas[y]
    BY <1>1, <2>1
  <2>4. (\A x \in 1 .. (j + 1) - 1 : ~(IsData(l2.deltas[x]) /\ l2.deltas[x].item[1] = l.deltas[j].item[1]))
        <=> /\ d.item[1] # l.deltas[j].item[1]
            /\ \A y \in 1 .. j - 1 : ~(IsData(l.deltas[y]) /\ l.deltas[y].item[1] = l.deltas[j].item[1])
    <3> DEFINE old(y) == IsData(l.deltas[y]) /\ l.deltas[y].item[1] = l.deltas[j].item[1]
               new(x) == IsData(l2.deltas[x]) /\ l2.deltas[x].item[1] = l.deltas[j].item[1]
    <3>1. new(1) <=> d.item[1] = l.deltas[j].item[1]
      BY <1>1
    <3>2. \A y \in 1 .. j - 1 : new(y + 1) <=> old(y)
      BY <2>3
    <3> HIDE DEF old, new
    <3>3. (\A x \in 1 .. (j + 1) - 1 : ~new(x)) <=> ~new(1) /\ \A y \in 1 .. j - 1 : ~old(y)
      BY <2>2, <3>2
    <3> QED
      BY <3>1, <3>3 DEF old, new
  <2> QED
    BY <1>2, <1>3, <2>1, <2>4
<1> QED
  <2>1. \A i \in Newest(l2.deltas) : i = 1 \/ \E j \in DOMAIN l.deltas : i = j + 1
    BY <1>1, <1>2 DEF Shift
  <2>2. Newest(l.deltas) \in SUBSET DOMAIN l.deltas
    BY <1>3
  <2>3. \A i : i \in Newest(l2.deltas) <=>
                \/ i = 1
                \/ \E j \in Newest(l.deltas) : i = j + 1 /\ l.deltas[j].item[1] # d.item[1]
    BY <1>4, <1>5, <2>1, <2>2
  <2> QED
    BY <2>3 DEF l2

LEMMA OneMerge ==
  ASSUME NEW l \in Chains, MergesSound(l), NEW m \in Merges(l)
  PROVE  Merges(l) = {m} /\ Max(Merges(l)) = m /\ m \in DOMAIN l.deltas /\ m \in Nat \ {0}
<1>1. Merges(l) = {m}
  BY DEF MergesSound
<1>2. m \in DOMAIN l.deltas /\ m \in Nat \ {0}
  BY ChainFields DEF Merges
<1>3. Max({m}) = m
  BY <1>2, MaxIs
<1> QED
  BY <1>1, <1>2, <1>3

LEMMA PushLeftmostHigh ==
  ASSUME NEW l \in Chains, MergesSound(l), NEW d \in Deltas, IsData(d), d.high = HighOf(l)
  PROVE  LeftmostHigh(Push(l, d)) = LeftmostHigh(l)
<1> DEFINE l2 == Push(l, d)
<1>1. /\ DOMAIN l2.deltas = {1} \cup Shift(DOMAIN l.deltas) /\ l2.deltas[1] = d
      /\ \A i \in DOMAIN l.deltas : l2.deltas[i + 1] = l.deltas[i]
      /\ Len(l2.deltas) = Len(l.deltas) + 1 /\ HighOf(l2) = d.high /\ l2.base = l.base
  BY PushFields
<1>2. Merges(l2) = Shift(Merges(l))
  BY PushTurns
<1>3. Len(l.deltas) \in Nat /\ DOMAIN l.deltas = 1 .. Len(l.deltas)
  BY ChainFields
<1> HIDE DEF l2
<1>4. CASE Merges(l) = {}
  <2>1. Merges(l2) = {}
    BY <1>2, <1>4 DEF Shift
  <2>2. LeftmostHigh(l2) = LeftmostHigh(l)
    BY <2>1, <1>1, <1>4 DEF LeftmostHigh
  <2> QED
    BY <2>2 DEF l2
<1>5. CASE Merges(l) # {}
  <2>1. PICK m \in Merges(l) : TRUE
    BY <1>5
  <2>2. Merges(l) = {m} /\ Max(Merges(l)) = m /\ m \in DOMAIN l.deltas /\ m \in Nat \ {0}
    BY <2>1, OneMerge
  <2>3. Merges(l2) = {m + 1} /\ Max(Merges(l2)) = m + 1
    <3>1. Merges(l2) = {m + 1}
      BY <1>2, <2>2 DEF Shift
    <3>2. Max({m + 1}) = m + 1
      BY <2>2, MaxIs
    <3> QED
      BY <3>1, <3>2
  <2>4. CASE m = Len(l.deltas)
    <3>1. m + 1 = Len(l2.deltas)
      BY <2>4, <1>1
    <3>2. LeftmostHigh(l2) = l2.base.high
      BY <2>3, <3>1 DEF LeftmostHigh
    <3>3. LeftmostHigh(l) = l.base.high
      BY <2>2, <2>4 DEF LeftmostHigh
    <3> QED
      BY <3>2, <3>3, <1>1 DEF l2
  <2>5. CASE m # Len(l.deltas)
    <3>1. m + 1 # Len(l2.deltas) /\ m + 1 \in DOMAIN l.deltas
      BY <2>5, <2>2, <1>1, <1>3
    <3>2. LeftmostHigh(l2) = l2.deltas[(m + 1) + 1].high
      BY <2>3, <3>1 DEF LeftmostHigh
    <3>3. LeftmostHigh(l) = l.deltas[m + 1].high
      BY <2>2, <2>5 DEF LeftmostHigh
    <3> QED
      BY <3>1, <3>2, <3>3, <1>1 DEF l2
  <2> QED
    BY <2>4, <2>5
<1> QED
  BY <1>4, <1>5

\* The content of a chain without the number of its separators.
Seated(l, c) ==
  /\ c \in [DOMAIN c -> Nat] /\ DOMAIN c \subseteq Keys \cup {LowKey} /\ IsFiniteSet(DOMAIN c)
  /\ \A s \in DOMAIN c : Inside(l, s) /\ Named(<<s, c[s]>>)
  /\ Low(l) \in DOMAIN c /\ c[Low(l)] = LowPairOf(l)[2]

\* A data delta turns the content c of a chain into c2 if it sends the keys
\* whose child it changes to their new child, and is right about its own key.
LEMMA PushData ==
  ASSUME NEW l, NEW c, ChainOK(l, c), NEW c2, Seated(l, c2),
         NEW d \in Deltas, IsData(d), d.item[1] \in Keys, Low(l) < d.item[1],
         Inside(l, d.item[1]), Located(l, d),
         d.high = HighOf(l), d.count = Cardinality(DOMAIN c2),
         \A k \in Nat : Inside(l, k) =>
           c2[SepBelow(c2, k)] = IF Decides(l, d, k) THEN Child(d) ELSE c[SepBelow(c, k)],
         d.type = "insert" => d.item[1] \in DOMAIN c2 /\ c2[d.item[1]] = d.item[2],
         d.type = "delete" => d.item[1] \notin DOMAIN c2,
         \A k \in Nat \ {d.item[1]} : /\ k \in DOMAIN c2 <=> k \in DOMAIN c
                                      /\ k \in DOMAIN c => c2[k] = c[k]
  PROVE  ChainOK(Push(l, d), c2)
<1> DEFINE l2 == Push(l, d)
<1>0. l \in Chains /\ MergesSound(l)
  BY DEF ChainOK
<1>1. /\ DOMAIN l2.deltas = {1} \cup Shift(DOMAIN l.deltas) /\ l2.deltas[1] = d
      /\ \A i \in DOMAIN l.deltas : l2.deltas[i + 1] = l.deltas[i]
      /\ Len(l2.deltas) = Len(l.deltas) + 1 /\ HighOf(l2) = d.high /\ l2.base = l.base
      /\ CountOf(l2) = d.count /\ LowPairOf(l2) = LowPairOf(l) /\ Low(l2) = Low(l)
      /\ l2 \in Chains /\ l2.deltas # <<>>
  BY <1>0, PushFields
<1>2. /\ \A k : BaseFor(l2, RightTurns(l2, k)) = BaseFor(l, RightTurns(l, k))
      /\ Merges(l2) = Shift(Merges(l))
  BY <1>0, PushTurns
<1>3. LeftmostHigh(l2) = LeftmostHigh(l)
  BY <1>0, PushLeftmostHigh
<1>4. \A k \in Nat : Walk(l2, k) = IF Decides(l, d, k) THEN Child(d) ELSE Walk(l, k)
  BY <1>0, PushWalk
<1>5. \A i : i \in Newest(l2.deltas) <=>
             \/ i = 1
             \/ \E j \in Newest(l.deltas) : i = j + 1 /\ l.deltas[j].item[1] # d.item[1]
  BY <1>0, PushNewest
<1>6. DOMAIN l.deltas = 1 .. Len(l.deltas) /\ Len(l.deltas) \in Nat
      /\ \A i \in DOMAIN l.deltas : i \in Nat \ {0} /\ l.deltas[i] \in Deltas
  BY <1>0, ChainFields
<1> HIDE DEF l2
<1>7. \A k : Inside(l2, k) <=> Inside(l, k)
  BY <1>1 DEF Inside
<1>8. MergesSound(l2)
  <2> SUFFICES ASSUME NEW m \in Merges(l2)
               PROVE  LET e == l2.deltas[m] IN
                 /\ \A j \in Merges(l2) : j = m
                 /\ Ordered(e.right.items) /\ e.right.items[1][1] = e.item[1]
                 /\ e.right.high = NoHigh
                 /\ Low(l2) < e.item[1]
                 /\ LeftmostHigh(l2)[1] = e.item[1] /\ LeftmostHigh(l2)[2] # INVALID_NODE_ID
                 /\ HighOf(l2) = NoHigh
                 /\ \A i \in DOMAIN l2.deltas :
                      i > m /\ IsData(l2.deltas[i]) => l2.deltas[i].item[1] < e.item[1]
    BY DEF MergesSound
  <2>1. PICK n \in Merges(l) : m = n + 1
    BY <1>2 DEF Shift
  <2>2. Merges(l) = {n} /\ n \in DOMAIN l.deltas /\ n \in Nat
    BY <1>0, OneMerge
  <2>3. l2.deltas[m] = l.deltas[n]
    BY <1>1, <2>1, <2>2
  <2>4. \A j \in Merges(l2) : j = m
    BY <1>2, <2>1, <2>2 DEF Shift
  <2>5. /\ Ordered(l.deltas[n].right.items) /\ l.deltas[n].right.items[1][1] = l.deltas[n].item[1]
        /\ l.deltas[n].right.high = NoHigh
        /\ Low(l) < l.deltas[n].item[1]
        /\ LeftmostHigh(l)[1] = l.deltas[n].item[1] /\ LeftmostHigh(l)[2] # INVALID_NODE_ID
        /\ HighOf(l) = NoHigh
        /\ \A i \in DOMAIN l.deltas :
             i > n /\ IsData(l.deltas[i]) => l.deltas[i].item[1] < l.deltas[n].item[1]
    BY <1>0 DEF MergesSound
  <2>6. ASSUME NEW i \in DOMAIN l2.deltas, i > m, IsData(l2.deltas[i])
        PROVE  l2.deltas[i].item[1] < l.deltas[n].item[1]
    <3>1. PICK j \in DOMAIN l.deltas : i = j + 1
      <4>1. i # 1
        BY <2>6, <2>1, <2>2
      <4> QED
        BY <4>1, <1>1 DEF Shift
    <3>2. j > n
      BY <3>1, <2>1, <2>2, <2>6, <1>6
    <3> QED
      BY <3>1, <3>2, <2>5, <2>6, <1>1
  <2> QED
    BY <2>3, <2>4, <2>5, <2>6, <1>1, <1>3
<1>9. DeltasSound(l2)
  <2> SUFFICES ASSUME NEW i \in DOMAIN l2.deltas, IsData(l2.deltas[i])
               PROVE  LET e == l2.deltas[i] IN
                      /\ e.item[1] \in Keys /\ Low(l2) < e.item[1] /\ Inside(l2, e.item[1])
                      /\ Located(l2, e)
    BY DEF DeltasSound
  <2>1. \A e : Located(l2, e) <=> Located(l, e)
    BY <1>1, <1>2 DEF Located
  <2>2. CASE i = 1
    BY <2>1, <2>2, <1>1, <1>7
  <2>3. CASE i # 1
    <3>1. PICK j \in DOMAIN l.deltas : i = j + 1
      BY <2>3, <1>1 DEF Shift
    <3>2. l2.deltas[i] = l.deltas[j]
      BY <3>1, <1>1
    <3>3. /\ l.deltas[j].item[1] \in Keys /\ Low(l) < l.deltas[j].item[1]
          /\ Inside(l, l.deltas[j].item[1]) /\ Located(l, l.deltas[j])
      BY <3>2 DEF ChainOK, DeltasSound
    <3> QED
      BY <3>2, <3>3, <2>1, <1>1, <1>7
  <2> QED
    BY <2>2, <2>3
<1>10. ContentSound(l2, c2)
  BY <1>1, <1>7 DEF Seated, ContentSound
<1>11. WalkExact(l2, c2)
  <2> SUFFICES ASSUME NEW k \in Nat, Inside(l2, k) PROVE Walk(l2, k) = c2[SepBelow(c2, k)]
    BY DEF WalkExact
  <2>1. Walk(l, k) = c[SepBelow(c, k)]
    BY <1>7 DEF ChainOK, WalkExact
  <2> QED
    BY <2>1, <1>4, <1>7
<1>12. KnownExact(l2, c2)
  <2>1. ASSUME NEW i \in Newest(l2.deltas)
        PROVE  LET e == l2.deltas[i] IN
               /\ e.type = "insert" => e.item[1] \in DOMAIN c2 /\ c2[e.item[1]] = e.item[2]
               /\ e.type = "delete" => e.item[1] \notin DOMAIN c2
    <3>1. CASE i = 1
      BY <3>1, <1>1
    <3>2. CASE i # 1
      <4>1. PICK j \in Newest(l.deltas) : i = j + 1 /\ l.deltas[j].item[1] # d.item[1]
        BY <3>2, <1>5
      <4>2. j \in DOMAIN l.deltas
        BY DEF Newest
      <4>3. l2.deltas[i] = l.deltas[j] /\ l.deltas[j].item[1] \in Nat
        BY <4>1, <4>2, <1>1, <1>6, DeltaFields
      <4> DEFINE e == l.deltas[j]
      <4>4. /\ e.type = "insert" => e.item[1] \in DOMAIN c /\ c[e.item[1]] = e.item[2]
            /\ e.type = "delete" => e.item[1] \notin DOMAIN c
        BY DEF ChainOK, KnownExact
      <4>5. e.item[1] \in Nat \ {d.item[1]}
        BY <4>1, <4>3
      <4>6. /\ e.item[1] \in DOMAIN c2 <=> e.item[1] \in DOMAIN c
            /\ e.item[1] \in DOMAIN c => c2[e.item[1]] = c[e.item[1]]
        BY <4>5
      <4> QED
        BY <4>3, <4>4, <4>6
    <3> QED
      BY <3>1, <3>2
  <2>2. ASSUME NEW k \in Nat, Inside(l2, k), \A i \in DOMAIN l2.deltas : ~Touches(l2.deltas[i], k)
        PROVE  LET items == BaseFor(l2, RightTurns(l2, k)).items IN
               /\ k \in DOMAIN c2 <=> \E p \in DOMAIN items : items[p][1] = k
               /\ \A p \in DOMAIN items : items[p][1] = k => c2[k] = items[p][2]
    <3>1. k # d.item[1]
      BY <2>2, <1>1 DEF Touches
    <3>2. \A i \in DOMAIN l.deltas : ~Touches(l.deltas[i], k)
      BY <2>2, <1>1 DEF Shift
    <3> DEFINE items == BaseFor(l, RightTurns(l, k)).items
    <3>3. /\ k \in DOMAIN c <=> \E p \in DOMAIN items : items[p][1] = k
          /\ \A p \in DOMAIN items : items[p][1] = k => c[k] = items[p][2]
      BY <3>2, <2>2, <1>7 DEF ChainOK, KnownExact
    <3>4. /\ k \in DOMAIN c2 <=> k \in DOMAIN c
          /\ k \in DOMAIN c => c2[k] = c[k]
      BY <3>1
    <3>5. BaseFor(l2, RightTurns(l2, k)).items = items
      BY <1>2
    <3> HIDE DEF items
    <3> QED
      BY <3>3, <3>4, <3>5
  <2> QED
    BY <2>1, <2>2 DEF KnownExact
<1>13. Ordered(l2.base.items)
  BY <1>1 DEF ChainOK
<1> QED
  BY <1>1, <1>8, <1>9, <1>10, <1>11, <1>12, <1>13 DEF ChainOK, l2

-----------------------------------------------------------------------------
(* Posting a separator and taking one off.                                 *)

LEMMA NoBaseType == NoHigh \in Pairs /\ NoBase \in BaseType
<1>1. NoHigh \in Pairs
  BY Constants DEF Pairs
<1> QED
  BY <1>1 DEF NoBase, BaseType

LEMMA SeatedContent ==
  ASSUME NEW l, NEW c, ContentSound(l, c)
  PROVE  Seated(l, c) /\ CountOf(l) = Cardinality(DOMAIN c)
BY DEF ContentSound, Seated

LEMMA SeatedType ==
  ASSUME NEW l, NEW c, Seated(l, c)
  PROVE  /\ DOMAIN c \in SUBSET Nat /\ IsFiniteSet(DOMAIN c)
         /\ \A s \in DOMAIN c : s \in Nat /\ c[s] \in Nat /\ Low(l) <= s
         /\ Low(l) \in DOMAIN c /\ Low(l) \in Nat
         /\ \A s \in DOMAIN c : c[s] = LowPairOf(l)[2] <=> s = Low(l)
<1>1. DOMAIN c \in SUBSET Nat
  BY Constants DEF Seated
<1>2. \A s \in DOMAIN c : s \in Nat /\ c[s] \in Nat /\ Low(l) <= s /\ Named(<<s, c[s]>>)
  BY <1>1 DEF Seated, Inside
<1>3. ASSUME NEW s \in DOMAIN c PROVE c[s] = LowPairOf(l)[2] <=> s = Low(l)
  <2>1. Low(l) \in DOMAIN c /\ c[Low(l)] = LowPairOf(l)[2]
    BY DEF Seated
  <2> DEFINE x == <<s, c[s]>>
             y == <<Low(l), c[Low(l)]>>
  <2>2. x \in Nat \X Nat /\ y \in Nat \X Nat /\ Named(x) /\ Named(y)
    BY <1>2, <2>1
  <2>3. x[2] = y[2] => x[1] = y[1]
    <3> HIDE DEF x, y
    <3> QED
      BY <2>2, NamedApart
  <2> QED
    BY <2>1, <2>3
<1> QED
  BY <1>1, <1>2, <1>3 DEF Seated

LEMMA SepBelowIn ==
  ASSUME NEW c, DOMAIN c \in SUBSET Nat, IsFiniteSet(DOMAIN c),
         NEW k \in Nat, NEW r \in DOMAIN c, r <= k
  PROVE  /\ SepBelow(c, k) \in DOMAIN c /\ SepBelow(c, k) <= k
         /\ \A s \in DOMAIN c : s <= k => s <= SepBelow(c, k)
<1> DEFINE S == {s \in DOMAIN c : s <= k}
<1>1. S \in SUBSET Nat /\ IsFiniteSet(S) /\ S # {}
  BY FS_Subset
<1>2. Max(S) \in S /\ \A y \in S : Max(S) >= y
  <2> HIDE DEF S
  <2> QED
    BY <1>1, MaxIn
<1>3. SepBelow(c, k) = Max(S)
  BY DEF SepBelow
<1> DEFINE m == Max(S)
<1>4. m \in DOMAIN c /\ m <= k /\ m \in Nat /\ \A y \in DOMAIN c : y <= k => m >= y
  BY <1>2
<1> HIDE DEF m
<1>5. \A y \in DOMAIN c : y <= k => y <= m
  BY <1>4
<1> QED
  BY <1>3, <1>4, <1>5 DEF m

LEMMA SepBelowIs ==
  ASSUME NEW c, DOMAIN c \in SUBSET Nat, NEW k \in Nat, NEW r \in DOMAIN c, r <= k,
         \A s \in DOMAIN c : s <= k => s <= r
  PROVE  SepBelow(c, k) = r
<1> DEFINE S == {s \in DOMAIN c : s <= k}
<1>1. S \in SUBSET Nat /\ r \in S /\ \A y \in S : y <= r
  OBVIOUS
<1>2. Max(S) = r
  <2> HIDE DEF S
  <2> QED
    BY <1>1, MaxIs
<1> QED
  BY <1>2 DEF SepBelow

\* next is the pair after the separator s: the keys of the node before it are
\* those before the next separator.
Ends(l, c, s, next) ==
  \A k \in Nat : Inside(l, k) =>
    (next[2] = INVALID_NODE_ID \/ k < next[1] <=> \A r \in DOMAIN c : r > s => k < r)

LEMMA InsertChain ==
  ASSUME NEW l, NEW c, ChainOK(l, c), NEW key \in Keys, Inside(l, key), key \notin DOMAIN c,
         NEW id \in IdsFor(key), NEW next \in Pairs, Ends(l, c, SepBelow(c, key), next),
         NEW at \in Nat, Located(l, InnerInsertNode(l, <<key, id>>, next, at))
  PROVE  ChainOK(Push(l, InnerInsertNode(l, <<key, id>>, next, at)),
                 [s \in DOMAIN c \cup {key} |-> IF s = key THEN id ELSE c[s]])
<1> DEFINE d  == InnerInsertNode(l, <<key, id>>, next, at)
           c2 == [s \in DOMAIN c \cup {key} |-> IF s = key THEN id ELSE c[s]]
           left == SepBelow(c, key)
<1>1. l \in Chains /\ Seated(l, c) /\ CountOf(l) = Cardinality(DOMAIN c) /\ CountOf(l) \in Nat
  BY SeatedContent, HighType DEF ChainOK
<1>2. key \in Nat /\ key > 0 /\ id \in Nat /\ Named(<<key, id>>) /\ <<key, id>> \in Pairs
  <2>1. key \in Nat /\ key > 0
    BY Constants
  <2>2. id \in Nat /\ Named(<<key, id>>)
    BY <2>1 DEF IdsFor, Named
  <2> QED
    BY <2>1, <2>2 DEF Pairs
<1>3. /\ DOMAIN c \in SUBSET Nat /\ IsFiniteSet(DOMAIN c) /\ Low(l) \in DOMAIN c /\ Low(l) \in Nat
      /\ \A s \in DOMAIN c : Low(l) <= s
  BY <1>1, SeatedType
<1>4. Low(l) <= key /\ Low(l) < key
  <2>1. Low(l) <= key /\ Low(l) # key
    BY <1>3 DEF Inside
  <2> QED
    BY <2>1, <1>2, <1>3
<1>5. left \in DOMAIN c /\ left <= key /\ \A s \in DOMAIN c : s <= key => s <= left
  BY <1>2, <1>3, <1>4, SepBelowIn
<1>6. DOMAIN c2 = DOMAIN c \cup {key} /\ c2[key] = id
      /\ \A s \in DOMAIN c : s # key /\ c2[s] = c[s]
  OBVIOUS
<1> HIDE DEF c2
<1>7. IsFiniteSet(DOMAIN c2) /\ Cardinality(DOMAIN c2) = CountOf(l) + 1 /\ DOMAIN c2 \in SUBSET Nat
  BY <1>1, <1>2, <1>3, <1>6, FS_AddElement
<1>8. Seated(l, c2)
  <2>1. c2 \in [DOMAIN c2 -> Nat]
    <3>1. \A s \in DOMAIN c2 : c2[s] \in Nat
      BY <1>1, <1>2, <1>6 DEF Seated
    <3>2. c2 = [s \in DOMAIN c2 |-> c2[s]]
      BY DEF c2
    <3> QED
      BY <3>1, <3>2
  <2>2. \A s \in DOMAIN c2 : Inside(l, s) /\ Named(<<s, c2[s]>>)
    BY <1>1, <1>2, <1>6 DEF Seated
  <2> QED
    BY <2>1, <2>2, <1>1, <1>3, <1>6, <1>7 DEF Seated
<1>9. /\ d.type = "insert" /\ d.item = <<key, id>> /\ d.next = next /\ d.high = HighOf(l)
      /\ d.count = CountOf(l) + 1 /\ d.location = at
  BY DEF InnerInsertNode
<1>10. d \in Deltas
  <2>1. HighOf(l) \in Pairs /\ CountOf(l) + 1 \in Nat
    BY <1>1, HighType
  <2> QED
    BY <2>1, <1>2, NoBaseType DEF InnerInsertNode, Deltas, DeltaTypes
<1> HIDE DEF d, left
<1>11. \A k \in Nat : Inside(l, k) =>
         c2[SepBelow(c2, k)] = IF Decides(l, d, k) THEN Child(d) ELSE c[SepBelow(c, k)]
  <2> TAKE k \in Nat
  <2> HAVE Inside(l, k)
  <2>1. Decides(l, d, k) <=> key <= k /\ \A r \in DOMAIN c : r > left => k < r
    <3>1. next[2] = INVALID_NODE_ID \/ k < next[1] <=> \A r \in DOMAIN c : r > left => k < r
      BY DEF Ends, left
    <3> QED
      BY <3>1, <1>2, <1>9 DEF Decides, BeforeNext
  <2>2. CASE key <= k /\ \A r \in DOMAIN c : r > left => k < r
    <3>1. \A r \in DOMAIN c2 : r <= k => r <= key
      <4> TAKE r \in DOMAIN c2
      <4>1. CASE r = key
        BY <4>1, <1>2
      <4>2. CASE r \in DOMAIN c
        <5>1. r \in Nat /\ left \in Nat
          BY <4>2, <1>3, <1>5
        <5>2. r <= k => ~(r > left)
          BY <5>1, <4>2, <2>2
        <5> QED
          BY <5>1, <5>2, <1>2, <1>5
      <4> QED
        BY <4>1, <4>2, <1>6
    <3>2. SepBelow(c2, k) = key
      BY <3>1, <2>2, <1>6, <1>7, SepBelowIs
    <3> QED
      BY <3>2, <2>1, <2>2, <1>6, <1>9 DEF Child
  <2>3. CASE ~(key <= k /\ \A r \in DOMAIN c : r > left => k < r)
    <3> DEFINE s == SepBelow(c, k)
    <3>1. s \in DOMAIN c /\ s <= k /\ \A r \in DOMAIN c : r <= k => r <= s
      BY <1>3, SepBelowIn DEF Inside
    <3> HIDE DEF s
    <3>2. key <= k => key <= s
      <4> SUFFICES ASSUME key <= k PROVE key <= s
        OBVIOUS
      <4>1. PICK r \in DOMAIN c : r > left /\ ~(k < r)
        BY <2>3
      <4>2. r \in Nat /\ s \in Nat /\ left \in Nat
        BY <3>1, <1>3, <1>5
      <4>3. r <= k /\ ~(r <= key)
        BY <4>1, <4>2, <1>5
      <4> QED
        BY <4>2, <4>3, <3>1, <1>2
    <3>3. SepBelow(c2, k) = s
      <4>1. s \in DOMAIN c2 /\ \A r \in DOMAIN c2 : r <= k => r <= s
        BY <3>1, <3>2, <1>6
      <4> QED
        BY <4>1, <3>1, <1>7, SepBelowIs
    <3>4. c2[s] = c[s]
      BY <3>1, <1>6
    <3>5. ~Decides(l, d, k)
      BY <2>1, <2>3
    <3> QED
      BY <3>3, <3>4, <3>5 DEF s
  <2> QED
    BY <2>2, <2>3
<1>12. ChainOK(Push(l, d), c2)
  <2>1. IsData(d) /\ d.item[1] = key /\ d.item[2] = id
    BY <1>9 DEF IsData
  <2>2. \A k \in Nat \ {d.item[1]} : /\ k \in DOMAIN c2 <=> k \in DOMAIN c
                                     /\ k \in DOMAIN c => c2[k] = c[k]
    BY <2>1, <1>6
  <2>3. Located(l, d) /\ Inside(l, d.item[1]) /\ Low(l) < d.item[1] /\ d.item[1] \in Keys
    BY <2>1, <1>4 DEF d
  <2>4. d.count = Cardinality(DOMAIN c2) /\ d.high = HighOf(l)
    BY <1>7, <1>9
  <2>5. /\ d.type = "insert" => d.item[1] \in DOMAIN c2 /\ c2[d.item[1]] = d.item[2]
        /\ d.type = "delete" => d.item[1] \notin DOMAIN c2
    BY <2>1, <1>6, <1>9
  <2> QED
    BY <2>1, <2>2, <2>3, <2>4, <2>5, <1>8, <1>10, <1>11, PushData
<1> QED
  BY <1>12 DEF d, c2

LEMMA DeleteChain ==
  ASSUME NEW l, NEW c, ChainOK(l, c), NEW key \in Keys, key \in DOMAIN c, Low(l) < key,
         NEW next \in Pairs, Ends(l, c, key, next),
         NEW left \in DOMAIN c, left < key, \A s \in DOMAIN c : s < key => s <= left,
         NEW at \in Nat,
         Located(l, InnerDeleteNode(l, <<key, c[key]>>, <<left, c[left]>>, next, at))
  PROVE  ChainOK(Push(l, InnerDeleteNode(l, <<key, c[key]>>, <<left, c[left]>>, next, at)),
                 Restrict(c, DOMAIN c \ {key}))
<1> DEFINE d  == InnerDeleteNode(l, <<key, c[key]>>, <<left, c[left]>>, next, at)
           c2 == Restrict(c, DOMAIN c \ {key})
<1>1. l \in Chains /\ Seated(l, c) /\ CountOf(l) = Cardinality(DOMAIN c) /\ CountOf(l) \in Nat
  BY SeatedContent, HighType DEF ChainOK
<1>2. key \in Nat /\ key > 0
  BY Constants
<1>3. /\ DOMAIN c \in SUBSET Nat /\ IsFiniteSet(DOMAIN c) /\ Low(l) \in DOMAIN c /\ Low(l) \in Nat
      /\ \A s \in DOMAIN c : Low(l) <= s /\ s \in Nat /\ c[s] \in Nat
      /\ c[left] = LowPairOf(l)[2] <=> left = Low(l)
  BY <1>1, SeatedType
<1>4. <<key, c[key]>> \in Pairs /\ <<left, c[left]>> \in Pairs /\ Inside(l, key)
  BY <1>1, <1>3 DEF Pairs, Seated
<1>5. DOMAIN c2 = DOMAIN c \ {key} /\ \A s \in DOMAIN c2 : c2[s] = c[s]
  BY DEF Restrict
<1>6. c2 = [s \in DOMAIN c2 |-> c2[s]]
  BY DEF Restrict
<1> HIDE DEF c2
<1>7. /\ IsFiniteSet(DOMAIN c2) /\ Cardinality(DOMAIN c2) = CountOf(l) - 1
      /\ DOMAIN c2 \in SUBSET Nat /\ CountOf(l) - 1 \in Nat
  <2>1. IsFiniteSet(DOMAIN c2) /\ Cardinality(DOMAIN c2) = CountOf(l) - 1
    BY <1>1, <1>3, <1>5, FS_RemoveElement
  <2> QED
    BY <2>1, <1>3, <1>5, FS_CardinalityType
<1>8. Seated(l, c2)
  <2>1. \A s \in DOMAIN c2 : c2[s] \in Nat /\ Inside(l, s) /\ Named(<<s, c2[s]>>)
    BY <1>1, <1>3, <1>5 DEF Seated
  <2>2. c2 \in [DOMAIN c2 -> Nat]
    BY <1>6, <2>1
  <2>3. Low(l) \in DOMAIN c2 /\ c2[Low(l)] = LowPairOf(l)[2]
    BY <1>1, <1>2, <1>3, <1>5 DEF Seated
  <2>4. DOMAIN c2 \subseteq Keys \cup {LowKey}
    BY <1>1, <1>5 DEF Seated
  <2> QED
    BY <2>1, <2>2, <2>3, <2>4, <1>7 DEF Seated
<1>9. /\ d.type = "delete" /\ d.item = <<key, c[key]>> /\ d.prev = <<left, c[left]>>
      /\ d.next = next /\ d.high = HighOf(l) /\ d.count = CountOf(l) - 1 /\ d.location = at
  BY DEF InnerDeleteNode
<1>10. d \in Deltas
  <2>1. HighOf(l) \in Pairs
    BY <1>1, HighType
  <2> QED
    BY <2>1, <1>4, <1>7, NoBaseType DEF InnerDeleteNode, Deltas, DeltaTypes
<1> HIDE DEF d
<1>11. \A k \in Nat : Inside(l, k) =>
         c2[SepBelow(c2, k)] = IF Decides(l, d, k) THEN Child(d) ELSE c[SepBelow(c, k)]
  <2> TAKE k \in Nat
  <2> HAVE Inside(l, k)
  <2>0. Low(l) <= k
    BY DEF Inside
  <2>1. Decides(l, d, k) <=> left <= k /\ \A r \in DOMAIN c : r > key => k < r
    <3>1. next[2] = INVALID_NODE_ID \/ k < next[1] <=> \A r \in DOMAIN c : r > key => k < r
      BY DEF Ends
    <3>2. Decides(l, d, k) <=> /\ c[left] = LowPairOf(l)[2] \/ k >= left
                               /\ next[2] = INVALID_NODE_ID \/ k < next[1]
      BY <1>9 DEF Decides, BeforeNext
    <3>3. c[left] = LowPairOf(l)[2] \/ k >= left <=> left <= k
      BY <2>0, <1>3
    <3> QED
      BY <3>1, <3>2, <3>3
  <2>2. CASE left <= k /\ \A r \in DOMAIN c : r > key => k < r
    <3>1. \A r \in DOMAIN c2 : r <= k => r <= left
      <4> TAKE r \in DOMAIN c2
      <4> HAVE r <= k
      <4>1. r \in DOMAIN c /\ r # key /\ r \in Nat
        BY <1>3, <1>5
      <4>2. ~(r > key)
        BY <4>1, <2>2
      <4>3. r < key
        BY <4>1, <4>2, <1>2
      <4> QED
        BY <4>1, <4>3
    <3>2. left \in DOMAIN c2
      BY <1>2, <1>3, <1>5
    <3>3. SepBelow(c2, k) = left
      BY <3>1, <3>2, <2>2, <1>7, SepBelowIs
    <3> QED
      BY <3>2, <3>3, <2>1, <2>2, <1>5, <1>9 DEF Child
  <2>3. CASE ~(left <= k /\ \A r \in DOMAIN c : r > key => k < r)
    <3> DEFINE s == SepBelow(c, k)
    <3>1. s \in DOMAIN c /\ s <= k /\ \A r \in DOMAIN c : r <= k => r <= s
      BY <2>0, <1>3, SepBelowIn
    <3> HIDE DEF s
    <3>2. s # key
      <4> SUFFICES ASSUME s = key PROVE FALSE
        OBVIOUS
      <4>1. left \in Nat /\ left <= k
        BY <1>2, <1>3, <3>1
      <4>2. PICK r \in DOMAIN c : r > key /\ ~(k < r)
        BY <4>1, <2>3
      <4>3. r \in Nat /\ r <= k
        BY <4>2, <1>3
      <4> QED
        BY <4>2, <4>3, <3>1, <1>2
    <3>3. s \in DOMAIN c2 /\ c2[s] = c[s] /\ \A r \in DOMAIN c2 : r <= k => r <= s
      BY <3>1, <3>2, <1>5
    <3>4. SepBelow(c2, k) = s
      BY <3>1, <3>3, <1>7, SepBelowIs
    <3>5. ~Decides(l, d, k)
      BY <2>1, <2>3
    <3> QED
      BY <3>3, <3>4, <3>5 DEF s
  <2> QED
    BY <2>2, <2>3
<1>12. ChainOK(Push(l, d), c2)
  <2>1. IsData(d) /\ d.item[1] = key
    BY <1>9 DEF IsData
  <2>2. \A k \in Nat \ {d.item[1]} : /\ k \in DOMAIN c2 <=> k \in DOMAIN c
                                     /\ k \in DOMAIN c => c2[k] = c[k]
    BY <2>1, <1>5
  <2>3. Located(l, d) /\ Inside(l, d.item[1]) /\ Low(l) < d.item[1] /\ d.item[1] \in Keys
    BY <2>1, <1>4 DEF d
  <2>4. d.count = Cardinality(DOMAIN c2) /\ d.high = HighOf(l)
    BY <1>7, <1>9
  <2>5. /\ d.type = "insert" => d.item[1] \in DOMAIN c2 /\ c2[d.item[1]] = d.item[2]
        /\ d.type = "delete" => d.item[1] \notin DOMAIN c2
    BY <2>1, <1>5, <1>9
  <2> QED
    BY <2>1, <2>2, <2>3, <2>4, <2>5, <1>8, <1>10, <1>11, PushData
<1> QED
  BY <1>12 DEF d, c2

-----------------------------------------------------------------------------
(* Searching a base node.                                                  *)

\* The first position from start whose key is not below k: the items before it
\* are below k and the others are not.
LEMMA BoundCuts ==
  ASSUME NEW items \in Seq(Nat \X Nat), NEW k \in Nat,
         NEW start \in Nat \ {0}, NEW end \in Nat, start <= end, end <= Len(items) + 1,
         \A p, q \in DOMAIN items : p < q => items[p][1] < items[q][1],
         \A p \in DOMAIN items : p >= end => items[p][1] >= k
  PROVE  /\ Bound(items, start, end, k) \in start .. end
         /\ \A p \in DOMAIN items : p >= Bound(items, start, end, k) => items[p][1] >= k
         /\ \A p \in DOMAIN items :
              p >= start /\ p < Bound(items, start, end, k) => items[p][1] < k
<1> DEFINE hits == {p \in start .. end - 1 : items[p][1] >= k}
           b == Bound(items, start, end, k)
<1>0. /\ DOMAIN items = 1 .. Len(items) /\ Len(items) \in Nat
      /\ \A p \in DOMAIN items : items[p][1] \in Nat /\ p \in Nat
  <2>1. DOMAIN items = 1 .. Len(items) /\ Len(items) \in Nat /\ \A p \in DOMAIN items : items[p] \in Nat \X Nat
    BY LenProperties
  <2> QED
    BY <2>1
<1>1. hits \in SUBSET Nat /\ start .. end - 1 \in SUBSET (DOMAIN items)
  BY <1>0
<1>4. \A p : p \in hits <=> p \in start .. end - 1 /\ items[p][1] >= k
  OBVIOUS
<1>5. b = IF hits # {} THEN Min(hits) ELSE Max({start, end})
  BY DEF Bound
<1> HIDE DEF hits, b
<1>2. CASE hits = {}
  <2> DEFINE two == {start, end}
  <2>1. two \in SUBSET Nat /\ end \in two /\ \A y \in two : y <= end
    OBVIOUS
  <2>2. b = Max(two)
    BY <1>2, <1>5
  <2> HIDE DEF two
  <2>3. b = end
    BY <2>1, <2>2, MaxIs
  <2>4. \A p \in DOMAIN items : p >= start /\ p < end => items[p][1] < k
    <3> TAKE p \in DOMAIN items
    <3> HAVE p >= start /\ p < end
    <3>1. p \in start .. end - 1 /\ items[p][1] \in Nat
      BY <1>0
    <3> DEFINE v == items[p][1]
    <3>2. v \in Nat /\ ~(v >= k)
      BY <3>1, <1>2, <1>4
    <3> HIDE DEF v
    <3>3. v < k
      BY <3>2
    <3> QED
      BY <3>3 DEF v
  <2>5. b \in start .. end
    BY <2>3
  <2> QED
    BY <2>3, <2>4, <2>5 DEF b
<1>3. CASE hits # {}
  <2>1. b \in hits /\ \A p \in hits : b <= p
    BY <1>1, <1>3, <1>5, MinIn
  <2>3. b \in start .. end - 1 /\ items[b][1] >= k /\ b \in DOMAIN items /\ items[b][1] \in Nat /\ b \in Nat
    BY <2>1, <1>0, <1>1, <1>4
  <2>4. ASSUME NEW p \in DOMAIN items, p >= b PROVE items[p][1] >= k
    <3>1. p \in Nat /\ items[p][1] \in Nat
      BY <1>0
    <3>2. CASE p = b
      BY <3>2, <2>3
    <3>3. CASE b < p
      <4>1. items[b][1] < items[p][1]
        BY <3>3, <2>3
      <4> DEFINE v == items[p][1]
                 w == items[b][1]
      <4>2. v \in Nat /\ w \in Nat /\ w < v /\ w >= k
        BY <4>1, <3>1, <2>3
      <4> HIDE DEF v, w
      <4>3. v >= k
        BY <4>2
      <4> QED
        BY <4>3 DEF v
    <3>4. p = b \/ b < p
      BY <3>1, <2>3, <2>4
    <3> QED
      BY <3>2, <3>3, <3>4
  <2>5. ASSUME NEW p \in DOMAIN items, p >= start, p < b PROVE items[p][1] < k
    <3>1. p \in Nat /\ items[p][1] \in Nat /\ p \in start .. end - 1
      BY <1>0, <2>3, <2>5
    <3>2. ~(b <= p)
      BY <3>1, <2>3, <2>5
    <3> DEFINE v == items[p][1]
    <3>3. p \notin hits
      BY <3>2, <2>1
    <3>4. v \in Nat /\ ~(v >= k)
      BY <3>1, <3>3, <1>4
    <3> HIDE DEF v
    <3>5. v < k
      BY <3>4
    <3> QED
      BY <3>5 DEF v
  <2>6. b \in start .. end
    BY <2>3
  <2> QED
    BY <2>4, <2>5, <2>6 DEF b
<1> QED
  BY <1>2, <1>3

\* The search of a whole base node.
LEMMA BoundWhole ==
  ASSUME NEW items \in Seq(Nat \X Nat), items # <<>>, NEW k \in Nat, NEW start \in {1, 2},
         \A p, q \in DOMAIN items : p < q => items[p][1] < items[q][1]
  PROVE  /\ Bound(items, start, Len(items) + 1, k) \in start .. Len(items) + 1
         /\ \A p \in DOMAIN items : p >= Bound(items, start, Len(items) + 1, k) => items[p][1] >= k
         /\ \A p \in DOMAIN items :
              p >= start /\ p < Bound(items, start, Len(items) + 1, k) => items[p][1] < k
<1> DEFINE end == Len(items) + 1
<1>0. Len(items) \in Nat \ {0} /\ DOMAIN items = 1 .. Len(items)
  BY EmptySeq, LenProperties
<1>1. start \in Nat \ {0} /\ end \in Nat /\ start <= end /\ end <= Len(items) + 1
  BY <1>0
<1>2. \A p \in DOMAIN items : p >= end => items[p][1] >= k
  BY <1>0
<1> HIDE DEF end
<1>3. /\ Bound(items, start, end, k) \in start .. end
      /\ \A p \in DOMAIN items : p >= Bound(items, start, end, k) => items[p][1] >= k
      /\ \A p \in DOMAIN items : p >= start /\ p < Bound(items, start, end, k) => items[p][1] < k
  BY <1>1, <1>2, BoundCuts
<1> QED
  BY <1>3 DEF end

LEMMA LastUpToIs ==
  ASSUME NEW items \in Seq(Nat \X Nat), NEW k \in Nat, NEW b \in 1 .. Len(items),
         b = 1 \/ items[b][1] <= k, \A p \in DOMAIN items : p > b => items[p][1] > k
  PROVE  LastUpTo(items, k) = b
<1> DEFINE S == {1} \cup {p \in DOMAIN items : items[p][1] <= k}
<1>0. DOMAIN items = 1 .. Len(items) /\ Len(items) \in Nat /\ \A p \in DOMAIN items : items[p][1] \in Nat
  <2>1. DOMAIN items = 1 .. Len(items) /\ Len(items) \in Nat /\ \A p \in DOMAIN items : items[p] \in Nat \X Nat
    BY LenProperties
  <2> QED
    BY <2>1
<1>1. S \in SUBSET Nat /\ b \in S
  BY <1>0
<1>2. \A p \in S : p <= b
  <2>1. ASSUME NEW p \in DOMAIN items, items[p][1] <= k PROVE p <= b
    <3>1. p \in Nat /\ b \in Nat /\ items[p][1] \in Nat
      BY <1>0
    <3>2. CASE p > b
      <4>1. items[p][1] > k
        BY <3>2
      <4> QED
        BY <4>1, <3>1, <2>1
    <3> QED
      BY <3>1, <3>2
  <2>2. 1 <= b
    OBVIOUS
  <2> QED
    BY <2>1, <2>2
<1>3. Max(S) = b
  <2> HIDE DEF S
  <2> QED
    BY <1>1, <1>2, MaxIs
<1> QED
  BY <1>3 DEF LastUpTo

-----------------------------------------------------------------------------
(* The walk down to the child for k.                                       *)

\* What a walk for k finds of the merge deltas: none of them turns it, or the
\* only one does.
LEMMA Turned ==
  ASSUME NEW l \in Chains, MergesSound(l), NEW k
  PROVE  \/ /\ RightTurns(l, k) = {} /\ BaseFor(l, RightTurns(l, k)) = l.base
            /\ Visited(l, RightTurns(l, k)) = DOMAIN l.deltas
            /\ \A m \in Merges(l) : ~(k >= l.deltas[m].item[1])
         \/ \E m \in Merges(l) :
              /\ RightTurns(l, k) = {m} /\ Merges(l) = {m} /\ m \in DOMAIN l.deltas /\ m \in Nat
              /\ BaseFor(l, RightTurns(l, k)) = l.deltas[m].right
              /\ Visited(l, RightTurns(l, k)) = {i \in DOMAIN l.deltas : i <= m}
              /\ k >= l.deltas[m].item[1]
<1>1. RightTurns(l, k) = {m \in Merges(l) : k >= l.deltas[m].item[1]}
  BY DEF RightTurns, Merges
<1>2. CASE RightTurns(l, k) = {}
  BY <1>1, <1>2 DEF BaseFor, Visited
<1>3. CASE RightTurns(l, k) # {}
  <2>1. PICK m \in Merges(l) : m \in RightTurns(l, k) /\ k >= l.deltas[m].item[1]
    BY <1>1, <1>3
  <2>2. Merges(l) = {m} /\ m \in DOMAIN l.deltas /\ m \in Nat
    BY OneMerge
  <2>3. RightTurns(l, k) = {m}
    BY <1>1, <2>1, <2>2
  <2>4. Min({m}) = m
    BY <2>2, MinIs
  <2>5. BaseFor(l, {m}) = l.deltas[m].right
    BY <2>4 DEF BaseFor
  <2>6. Visited(l, {m}) = {i \in DOMAIN l.deltas : i <= m}
    BY DEF Visited
  <2> QED
    BY <2>1, <2>2, <2>3, <2>5, <2>6
<1> QED
  BY <1>2, <1>3

LEMMA OrderedItems ==
  ASSUME NEW b \in BaseType, Ordered(b.items)
  PROVE  /\ b.items \in Seq(Nat \X Nat) /\ Len(b.items) \in Nat \ {0}
         /\ DOMAIN b.items = 1 .. Len(b.items) /\ 1 \in DOMAIN b.items
         /\ \A p \in DOMAIN b.items : /\ b.items[p] \in Nat \X Nat /\ p \in Nat
                                      /\ b.items[p][1] \in Nat /\ b.items[p][2] \in Nat
         /\ \A p, q \in DOMAIN b.items : p < q => b.items[p][1] < b.items[q][1]
         /\ \A p, q \in DOMAIN b.items : b.items[p][1] = b.items[q][1] => p = q
<1>1. /\ b.items \in Seq(Pairs) /\ Len(b.items) \in Nat /\ b.items # <<>>
      /\ DOMAIN b.items = 1 .. Len(b.items) /\ 1 \in DOMAIN b.items
      /\ \A p \in DOMAIN b.items : /\ b.items[p] \in Nat \X Nat
                                   /\ b.items[p][1] \in Nat /\ b.items[p][2] \in Nat
  BY BaseFields DEF Ordered
<1>2. b.items \in Seq(Nat \X Nat)
  BY <1>1, PairsType
<1>3. Len(b.items) # 0
  BY <1>1
<1>4. \A p, q \in DOMAIN b.items : p < q => b.items[p][1] < b.items[q][1]
  BY DEF Ordered
<1>5. \A p, q \in DOMAIN b.items : b.items[p][1] = b.items[q][1] => p = q
  BY <1>1, <1>4
<1> QED
  BY <1>1, <1>2, <1>3, <1>4, <1>5

LEMMA BaseForOrdered ==
  ASSUME NEW l \in Chains, Ordered(l.base.items), MergesSound(l), NEW k
  PROVE  BaseFor(l, RightTurns(l, k)) \in BaseType /\ Ordered(BaseFor(l, RightTurns(l, k)).items)
<1>1. CASE BaseFor(l, RightTurns(l, k)) = l.base
  BY <1>1, ChainFields
<1>2. ASSUME NEW m \in Merges(l), BaseFor(l, RightTurns(l, k)) = l.deltas[m].right
      PROVE  BaseFor(l, RightTurns(l, k)) \in BaseType /\ Ordered(BaseFor(l, RightTurns(l, k)).items)
  <2>1. l.deltas[m] \in Deltas
    BY ChainFields DEF Merges
  <2>2. l.deltas[m].right \in BaseType /\ Ordered(l.deltas[m].right.items)
    BY <2>1, DeltaFields DEF MergesSound
  <2> QED
    BY <1>2, <2>2
<1> QED
  BY <1>1, <1>2, Turned

\* The deltas that narrow the search are about the base node that is searched,
\* and their locations cut it at their keys.
LEMMA NearCut ==
  ASSUME NEW l, NEW c, ChainOK(l, c), NEW k \in Nat,
         NEW j \in SinceMerge(l, Visited(l, RightTurns(l, k)))
  PROVE  LET items == BaseFor(l, RightTurns(l, k)).items
             d     == l.deltas[j]
         IN  /\ d.item[1] \in Nat /\ d.location \in 2 .. Len(items) + 1
             /\ \A p \in DOMAIN items : p < d.location <=> items[p][1] < d.item[1]
<1> DEFINE items == BaseFor(l, RightTurns(l, k)).items
           d     == l.deltas[j]
<1>1. l \in Chains /\ Ordered(l.base.items) /\ MergesSound(l) /\ DeltasSound(l)
  BY DEF ChainOK
<1>2. /\ j \in Visited(l, RightTurns(l, k)) /\ j \in DOMAIN l.deltas /\ IsData(d)
      /\ \A m \in Visited(l, RightTurns(l, k)) : l.deltas[m].type = "merge" => m < j
  BY DEF SinceMerge, Visited
<1>3. d \in Deltas /\ j \in Nat
  BY <1>1, <1>2, ChainFields
<1>4. d.item[1] \in Nat
  BY <1>3, DeltaFields
<1>5. RightTurns(l, k) = {} /\ \A m \in Merges(l) : m < j
  <2>1. CASE RightTurns(l, k) = {}
    <3>1. Visited(l, RightTurns(l, k)) = DOMAIN l.deltas
      BY <2>1 DEF Visited
    <3> QED
      BY <2>1, <3>1, <1>2 DEF Merges
  <2>2. ASSUME NEW m \in Merges(l), m \in Nat,
               Visited(l, RightTurns(l, k)) = {i \in DOMAIN l.deltas : i <= m} PROVE FALSE
    <3>1. m \in Visited(l, RightTurns(l, k)) /\ l.deltas[m].type = "merge" /\ j <= m
      BY <2>2, <1>2 DEF Merges
    <3>2. m < j
      BY <3>1, <1>2
    <3> QED
      BY <3>1, <3>2, <2>2, <1>3
  <2> QED
    BY <2>1, <2>2, <1>1, Turned
<1>6. items = l.base.items
  BY <1>5 DEF BaseFor
<1>7. BaseFor(l, RightTurns(l, d.item[1])) = l.base
  <2>1. ASSUME NEW m \in Merges(l), d.item[1] >= l.deltas[m].item[1] PROVE FALSE
    <3>1. d.item[1] < l.deltas[m].item[1]
      BY <1>1, <1>2, <1>5 DEF MergesSound
    <3>2. l.deltas[m].item[1] \in Nat
      BY <1>1, ChainFields, DeltaFields DEF Merges
    <3> QED
      BY <2>1, <3>1, <3>2, <1>4
  <2>2. RightTurns(l, d.item[1]) = {}
    BY <2>1 DEF RightTurns, Merges
  <2> QED
    BY <2>2 DEF BaseFor
<1>8. /\ Low(l) < d.item[1] /\ d.location \in 1 .. Len(items) + 1
      /\ \A p \in DOMAIN items :
           p < d.location <=> items[p][1] < d.item[1] \/ items[p] = LowPairOf(l)
  BY <1>1, <1>2, <1>6, <1>7 DEF DeltasSound, Located
<1>9. LowPairOf(l) = items[1] /\ Low(l) = items[1][1]
  BY <1>6 DEF LowPairOf, Low
<1>10. /\ 1 \in DOMAIN items /\ Len(items) \in Nat
       /\ \A p \in DOMAIN items : items[p][1] \in Nat
  BY <1>1, <1>6, ChainFields, OrderedItems
<1> HIDE DEF items, d
<1>11. \A p \in DOMAIN items : items[p] = LowPairOf(l) => items[p][1] < d.item[1]
  BY <1>8, <1>9
<1>12. \A p \in DOMAIN items : p < d.location <=> items[p][1] < d.item[1]
  BY <1>8, <1>11
<1>13. 1 < d.location
  BY <1>8, <1>9, <1>10
<1>14. d.location \in 2 .. Len(items) + 1
  BY <1>8, <1>10, <1>13
<1> QED
  BY <1>4, <1>12, <1>14 DEF items, d

LEMMA NavigateIsWalk ==
  ASSUME NEW l, NEW c, ChainOK(l, c), NEW k \in Nat
  PROVE  NavigateInnerNode(l, k) = Walk(l, k)
<1> DEFINE items == BaseFor(l, RightTurns(l, k)).items
           near  == SinceMerge(l, Visited(l, RightTurns(l, k)))
           S1    == {2} \cup {l.deltas[i].location : i \in {j \in near : l.deltas[j].item[1] <= k}}
           S2    == {Len(items) + 1} \cup
                    {l.deltas[i].location : i \in {j \in near : l.deltas[j].item[1] > k}}
           start == Max(S1)
           end   == Min(S2)
           b     == Bound(items, start, end, k + 1)
<1>1. l \in Chains /\ Ordered(l.base.items) /\ MergesSound(l)
  BY DEF ChainOK
<1>2. /\ items \in Seq(Nat \X Nat) /\ Len(items) \in Nat \ {0} /\ DOMAIN items = 1 .. Len(items)
      /\ \A p \in DOMAIN items : p \in Nat /\ items[p][1] \in Nat
      /\ \A p, q \in DOMAIN items : p < q => items[p][1] < items[q][1]
  BY <1>1, BaseForOrdered, OrderedItems
<1>3. NavigateInnerNode(l, k) = IF Deciding(l, k) # {} THEN Child(NewestOf(l, Deciding(l, k)))
                                ELSE items[b - 1][2]
  BY DEF NavigateInnerNode, Deciding
<1>4. Walk(l, k) = IF Deciding(l, k) # {} THEN Child(NewestOf(l, Deciding(l, k)))
                   ELSE items[LastUpTo(items, k)][2]
  BY DEF Walk
<1>5. \A j \in near : /\ l.deltas[j].item[1] \in Nat /\ l.deltas[j].location \in 2 .. Len(items) + 1
                      /\ \A p \in DOMAIN items :
                           p < l.deltas[j].location <=> items[p][1] < l.deltas[j].item[1]
  BY NearCut
<1>6. \A x : x \in S1 <=> x = 2 \/ \E j \in near : l.deltas[j].item[1] <= k /\ x = l.deltas[j].location
  OBVIOUS
<1>7. \A x : x \in S2 <=>
        x = Len(items) + 1 \/ \E j \in near : l.deltas[j].item[1] > k /\ x = l.deltas[j].location
  OBVIOUS
<1> HIDE DEF items, near, S1, S2
<1>8. start \in S1 /\ start \in 2 .. Len(items) + 1
  <2>1. \A x \in S1 : x \in 2 .. Len(items) + 1
    <3> TAKE x \in S1
    <3>1. CASE x = 2
      BY <3>1, <1>2
    <3>2. ASSUME NEW j \in near, x = l.deltas[j].location PROVE x \in 2 .. Len(items) + 1
      BY <3>2, <1>5
    <3> QED
      BY <3>1, <3>2, <1>6
  <2>2. IsFiniteSet(2 .. Len(items) + 1) /\ S1 \in SUBSET (2 .. Len(items) + 1)
    BY <2>1, <1>2, FS_Interval
  <2>3. S1 \in SUBSET Nat /\ IsFiniteSet(S1) /\ 2 \in S1
    <3>1. IsFiniteSet(S1)
      BY <2>2, FS_Subset
    <3> QED
      BY <3>1, <2>2, <1>2, <1>6
  <2>4. start \in S1
    BY <2>3, MaxIn
  <2> QED
    BY <2>1, <2>4
<1>9. end \in S2 /\ end \in 2 .. Len(items) + 1
  <2>1. \A x \in S2 : x \in 2 .. Len(items) + 1
    <3> TAKE x \in S2
    <3>1. CASE x = Len(items) + 1
      BY <3>1, <1>2
    <3>2. ASSUME NEW j \in near, x = l.deltas[j].location PROVE x \in 2 .. Len(items) + 1
      BY <3>2, <1>5
    <3> QED
      BY <3>1, <3>2, <1>7
  <2>2. S2 \in SUBSET Nat /\ S2 # {}
    <3>1. \A x \in 2 .. Len(items) + 1 : x \in Nat
      BY <1>2
    <3>2. Len(items) + 1 \in S2
      BY <1>7
    <3> QED
      BY <2>1, <3>1, <3>2
  <2>3. end \in S2
    BY <2>2, MinIn
  <2> QED
    BY <2>1, <2>3
<1> HIDE DEF start, end
<1>10. ASSUME NEW p \in DOMAIN items, p >= end PROVE items[p][1] >= k + 1
  <2>0. p \in Nat /\ items[p][1] \in Nat /\ p <= Len(items)
    BY <1>2
  <2>1. end # Len(items) + 1
    BY <2>0, <1>2, <1>10
  <2>2. PICK j \in near : l.deltas[j].item[1] > k /\ end = l.deltas[j].location
    BY <2>1, <1>7, <1>9
  <2>3. ~(p < l.deltas[j].location)
    BY <2>0, <2>2, <1>9, <1>10
  <2>4. ~(items[p][1] < l.deltas[j].item[1]) /\ l.deltas[j].item[1] \in Nat
    BY <2>3, <1>5
  <2> QED
    BY <2>0, <2>2, <2>4
<1>11. ASSUME NEW p \in DOMAIN items, p < start, p # 1 PROVE items[p][1] <= k
  <2>0. p \in Nat \ {0} /\ items[p][1] \in Nat
    BY <1>2
  <2>1. start # 2
    BY <2>0, <1>11
  <2>2. PICK j \in near : l.deltas[j].item[1] <= k /\ start = l.deltas[j].location
    BY <2>1, <1>6, <1>8
  <2>3. items[p][1] < l.deltas[j].item[1] /\ l.deltas[j].item[1] \in Nat
    BY <2>2, <1>5, <1>11
  <2> QED
    BY <2>0, <2>2, <2>3
<1>12. start <= end
  <2> SUFFICES ASSUME end < start PROVE FALSE
    BY <1>8, <1>9
  <2>1. end \in DOMAIN items /\ end # 1
    BY <1>2, <1>8, <1>9
  <2>2. items[end][1] <= k /\ items[end][1] >= k + 1 /\ items[end][1] \in Nat
    BY <2>1, <1>2, <1>9, <1>10, <1>11
  <2> QED
    BY <2>2
<1>13. /\ b \in start .. end
       /\ \A p \in DOMAIN items : p >= b => items[p][1] >= k + 1
       /\ \A p \in DOMAIN items : p >= start /\ p < b => items[p][1] < k + 1
  <2>1. start \in Nat \ {0} /\ end \in Nat /\ end <= Len(items) + 1 /\ k + 1 \in Nat
    BY <1>2, <1>8, <1>9
  <2> QED
    BY <2>1, <1>2, <1>10, <1>12, BoundCuts
<1> HIDE DEF b
<1>14. LastUpTo(items, k) = b - 1
  <2>1. b - 1 \in 1 .. Len(items) /\ b \in Nat /\ start \in Nat
    BY <1>2, <1>8, <1>9, <1>13
  <2>2. b - 1 \in DOMAIN items /\ items[b - 1][1] \in Nat
    BY <2>1, <1>2
  <2>3. b - 1 = 1 \/ items[b - 1][1] <= k
    <3>1. CASE b - 1 >= start
      <4>1. items[b - 1][1] < k + 1
        BY <2>1, <2>2, <3>1, <1>13
      <4> QED
        BY <4>1, <2>2
    <3>2. CASE b - 1 < start
      BY <3>2, <2>2, <1>11
    <3> QED
      BY <3>1, <3>2, <2>1
  <2>4. \A p \in DOMAIN items : p > b - 1 => items[p][1] > k
    <3> TAKE p \in DOMAIN items
    <3> HAVE p > b - 1
    <3>1. p >= b /\ items[p][1] \in Nat
      BY <2>1, <1>2
    <3>2. items[p][1] >= k + 1
      BY <3>1, <1>13
    <3> QED
      BY <3>1, <3>2
  <2> QED
    BY <2>1, <2>3, <2>4, <1>2, LastUpToIs
<1> QED
  BY <1>3, <1>4, <1>14

\* The first item of the base node that is searched for k is not above k.
LEMMA FirstBelow ==
  ASSUME NEW l, NEW c, ChainOK(l, c), NEW k \in Nat, Low(l) <= k
  PROVE  BaseFor(l, RightTurns(l, k)).items[1][1] <= k
<1>1. l \in Chains /\ MergesSound(l)
  BY DEF ChainOK
<1>2. CASE BaseFor(l, RightTurns(l, k)) = l.base
  BY <1>2 DEF Low, LowPairOf
<1>3. ASSUME NEW m \in Merges(l), BaseFor(l, RightTurns(l, k)) = l.deltas[m].right,
             k >= l.deltas[m].item[1]
      PROVE  BaseFor(l, RightTurns(l, k)).items[1][1] <= k
  <2>1. l.deltas[m].right.items[1][1] = l.deltas[m].item[1] /\ l.deltas[m].item[1] \in Nat
    BY <1>1, ChainFields, DeltaFields DEF MergesSound, Merges
  <2> QED
    BY <2>1, <1>3
<1> QED
  BY <1>1, <1>2, <1>3, Turned

LEMMA NavigateBackwards ==
  ASSUME NEW l, NEW c, ChainOK(l, c), NEW k \in Nat, Low(l) < k,
         \A i \in DOMAIN l.deltas : l.deltas[i].next[1] # k
  PROVE  NavigateInnerNodeBI(l, k) = Walk(l, k - 1)
<1>1. l \in Chains /\ Ordered(l.base.items) /\ MergesSound(l)
  BY DEF ChainOK
<1>2. Low(l) \in Nat /\ k - 1 \in Nat /\ Low(l) <= k - 1
  <2>1. Low(l) \in Nat
    BY <1>1, ChainFields, OrderedItems DEF Low, LowPairOf
  <2> QED
    BY <2>1
<1>3. \A i \in DOMAIN l.deltas : LET d == l.deltas[i] IN
        d \in Deltas /\ d.item[1] \in Nat /\ d.prev[1] \in Nat /\ d.next[1] \in Nat
  BY <1>1, ChainFields, DeltaFields
<1>4. RightTurnsBI(l, k) = RightTurns(l, k - 1)
  <2>1. \A i \in DOMAIN l.deltas :
          (k >= l.deltas[i].item[1] /\ k > l.deltas[i].item[1]) <=> k - 1 >= l.deltas[i].item[1]
    BY <1>3
  <2> QED
    BY <2>1 DEF RightTurnsBI, RightTurns
<1>5. \A i \in DOMAIN l.deltas : DecidesBI(l, l.deltas[i], k) <=> Decides(l, l.deltas[i], k - 1)
  <2> TAKE i \in DOMAIN l.deltas
  <2> DEFINE d == l.deltas[i]
  <2>1. d.item[1] \in Nat /\ d.prev[1] \in Nat /\ d.next[1] \in Nat /\ d.next[1] # k
    BY <1>3
  <2> HIDE DEF d
  <2>2. /\ k > d.item[1] <=> k - 1 >= d.item[1]
        /\ k > d.prev[1] <=> k - 1 >= d.prev[1]
    BY <2>1
  <2>3. k < d.next[1] <=> k - 1 < d.next[1]
    BY <2>1
  <2>4. DecidesBI(l, d, k) <=> Decides(l, d, k - 1)
    BY <2>2, <2>3, Zenon DEF DecidesBI, Decides, BeforeNext
  <2> QED
    BY <2>4 DEF d
<1>6. {i \in Visited(l, RightTurnsBI(l, k)) : DecidesBI(l, l.deltas[i], k)} = Deciding(l, k - 1)
  <2>1. \A i \in Visited(l, RightTurns(l, k - 1)) : i \in DOMAIN l.deltas
    BY DEF Visited
  <2> QED
    BY <1>4, <1>5, <2>1 DEF Deciding
<1> DEFINE items == BaseFor(l, RightTurns(l, k - 1)).items
           b     == Bound(items, 2, Len(items) + 1, k + 1)
           at    == IF items[b - 1][1] = k THEN b - 1 - 1 ELSE b - 1
<1>7. NavigateInnerNodeBI(l, k) = IF Deciding(l, k - 1) # {} THEN Child(NewestOf(l, Deciding(l, k - 1)))
                                  ELSE items[at][2]
  BY <1>4, <1>6 DEF NavigateInnerNodeBI
<1>8. Walk(l, k - 1) = IF Deciding(l, k - 1) # {} THEN Child(NewestOf(l, Deciding(l, k - 1)))
                       ELSE items[LastUpTo(items, k - 1)][2]
  BY DEF Walk
<1>9. items[1][1] <= k - 1
  BY <1>2, FirstBelow
<1>10. /\ items \in Seq(Nat \X Nat) /\ Len(items) \in Nat \ {0} /\ DOMAIN items = 1 .. Len(items)
       /\ \A p \in DOMAIN items : p \in Nat /\ items[p][1] \in Nat
       /\ \A p, q \in DOMAIN items : p < q => items[p][1] < items[q][1]
  BY <1>1, BaseForOrdered, OrderedItems
<1> HIDE DEF items
<1>11. /\ b \in 2 .. Len(items) + 1
       /\ \A p \in DOMAIN items : p >= b => items[p][1] >= k + 1
       /\ \A p \in DOMAIN items : p >= 2 /\ p < b => items[p][1] < k + 1
  <2>1. items # <<>> /\ k + 1 \in Nat
    BY <1>10
  <2>2. 2 \in {1, 2}
    OBVIOUS
  <2> QED
    BY <2>1, <2>2, <1>10, BoundWhole
<1> HIDE DEF b
<1>12. b - 1 \in DOMAIN items /\ b \in Nat /\ items[b - 1][1] \in Nat
  <2>1. b - 1 \in 1 .. Len(items) /\ b \in Nat
    BY <1>10, <1>11
  <2> QED
    BY <2>1, <1>10
<1>13. b - 1 = 1 \/ items[b - 1][1] <= k
  <2>1. CASE b - 1 >= 2
    <3>1. items[b - 1][1] < k + 1
      BY <2>1, <1>11, <1>12
    <3> QED
      BY <3>1, <1>12
  <2> QED
    BY <2>1, <1>10, <1>12
<1>14. LastUpTo(items, k - 1) = at
  <2>1. CASE items[b - 1][1] = k
    <3>0. at = b - 1 - 1
      BY <2>1
    <3>1. b - 1 # 1
      BY <2>1, <1>9
    <3>2. b - 1 - 1 \in 1 .. Len(items) /\ b - 1 - 1 \in DOMAIN items /\ b - 1 - 1 < b - 1
      BY <3>1, <1>10, <1>11, <1>12
    <3>3. items[b - 1 - 1][1] < k /\ items[b - 1 - 1][1] \in Nat
      BY <2>1, <3>2, <1>10, <1>12
    <3>4. items[b - 1 - 1][1] <= k - 1
      BY <3>3
    <3>5. \A p \in DOMAIN items : p > b - 1 - 1 => items[p][1] > k - 1
      <4> TAKE p \in DOMAIN items
      <4> HAVE p > b - 1 - 1
      <4>1. p \in Nat /\ items[p][1] \in Nat
        BY <1>10
      <4>2. CASE p = b - 1
        BY <4>2, <2>1
      <4>3. CASE p >= b
        <5>1. items[p][1] >= k + 1
          BY <4>3, <1>11
        <5> QED
          BY <5>1, <4>1
      <4> QED
        BY <4>1, <4>2, <4>3, <1>12
    <3> DEFINE x == b - 1 - 1
    <3>6. /\ x \in 1 .. Len(items) /\ items[x][1] <= k - 1
          /\ \A p \in DOMAIN items : p > x => items[p][1] > k - 1
      BY <3>2, <3>4, <3>5
    <3> HIDE DEF x
    <3>7. LastUpTo(items, k - 1) = x
      BY <3>6, <1>2, <1>10, LastUpToIs
    <3> QED
      BY <3>0, <3>7 DEF x
  <2>2. CASE items[b - 1][1] # k
    <3>0. at = b - 1
      BY <2>2
    <3> DEFINE x == b - 1
    <3>1. x = 1 \/ items[x][1] <= k - 1
      BY <2>2, <1>12, <1>13
    <3>2. x \in 1 .. Len(items)
      BY <1>10, <1>11
    <3>3. \A p \in DOMAIN items : p > x => items[p][1] > k - 1
      <4> TAKE p \in DOMAIN items
      <4> HAVE p > x
      <4>1. p \in Nat /\ items[p][1] \in Nat /\ p >= b
        BY <1>10, <1>12
      <4>2. items[p][1] >= k + 1
        BY <4>1, <1>11
      <4> QED
        BY <4>1, <4>2
    <3> HIDE DEF x
    <3>4. LastUpTo(items, k - 1) = x
      BY <3>1, <3>2, <3>3, <1>2, <1>10, LastUpToIs
    <3> QED
      BY <3>0, <3>4 DEF x
  <2> QED
    BY <2>1, <2>2
<1> QED
  BY <1>7, <1>8, <1>14

-----------------------------------------------------------------------------
(* The search for a separator.                                             *)

\* The search skips the first item of a base node if it is the low key pair.
LEMMA FirstItemIs ==
  ASSUME NEW l \in Chains, Ordered(l.base.items), NEW b \in BaseType, Ordered(b.items)
  PROVE  /\ FirstItem(l, b) \in {1, 2}
         /\ FirstItem(l, b) = 2 <=> b.items[1] = LowPairOf(l)
         /\ LowPairOf(l) \in Nat \X Nat /\ Low(l) \in Nat /\ Named(LowPairOf(l))
<1>1. /\ b.items[1] \in Nat \X Nat /\ Named(b.items[1])
      /\ LowPairOf(l) \in Nat \X Nat /\ Named(LowPairOf(l)) /\ l.base \in BaseType
  BY ChainFields, OrderedItems DEF Ordered, LowPairOf
<1>2. b.items[1] = LowPairOf(l) <=> b.items[1][2] = LowPairOf(l)[2]
  BY <1>1, NamedApart
<1>3. Low(l) \in Nat
  BY <1>1 DEF Low
<1> QED
  BY <1>1, <1>2, <1>3 DEF FirstItem

\* A walk for k that meets no delta on k finds k in the base node, and its
\* place there.
LEMMA LocationCuts ==
  ASSUME NEW l, NEW c, ChainOK(l, c), NEW k \in Nat, Low(l) < k
  PROVE  LET base  == BaseFor(l, RightTurns(l, k))
             at    == LocationIn(l, base, k)
             items == base.items
         IN  /\ at \in 1 .. Len(items) + 1
             /\ \A p \in DOMAIN items : p < at <=> items[p][1] < k \/ items[p] = LowPairOf(l)
             /\ at <= Len(items) => at \in DOMAIN items
             /\ \A p \in DOMAIN items : items[p][1] = k => p = at
<1> DEFINE base  == BaseFor(l, RightTurns(l, k))
           items == base.items
           start == FirstItem(l, base)
           at    == Bound(items, start, Len(items) + 1, k)
<1>1. l \in Chains /\ Ordered(l.base.items) /\ MergesSound(l)
  BY DEF ChainOK
<1>2. base \in BaseType /\ Ordered(items)
  BY <1>1, BaseForOrdered
<1>3. LocationIn(l, base, k) = at
  BY DEF LocationIn
<1> HIDE DEF base
<1>4. /\ items \in Seq(Nat \X Nat) /\ Len(items) \in Nat \ {0} /\ DOMAIN items = 1 .. Len(items)
      /\ \A p \in DOMAIN items : p \in Nat /\ items[p][1] \in Nat
      /\ \A p, q \in DOMAIN items : p < q => items[p][1] < items[q][1]
      /\ \A p, q \in DOMAIN items : items[p][1] = items[q][1] => p = q
      /\ 1 \in DOMAIN items
  BY <1>2, OrderedItems
<1>5. start \in {1, 2} /\ (start = 2 <=> items[1] = LowPairOf(l)) /\ Low(l) \in Nat
  BY <1>1, <1>2, FirstItemIs
<1>6. \A p \in DOMAIN items : items[p] = LowPairOf(l) => items[p][1] < k
  BY DEF Low
<1> HIDE DEF items, start
<1>7. /\ at \in start .. Len(items) + 1
      /\ \A p \in DOMAIN items : p >= at => items[p][1] >= k
      /\ \A p \in DOMAIN items : p >= start /\ p < at => items[p][1] < k
  <2>1. items # <<>>
    BY <1>4
  <2> QED
    BY <2>1, <1>4, <1>5, BoundWhole
<1> HIDE DEF at
<1>8. at \in 1 .. Len(items) + 1 /\ at \in Nat
  BY <1>4, <1>5, <1>7
<1>9. ASSUME NEW p \in DOMAIN items PROVE p < at <=> items[p][1] < k
  <2>0. p \in Nat \ {0} /\ items[p][1] \in Nat
    BY <1>4
  <2>1. CASE p >= at
    <3>1. items[p][1] >= k
      BY <2>1, <1>7
    <3> QED
      BY <2>0, <2>1, <3>1, <1>8
  <2>2. CASE p < at /\ p >= start
    <3>1. items[p][1] < k
      BY <2>2, <1>7
    <3> QED
      BY <2>2, <3>1
  <2>3. CASE p < at /\ p < start
    <3>1. p = 1 /\ start = 2
      BY <2>0, <2>3, <1>5
    <3>2. items[p][1] < k
      BY <3>1, <1>5, <1>6
    <3> QED
      BY <2>3, <3>2
  <2> QED
    BY <2>0, <2>1, <2>2, <2>3, <1>5, <1>8
<1>10. \A p \in DOMAIN items : p < at <=> items[p][1] < k \/ items[p] = LowPairOf(l)
  BY <1>6, <1>9
<1>11. ASSUME NEW p \in DOMAIN items, items[p][1] = k PROVE p = at
  <2>0. p \in Nat /\ ~(items[p][1] < k)
    BY <1>4, <1>11
  <2>1. p >= at
    BY <2>0, <1>8, <1>9
  <2>2. at \in DOMAIN items
    BY <2>0, <2>1, <1>4, <1>8
  <2>3. items[at][1] >= k /\ items[at][1] \in Nat
    BY <2>2, <1>4, <1>7, <1>8
  <2>4. CASE p > at
    <3>1. items[at][1] < items[p][1]
      BY <2>2, <2>4, <1>4
    <3> QED
      BY <3>1, <2>3, <1>11
  <2> QED
    BY <2>0, <2>1, <2>4, <1>8
<1>12. at <= Len(items) => at \in DOMAIN items
  BY <1>4, <1>8
<1> QED
  BY <1>3, <1>8, <1>10, <1>11, <1>12 DEF items, base

LEMMA LocateExact ==
  ASSUME NEW l, NEW c, ChainOK(l, c), NEW k \in Nat, Inside(l, k), Low(l) < k
  PROVE  /\ Locate(l, k).found <=> k \in DOMAIN c
         /\ Locate(l, k).found => Locate(l, k).id = c[k]
         /\ Locate(l, k).location \in Nat
         /\ \A d : d.item[1] = k /\ d.location = Locate(l, k).location => Located(l, d)
<1> DEFINE hits == {i \in Visited(l, RightTurns(l, k)) : IsData(l.deltas[i]) /\ l.deltas[i].item[1] = k}
           base == BaseFor(l, RightTurns(l, k))
           at   == LocationIn(l, base, k)
           found == at <= Len(base.items) /\ base.items[at][1] = k
           here == [found |-> found, id |-> IF found THEN base.items[at][2] ELSE INVALID_NODE_ID,
                    location |-> at]
           d    == NewestOf(l, hits)
           inserted == d.type = "insert"
           there == [found |-> inserted, id |-> d.item[2], location |-> d.location]
<1>1. l \in Chains /\ MergesSound(l) /\ DeltasSound(l) /\ KnownExact(l, c)
  BY DEF ChainOK
<1>2. Locate(l, k) = IF hits # {} THEN there ELSE here
  BY DEF Locate
<1>3. CASE hits # {}
  <2> DEFINE m == Min(hits)
  <2>1. hits \in SUBSET Nat /\ hits \in SUBSET DOMAIN l.deltas
    BY <1>1, ChainFields DEF Visited
  <2>2. \A i : i \in hits <=> i \in Visited(l, RightTurns(l, k)) /\ Touches(l.deltas[i], k)
    BY DEF Touches
  <2>3. m \in hits /\ \A i \in hits : m <= i
    <3> HIDE DEF hits
    <3> QED
      BY <2>1, <1>3, MinIn
  <2>4. d = l.deltas[m]
    BY DEF NewestOf
  <2> HIDE DEF hits, m, here
  <2>5. m \in Newest(l.deltas)
    <3>1. m \in DOMAIN l.deltas /\ m \in Nat /\ Touches(l.deltas[m], k)
      BY <2>1, <2>2, <2>3
    <3>2. ASSUME NEW j \in 1 .. m - 1, IsData(l.deltas[j]) /\ l.deltas[j].item[1] = k PROVE FALSE
      <4>1. j \in Nat /\ j < m /\ j \in DOMAIN l.deltas
        BY <3>1, <1>1, ChainFields
      <4>2. \A turn \in RightTurns(l, k) : j <= turn
        <5> TAKE turn \in RightTurns(l, k)
        <5>1. m <= turn /\ turn \in Nat
          BY <2>2, <2>3, <1>1, TurnsType DEF Visited
        <5> QED
          BY <5>1, <4>1, <3>1
      <4>3. j \in hits
        BY <4>1, <4>2, <3>2, <2>2 DEF Visited, Touches
      <4>4. m <= j
        BY <4>3, <2>3
      <4> QED
        BY <4>4, <4>1, <3>1
    <3> QED
      BY <3>1, <3>2 DEF Newest, Touches
  <2>6. Touches(d, k) /\ m \in DOMAIN l.deltas /\ d \in Deltas
    BY <2>1, <2>2, <2>3, <2>4, <1>1, ChainFields
  <2>7. /\ d.type = "insert" => k \in DOMAIN c /\ c[k] = d.item[2]
        /\ d.type = "delete" => k \notin DOMAIN c
        /\ Located(l, d)
    BY <2>4, <2>5, <2>6, <1>1 DEF KnownExact, DeltasSound, Touches
  <2>8. (d.type = "insert" <=> k \in DOMAIN c) /\ d.location \in Nat
    BY <2>6, <2>7, DeltaFields DEF Touches, IsData
  <2> HIDE DEF d
  <2>9. /\ Locate(l, k).found <=> d.type = "insert"
        /\ Locate(l, k).id = d.item[2] /\ Locate(l, k).location = d.location
    <3>1. Locate(l, k) = there
      BY <1>2, <1>3
    <3>2. Locate(l, k).id = d.item[2] /\ Locate(l, k).location = d.location
      BY <3>1
    <3>3. Locate(l, k).found = inserted
      <4> HIDE DEF inserted
      <4> QED
        BY <3>1
    <3> QED
      BY <3>2, <3>3
  <2>10. \A e : e.item[1] = k /\ e.location = d.location => Located(l, e)
    BY <2>6, <2>7 DEF Located, Touches
  <2> QED
    BY <2>7, <2>8, <2>9, <2>10
<1>4. CASE hits = {}
  <2>1. \A i \in DOMAIN l.deltas : ~Touches(l.deltas[i], k)
    <3> SUFFICES ASSUME NEW i \in DOMAIN l.deltas, Touches(l.deltas[i], k) PROVE FALSE
      OBVIOUS
    <3>1. i \notin Visited(l, RightTurns(l, k)) /\ i \in Nat /\ IsData(l.deltas[i])
      BY <1>1, <1>4, ChainFields DEF Touches
    <3>2. PICK turn \in RightTurns(l, k) : ~(i <= turn)
      BY <3>1 DEF Visited
    <3>3. turn \in Nat /\ turn \in Merges(l) /\ k >= l.deltas[turn].item[1] /\ turn \in DOMAIN l.deltas
      BY <1>1, TurnsType DEF RightTurns
    <3>4. l.deltas[i].item[1] < l.deltas[turn].item[1]
      BY <3>1, <3>2, <3>3, <1>1 DEF MergesSound
    <3>5. l.deltas[turn].item[1] \in Nat
      BY <3>3, <1>1, ChainFields, DeltaFields
    <3> QED
      BY <3>3, <3>4, <3>5 DEF Touches
  <2>2. /\ k \in DOMAIN c <=> \E p \in DOMAIN base.items : base.items[p][1] = k
        /\ \A p \in DOMAIN base.items : base.items[p][1] = k => c[k] = base.items[p][2]
    BY <2>1, <1>1 DEF KnownExact
  <2>3. /\ at \in 1 .. Len(base.items) + 1
        /\ \A p \in DOMAIN base.items :
             p < at <=> base.items[p][1] < k \/ base.items[p] = LowPairOf(l)
        /\ at <= Len(base.items) => at \in DOMAIN base.items
        /\ \A p \in DOMAIN base.items : base.items[p][1] = k => p = at
    BY LocationCuts
  <2>4. /\ Locate(l, k).found <=> found
        /\ found => Locate(l, k).id = base.items[at][2]
        /\ Locate(l, k).location = at
    <3> HIDE DEF hits, there, base, at
    <3>1. Locate(l, k) = here
      BY <1>2, <1>4
    <3>2. (found => Locate(l, k).id = base.items[at][2]) /\ Locate(l, k).location = at
      <4> HIDE DEF found
      <4> QED
        BY <3>1
    <3>3. Locate(l, k).found = found
      <4> HIDE DEF found
      <4> QED
        BY <3>1
    <3> QED
      BY <3>2, <3>3
  <2>5. \A e : e.item[1] = k /\ e.location = at => Located(l, e)
    BY <2>3 DEF Located
  <2> HIDE DEF base, at
  <2>6. found <=> \E p \in DOMAIN base.items : base.items[p][1] = k
    <3>1. ASSUME NEW p \in DOMAIN base.items, base.items[p][1] = k PROVE found
      <4>1. p = at
        BY <3>1, <2>3
      <4>2. p <= Len(base.items)
        <5>1. base \in BaseType
          BY <1>1, BaseForOrdered DEF base, ChainOK
        <5> QED
          BY <5>1, BaseFields
      <4> QED
        BY <4>1, <4>2, <3>1
    <3> QED
      BY <3>1, <2>3
  <2>7. found => base.items[at][2] = c[k] /\ k \in DOMAIN c
    BY <2>2, <2>3
  <2>8. at \in Nat
    BY <2>3
  <2> QED
    BY <2>2, <2>4, <2>5, <2>6, <2>7, <2>8
<1> QED
  BY <1>3, <1>4

-----------------------------------------------------------------------------
(* A base node without deltas.                                             *)

\* The items are the separators of c and their children.
Lists(items, c) ==
  /\ \A p \in DOMAIN items : items[p][1] \in DOMAIN c /\ c[items[p][1]] = items[p][2]
  /\ \A s \in DOMAIN c : \E p \in DOMAIN items : items[p][1] = s

LEMMA LastUpToIn ==
  ASSUME NEW items \in Seq(Nat \X Nat), items # <<>>, NEW k \in Nat
  PROVE  /\ LastUpTo(items, k) \in DOMAIN items
         /\ LastUpTo(items, k) = 1 \/ items[LastUpTo(items, k)][1] <= k
         /\ \A p \in DOMAIN items : items[p][1] <= k => p <= LastUpTo(items, k)
<1> DEFINE S == {1} \cup {p \in DOMAIN items : items[p][1] <= k}
<1>1. Len(items) \in Nat \ {0} /\ DOMAIN items = 1 .. Len(items) /\ 1 \in DOMAIN items
  BY EmptySeq, LenProperties
<1>2. IsFiniteSet(1 .. Len(items))
  BY <1>1, FS_Interval
<1>3. S \in SUBSET (1 .. Len(items)) /\ S \in SUBSET Nat /\ 1 \in S
  BY <1>1
<1>4. \A p : p \in S <=> p = 1 \/ (p \in DOMAIN items /\ items[p][1] <= k)
  OBVIOUS
<1>5. LastUpTo(items, k) = Max(S)
  BY DEF LastUpTo
<1> HIDE DEF S
<1>6. IsFiniteSet(S)
  BY <1>2, <1>3, FS_Subset
<1>7. Max(S) \in S /\ \A p \in S : Max(S) >= p
  BY <1>3, <1>6, MaxIn
<1>8. Max(S) \in Nat /\ \A p \in DOMAIN items : p \in Nat
  <2>1. \A p \in 1 .. Len(items) : p \in Nat
    BY <1>1
  <2>2. Max(S) \in 1 .. Len(items)
    BY <1>3, <1>7
  <2> QED
    BY <2>1, <2>2, <1>1
<1>9. \A p \in DOMAIN items : items[p][1] <= k => p <= Max(S)
  BY <1>4, <1>7, <1>8
<1> QED
  BY <1>1, <1>4, <1>5, <1>7, <1>9

LEMMA BaseWalk ==
  ASSUME NEW items \in Seq(Nat \X Nat), items # <<>>, NEW c, Lists(items, c), NEW k \in Nat,
         \A p, q \in DOMAIN items : p < q => items[p][1] < items[q][1],
         items[1][1] <= k
  PROVE  items[LastUpTo(items, k)][2] = c[SepBelow(c, k)]
<1> DEFINE b == LastUpTo(items, k)
           s == items[b][1]
<1>1. /\ b \in DOMAIN items /\ (b = 1 \/ s <= k)
      /\ \A p \in DOMAIN items : items[p][1] <= k => p <= b
  BY LastUpToIn
<1>2. \A p \in DOMAIN items : items[p][1] \in Nat /\ p \in Nat
  <2>1. \A p \in DOMAIN items : items[p] \in Nat \X Nat /\ p \in Nat
    BY LenProperties
  <2> QED
    BY <2>1
<1>3. DOMAIN c \in SUBSET Nat
  BY <1>2 DEF Lists
<1> HIDE DEF b
<1>4. s \in DOMAIN c /\ c[s] = items[b][2] /\ s <= k
  BY <1>1 DEF Lists
<1>5. \A r \in DOMAIN c : r <= k => r <= s
  <2> TAKE r \in DOMAIN c
  <2> HAVE r <= k
  <2>1. PICK p \in DOMAIN items : items[p][1] = r
    BY DEF Lists
  <2>2. p <= b /\ p \in Nat /\ b \in Nat
    BY <2>1, <1>1, <1>2
  <2>3. CASE p = b
    BY <2>1, <2>3, <1>2
  <2>4. CASE p < b
    <3>1. items[p][1] < items[b][1]
      BY <2>4, <1>1
    <3> QED
      BY <3>1, <2>1, <1>1, <1>2
  <2> QED
    BY <2>2, <2>3, <2>4
<1> HIDE DEF s
<1>6. SepBelow(c, k) = s
  BY <1>3, <1>4, <1>5, SepBelowIs
<1> QED
  BY <1>4, <1>6 DEF b

LEMMA ListsCount ==
  ASSUME NEW items \in Seq(Nat \X Nat), NEW c, Lists(items, c),
         \A p, q \in DOMAIN items : p < q => items[p][1] < items[q][1]
  PROVE  IsFiniteSet(DOMAIN c) /\ Cardinality(DOMAIN c) = Len(items)
<1> DEFINE I == 1 .. Len(items)
           f == [p \in I |-> items[p][1]]
<1>1. Len(items) \in Nat /\ DOMAIN items = I /\ \A p \in I : p \in Nat /\ items[p] \in Nat \X Nat
  BY LenProperties
<1>2. \A p \in I : items[p][1] \in Nat
  BY <1>1
<1>3. f \in Bijection(I, DOMAIN c)
  <2>1. f \in [I -> DOMAIN c]
    BY <1>1 DEF Lists
  <2>2. \A p, q \in I : f[p] = f[q] => p = q
    <3>1. ASSUME NEW p \in I, NEW q \in I, items[p][1] = items[q][1] PROVE p = q
      <4>1. p \in Nat /\ q \in Nat /\ items[p][1] \in Nat /\ ~(p < q) /\ ~(q < p)
        <5>1. p \in DOMAIN items /\ q \in DOMAIN items /\ items[p][1] \in Nat
          BY <1>1, <1>2
        <5>2. p < q => items[p][1] < items[q][1]
          BY <5>1
        <5>3. q < p => items[q][1] < items[p][1]
          BY <5>1
        <5> QED
          BY <5>1, <5>2, <5>3, <3>1, <1>1
      <4> QED
        BY <4>1
    <3>2. \A p \in I : f[p] = items[p][1]
      OBVIOUS
    <3> QED
      BY <3>1, <3>2
  <2>3. \A s \in DOMAIN c : \E p \in I : f[p] = s
    BY <1>1 DEF Lists
  <2> HIDE DEF f
  <2> QED
    BY <2>1, <2>2, <2>3 DEF Bijection, Injection, Surjection, IsInjective
<1>4. ExistsBijection(I, DOMAIN c)
  BY <1>3 DEF ExistsBijection
<1>5. IsFiniteSet(I) /\ Cardinality(I) = Len(items)
  <2> DEFINE n == Len(items)
  <2>1. n \in Nat /\ n \in Int /\ 1 \in Int
    BY <1>1
  <2> HIDE DEF n
  <2>2. IsFiniteSet(1 .. n) /\ Cardinality(1 .. n) = IF 1 > n THEN 0 ELSE n - 1 + 1
    BY <2>1, FS_Interval
  <2>3. Cardinality(1 .. n) = n
    BY <2>1, <2>2
  <2> QED
    BY <2>2, <2>3 DEF n
<1> QED
  BY <1>4, <1>5, FS_Bijection

LEMMA BaseChain ==
  ASSUME NEW items \in Seq(Pairs), Ordered(items), NEW high \in Pairs,
         NEW c, c = [s \in DOMAIN c |-> c[s]], Lists(items, c),
         high[2] # INVALID_NODE_ID => \A p \in DOMAIN items : items[p][1] < high[1]
  PROVE  ChainOK([deltas |-> <<>>, base |-> [items |-> items, high |-> high]], c)
<1> DEFINE b == [items |-> items, high |-> high]
           l == [deltas |-> <<>>, base |-> b]
<1>1. l \in Chains /\ b \in BaseType
  BY DEF Chains, BaseType
<1>2. /\ l.deltas = <<>> /\ l.base.items = items /\ l.base.high = high
      /\ DOMAIN l.deltas = {} /\ HighOf(l) = high /\ CountOf(l) = Len(items)
      /\ LowPairOf(l) = items[1] /\ Low(l) = items[1][1]
  BY DEF HighOf, CountOf, LowPairOf, Low
<1>3. /\ Merges(l) = {} /\ \A k : RightTurns(l, k) = {} /\ Deciding(l, k) = {}
      /\ Newest(l.deltas) = {}
  BY <1>2 DEF Merges, RightTurns, Deciding, Visited, Newest
<1>4. \A k : BaseFor(l, RightTurns(l, k)).items = items
  BY <1>2, <1>3 DEF BaseFor
<1>5. /\ items \in Seq(Nat \X Nat) /\ items # <<>> /\ 1 \in DOMAIN items
      /\ DOMAIN items = 1 .. Len(items) /\ Len(items) \in Nat
      /\ \A p, q \in DOMAIN items : p < q => items[p][1] < items[q][1]
      /\ \A p \in DOMAIN items : items[p] \in Nat \X Nat /\ items[p][1] \in Nat /\ items[p][2] \in Nat
      /\ \A p \in DOMAIN items : p \in Nat
  <2>1. b.items = items
    OBVIOUS
  <2> HIDE DEF b
  <2> QED
    BY <1>1, <2>1, OrderedItems DEF Ordered
<1> HIDE DEF l, b
<1>6. \A p \in DOMAIN items : Low(l) <= items[p][1] /\ Inside(l, items[p][1])
  <2> TAKE p \in DOMAIN items
  <2>1. items[1][1] <= items[p][1]
    <3>1. p = 1 \/ 1 < p
      BY <1>5
    <3>2. 1 < p => items[1][1] < items[p][1]
      BY <1>5
    <3> QED
      BY <3>1, <3>2, <1>5
  <2> QED
    BY <2>1, <1>2 DEF Inside
<1>7. ContentSound(l, c)
  <2>1. /\ \A s \in DOMAIN c : Inside(l, s) /\ Named(<<s, c[s]>>) /\ c[s] \in Nat
        /\ DOMAIN c \subseteq Keys \cup {LowKey}
    <3>1. \A p \in DOMAIN items : items[p] \in Pairs /\ items[p] = <<items[p][1], items[p][2]>>
      BY <1>5 DEF Pairs
    <3>2. \A p \in DOMAIN items : items[p][1] \in Keys \cup {LowKey}
      BY <3>1 DEF Pairs
    <3>3. ASSUME NEW s \in DOMAIN c
          PROVE  Inside(l, s) /\ Named(<<s, c[s]>>) /\ c[s] \in Nat /\ s \in Keys \cup {LowKey}
      <4>1. PICK p \in DOMAIN items : items[p][1] = s
        BY DEF Lists
      <4>2. c[s] = items[p][2] /\ items[p] = <<s, c[s]>>
        BY <4>1, <3>1 DEF Lists
      <4>3. Named(items[p]) /\ items[p][2] \in Nat
        BY <1>5 DEF Ordered
      <4> QED
        BY <4>1, <4>2, <4>3, <3>2, <1>6
    <3> QED
      BY <3>3
  <2>2. c \in [DOMAIN c -> Nat]
    BY <2>1
  <2>3. Low(l) \in DOMAIN c /\ c[Low(l)] = LowPairOf(l)[2]
    BY <1>2, <1>5 DEF Lists
  <2>4. IsFiniteSet(DOMAIN c) /\ CountOf(l) = Cardinality(DOMAIN c)
    BY <1>2, <1>5, ListsCount
  <2> QED
    BY <2>1, <2>2, <2>3, <2>4 DEF ContentSound
<1>8. WalkExact(l, c)
  <2> SUFFICES ASSUME NEW k \in Nat, Inside(l, k) PROVE Walk(l, k) = c[SepBelow(c, k)]
    BY DEF WalkExact
  <2>1. items[1][1] <= k
    BY <1>2 DEF Inside
  <2>2. items[LastUpTo(items, k)][2] = c[SepBelow(c, k)]
    BY <2>1, <1>5, BaseWalk
  <2>3. Walk(l, k) = items[LastUpTo(items, k)][2]
    BY <1>3, <1>4 DEF Walk
  <2> QED
    BY <2>2, <2>3
<1>9. KnownExact(l, c)
  <2>1. \A k : /\ k \in DOMAIN c <=> \E p \in DOMAIN items : items[p][1] = k
               /\ \A p \in DOMAIN items : items[p][1] = k => c[k] = items[p][2]
    BY DEF Lists
  <2>2. \A k \in Nat : LET found == BaseFor(l, RightTurns(l, k)).items IN
          /\ k \in DOMAIN c <=> \E p \in DOMAIN found : found[p][1] = k
          /\ \A p \in DOMAIN found : found[p][1] = k => c[k] = found[p][2]
    <3> TAKE k \in Nat
    <3>1. BaseFor(l, RightTurns(l, k)).items = items
      BY <1>4
    <3> QED
      BY <2>1, <3>1
  <2> QED
    BY <1>3, <2>2 DEF KnownExact
<1>10. MergesSound(l) /\ DeltasSound(l)
  BY <1>2, <1>3 DEF MergesSound, DeltasSound
<1>11. ChainOK(l, c)
  BY <1>1, <1>2, <1>6, <1>7, <1>8, <1>9, <1>10 DEF ChainOK
<1> QED
  BY <1>11 DEF l, b

\* The other direction.
LEMMA BaseLists ==
  ASSUME NEW l, NEW c, ChainOK(l, c), l.deltas = <<>>
  PROVE  Lists(l.base.items, c)
<1>1. DOMAIN l.deltas = {} /\ \A k : RightTurns(l, k) = {}
  BY DEF RightTurns
<1>2. \A k : BaseFor(l, RightTurns(l, k)).items = l.base.items
  BY <1>1 DEF BaseFor
<1>3. \A p \in DOMAIN l.base.items : l.base.items[p][1] \in Nat /\ Inside(l, l.base.items[p][1])
  <2>1. l.base \in BaseType /\ Ordered(l.base.items)
    BY ChainFields DEF ChainOK
  <2> QED
    BY <2>1, OrderedItems DEF ChainOK
<1>4. \A s \in DOMAIN c : s \in Nat /\ Inside(l, s)
  <2>1. /\ DOMAIN c \subseteq Keys \cup {LowKey}
        /\ \A s \in DOMAIN c : Inside(l, s)
    BY DEF ChainOK, ContentSound
  <2>2. \A k \in Keys \cup {LowKey} : k \in Nat
    <3>1. Keys \subseteq Nat /\ LowKey \in Nat
      BY Constants
    <3> QED
      BY <3>1
  <2>3. \A s \in DOMAIN c : s \in Nat
    BY <2>1, <2>2
  <2> QED
    BY <2>1, <2>3
<1>5. \A k \in Nat : Inside(l, k) =>
        /\ k \in DOMAIN c <=> \E p \in DOMAIN l.base.items : l.base.items[p][1] = k
        /\ \A p \in DOMAIN l.base.items : l.base.items[p][1] = k => c[k] = l.base.items[p][2]
  <2> TAKE k \in Nat
  <2> HAVE Inside(l, k)
  <2> DEFINE found == BaseFor(l, RightTurns(l, k)).items
  <2>1. /\ k \in DOMAIN c <=> \E p \in DOMAIN found : found[p][1] = k
        /\ \A p \in DOMAIN found : found[p][1] = k => c[k] = found[p][2]
    BY <1>1 DEF ChainOK, KnownExact
  <2>2. found = l.base.items
    BY <1>2
  <2> QED
    BY <2>1, <2>2
<1> QED
  BY <1>3, <1>4, <1>5 DEF Lists

-----------------------------------------------------------------------------
(* The split and the merge of a node.                                      *)

\* Contents that agree up to k agree on the child for k.
LEMMA SepBelowAgree ==
  ASSUME NEW c, NEW c2, NEW k \in Nat, DOMAIN c \in SUBSET Nat, IsFiniteSet(DOMAIN c),
         DOMAIN c2 \in SUBSET Nat, NEW r \in DOMAIN c, r <= k,
         \A s \in Nat : s <= k => /\ s \in DOMAIN c2 <=> s \in DOMAIN c
                                  /\ s \in DOMAIN c => c2[s] = c[s]
  PROVE  c2[SepBelow(c2, k)] = c[SepBelow(c, k)]
<1> DEFINE s == SepBelow(c, k)
<1>1. s \in DOMAIN c /\ s <= k /\ \A q \in DOMAIN c : q <= k => q <= s
  BY SepBelowIn
<1> HIDE DEF s
<1>2. s \in DOMAIN c2 /\ c2[s] = c[s] /\ \A q \in DOMAIN c2 : q <= k => q <= s
  BY <1>1
<1>3. SepBelow(c2, k) = s
  BY <1>1, <1>2, SepBelowIs
<1> QED
  BY <1>2, <1>3 DEF s

\* The two halves of a base node list the two halves of its content.
LEMMA HalvesList ==
  ASSUME NEW b \in BaseType, Ordered(b.items), NEW c, c = [s \in DOMAIN c |-> c[s]],
         Lists(b.items, c), NEW m \in 2 .. Len(b.items)
  PROVE  LET items == b.items
             key   == items[m][1]
             first == SubSeq(items, 1, m - 1)
             rest  == SubSeq(items, m, Len(items))
             below == Restrict(c, {s \in DOMAIN c : s < key})
             above == Restrict(c, {s \in DOMAIN c : s >= key})
         IN  /\ first \in Seq(Pairs) /\ Ordered(first) /\ Len(first) = m - 1
             /\ Lists(first, below) /\ first[1] = items[1]
             /\ rest \in Seq(Pairs) /\ Ordered(rest) /\ Len(rest) = Len(items) - m + 1
             /\ Lists(rest, above) /\ rest[1] = items[m]
             /\ items[1][1] < key /\ key \in Nat
             /\ items[m] \in Pairs
<1> DEFINE items == b.items
           n     == Len(items)
           key   == items[m][1]
           first == SubSeq(items, 1, m - 1)
           rest  == SubSeq(items, m, n)
           below == Restrict(c, {s \in DOMAIN c : s < key})
           above == Restrict(c, {s \in DOMAIN c : s >= key})
<1>1. /\ n \in Nat \ {0} /\ DOMAIN items = 1 .. n
      /\ \A p \in 1 .. n : items[p] \in Pairs /\ items[p][1] \in Nat /\ Named(items[p]) /\ p \in Nat
      /\ \A p, q \in 1 .. n : p < q => items[p][1] < items[q][1]
      /\ \A p, q \in 1 .. n : items[p][1] = items[q][1] => p = q
  BY OrderedItems, BaseFields DEF Ordered
<1>2. m \in 1 .. n /\ m \in Nat /\ 1 \in 1 .. n /\ 1 < m /\ m <= n
  BY <1>1
<1>3. /\ \A s \in DOMAIN c : \E p \in 1 .. n : items[p][1] = s
      /\ \A p \in 1 .. n : items[p][1] \in DOMAIN c /\ c[items[p][1]] = items[p][2]
  BY <1>1 DEF Lists
<1> HIDE DEF items, n
<1>4. /\ first \in Seq(Pairs) /\ Len(first) = m - 1 /\ DOMAIN first = 1 .. m - 1
      /\ \A p \in 1 .. m - 1 : first[p] = items[p] /\ p \in 1 .. n
  <2>1. \A p \in 1 .. m - 1 : p \in 1 .. n /\ items[p] \in Pairs /\ 1 + p - 1 = p
    BY <1>1, <1>2
  <2>2. m - 1 \in Int /\ 1 \in Int /\ 1 <= m - 1
    BY <1>2
  <2>3. /\ first \in Seq(Pairs) /\ Len(first) = (m - 1) - 1 + 1
        /\ \A p \in 1 .. (m - 1) - 1 + 1 : first[p] = items[1 + p - 1]
    BY <2>1, <2>2, SubSeqProperties
  <2>4. (m - 1) - 1 + 1 = m - 1
    BY <1>2
  <2> QED
    BY <2>1, <2>3, <2>4, LenProperties
<1>5. /\ rest \in Seq(Pairs) /\ Len(rest) = n - m + 1 /\ DOMAIN rest = 1 .. n - m + 1
      /\ \A p \in 1 .. n - m + 1 : rest[p] = items[m + p - 1] /\ m + p - 1 \in 1 .. n
  <2>1. \A p \in m .. n : items[p] \in Pairs
    BY <1>1, <1>2
  <2>2. \A p \in 1 .. n - m + 1 : m + p - 1 \in 1 .. n
    BY <1>1, <1>2
  <2>3. /\ rest \in Seq(Pairs) /\ Len(rest) = n - m + 1
        /\ \A p \in 1 .. n - m + 1 : rest[p] = items[m + p - 1]
    <3>1. m \in Int /\ n \in Int /\ m <= n
      BY <1>1, <1>2
    <3>2. /\ rest \in Seq(Pairs)
          /\ Len(rest) = IF m <= n THEN n - m + 1 ELSE 0
          /\ \A p \in 1 .. n - m + 1 : rest[p] = items[m + p - 1]
      BY <2>1, <3>1, SubSeqProperties
    <3> QED
      BY <3>1, <3>2
  <2> QED
    BY <2>2, <2>3, LenProperties
<1>6. /\ DOMAIN below = {s \in DOMAIN c : s < key} /\ DOMAIN above = {s \in DOMAIN c : s >= key}
      /\ \A s \in DOMAIN below : below[s] = c[s]
      /\ \A s \in DOMAIN above : above[s] = c[s]
  BY DEF Restrict
<1> HIDE DEF first, rest, below, above
<1>7. Ordered(first)
  <2>1. first # <<>>
    BY <1>2, <1>4
  <2>2. \A p, q \in DOMAIN first : p < q => first[p][1] < first[q][1]
    BY <1>1, <1>4
  <2>3. \A p \in DOMAIN first : Named(first[p])
    BY <1>1, <1>4
  <2> QED
    BY <2>1, <2>2, <2>3 DEF Ordered
<1>8. Ordered(rest)
  <2>1. rest # <<>>
    BY <1>1, <1>2, <1>5
  <2>2. ASSUME NEW p \in DOMAIN rest, NEW q \in DOMAIN rest, p < q PROVE rest[p][1] < rest[q][1]
    <3>1. /\ m + p - 1 \in 1 .. n /\ m + q - 1 \in 1 .. n
          /\ rest[p] = items[m + p - 1] /\ rest[q] = items[m + q - 1]
      BY <1>5
    <3>2. m + p - 1 < m + q - 1
      <4>1. p \in Nat /\ q \in Nat
        BY <1>5
      <4> QED
        BY <4>1, <2>2, <1>2
    <3> QED
      BY <3>1, <3>2, <1>1
  <2>3. \A p \in DOMAIN rest : Named(rest[p])
    BY <1>1, <1>5
  <2> QED
    BY <2>1, <2>2, <2>3 DEF Ordered
<1>9. ASSUME NEW p \in 1 .. n PROVE p < m <=> items[p][1] < key
  <2>1. p \in Nat /\ items[p][1] \in Nat /\ key \in Nat
    BY <1>1, <1>2
  <2>2. /\ p < m => items[p][1] < key
        /\ m < p => key < items[p][1]
    BY <1>1, <1>2
  <2> QED
    BY <2>1, <2>2, <1>2
<1>10. Lists(first, below)
  <2>1. ASSUME NEW p \in DOMAIN first
        PROVE  first[p][1] \in DOMAIN below /\ below[first[p][1]] = first[p][2]
    <3>1. p \in 1 .. n /\ p < m /\ first[p] = items[p]
      BY <1>2, <1>4
    <3> QED
      BY <3>1, <1>3, <1>6, <1>9
  <2>2. ASSUME NEW s \in DOMAIN below PROVE \E p \in DOMAIN first : first[p][1] = s
    <3>1. PICK p \in 1 .. n : items[p][1] = s
      BY <1>3, <1>6
    <3>2. p < m
      BY <3>1, <1>6, <1>9
    <3>3. p \in DOMAIN first
      BY <3>2, <1>1, <1>2, <1>4
    <3> QED
      BY <3>1, <3>3, <1>4
  <2> QED
    BY <2>1, <2>2 DEF Lists
<1>11. Lists(rest, above)
  <2>1. ASSUME NEW p \in DOMAIN rest
        PROVE  rest[p][1] \in DOMAIN above /\ above[rest[p][1]] = rest[p][2]
    <3>1. m + p - 1 \in 1 .. n /\ ~(m + p - 1 < m) /\ rest[p] = items[m + p - 1]
      BY <1>2, <1>5
    <3>2. items[m + p - 1][1] \in DOMAIN c /\ items[m + p - 1][1] \in Nat /\ key \in Nat
      BY <3>1, <1>1, <1>2, <1>3
    <3>3. ~(items[m + p - 1][1] < key)
      BY <3>1, <1>9
    <3>4. items[m + p - 1][1] \in DOMAIN above
      BY <3>2, <3>3, <1>6
    <3> QED
      BY <3>1, <3>4, <1>3, <1>6
  <2>2. ASSUME NEW s \in DOMAIN above PROVE \E p \in DOMAIN rest : rest[p][1] = s
    <3>1. PICK p \in 1 .. n : items[p][1] = s
      BY <1>3, <1>6
    <3>2. ~(p < m) /\ p \in Nat
      BY <3>1, <1>1, <1>2, <1>6, <1>9
    <3>3. p - m + 1 \in 1 .. n - m + 1 /\ m + (p - m + 1) - 1 = p
      BY <3>2, <1>1, <1>2
    <3> QED
      BY <3>1, <3>3, <1>5
  <2> QED
    BY <2>1, <2>2 DEF Lists
<1>12. first[1] = items[1] /\ rest[1] = items[m]
  <2>1. 1 \in 1 .. m - 1 /\ 1 \in 1 .. n - m + 1 /\ m + 1 - 1 = m
    BY <1>1, <1>2
  <2>2. rest[1] = items[m + 1 - 1] /\ first[1] = items[1]
    BY <2>1, <1>4, <1>5
  <2> QED
    BY <2>1, <2>2
<1>13. items[1][1] < key /\ key \in Nat /\ items[m] \in Pairs
  BY <1>1, <1>2
<1> QED
  BY <1>4, <1>5, <1>7, <1>8, <1>10, <1>11, <1>12, <1>13 DEF items, n, first, rest, below, above

LEMMA SplitChains ==
  ASSUME NEW l, NEW c, ChainOK(l, c), l.deltas = <<>>, Len(l.base.items) >= UpperThreshold,
         l.base.high = NoHigh
  PROVE  LET new == SplitSibling(l.base)
             key == new.items[1][1]
             l1  == Push(l, InnerSplitNode(l, new, 2))
             l2  == [deltas |-> <<>>, base |-> new]
         IN  /\ ChainOK(l1, Restrict(c, {s \in DOMAIN c : s < key}))
             /\ ChainOK(l2, Restrict(c, {s \in DOMAIN c : s >= key}))
             /\ Merges(l1) = {} /\ Low(l1) = Low(l) /\ HighOf(l1) = <<Low(l2), 2>>
             /\ HighOf(l2) = NoHigh /\ Low(l) < Low(l2)
<1> DEFINE items == l.base.items
           new   == SplitSibling(l.base)
           key   == new.items[1][1]
           m     == Len(items) \div 2 + 1
           d     == InnerSplitNode(l, new, 2)
           l1    == Push(l, d)
           l2    == [deltas |-> <<>>, base |-> new]
           below == Restrict(c, {s \in DOMAIN c : s < key})
           above == Restrict(c, {s \in DOMAIN c : s >= key})
<1>1. /\ l \in Chains /\ l.base \in BaseType /\ Ordered(items) /\ Lists(items, c)
      /\ c = [s \in DOMAIN c |-> c[s]] /\ ContentSound(l, c)
  <2>1. l \in Chains /\ Ordered(items) /\ ContentSound(l, c)
    BY DEF ChainOK
  <2> QED
    BY <2>1, ChainFields, BaseLists DEF ContentSound
<1>2. /\ items \in Seq(Nat \X Nat) /\ items # <<>> /\ Len(items) \in Nat \ {0}
      /\ DOMAIN items = 1 .. Len(items)
      /\ \A p, q \in DOMAIN items : p < q => items[p][1] < items[q][1]
      /\ \A p \in DOMAIN items : items[p][1] \in Nat
  BY <1>1, OrderedItems DEF Ordered
<1>3. m \in 2 .. Len(items) /\ m \in Nat
  <2> DEFINE n == Len(items)
  <2>1. n \in Nat /\ n >= 2
    BY <1>2, Constants
  <2> HIDE DEF n
  <2>2. n \div 2 >= 1 /\ n \div 2 + 1 <= n /\ n \div 2 \in Nat
    BY <2>1
  <2>3. n \div 2 + 1 \in 2 .. n /\ n \div 2 + 1 \in Nat
    BY <2>1, <2>2
  <2> QED
    BY <2>3 DEF n
<1>4. new = [items |-> SubSeq(items, m, Len(items)), high |-> NoHigh]
  BY DEF SplitSibling
<1> HIDE DEF m
<1> DEFINE first == SubSeq(items, 1, m - 1)
           rest  == SubSeq(items, m, Len(items))
<1>5. /\ Ordered(first) /\ first \in Seq(Pairs) /\ Len(first) = m - 1
      /\ Lists(first, Restrict(c, {s \in DOMAIN c : s < items[m][1]})) /\ first[1] = items[1]
      /\ rest \in Seq(Pairs) /\ Ordered(rest) /\ Len(rest) = Len(items) - m + 1
      /\ Lists(rest, Restrict(c, {s \in DOMAIN c : s >= items[m][1]})) /\ rest[1] = items[m]
      /\ items[1][1] < items[m][1] /\ items[m][1] \in Nat /\ items[m] \in Pairs
  BY <1>1, <1>3, HalvesList
<1>6. key = items[m][1] /\ new.items = rest /\ new.high = NoHigh
  <2>0. new = [items |-> rest, high |-> NoHigh]
    BY <1>4
  <2> HIDE DEF rest, new
  <2>1. new.items = rest /\ new.high = NoHigh
    BY <2>0
  <2> QED
    BY <2>1, <1>5
<1> HIDE DEF first, rest, new
<1>7. Lists(first, below) /\ Lists(rest, above) /\ items[1][1] < key /\ key \in Nat
  BY <1>5, <1>6
<1>8. /\ DOMAIN below = {s \in DOMAIN c : s < key} /\ DOMAIN above = {s \in DOMAIN c : s >= key}
      /\ below = [s \in DOMAIN below |-> below[s]] /\ above = [s \in DOMAIN above |-> above[s]]
      /\ \A s \in DOMAIN below : below[s] = c[s]
  BY DEF Restrict
<1>9. ChainOK(l2, above)
  <2>1. l2 = [deltas |-> <<>>, base |-> [items |-> rest, high |-> NoHigh]]
    BY <1>4 DEF rest
  <2>2. NoHigh \in Pairs /\ ~(NoHigh[2] # INVALID_NODE_ID)
    BY NoBaseType, Constants
  <2> HIDE DEF above, l2
  <2> QED
    BY <2>1, <2>2, <1>5, <1>7, <1>8, BaseChain
<1>10. HighOf(l2) = NoHigh /\ Low(l2) = key
  BY <1>6 DEF HighOf, Low, LowPairOf
<1>11. /\ d.type = "split" /\ d.count = m - 1 /\ d.high = <<key, 2>> /\ d \in Deltas
  <2>1. CountOf(l) = Len(items) /\ Len(new.items) = Len(items) - m + 1
    BY <1>5, <1>6 DEF CountOf
  <2>2. Len(items) - (Len(items) - m + 1) = m - 1 /\ m - 1 \in Nat
    BY <1>2, <1>3
  <2>3. <<key, 2>> \in Pairs
    BY <1>5, <1>6 DEF Pairs
  <2> QED
    BY <2>1, <2>2, <2>3, NoBaseType DEF InnerSplitNode, Deltas, DeltaTypes
<1> HIDE DEF d, l2
<1>12. /\ l1 \in Chains /\ l1.base = l.base /\ l1.deltas # <<>>
       /\ DOMAIN l1.deltas = {1} /\ l1.deltas[1] = d
       /\ HighOf(l1) = <<key, 2>> /\ CountOf(l1) = m - 1
       /\ LowPairOf(l1) = LowPairOf(l) /\ Low(l1) = Low(l)
       /\ LowPairOf(l1) = items[1] /\ Low(l1) = items[1][1]
  <2>1. DOMAIN l.deltas = {}
    OBVIOUS
  <2>2. {1} \cup Shift(DOMAIN l.deltas) = {1}
    BY <2>1 DEF Shift
  <2>3. LowPairOf(l) = items[1] /\ Low(l) = items[1][1]
    BY DEF LowPairOf, Low
  <2> QED
    BY <2>2, <2>3, <1>1, <1>11, PushFields
<1> HIDE DEF l1
<1>13. ~IsData(d) /\ d.type # "merge" /\ \A k : ~Decides(l1, d, k)
  BY <1>11 DEF IsData, Decides
<1>14. /\ Merges(l1) = {} /\ \A k : RightTurns(l1, k) = {} /\ Deciding(l1, k) = {}
       /\ Newest(l1.deltas) = {}
  <2>1. Merges(l1) = {} /\ \A k : RightTurns(l1, k) = {}
    BY <1>12, <1>13 DEF Merges, RightTurns
  <2>2. \A k : Deciding(l1, k) = {}
    BY <1>12, <1>13 DEF Deciding, Visited
  <2>3. Newest(l1.deltas) = {}
    BY <1>12, <1>13 DEF Newest
  <2> QED
    BY <2>1, <2>2, <2>3
<1>15. \A k : BaseFor(l1, RightTurns(l1, k)).items = items
  BY <1>12, <1>14 DEF BaseFor
<1>16. \A k : Inside(l1, k) <=> items[1][1] <= k /\ k < key
  <2>1. HighOf(l1)[1] = key /\ HighOf(l1)[2] # INVALID_NODE_ID
    BY <1>12, Constants
  <2> QED
    BY <2>1, <1>12 DEF Inside
<1>17. /\ DOMAIN c \in SUBSET Nat /\ IsFiniteSet(DOMAIN c) /\ items[1][1] \in DOMAIN c
       /\ DOMAIN below \in SUBSET Nat /\ c[items[1][1]] = items[1][2]
       /\ \A s \in DOMAIN c : items[1][1] <= s
  <2>1. Low(l) = items[1][1] /\ LowPairOf(l) = items[1] /\ Seated(l, c)
    BY <1>1, SeatedContent DEF Low, LowPairOf
  <2>2. DOMAIN c \in SUBSET Nat /\ IsFiniteSet(DOMAIN c) /\ \A s \in DOMAIN c : Low(l) <= s
    BY <2>1, SeatedType
  <2> QED
    BY <2>1, <2>2, <1>8 DEF Seated
<1> HIDE DEF below
<1>18. ContentSound(l1, below)
  <2>1. /\ DOMAIN below \subseteq Keys \cup {LowKey}
        /\ \A s \in DOMAIN below : Inside(l1, s) /\ Named(<<s, below[s]>>) /\ below[s] \in Nat
    BY <1>1, <1>8, <1>16, <1>17 DEF ContentSound
  <2>2. below \in [DOMAIN below -> Nat]
    BY <2>1, <1>8
  <2>3. IsFiniteSet(DOMAIN below) /\ Cardinality(DOMAIN below) = m - 1
    <3>1. first \in Seq(Nat \X Nat) /\ \A p, q \in DOMAIN first : p < q => first[p][1] < first[q][1]
      BY <1>5, PairsType DEF Ordered
    <3> QED
      BY <3>1, <1>5, <1>7, ListsCount
  <2>4. Low(l1) \in DOMAIN below /\ below[Low(l1)] = LowPairOf(l1)[2]
    BY <1>7, <1>8, <1>12, <1>17
  <2> QED
    BY <2>1, <2>2, <2>3, <2>4, <1>12 DEF ContentSound
<1>19. WalkExact(l1, below)
  <2> SUFFICES ASSUME NEW k \in Nat, Inside(l1, k) PROVE Walk(l1, k) = below[SepBelow(below, k)]
    BY DEF WalkExact
  <2>1. items[1][1] <= k /\ k < key
    BY <1>16
  <2>2. items[LastUpTo(items, k)][2] = c[SepBelow(c, k)]
    BY <2>1, <1>1, <1>2, BaseWalk
  <2>3. Walk(l1, k) = items[LastUpTo(items, k)][2]
    BY <1>14, <1>15 DEF Walk
  <2>4. \A s \in Nat : s <= k => /\ s \in DOMAIN below <=> s \in DOMAIN c
                                 /\ s \in DOMAIN c => below[s] = c[s]
    BY <2>1, <1>7, <1>8
  <2>5. below[SepBelow(below, k)] = c[SepBelow(c, k)]
    BY <2>1, <2>4, <1>17, SepBelowAgree
  <2> QED
    BY <2>2, <2>3, <2>5
<1>20. KnownExact(l1, below)
  <2>1. \A k \in Nat : Inside(l1, k) =>
          /\ k \in DOMAIN below <=> \E p \in DOMAIN items : items[p][1] = k
          /\ \A p \in DOMAIN items : items[p][1] = k => below[k] = items[p][2]
    <3> TAKE k \in Nat
    <3> HAVE Inside(l1, k)
    <3>1. k < key
      BY <1>16
    <3>2. /\ k \in DOMAIN c <=> \E p \in DOMAIN items : items[p][1] = k
          /\ \A p \in DOMAIN items : items[p][1] = k => k \in DOMAIN c /\ c[k] = items[p][2]
      BY <1>1 DEF Lists
    <3> QED
      BY <3>1, <3>2, <1>8
  <2>2. \A k \in Nat : Inside(l1, k) => LET found == BaseFor(l1, RightTurns(l1, k)).items IN
          /\ k \in DOMAIN below <=> \E p \in DOMAIN found : found[p][1] = k
          /\ \A p \in DOMAIN found : found[p][1] = k => below[k] = found[p][2]
    <3> TAKE k \in Nat
    <3>1. BaseFor(l1, RightTurns(l1, k)).items = items
      BY <1>15
    <3> QED
      BY <2>1, <3>1
  <2> QED
    BY <1>14, <2>2 DEF KnownExact
<1>21. MergesSound(l1) /\ DeltasSound(l1)
  BY <1>12, <1>13, <1>14 DEF MergesSound, DeltasSound
<1>22. ChainOK(l1, below)
  BY <1>1, <1>12, <1>18, <1>19, <1>20, <1>21 DEF ChainOK
<1>23. Low(l) < Low(l2) /\ HighOf(l1) = <<Low(l2), 2>> /\ Low(l1) = Low(l)
  BY <1>7, <1>10, <1>12
<1> QED
  BY <1>9, <1>10, <1>14, <1>22, <1>23 DEF l1, l2, d, new, below

LEMMA MergeChain ==
  ASSUME NEW l, NEW c, ChainOK(l, c), NEW r, NEW c2, ChainOK(r, c2), r.deltas = <<>>,
         Merges(l) = {}, HighOf(l) = <<Low(r), 2>>, HighOf(r) = NoHigh, Low(l) < Low(r)
  PROVE  LET l2 == Push(l, InnerMergeNode(l, r.base, 2)) IN
         /\ ChainOK(l2, [s \in DOMAIN c \cup DOMAIN c2 |-> IF s \in DOMAIN c THEN c[s] ELSE c2[s]])
         /\ HighOf(l2) = NoHigh /\ Low(l2) = Low(l)
<1> DEFINE d    == InnerMergeNode(l, r.base, 2)
           l2   == Push(l, d)
           both == [s \in DOMAIN c \cup DOMAIN c2 |-> IF s \in DOMAIN c THEN c[s] ELSE c2[s]]
           key  == Low(r)
<1>1. /\ l \in Chains /\ MergesSound(l) /\ DeltasSound(l) /\ KnownExact(l, c) /\ WalkExact(l, c)
      /\ Seated(l, c) /\ CountOf(l) = Cardinality(DOMAIN c) /\ Ordered(l.base.items)
      /\ r \in Chains /\ Ordered(r.base.items) /\ Lists(r.base.items, c2)
      /\ Seated(r, c2) /\ CountOf(r) = Cardinality(DOMAIN c2)
  BY SeatedContent, BaseLists DEF ChainOK
<1>2. /\ r.base \in BaseType /\ r.base.high = NoHigh /\ CountOf(r) = Len(r.base.items)
      /\ r.base.items[1][1] = key /\ key \in Nat /\ Low(l) \in Nat
      /\ CountOf(l) \in Nat /\ CountOf(r) \in Nat
  BY <1>1, ChainFields, HighType, SeatedType DEF HighOf, CountOf, Low, LowPairOf
<1>3. /\ r.base.items \in Seq(Nat \X Nat) /\ r.base.items # <<>>
      /\ \A p, q \in DOMAIN r.base.items : p < q => r.base.items[p][1] < r.base.items[q][1]
  BY <1>1, <1>2, OrderedItems DEF Ordered
<1>4. /\ DOMAIN c \in SUBSET Nat /\ IsFiniteSet(DOMAIN c) /\ Low(l) \in DOMAIN c
      /\ DOMAIN c2 \in SUBSET Nat /\ IsFiniteSet(DOMAIN c2) /\ key \in DOMAIN c2
      /\ \A s \in DOMAIN c : Low(l) <= s
      /\ \A s \in DOMAIN c2 : key <= s
  BY <1>1, SeatedType
<1>5. \A k : Inside(l, k) <=> Low(l) <= k /\ k < key
  <2>1. HighOf(l)[1] = key /\ HighOf(l)[2] # INVALID_NODE_ID
    BY Constants
  <2> QED
    BY <2>1 DEF Inside
<1>6. \A s \in DOMAIN c : s < key /\ s \notin DOMAIN c2
  <2>1. \A s \in DOMAIN c : s < key
    BY <1>1, <1>5 DEF Seated
  <2> QED
    BY <2>1, <1>2, <1>4
<1>7. /\ d.type = "merge" /\ d.item = <<key, 2>> /\ d.right = r.base /\ d.high = NoHigh
      /\ d.count = CountOf(l) + CountOf(r)
  BY <1>2 DEF InnerMergeNode
<1>8. d \in Deltas
  <2>1. <<key, 2>> \in Pairs
    BY <1>1, HighType
  <2>2. CountOf(l) + Len(r.base.items) \in Nat
    BY <1>2
  <2>3. HighOf(l)[1] = key
    OBVIOUS
  <2> HIDE DEF key
  <2> QED
    BY <2>1, <2>2, <2>3, <1>2, NoBaseType DEF InnerMergeNode, Deltas, DeltaTypes
<1> HIDE DEF d
<1>9. /\ DOMAIN l2.deltas = {1} \cup Shift(DOMAIN l.deltas) /\ l2.deltas[1] = d
      /\ \A i \in DOMAIN l.deltas : l2.deltas[i + 1] = l.deltas[i]
      /\ Len(l2.deltas) = Len(l.deltas) + 1 /\ HighOf(l2) = NoHigh /\ l2.base = l.base
      /\ CountOf(l2) = CountOf(l) + CountOf(r) /\ LowPairOf(l2) = LowPairOf(l) /\ Low(l2) = Low(l)
      /\ l2 \in Chains /\ l2.deltas # <<>>
  BY <1>1, <1>7, <1>8, PushFields
<1>10. /\ DOMAIN l.deltas = 1 .. Len(l.deltas) /\ Len(l.deltas) \in Nat
       /\ \A i \in DOMAIN l.deltas : i \in Nat \ {0} /\ l.deltas[i] \in Deltas
  BY <1>1, ChainFields
<1> HIDE DEF l2
<1>11. \A k \in Nat : Inside(l2, k) <=> Low(l) <= k
  BY <1>9, Constants DEF Inside
<1>12. Merges(l2) = {1}
  <2>1. \A i : i \in Merges(l2) <=> i \in DOMAIN l2.deltas /\ l2.deltas[i].type = "merge"
    BY DEF Merges
  <2>2. \A j \in DOMAIN l.deltas : l.deltas[j].type # "merge"
    BY DEF Merges
  <2>3. 1 \in Merges(l2)
    BY <2>1, <1>7, <1>9
  <2>4. \A i \in Merges(l2) : i = 1
    BY <2>1, <2>2, <1>9 DEF Shift
  <2> QED
    BY <2>3, <2>4
<1>13. \A k : RightTurns(l2, k) = IF k >= key THEN {1} ELSE {}
  <2>1. \A k : \A i : i \in RightTurns(l2, k) <=> i \in Merges(l2) /\ k >= l2.deltas[i].item[1]
    BY DEF RightTurns, Merges
  <2>2. l2.deltas[1].item[1] = key
    BY <1>7, <1>9
  <2>3. \A k : \A i : i \in RightTurns(l2, k) <=> i = 1 /\ k >= key
    BY <2>1, <2>2, <1>12
  <2> QED
    BY <2>3
<1>14. Min({1}) = 1 /\ Max({1}) = 1
  BY MinIs, MaxIs
<1>15. ASSUME NEW k \in Nat, k >= key
       PROVE  /\ BaseFor(l2, RightTurns(l2, k)) = r.base /\ Visited(l2, RightTurns(l2, k)) = {1}
              /\ RightTurns(l2, k) = {1}
  <2>1. RightTurns(l2, k) = {1}
    BY <1>13, <1>15
  <2>2. BaseFor(l2, {1}) = r.base
    BY <1>7, <1>9, <1>14 DEF BaseFor
  <2>3. Visited(l2, {1}) = {1}
    <3>1. \A i \in DOMAIN l2.deltas : i = 1 \/ (i \in Nat /\ i > 1)
      BY <1>9, <1>10 DEF Shift
    <3>2. \A i : i \in Visited(l2, {1}) <=> i \in DOMAIN l2.deltas /\ i <= 1
      BY DEF Visited
    <3>3. 1 \in DOMAIN l2.deltas
      BY <1>9
    <3> QED
      BY <3>1, <3>2, <3>3
  <2> QED
    BY <2>1, <2>2, <2>3
<1>16. ASSUME NEW k \in Nat, k < key
       PROVE  /\ BaseFor(l2, RightTurns(l2, k)) = l.base /\ RightTurns(l2, k) = {}
              /\ Visited(l2, RightTurns(l2, k)) = {1} \cup Shift(DOMAIN l.deltas)
  <2>1. RightTurns(l2, k) = {}
    BY <1>2, <1>13, <1>16
  <2>2. BaseFor(l2, {}) = l.base /\ Visited(l2, {}) = {1} \cup Shift(DOMAIN l.deltas)
    BY <1>9 DEF BaseFor, Visited
  <2> QED
    BY <2>1, <2>2
<1>17. \A k : /\ RightTurns(l, k) = {} /\ BaseFor(l, RightTurns(l, k)) = l.base
              /\ Visited(l, RightTurns(l, k)) = DOMAIN l.deltas
  <2>1. \A k : RightTurns(l, k) = {}
    BY DEF RightTurns, Merges
  <2> QED
    BY <2>1 DEF BaseFor, Visited
<1>18. MergesSound(l2)
  <2>1. LeftmostHigh(l2) = <<key, 2>>
    <3>1. CASE Len(l.deltas) = 0
      <4>1. l.deltas = <<>> /\ 1 = Len(l2.deltas)
        <5>1. l.deltas \in Seq(Deltas)
          BY <1>1, ChainFields
        <5> QED
          BY <5>1, <3>1, <1>9, EmptySeq
      <4>2. LeftmostHigh(l2) = l2.base.high
        BY <4>1, <1>12, <1>14 DEF LeftmostHigh
      <4>3. HighOf(l) = l.base.high
        BY <4>1 DEF HighOf
      <4> QED
        BY <4>2, <4>3, <1>9
    <3>2. CASE Len(l.deltas) # 0
      <4>1. l.deltas # <<>> /\ 1 # Len(l2.deltas) /\ 1 \in DOMAIN l.deltas
        BY <3>2, <1>9, <1>10
      <4>2. LeftmostHigh(l2) = l2.deltas[1 + 1].high
        BY <4>1, <1>12, <1>14 DEF LeftmostHigh
      <4>3. HighOf(l) = l.deltas[1].high
        BY <4>1 DEF HighOf
      <4> QED
        BY <4>1, <4>2, <4>3, <1>9
    <3> QED
      BY <3>1, <3>2
  <2>2. LeftmostHigh(l2)[1] = key /\ LeftmostHigh(l2)[2] # INVALID_NODE_ID
    BY <2>1, Constants
  <2>3. ASSUME NEW i \in DOMAIN l2.deltas, i > 1, IsData(l2.deltas[i]) PROVE l2.deltas[i].item[1] < key
    <3>1. PICK j \in DOMAIN l.deltas : i = j + 1
      BY <2>3, <1>9 DEF Shift
    <3>2. IsData(l.deltas[j]) /\ l2.deltas[i] = l.deltas[j]
      BY <3>1, <2>3, <1>9
    <3>3. Inside(l, l.deltas[j].item[1])
      BY <3>2, <1>1 DEF DeltasSound
    <3> QED
      BY <3>2, <3>3, <1>5
  <2>4. /\ Ordered(d.right.items) /\ d.right.items[1][1] = d.item[1] /\ d.right.high = NoHigh
        /\ Low(l2) < d.item[1] /\ HighOf(l2) = NoHigh /\ d.item[1] = key /\ l2.deltas[1] = d
    BY <1>1, <1>2, <1>7, <1>9
  <2> QED
    BY <2>2, <2>3, <2>4, <1>12 DEF MergesSound
<1>19. DeltasSound(l2)
  <2> SUFFICES ASSUME NEW i \in DOMAIN l2.deltas, IsData(l2.deltas[i])
               PROVE  LET e == l2.deltas[i] IN
                      /\ e.item[1] \in Keys /\ Low(l2) < e.item[1] /\ Inside(l2, e.item[1])
                      /\ Located(l2, e)
    BY DEF DeltasSound
  <2>1. i # 1
    BY <1>7, <1>9 DEF IsData
  <2>2. PICK j \in DOMAIN l.deltas : i = j + 1
    BY <2>1, <1>9 DEF Shift
  <2> DEFINE e == l.deltas[j]
  <2>3. l2.deltas[i] = e /\ IsData(e)
    BY <2>2, <1>9
  <2>4. e.item[1] \in Keys /\ Low(l) < e.item[1] /\ Inside(l, e.item[1]) /\ Located(l, e)
    BY <2>3, <1>1 DEF DeltasSound
  <2>5. e.item[1] \in Nat /\ e.item[1] < key /\ Low(l) <= e.item[1]
    BY <2>4, <1>5, Constants
  <2>6. Located(l2, e)
    <3>1. BaseFor(l2, RightTurns(l2, e.item[1])) = BaseFor(l, RightTurns(l, e.item[1]))
      BY <2>5, <1>16, <1>17
    <3> QED
      BY <3>1, <2>4, <1>9 DEF Located
  <2> QED
    BY <2>3, <2>4, <2>5, <2>6, <1>9, <1>11
<1>20. /\ DOMAIN both = DOMAIN c \cup DOMAIN c2 /\ DOMAIN both \in SUBSET Nat
       /\ \A s \in DOMAIN c : both[s] = c[s]
       /\ \A s \in DOMAIN c2 : both[s] = c2[s]
       /\ both = [s \in DOMAIN both |-> both[s]]
  BY <1>4, <1>6
<1> HIDE DEF both
<1>21. ContentSound(l2, both)
  <2>1. IsFiniteSet(DOMAIN both) /\ Cardinality(DOMAIN both) = CountOf(l) + CountOf(r)
    <3>1. DOMAIN c \cap DOMAIN c2 = {}
      BY <1>6
    <3>2. Cardinality(DOMAIN c \cap DOMAIN c2) = 0
      BY <3>1, FS_EmptySet
    <3>3. /\ IsFiniteSet(DOMAIN c \cup DOMAIN c2)
          /\ Cardinality(DOMAIN c \cup DOMAIN c2) = CountOf(l) + CountOf(r) - 0
      BY <3>2, <1>1, <1>4, FS_Union
    <3> QED
      BY <3>3, <1>2, <1>20
  <2>2. \A s \in DOMAIN both : both[s] \in Nat /\ Named(<<s, both[s]>>) /\ s \in Keys \cup {LowKey}
    BY <1>1, <1>20 DEF Seated
  <2>3. \A s \in DOMAIN both : Inside(l2, s)
    BY <1>2, <1>4, <1>11, <1>20
  <2>4. both \in [DOMAIN both -> Nat]
    BY <2>2, <1>20
  <2>5. Low(l2) \in DOMAIN both /\ both[Low(l2)] = LowPairOf(l2)[2]
    BY <1>1, <1>4, <1>9, <1>20 DEF Seated
  <2> QED
    BY <2>1, <2>2, <2>3, <2>4, <2>5, <1>9 DEF ContentSound
<1>22. WalkExact(l2, both)
  <2> SUFFICES ASSUME NEW k \in Nat, Inside(l2, k) PROVE Walk(l2, k) = both[SepBelow(both, k)]
    BY DEF WalkExact
  <2>0. Low(l) <= k
    BY <1>11
  <2>1. CASE k < key
    <3>1. Walk(l2, k) = Walk(l, k)
      <4>1. \A x : Decides(l2, x, k) <=> Decides(l, x, k)
        BY <1>9 DEF Decides
      <4>2. ~Decides(l, d, k)
        BY <1>7 DEF Decides
      <4>3. \A i : i \in Deciding(l2, k) <=>
                   i \in {1} \cup Shift(DOMAIN l.deltas) /\ Decides(l, l2.deltas[i], k)
        BY <2>1, <4>1, <1>16 DEF Deciding
      <4>4. \A i : i \in Deciding(l, k) <=> i \in DOMAIN l.deltas /\ Decides(l, l.deltas[i], k)
        BY <1>17 DEF Deciding
      <4>5. \A i : i \in Deciding(l2, k) <=> \E j \in Deciding(l, k) : i = j + 1
        BY <4>2, <4>3, <4>4, <1>9 DEF Shift
      <4>6. Deciding(l2, k) = Shift(Deciding(l, k))
        BY <4>5 DEF Shift
      <4>7. BaseFor(l2, RightTurns(l2, k)) = BaseFor(l, RightTurns(l, k))
        BY <2>1, <1>16, <1>17
      <4> QED
        BY <4>6, <4>7, <1>1, <1>9, ShiftWalk
    <3>2. Walk(l, k) = c[SepBelow(c, k)]
      BY <2>0, <2>1, <1>1, <1>5 DEF WalkExact
    <3>3. \A s \in Nat : s <= k => /\ s \in DOMAIN both <=> s \in DOMAIN c
                                   /\ s \in DOMAIN c => both[s] = c[s]
      BY <2>1, <1>2, <1>4, <1>20
    <3>4. both[SepBelow(both, k)] = c[SepBelow(c, k)]
      BY <2>0, <3>3, <1>4, <1>20, SepBelowAgree
    <3> QED
      BY <3>1, <3>2, <3>4
  <2>2. CASE k >= key
    <3>1. Deciding(l2, k) = {}
      BY <2>2, <1>7, <1>9, <1>15 DEF Deciding, Decides
    <3>2. Walk(l2, k) = r.base.items[LastUpTo(r.base.items, k)][2]
      BY <2>2, <3>1, <1>15 DEF Walk
    <3>3. r.base.items[LastUpTo(r.base.items, k)][2] = c2[SepBelow(c2, k)]
      BY <2>2, <1>1, <1>2, <1>3, BaseWalk
    <3> DEFINE s == SepBelow(c2, k)
    <3>4. s \in DOMAIN c2 /\ s <= k /\ \A q \in DOMAIN c2 : q <= k => q <= s
      BY <2>2, <1>2, <1>4, SepBelowIn
    <3> HIDE DEF s
    <3>5. s \in DOMAIN both /\ both[s] = c2[s]
      BY <3>4, <1>20
    <3>6. \A q \in DOMAIN both : q <= k => q <= s
      <4>1. \A q \in DOMAIN c : q <= s
        <5>1. key <= s /\ s \in Nat
          BY <3>4, <1>4
        <5> QED
          BY <5>1, <1>2, <1>4, <1>6
      <4> QED
        BY <4>1, <3>4, <1>20
    <3>7. SepBelow(both, k) = s
      BY <3>4, <3>5, <3>6, <1>20, SepBelowIs
    <3> QED
      BY <3>2, <3>3, <3>5, <3>7 DEF s
  <2> QED
    BY <2>1, <2>2, <1>2
<1>23. KnownExact(l2, both)
  <2>1. ASSUME NEW i \in Newest(l2.deltas)
        PROVE  \E j \in Newest(l.deltas) : l2.deltas[i] = l.deltas[j]
    <3>1. /\ i \in DOMAIN l2.deltas /\ IsData(l2.deltas[i])
          /\ \A x \in 1 .. i - 1 : ~(IsData(l2.deltas[x]) /\ l2.deltas[x].item[1] = l2.deltas[i].item[1])
      BY DEF Newest
    <3>2. i # 1
      BY <3>1, <1>7, <1>9 DEF IsData
    <3>3. PICK j \in DOMAIN l.deltas : i = j + 1
      BY <3>1, <3>2, <1>9 DEF Shift
    <3>4. j \in Nat \ {0} /\ l2.deltas[i] = l.deltas[j]
      BY <3>3, <1>9, <1>10
    <3>5. \A y \in 1 .. j - 1 : /\ y + 1 \in 1 .. i - 1 /\ y \in DOMAIN l.deltas
                                /\ l2.deltas[y + 1] = l.deltas[y]
      <4>1. \A y \in 1 .. j - 1 : y + 1 \in 1 .. i - 1 /\ y \in DOMAIN l.deltas
        BY <3>3, <3>4, <1>10
      <4> QED
        BY <4>1, <1>9
    <3>6. \A y \in 1 .. j - 1 : ~(IsData(l.deltas[y]) /\ l.deltas[y].item[1] = l.deltas[j].item[1])
      BY <3>1, <3>4, <3>5
    <3>7. j \in Newest(l.deltas)
      BY <3>1, <3>3, <3>4, <3>6 DEF Newest
    <3> QED
      BY <3>4, <3>7
  <2>2. ASSUME NEW i \in Newest(l2.deltas)
        PROVE  LET e == l2.deltas[i] IN
               /\ e.type = "insert" => e.item[1] \in DOMAIN both /\ both[e.item[1]] = e.item[2]
               /\ e.type = "delete" => e.item[1] \notin DOMAIN both
    <3>1. PICK j \in Newest(l.deltas) : l2.deltas[i] = l.deltas[j]
      BY <2>1
    <3> DEFINE e == l.deltas[j]
    <3>2. /\ e.type = "insert" => e.item[1] \in DOMAIN c /\ c[e.item[1]] = e.item[2]
          /\ e.type = "delete" => e.item[1] \notin DOMAIN c
      BY <1>1 DEF KnownExact
    <3>3. e.item[1] < key /\ e.item[1] \in Nat
      <4>1. j \in DOMAIN l.deltas /\ IsData(e)
        BY DEF Newest
      <4>2. Inside(l, e.item[1]) /\ e.item[1] \in Keys
        BY <4>1, <1>1 DEF DeltasSound
      <4> QED
        BY <4>2, <1>5, Constants
    <3> HIDE DEF e
    <3>4. e.item[1] \notin DOMAIN c2
      BY <3>3, <1>2, <1>4
    <3>5. l2.deltas[i] = e
      BY <3>1 DEF e
    <3> QED
      BY <3>2, <3>4, <3>5, <1>20
  <2>3. ASSUME NEW k \in Nat, Inside(l2, k), \A i \in DOMAIN l2.deltas : ~Touches(l2.deltas[i], k)
        PROVE  LET found == BaseFor(l2, RightTurns(l2, k)).items IN
               /\ k \in DOMAIN both <=> \E p \in DOMAIN found : found[p][1] = k
               /\ \A p \in DOMAIN found : found[p][1] = k => both[k] = found[p][2]
    <3>1. CASE k < key
      <4>1. \A i \in DOMAIN l.deltas : ~Touches(l.deltas[i], k)
        <5>1. \A i \in DOMAIN l.deltas : i + 1 \in DOMAIN l2.deltas
          BY <1>9 DEF Shift
        <5> QED
          BY <5>1, <2>3, <1>9
      <4>2. Inside(l, k)
        BY <3>1, <2>3, <1>5, <1>11
      <4> DEFINE items == BaseFor(l, RightTurns(l, k)).items
      <4>3. /\ k \in DOMAIN c <=> \E p \in DOMAIN items : items[p][1] = k
            /\ \A p \in DOMAIN items : items[p][1] = k => c[k] = items[p][2]
        BY <4>1, <4>2, <1>1 DEF KnownExact
      <4>4. /\ k \in DOMAIN both <=> k \in DOMAIN c
            /\ k \in DOMAIN c => both[k] = c[k]
        BY <3>1, <1>2, <1>4, <1>20
      <4>5. BaseFor(l2, RightTurns(l2, k)).items = items
        BY <3>1, <1>16, <1>17
      <4> HIDE DEF items
      <4> QED
        BY <4>3, <4>4, <4>5
    <3>2. CASE k >= key
      <4> DEFINE items == r.base.items
      <4>1. /\ k \in DOMAIN c2 <=> \E p \in DOMAIN items : items[p][1] = k
            /\ \A p \in DOMAIN items : items[p][1] = k => c2[k] = items[p][2]
        BY <1>1 DEF Lists
      <4>2. /\ k \in DOMAIN both <=> k \in DOMAIN c2
            /\ k \in DOMAIN c2 => both[k] = c2[k]
        BY <3>2, <1>2, <1>4, <1>6, <1>20
      <4>3. BaseFor(l2, RightTurns(l2, k)).items = items
        BY <3>2, <1>15
      <4> HIDE DEF items
      <4> QED
        BY <4>1, <4>2, <4>3
    <3> QED
      BY <3>1, <3>2, <1>2
  <2> QED
    BY <2>2, <2>3 DEF KnownExact
<1>24. ChainOK(l2, both)
  BY <1>1, <1>9, <1>18, <1>19, <1>21, <1>22, <1>23 DEF ChainOK
<1> QED
  BY <1>9, <1>24 DEF l2, d, both

-----------------------------------------------------------------------------
(* Consolidation.                                                          *)

\* Of the deltas on a key one is the newest.
LEMMA NewestExists ==
  ASSUME NEW l \in Chains, NEW i \in DOMAIN l.deltas, NEW k, Touches(l.deltas[i], k)
  PROVE  \E m \in Newest(l.deltas) : Touches(l.deltas[m], k)
<1> DEFINE S == {j \in DOMAIN l.deltas : Touches(l.deltas[j], k)}
           m == Min(S)
<1>1. DOMAIN l.deltas = 1 .. Len(l.deltas) /\ Len(l.deltas) \in Nat
  BY ChainFields
<1>2. S \in SUBSET Nat /\ S # {}
  BY <1>1
<1>3. \A j : j \in S <=> j \in DOMAIN l.deltas /\ Touches(l.deltas[j], k)
  OBVIOUS
<1> HIDE DEF S
<1>4. m \in S /\ \A j \in S : m <= j
  BY <1>2, MinIn
<1> HIDE DEF m
<1>5. m \in DOMAIN l.deltas /\ Touches(l.deltas[m], k) /\ m \in Nat
  BY <1>2, <1>3, <1>4
<1>6. ASSUME NEW j \in 1 .. m - 1, IsData(l.deltas[j]) /\ l.deltas[j].item[1] = l.deltas[m].item[1]
      PROVE  FALSE
  <2>1. j \in DOMAIN l.deltas /\ j < m /\ j \in Nat
    BY <1>1, <1>5
  <2>2. j \in S
    BY <2>1, <1>3, <1>5, <1>6 DEF Touches
  <2>3. m <= j
    BY <2>2, <1>4
  <2> QED
    BY <2>1, <2>3, <1>5
<1>7. m \in Newest(l.deltas)
  BY <1>5, <1>6 DEF Newest, Touches
<1> QED
  BY <1>5, <1>7

\* The separators in R and their children.
Graph(c, R) == {<<s, c[s]>> : s \in DOMAIN c \cap R}

\* Of the items of a base node consolidation may keep those with a key in R,
\* and the walks for these keys end in that base node.
Covers(l, seg, R) ==
  /\ seg.items \in Seq(Pairs) /\ Ordered(seg.items) /\ R \in SUBSET Nat
  /\ \A k \in R : /\ Inside(l, k) /\ BelowHigh(seg, k)
                 /\ BaseFor(l, RightTurns(l, k)).items = seg.items
  /\ \A p \in DOMAIN seg.items :
       p >= FirstItem(l, seg) /\ BelowHigh(seg, seg.items[p][1]) <=> seg.items[p][1] \in R
\* The inserted items with a key in R.
InsertedIn(l, R) == {x \in {l.deltas[i].item : i \in Inserted(l)} : x[1] \in R}
SegmentOf(l, seg, R) == KeptItems(l, seg) \cup InsertedIn(l, R)

\* What consolidation makes of one base node: the separators in R, if it covers R.
LEMMA SegmentItems ==
  ASSUME NEW l, NEW c, ChainOK(l, c), NEW seg, NEW R, Covers(l, seg, R)
  PROVE  SegmentOf(l, seg, R) = Graph(c, R)
<1> DEFINE ins == InsertedIn(l, R)
<1>0. /\ seg.items \in Seq(Pairs) /\ Ordered(seg.items) /\ R \in SUBSET Nat
      /\ \A k \in R : /\ Inside(l, k) /\ BelowHigh(seg, k)
                     /\ BaseFor(l, RightTurns(l, k)).items = seg.items
      /\ \A p \in DOMAIN seg.items :
           p >= FirstItem(l, seg) /\ BelowHigh(seg, seg.items[p][1]) <=> seg.items[p][1] \in R
      /\ \A x : x \in ins <=> \E i \in Inserted(l) : x = l.deltas[i].item /\ x[1] \in R
  BY DEF Covers, InsertedIn
<1> HIDE DEF ins
<1>1. l \in Chains /\ KnownExact(l, c)
  BY DEF ChainOK
<1>2. /\ DOMAIN seg.items = 1 .. Len(seg.items) /\ Len(seg.items) \in Nat
      /\ FirstItem(l, seg) \in {1, 2}
      /\ \A p \in DOMAIN seg.items : seg.items[p] = <<seg.items[p][1], seg.items[p][2]>> /\ p \in Nat
  <2>1. Ordered(l.base.items)
    BY DEF ChainOK
  <2> DEFINE b == [items |-> seg.items, high |-> NoHigh]
  <2>2. b \in BaseType /\ b.items = seg.items
    BY <1>0, NoBaseType DEF BaseType
  <2>3. FirstItem(l, b) = FirstItem(l, seg)
    BY <2>2 DEF FirstItem
  <2> HIDE DEF b
  <2>4. b \in BaseType /\ Ordered(b.items)
    BY <2>2, <1>0
  <2>5. FirstItem(l, b) \in {1, 2}
    BY <2>1, <2>4, <1>1, FirstItemIs
  <2>6. /\ DOMAIN b.items = 1 .. Len(b.items) /\ Len(b.items) \in Nat
        /\ \A p \in DOMAIN b.items : b.items[p] \in Nat \X Nat /\ p \in Nat
    BY <2>4, OrderedItems
  <2>7. \A p \in DOMAIN b.items : b.items[p] = <<b.items[p][1], b.items[p][2]>>
    BY <2>6
  <2> QED
    BY <2>2, <2>3, <2>5, <2>6, <2>7
<1>3. \A i \in Newest(l.deltas) :
        /\ i \in DOMAIN l.deltas /\ IsData(l.deltas[i]) /\ Touches(l.deltas[i], l.deltas[i].item[1])
        /\ l.deltas[i].item = <<l.deltas[i].item[1], l.deltas[i].item[2]>>
        /\ l.deltas[i].item[1] \in Nat
  <2> TAKE i \in Newest(l.deltas)
  <2>1. i \in DOMAIN l.deltas /\ IsData(l.deltas[i])
    BY DEF Newest
  <2>2. l.deltas[i].item \in Pairs /\ l.deltas[i].item[1] \in Nat
    BY <2>1, <1>1, ChainFields, DeltaFields
  <2> QED
    BY <2>1, <2>2 DEF Pairs, Touches
\* x is kept if no delta is on its key.
<1>4. \A x : x \in KeptItems(l, seg) <=>
        \E p \in DOMAIN seg.items : /\ x = seg.items[p] /\ seg.items[p][1] \in R
                                    /\ \A i \in Newest(l.deltas) : l.deltas[i].item[1] # seg.items[p][1]
  <2> DEFINE kept(p) == \A i \in Newest(l.deltas) : l.deltas[i].item[1] # seg.items[p][1]
  <2>1. \A x : x \in KeptItems(l, seg) <=>
          \E p \in FirstItem(l, seg) .. Len(seg.items) :
            x = seg.items[p] /\ BelowHigh(seg, seg.items[p][1]) /\ kept(p)
    BY DEF KeptItems
  <2>2. \A p : p \in FirstItem(l, seg) .. Len(seg.items) <=> p \in DOMAIN seg.items /\ p >= FirstItem(l, seg)
    BY <1>2
  <2> HIDE DEF kept
  <2>3. \A x : x \in KeptItems(l, seg) <=>
          \E p \in DOMAIN seg.items : x = seg.items[p] /\ seg.items[p][1] \in R /\ kept(p)
    BY <2>1, <2>2, <1>0
  <2> QED
    BY <2>3 DEF kept
<1>5. \A k \in R : (\A i \in Newest(l.deltas) : l.deltas[i].item[1] # k) =>
        /\ k \in DOMAIN c <=> \E p \in DOMAIN seg.items : seg.items[p][1] = k
        /\ \A p \in DOMAIN seg.items : seg.items[p][1] = k => c[k] = seg.items[p][2]
  <2> TAKE k \in R
  <2> HAVE \A i \in Newest(l.deltas) : l.deltas[i].item[1] # k
  <2>1. \A i \in DOMAIN l.deltas : ~Touches(l.deltas[i], k)
    <3> SUFFICES ASSUME NEW i \in DOMAIN l.deltas, Touches(l.deltas[i], k) PROVE FALSE
      OBVIOUS
    <3>1. PICK m \in Newest(l.deltas) : Touches(l.deltas[m], k)
      BY <1>1, NewestExists
    <3> QED
      BY <3>1 DEF Touches
  <2> DEFINE found == BaseFor(l, RightTurns(l, k)).items
  <2>2. /\ k \in DOMAIN c <=> \E p \in DOMAIN found : found[p][1] = k
        /\ \A p \in DOMAIN found : found[p][1] = k => c[k] = found[p][2]
    BY <2>1, <1>0, <1>1 DEF KnownExact
  <2>3. found = seg.items
    BY <1>0
  <2> HIDE DEF found
  <2> QED
    BY <2>2, <2>3
<1>6. \A i \in Newest(l.deltas) :
        LET d == l.deltas[i] IN
        /\ i \in Inserted(l) => d.item[1] \in DOMAIN c /\ d.item[2] = c[d.item[1]]
        /\ i \notin Inserted(l) => d.item[1] \notin DOMAIN c
  <2> TAKE i \in Newest(l.deltas)
  <2>1. i \in Inserted(l) <=> l.deltas[i].type = "insert"
    BY DEF Inserted
  <2>2. l.deltas[i].type \in {"insert", "delete"}
    BY <1>3 DEF IsData
  <2> QED
    BY <2>1, <2>2, <1>1 DEF KnownExact
<1>7. ASSUME NEW x \in KeptItems(l, seg) \cup ins PROVE x \in Graph(c, R)
  <2>1. CASE x \in KeptItems(l, seg)
    <3>1. PICK p \in DOMAIN seg.items :
            /\ x = seg.items[p] /\ seg.items[p][1] \in R
            /\ \A i \in Newest(l.deltas) : l.deltas[i].item[1] # seg.items[p][1]
      BY <2>1, <1>4
    <3>2. seg.items[p][1] \in DOMAIN c /\ c[seg.items[p][1]] = seg.items[p][2]
      BY <3>1, <1>5
    <3>3. x = <<seg.items[p][1], c[seg.items[p][1]]>>
      BY <3>1, <3>2, <1>2
    <3> QED
      BY <3>1, <3>2, <3>3 DEF Graph
  <2>2. CASE x \in ins
    <3>1. PICK i \in Inserted(l) : x = l.deltas[i].item /\ x[1] \in R
      BY <2>2, <1>0
    <3>2. i \in Newest(l.deltas)
      BY DEF Inserted
    <3>3. x[1] \in DOMAIN c /\ x = <<x[1], c[x[1]]>>
      BY <3>1, <3>2, <1>3, <1>6
    <3> QED
      BY <3>1, <3>3 DEF Graph
  <2> QED
    BY <2>1, <2>2
<1>8. ASSUME NEW x \in Graph(c, R) PROVE x \in KeptItems(l, seg) \cup ins
  <2>1. PICK s \in DOMAIN c \cap R : x = <<s, c[s]>>
    BY <1>8 DEF Graph
  <2>2. CASE \A i \in Newest(l.deltas) : l.deltas[i].item[1] # s
    <3>1. PICK p \in DOMAIN seg.items : seg.items[p][1] = s
      BY <2>1, <2>2, <1>5
    <3>2. seg.items[p] = x
      BY <2>1, <2>2, <3>1, <1>2, <1>5
    <3> QED
      BY <2>2, <3>1, <3>2, <1>4
  <2>3. ASSUME NEW i \in Newest(l.deltas), l.deltas[i].item[1] = s PROVE x \in ins
    <3>1. i \in Inserted(l)
      BY <2>3, <1>6
    <3>2. x = l.deltas[i].item
      BY <2>1, <2>3, <3>1, <1>3, <1>6
    <3>3. x[1] \in R
      BY <2>1
    <3> QED
      BY <3>1, <3>2, <3>3, <1>0
  <2> QED
    BY <2>2, <2>3
<1>9. KeptItems(l, seg) \cup ins = Graph(c, R)
  BY <1>7, <1>8
<1> QED
  BY <1>9 DEF SegmentOf, ins

\* The items are the separators in R and their children, in order.
ListsIn(items, c, R) ==
  /\ items \in Seq(Nat \X Nat)
  /\ \A p, q \in DOMAIN items : p < q => items[p][1] < items[q][1]
  /\ \A p \in DOMAIN items : /\ items[p][1] \in DOMAIN c /\ items[p][1] \in R
                             /\ items[p] = <<items[p][1], c[items[p][1]]>>
  /\ \A s \in DOMAIN c \cap R : \E p \in DOMAIN items : items[p][1] = s

LEMMA SortedGraph ==
  ASSUME NEW c, DOMAIN c \in SUBSET Nat, IsFiniteSet(DOMAIN c), \A s \in DOMAIN c : c[s] \in Nat, NEW R
  PROVE  ListsIn(SortedByKey(Graph(c, R)), c, R)
<1> DEFINE G == Graph(c, R)
           D == DOMAIN c \cap R
<1>1. \A x : x \in G <=> \E s \in D : x = <<s, c[s]>>
  BY DEF Graph
<1>2. IsFiniteSet(D)
  BY FS_Subset
<1>3. IsFiniteSet(G)
  <2> DEFINE f == [s \in D |-> <<s, c[s]>>]
  <2>1. f \in Bijection(D, G)
    <3>1. f \in [D -> G]
      BY <1>1
    <3>2. \A s, t \in D : f[s] = f[t] => s = t
      OBVIOUS
    <3>3. \A x \in G : \E s \in D : f[s] = x
      BY <1>1
    <3> HIDE DEF f, D, G
    <3> QED
      BY <3>1, <3>2, <3>3 DEF Bijection, Injection, Surjection, IsInjective
  <2> HIDE DEF f, D, G
  <2>2. ExistsBijection(D, G)
    BY <2>1 DEF ExistsBijection
  <2> QED
    BY <2>2, <1>2, FS_Bijection
<1>4. G \in SUBSET (Nat \X Nat) /\ \A x, y \in G : x[1] = y[1] => x = y
  BY <1>1
<1> HIDE DEF G
<1>5. /\ SortedByKey(G) \in Seq(G)
      /\ \A x \in G : \E i \in DOMAIN SortedByKey(G) : SortedByKey(G)[i] = x
      /\ \A i, j \in DOMAIN SortedByKey(G) : i < j => SortedByKey(G)[i][1] < SortedByKey(G)[j][1]
  BY <1>3, <1>4, SortedByKeyProperties
<1> DEFINE items == SortedByKey(G)
<1> HIDE DEF items
<1>6. items \in Seq(G) /\ items \in Seq(Nat \X Nat) /\ \A p \in DOMAIN items : items[p] \in G
  <2>1. items \in Seq(G)
    BY <1>5 DEF items
  <2>2. \A p \in DOMAIN items : items[p] \in G
    BY <2>1
  <2>3. items \in Seq(Nat \X Nat)
    BY <2>1, <1>4
  <2> QED
    BY <2>1, <2>2, <2>3
<1>7. \A p \in DOMAIN items : /\ items[p][1] \in DOMAIN c /\ items[p][1] \in R
                              /\ items[p] = <<items[p][1], c[items[p][1]]>>
  BY <1>1, <1>6
<1>8. \A s \in DOMAIN c \cap R : \E p \in DOMAIN items : items[p][1] = s
  <2> TAKE s \in DOMAIN c \cap R
  <2>1. <<s, c[s]>> \in G
    BY <1>1
  <2>2. PICK p \in DOMAIN items : items[p] = <<s, c[s]>>
    BY <2>1, <1>5 DEF items
  <2> QED
    BY <2>2
<1>9. \A p, q \in DOMAIN items : p < q => items[p][1] < items[q][1]
  BY <1>5 DEF items
<1>10. ListsIn(items, c, R)
  BY <1>6, <1>7, <1>8, <1>9 DEF ListsIn
<1> QED
  BY <1>10 DEF items, G

LEMMA ListsInConcat ==
  ASSUME NEW a, NEW b, NEW c, NEW R, NEW T, ListsIn(a, c, R), ListsIn(b, c, T),
         \A x \in DOMAIN c \cap R : \A y \in DOMAIN c \cap T : x < y
  PROVE  ListsIn(a \o b, c, R \cup T)
<1> DEFINE n == Len(a)
           items == a \o b
<1>1. /\ a \in Seq(Nat \X Nat) /\ b \in Seq(Nat \X Nat) /\ n \in Nat /\ Len(b) \in Nat
      /\ DOMAIN a = 1 .. n /\ DOMAIN b = 1 .. Len(b)
  BY LenProperties DEF ListsIn
<1>2. /\ items \in Seq(Nat \X Nat) /\ DOMAIN items = 1 .. n + Len(b)
      /\ \A p \in 1 .. n + Len(b) : items[p] = IF p <= n THEN a[p] ELSE b[p - n]
  BY <1>1, ConcatProperties
<1>3. \A p \in DOMAIN items : \/ p \in DOMAIN a /\ items[p] = a[p] /\ p <= n
                              \/ p - n \in DOMAIN b /\ items[p] = b[p - n] /\ p > n
  BY <1>1, <1>2
<1>4. /\ \A p \in DOMAIN a : p \in DOMAIN items /\ items[p] = a[p]
      /\ \A p \in DOMAIN b : n + p \in DOMAIN items /\ items[n + p] = b[p]
  <2>1. \A p \in DOMAIN a : p \in DOMAIN items /\ items[p] = a[p]
    BY <1>1, <1>2
  <2>2. \A p \in DOMAIN b : n + p \in 1 .. n + Len(b) /\ ~(n + p <= n) /\ (n + p) - n = p
    BY <1>1
  <2>3. \A p \in DOMAIN b : n + p \in DOMAIN items /\ items[n + p] = b[p]
    BY <2>2, <1>2
  <2> QED
    BY <2>1, <2>3
<1>5. /\ \A p, q \in DOMAIN a : p < q => a[p][1] < a[q][1]
      /\ \A p, q \in DOMAIN b : p < q => b[p][1] < b[q][1]
      /\ \A p \in DOMAIN a : a[p][1] \in DOMAIN c /\ a[p][1] \in R /\ a[p] = <<a[p][1], c[a[p][1]]>>
      /\ \A p \in DOMAIN b : b[p][1] \in DOMAIN c /\ b[p][1] \in T /\ b[p] = <<b[p][1], c[b[p][1]]>>
      /\ \A s \in DOMAIN c \cap R : \E p \in DOMAIN a : a[p][1] = s
      /\ \A s \in DOMAIN c \cap T : \E p \in DOMAIN b : b[p][1] = s
  BY DEF ListsIn
<1>6. \A p \in DOMAIN items : p \in Nat
  BY <1>1, <1>2
<1> HIDE DEF items
<1>7. ASSUME NEW p \in DOMAIN items, NEW q \in DOMAIN items, p < q PROVE items[p][1] < items[q][1]
  <2>1. CASE p \in DOMAIN a /\ items[p] = a[p] /\ q \in DOMAIN a /\ items[q] = a[q]
    BY <2>1, <1>5, <1>7
  <2>2. CASE p \in DOMAIN a /\ items[p] = a[p] /\ q - n \in DOMAIN b /\ items[q] = b[q - n]
    BY <2>2, <1>5
  <2>3. CASE p - n \in DOMAIN b /\ items[p] = b[p - n] /\ q - n \in DOMAIN b /\ items[q] = b[q - n]
    <3>1. p - n < q - n
      BY <1>1, <1>6, <1>7
    <3> QED
      BY <2>3, <3>1, <1>5
  <2>4. CASE p > n /\ q <= n
    BY <2>4, <1>1, <1>6, <1>7
  <2> QED
    BY <2>1, <2>2, <2>3, <2>4, <1>3
<1>8. \A p \in DOMAIN items : /\ items[p][1] \in DOMAIN c /\ items[p][1] \in R \cup T
                              /\ items[p] = <<items[p][1], c[items[p][1]]>>
  BY <1>3, <1>5
<1>9. \A s \in DOMAIN c \cap (R \cup T) : \E p \in DOMAIN items : items[p][1] = s
  <2> TAKE s \in DOMAIN c \cap (R \cup T)
  <2>1. CASE s \in R
    <3>1. PICK p \in DOMAIN a : a[p][1] = s
      BY <2>1, <1>5
    <3> QED
      BY <3>1, <1>4
  <2>2. CASE s \in T
    <3>1. PICK p \in DOMAIN b : b[p][1] = s
      BY <2>2, <1>5
    <3> QED
      BY <3>1, <1>4
  <2> QED
    BY <2>1, <2>2
<1>10. ListsIn(items, c, R \cup T)
  BY <1>2, <1>7, <1>8, <1>9 DEF ListsIn, items
<1> QED
  BY <1>10 DEF items

LEMMA SegmentsOne ==
  ASSUME NEW l, Merges(l) = {}
  PROVE  Segments(l) = <<[items |-> l.base.items, high |-> HighOf(l)]>>
<1>1. Cardinality(Merges(l)) = 0
  BY FS_EmptySet
<1>2. LeftmostHigh(l) = HighOf(l)
  BY DEF LeftmostHigh
<1> DEFINE seg  == [items |-> l.base.items, high |-> HighOf(l)]
           rest == [n \in 1 .. 0 |-> l.deltas[Nth(Merges(l), 0 - n)].right]
<1>3. Segments(l) = <<seg>> \o rest
  BY <1>1, <1>2 DEF Segments
<1>4. rest = <<>>
  OBVIOUS
<1> HIDE DEF seg, rest
<1>5. <<seg>> \o <<>> = <<seg>>
  OBVIOUS
<1> QED
  BY <1>3, <1>4, <1>5 DEF seg

LEMMA PairConcat ==
  ASSUME NEW s, NEW t
  PROVE  <<s>> \o <<t>> = <<s, t>>
<1> DEFINE S == {s, t}
<1>1. /\ <<s>> \in Seq(S) /\ <<t>> \in Seq(S)
      /\ Len(<<s>>) = 1 /\ Len(<<t>>) = 1 /\ <<s>>[1] = s /\ <<t>>[1] = t
  OBVIOUS
<1> DEFINE a == <<s>>
           b == <<t>>
<1> HIDE DEF S, a, b
<1>2. a \in Seq(S) /\ b \in Seq(S) /\ Len(a) = 1 /\ Len(b) = 1 /\ a[1] = s /\ b[1] = t
  BY <1>1 DEF a, b
<1>3. /\ a \o b \in Seq(S) /\ Len(a \o b) = 2 /\ DOMAIN (a \o b) = 1 .. 2
      /\ (a \o b)[1] = s /\ (a \o b)[2] = t
  <2>1. /\ a \o b \in Seq(S) /\ Len(a \o b) = Len(a) + Len(b)
        /\ \A i \in 1 .. Len(a) + Len(b) : (a \o b)[i] = IF i <= Len(a) THEN a[i] ELSE b[i - Len(a)]
    BY <1>2, ConcatProperties
  <2> QED
    BY <2>1, <1>2, LenProperties
<1> DEFINE ab == a \o b
<1>4. ab \in Seq(S) /\ Len(ab) = 2 /\ ab[1] = s /\ ab[2] = t
  BY <1>3
<1> HIDE DEF ab
<1>5. s \in S /\ t \in S
  BY DEF S
<1>6. ab = <<s, t>>
  BY <1>4, <1>5
<1> QED
  BY <1>6 DEF ab, a, b

LEMMA SegmentsTwo ==
  ASSUME NEW l, NEW m \in Nat, Merges(l) = {m}
  PROVE  Segments(l) = <<[items |-> l.base.items, high |-> LeftmostHigh(l)], l.deltas[m].right>>
<1>1. IsFiniteSet({m}) /\ Cardinality({m}) = 1
  BY FS_Singleton
<1>2. Nth({m}, 0) = m
  <2>1. {m} \in SUBSET Nat /\ 0 \in 0 .. Cardinality({m}) - 1
    BY <1>1
  <2>2. Nth({m}, 0) \in {m}
    BY <2>1, <1>1, NthIn
  <2> QED
    BY <2>2
<1> DEFINE seg  == [items |-> l.base.items, high |-> LeftmostHigh(l)]
           right == l.deltas[m].right
           rest == [n \in 1 .. 1 |-> l.deltas[Nth({m}, 1 - n)].right]
<1>3. Segments(l) = <<seg>> \o rest
  BY <1>1 DEF Segments
<1>4. rest = <<right>>
  <2>1. \A n \in 1 .. 1 : l.deltas[Nth({m}, 1 - n)].right = right
    <3>1. \A n \in 1 .. 1 : 1 - n = 0
      OBVIOUS
    <3> QED
      BY <3>1, <1>2
  <2>2. rest = [n \in 1 .. 1 |-> right]
    BY <2>1
  <2> HIDE DEF right
  <2>3. [n \in 1 .. 1 |-> right] = <<right>>
    OBVIOUS
  <2> QED
    BY <2>2, <2>3
<1> HIDE DEF seg, rest, right
<1>5. <<seg>> \o <<right>> = <<seg, right>>
  BY PairConcat
<1> QED
  BY <1>3, <1>4, <1>5 DEF seg, right

\* The leftmost base node gives the separators above the low key up to the high
\* key of its chain.
LEMMA LeftSegment ==
  ASSUME NEW l, NEW c, ChainOK(l, c), NEW seg, seg.items = l.base.items,
         \A k \in Nat : Low(l) <= k /\ BelowHigh(seg, k) =>
           Inside(l, k) /\ BaseFor(l, RightTurns(l, k)) = l.base,
         NEW ins, \A x : x \in ins <=> \E i \in Inserted(l) : x = l.deltas[i].item /\ BelowHigh(seg, x[1]),
         NEW R, R = {k \in Nat : Low(l) < k /\ BelowHigh(seg, k)}
  PROVE  KeptItems(l, seg) \cup ins = Graph(c, R)
<1>1. l \in Chains /\ Ordered(l.base.items) /\ DeltasSound(l) /\ l.base \in BaseType
  BY ChainFields DEF ChainOK
<1>2. /\ DOMAIN seg.items = 1 .. Len(seg.items) /\ 1 \in DOMAIN seg.items
      /\ \A p \in DOMAIN seg.items : p \in Nat /\ seg.items[p][1] \in Nat
      /\ \A p, q \in DOMAIN seg.items : p < q => seg.items[p][1] < seg.items[q][1]
  BY <1>1, OrderedItems
<1>10. seg.items \in Seq(Pairs)
  BY <1>1, BaseFields
<1>3. seg.items[1] = LowPairOf(l) /\ seg.items[1][1] = Low(l) /\ Low(l) \in Nat
  BY <1>2 DEF LowPairOf, Low
<1>4. FirstItem(l, seg) = 2
  <2>1. FirstItem(l, l.base) = 2
    BY <1>1, <1>3, FirstItemIs
  <2> QED
    BY <2>1 DEF FirstItem
<1>5. \A k \in R : /\ Inside(l, k) /\ BelowHigh(seg, k)
                   /\ BaseFor(l, RightTurns(l, k)).items = seg.items
  <2> TAKE k \in R
  <2>1. k \in Nat /\ Low(l) <= k /\ BelowHigh(seg, k)
    BY <1>3
  <2> QED
    BY <2>1
<1>6. ASSUME NEW p \in DOMAIN seg.items
      PROVE  p >= FirstItem(l, seg) /\ BelowHigh(seg, seg.items[p][1]) <=> seg.items[p][1] \in R
  <2>1. p \in Nat \ {0} /\ seg.items[p][1] \in Nat
    BY <1>2
  <2>2. p >= 2 <=> Low(l) < seg.items[p][1]
    <3>1. CASE p = 1
      BY <3>1, <1>3
    <3>2. CASE 1 < p
      <4>1. Low(l) < seg.items[p][1]
        BY <3>2, <1>2, <1>3
      <4> QED
        BY <3>2, <4>1, <2>1
    <3> QED
      BY <3>1, <3>2, <2>1
  <2> QED
    BY <2>1, <2>2, <1>4
<1>7. \A x : x \in ins <=> \E i \in Inserted(l) : x = l.deltas[i].item /\ x[1] \in R
  <2>1. \A i \in Inserted(l) : l.deltas[i].item[1] \in Nat /\ Low(l) < l.deltas[i].item[1]
    <3> TAKE i \in Inserted(l)
    <3>1. i \in DOMAIN l.deltas /\ IsData(l.deltas[i])
      BY DEF Inserted, Newest
    <3>2. l.deltas[i].item[1] \in Keys /\ Low(l) < l.deltas[i].item[1]
      BY <3>1, <1>1 DEF DeltasSound
    <3> QED
      BY <3>2, Constants
  <2> QED
    BY <2>1
<1>8. Ordered(seg.items) /\ R \in SUBSET Nat
  BY <1>1
<1>9. Covers(l, seg, R) /\ ins = InsertedIn(l, R)
  <2>1. Covers(l, seg, R)
    BY <1>5, <1>6, <1>8, <1>10 DEF Covers
  <2>2. ins = InsertedIn(l, R)
    BY <1>7 DEF InsertedIn
  <2> QED
    BY <2>1, <2>2
<1> QED
  <2>1. SegmentOf(l, seg, R) = Graph(c, R)
    BY <1>9, SegmentItems
  <2> QED
    BY <2>1, <1>9 DEF SegmentOf

\* The right branch of the merge delta m gives the separators from its key on.
LEMMA RightSegment ==
  ASSUME NEW l, NEW c, ChainOK(l, c), NEW m \in Merges(l), NEW ins,
         \A x : x \in ins <=> \E i \in Inserted(l) : x = l.deltas[i].item /\ x[1] >= l.deltas[m].item[1],
         NEW R, R = {k \in Nat : k >= l.deltas[m].item[1]}
  PROVE  KeptItems(l, l.deltas[m].right) \cup ins = Graph(c, R)
<1> DEFINE seg == l.deltas[m].right
           key == l.deltas[m].item[1]
<1>1. l \in Chains /\ Ordered(l.base.items) /\ DeltasSound(l) /\ MergesSound(l)
  BY DEF ChainOK
<1>2. Merges(l) = {m} /\ m \in DOMAIN l.deltas /\ l.deltas[m] \in Deltas
  BY <1>1, OneMerge, ChainFields
<1>3. /\ Ordered(seg.items) /\ seg.items[1][1] = key /\ seg.high = NoHigh /\ Low(l) < key
      /\ HighOf(l) = NoHigh /\ seg \in BaseType /\ key \in Nat /\ seg.items \in Seq(Pairs)
  BY <1>1, <1>2, DeltaFields, BaseFields DEF MergesSound
<1>4. /\ DOMAIN seg.items = 1 .. Len(seg.items) /\ 1 \in DOMAIN seg.items
      /\ \A p \in DOMAIN seg.items : p \in Nat /\ seg.items[p][1] \in Nat
      /\ \A p, q \in DOMAIN seg.items : p < q => seg.items[p][1] < seg.items[q][1]
  BY <1>3, OrderedItems
<1>5. FirstItem(l, seg) = 1
  <2>1. seg.items[1] # LowPairOf(l)
    BY <1>3, <1>1, FirstItemIs DEF Low
  <2> QED
    BY <2>1, <1>1, <1>3, FirstItemIs
<1>6. \A k : BelowHigh(seg, k)
  BY <1>3, Constants DEF BelowHigh
<1>7. \A k \in R : /\ Inside(l, k) /\ BelowHigh(seg, k)
                   /\ BaseFor(l, RightTurns(l, k)).items = seg.items
  <2> TAKE k \in R
  <2>1. k \in Nat /\ k >= key
    OBVIOUS
  <2>2. Low(l) <= k /\ Inside(l, k)
    <3>1. Low(l) \in Nat
      BY <1>1, FirstItemIs, <1>3
    <3> QED
      BY <2>1, <3>1, <1>3, Constants DEF Inside
  <2>3. BaseFor(l, RightTurns(l, k)) = seg
    BY <2>1, <1>1, <1>2, Turned
  <2> QED
    BY <2>2, <2>3, <1>6
<1>8. ASSUME NEW p \in DOMAIN seg.items
      PROVE  p >= FirstItem(l, seg) /\ BelowHigh(seg, seg.items[p][1]) <=> seg.items[p][1] \in R
  <2>1. p \in Nat \ {0} /\ seg.items[p][1] \in Nat /\ p >= 1
    BY <1>4
  <2>2. seg.items[p][1] >= key
    <3>1. CASE p = 1
      BY <3>1, <1>3
    <3>2. CASE 1 < p
      <4>1. key < seg.items[p][1]
        BY <3>2, <1>3, <1>4
      <4> QED
        BY <4>1, <2>1, <1>3
    <3> QED
      BY <3>1, <3>2, <2>1
  <2> QED
    BY <2>1, <2>2, <1>5, <1>6
<1>9. \A x : x \in ins <=> \E i \in Inserted(l) : x = l.deltas[i].item /\ x[1] \in R
  <2>1. \A i \in Inserted(l) : l.deltas[i].item[1] \in Nat
    <3> TAKE i \in Inserted(l)
    <3>1. i \in DOMAIN l.deltas
      BY DEF Inserted, Newest
    <3> QED
      BY <3>1, <1>1, ChainFields, DeltaFields
  <2> QED
    BY <2>1
<1>10. R \in SUBSET Nat
  OBVIOUS
<1>11. Covers(l, seg, R) /\ ins = InsertedIn(l, R)
  <2>1. Covers(l, seg, R)
    BY <1>3, <1>7, <1>8, <1>10 DEF Covers
  <2>2. ins = InsertedIn(l, R)
    BY <1>9 DEF InsertedIn
  <2> QED
    BY <2>1, <2>2
<1> HIDE DEF seg
<1>12. KeptItems(l, seg) \cup ins = Graph(c, R)
  <2>1. SegmentOf(l, seg, R) = Graph(c, R)
    BY <1>11, SegmentItems
  <2> QED
    BY <2>1, <1>11 DEF SegmentOf
<1> QED
  BY <1>12 DEF seg

LEMMA ContentFacts ==
  ASSUME NEW l, NEW c, ChainOK(l, c)
  PROVE  /\ DOMAIN c \in SUBSET Nat /\ IsFiniteSet(DOMAIN c)
         /\ \A s \in DOMAIN c : /\ s \in Nat /\ c[s] \in Nat /\ Low(l) <= s /\ Inside(l, s)
                                /\ s \in Keys \cup {LowKey} /\ Named(<<s, c[s]>>)
         /\ Low(l) \in DOMAIN c /\ Low(l) \in Nat
         /\ LowPairOf(l) = <<Low(l), c[Low(l)]>> /\ LowPairOf(l) \in Nat \X Nat
         /\ c = [s \in DOMAIN c |-> c[s]] /\ CountOf(l) = Cardinality(DOMAIN c)
<1>1. ContentSound(l, c) /\ l \in Chains /\ Ordered(l.base.items) /\ l.base \in BaseType
  BY ChainFields DEF ChainOK
<1>2. Seated(l, c) /\ CountOf(l) = Cardinality(DOMAIN c)
  BY <1>1, SeatedContent
<1>3. /\ DOMAIN c \in SUBSET Nat /\ IsFiniteSet(DOMAIN c)
      /\ \A s \in DOMAIN c : s \in Nat /\ c[s] \in Nat /\ Low(l) <= s
      /\ Low(l) \in DOMAIN c /\ Low(l) \in Nat
  BY <1>2, SeatedType
<1>4. /\ \A s \in DOMAIN c : Inside(l, s) /\ s \in Keys \cup {LowKey} /\ Named(<<s, c[s]>>)
      /\ c[Low(l)] = LowPairOf(l)[2] /\ c = [s \in DOMAIN c |-> c[s]]
  BY <1>1 DEF ContentSound
<1>5. LowPairOf(l) \in Nat \X Nat
  BY <1>1, FirstItemIs
<1>6. LowPairOf(l) = <<Low(l), c[Low(l)]>>
  BY <1>4, <1>5 DEF Low
<1> QED
  BY <1>2, <1>3, <1>4, <1>5, <1>6

\* The low key pair comes first.
LEMMA LowFirst ==
  ASSUME NEW l, NEW c, ChainOK(l, c), NEW b, NEW T \in SUBSET Nat, ListsIn(b, c, T),
         \A k \in T : Low(l) < k
  PROVE  ListsIn(<<LowPairOf(l)>> \o b, c, {Low(l)} \cup T)
<1> DEFINE a == <<LowPairOf(l)>>
           R == {Low(l)}
<1>1. /\ DOMAIN c \in SUBSET Nat /\ Low(l) \in DOMAIN c /\ Low(l) \in Nat
      /\ LowPairOf(l) = <<Low(l), c[Low(l)]>> /\ LowPairOf(l) \in Nat \X Nat
  BY ContentFacts
<1>2. /\ a \in Seq(Nat \X Nat) /\ Len(a) = 1 /\ DOMAIN a = {1} /\ a[1] = LowPairOf(l)
  BY <1>1
<1> HIDE DEF a
<1>3. ListsIn(a, c, R)
  <2>1. \A p, q \in DOMAIN a : p < q => a[p][1] < a[q][1]
    BY <1>2
  <2>2. \A p \in DOMAIN a : /\ a[p][1] \in DOMAIN c /\ a[p][1] \in R
                            /\ a[p] = <<a[p][1], c[a[p][1]]>>
    BY <1>1, <1>2
  <2>3. \A s \in DOMAIN c \cap R : \E p \in DOMAIN a : a[p][1] = s
    BY <1>1, <1>2
  <2> HIDE DEF R
  <2> QED
    BY <1>2, <2>1, <2>2, <2>3 DEF ListsIn
<1>4. \A x \in DOMAIN c \cap R : \A y \in DOMAIN c \cap T : x < y
  OBVIOUS
<1> HIDE DEF R
<1>5. ListsIn(a \o b, c, R \cup T)
  BY <1>3, <1>4, ListsInConcat
<1> QED
  BY <1>5 DEF a, R

LEMMA LowThenRest ==
  ASSUME NEW l, NEW c, ChainOK(l, c), NEW b, NEW T \in SUBSET Nat, ListsIn(b, c, T),
         \A k \in DOMAIN c : k = Low(l) \/ k \in T, \A k \in T : Low(l) < k
  PROVE  ListsIn(<<LowPairOf(l)>> \o b, c, Nat) /\ (<<LowPairOf(l)>> \o b)[1] = LowPairOf(l)
<1> DEFINE a == <<LowPairOf(l)>>
           items == a \o b
           U == {Low(l)} \cup T
<1>1. DOMAIN c \in SUBSET Nat /\ Low(l) \in Nat /\ LowPairOf(l) \in Nat \X Nat
  BY ContentFacts
<1>2. ListsIn(items, c, U)
  BY LowFirst
<1>3. U \in SUBSET Nat /\ \A k \in DOMAIN c : k \in U
  BY <1>1
<1>4. a \in Seq(Nat \X Nat) /\ Len(a) = 1 /\ a[1] = LowPairOf(l)
  BY <1>1
<1> HIDE DEF a, items, U
<1>5. ListsIn(items, c, Nat)
  BY <1>1, <1>2, <1>3 DEF ListsIn
<1>6. items[1] = LowPairOf(l)
  <2>1. b \in Seq(Nat \X Nat) /\ Len(b) \in Nat
    BY LenProperties DEF ListsIn
  <2>2. 1 \in 1 .. Len(a) + Len(b) /\ 1 <= Len(a)
    BY <1>4, <2>1
  <2>3. (a \o b)[1] = a[1]
    BY <1>4, <2>1, <2>2, ConcatProperties
  <2> QED
    BY <1>4, <2>3 DEF items
<1> QED
  BY <1>5, <1>6 DEF items, a

LEMMA CollectOne ==
  ASSUME NEW l, NEW c, ChainOK(l, c), Merges(l) = {}
  PROVE  ListsIn(Collect(l), c, Nat) /\ Collect(l)[1] = LowPairOf(l)
<1> DEFINE segs == Segments(l)
           seg  == [items |-> l.base.items, high |-> HighOf(l)]
           new(n) == {l.deltas[i].item : i \in {j \in Inserted(l) :
                       /\ BelowHigh(segs[n], l.deltas[j].item[1])
                       /\ (n = 1 \/ ~BelowHigh(segs[n - 1], l.deltas[j].item[1]))}}
           ins  == {l.deltas[i].item : i \in {j \in Inserted(l) : BelowHigh(seg, l.deltas[j].item[1])}}
           part(n) == SortedByKey(KeptItems(l, segs[n]) \cup new(n))
           R    == {k \in Nat : Low(l) < k /\ BelowHigh(seg, k)}
<1>1. l \in Chains /\ MergesSound(l) /\ l.base \in BaseType
  BY ChainFields DEF ChainOK
<1>2. segs = <<seg>>
  BY SegmentsOne
<1>3. DOMAIN segs = 1 .. 1 /\ segs[1] = seg
  <2> HIDE DEF segs, seg
  <2> QED
    BY <1>2
<1>4. Collect(l) = <<LowPairOf(l)>> \o FlattenSeq([n \in DOMAIN segs |-> part(n)])
  BY DEF Collect
<1>5. part(1) = SortedByKey(KeptItems(l, seg) \cup ins)
  <2>1. new(1) = ins
    <3> HIDE DEF segs, seg
    <3> QED
      BY <1>3
  <2> HIDE DEF new, ins, segs, seg
  <2> QED
    BY <1>3, <2>1
<1>6. [n \in DOMAIN segs |-> part(n)] = <<part(1)>>
  <2> HIDE DEF part, segs
  <2> QED
    BY <1>3
<1> DEFINE p1 == part(1)
<1>7. Collect(l) = <<LowPairOf(l)>> \o p1
  <2>1. FlattenSeq(<<p1>>) = p1
    BY FlattenOne
  <2> HIDE DEF p1
  <2>2. [n \in DOMAIN segs |-> part(n)] = <<p1>>
    BY <1>6 DEF p1
  <2> HIDE DEF part
  <2> QED
    BY <1>4, <2>1, <2>2
<1>8. seg \in BaseType /\ seg.items = l.base.items
  BY <1>1, BaseFields, HighType DEF BaseType
<1>9. \A k \in Nat : Low(l) <= k /\ BelowHigh(seg, k) =>
        Inside(l, k) /\ BaseFor(l, RightTurns(l, k)) = l.base
  <2> TAKE k \in Nat
  <2>1. BaseFor(l, RightTurns(l, k)) = l.base
    BY <1>1, Turned
  <2> QED
    BY <2>1 DEF BelowHigh, Inside
<1>10. \A x : x \in ins <=> \E i \in Inserted(l) : x = l.deltas[i].item /\ BelowHigh(seg, x[1])
  <2> HIDE DEF seg
  <2> QED
    OBVIOUS
<1>11. R \in SUBSET Nat /\ \A k \in R : Low(l) < k
  OBVIOUS
<1>12. \A k \in DOMAIN c : k = Low(l) \/ k \in R
  <2> TAKE k \in DOMAIN c
  <2>1. k \in Nat /\ Low(l) \in Nat /\ Low(l) <= k /\ Inside(l, k)
    BY ContentFacts
  <2>2. BelowHigh(seg, k)
    BY <2>1 DEF BelowHigh, Inside
  <2> HIDE DEF seg
  <2> QED
    BY <2>1, <2>2
<1> HIDE DEF ins, seg
<1>13. KeptItems(l, seg) \cup ins = Graph(c, R)
  BY <1>8, <1>9, <1>10, LeftSegment
<1> HIDE DEF R, part
<1>14. ListsIn(p1, c, R)
  <2>1. p1 = SortedByKey(Graph(c, R))
    BY <1>5, <1>13
  <2>2. ListsIn(SortedByKey(Graph(c, R)), c, R)
    BY ContentFacts, SortedGraph
  <2> QED
    BY <2>1, <2>2
<1> HIDE DEF p1
<1> QED
  BY <1>7, <1>11, <1>12, <1>14, LowThenRest

\* The chain below a merge delta ends at its key.
LEMMA MergeFacts ==
  ASSUME NEW l, NEW c, ChainOK(l, c), NEW m \in Merges(l)
  PROVE  LET d == l.deltas[m] IN
         /\ Merges(l) = {m} /\ m \in Nat /\ d.right \in BaseType /\ d.item[1] \in Nat
         /\ LeftmostHigh(l) \in Pairs /\ LeftmostHigh(l)[1] = d.item[1]
         /\ LeftmostHigh(l)[2] # INVALID_NODE_ID
         /\ d.right.high = NoHigh /\ HighOf(l) = NoHigh /\ Low(l) < d.item[1]
<1>1. l \in Chains /\ MergesSound(l)
  BY DEF ChainOK
<1>2. Merges(l) = {m} /\ Max(Merges(l)) = m /\ m \in DOMAIN l.deltas /\ m \in Nat \ {0}
  BY <1>1, OneMerge
<1>3. l.deltas[m] \in Deltas
  BY <1>1, <1>2, ChainFields
<1>4. LeftmostHigh(l) \in Pairs
  <2>1. LeftmostHigh(l) = IF m = Len(l.deltas) THEN l.base.high ELSE l.deltas[m + 1].high
    BY <1>2 DEF LeftmostHigh
  <2>2. CASE m = Len(l.deltas)
    BY <1>1, <2>1, <2>2, ChainFields, BaseFields
  <2>3. CASE m # Len(l.deltas)
    <3>1. m + 1 \in DOMAIN l.deltas
      BY <1>1, <1>2, <2>3, ChainFields
    <3>2. l.deltas[m + 1] \in Deltas
      BY <1>1, <3>1, ChainFields
    <3> QED
      BY <2>1, <2>3, <3>2, DeltaFields
  <2> QED
    BY <2>2, <2>3
<1> QED
  BY <1>1, <1>2, <1>3, <1>4, DeltaFields DEF MergesSound

LEMMA CollectTwo ==
  ASSUME NEW l, NEW c, ChainOK(l, c), NEW m \in Merges(l)
  PROVE  ListsIn(Collect(l), c, Nat) /\ Collect(l)[1] = LowPairOf(l)
<1> DEFINE segs  == Segments(l)
           seg   == [items |-> l.base.items, high |-> LeftmostHigh(l)]
           right == l.deltas[m].right
           key   == l.deltas[m].item[1]
           new(n) == {l.deltas[i].item : i \in {j \in Inserted(l) :
                       /\ BelowHigh(segs[n], l.deltas[j].item[1])
                       /\ (n = 1 \/ ~BelowHigh(segs[n - 1], l.deltas[j].item[1]))}}
           part(n) == SortedByKey(KeptItems(l, segs[n]) \cup new(n))
           R    == {k \in Nat : Low(l) < k /\ BelowHigh(seg, k)}
           T    == {k \in Nat : k >= key}
<1>1. l \in Chains /\ MergesSound(l) /\ l.base \in BaseType
  BY ChainFields DEF ChainOK
<1>2. /\ Merges(l) = {m} /\ m \in Nat /\ right \in BaseType /\ key \in Nat
      /\ LeftmostHigh(l) \in Pairs /\ LeftmostHigh(l)[1] = key
      /\ LeftmostHigh(l)[2] # INVALID_NODE_ID
      /\ right.high = NoHigh /\ HighOf(l) = NoHigh /\ Low(l) < key
  BY MergeFacts
<1>3. /\ \A k : BelowHigh(seg, k) <=> k < key
      /\ \A k : BelowHigh(right, k)
  BY <1>2, Constants DEF BelowHigh
<1>4. segs = <<seg, right>>
  BY <1>2, SegmentsTwo
<1>5. DOMAIN segs = 1 .. 2 /\ segs[1] = seg /\ segs[2] = right
  <2> HIDE DEF segs, seg, right
  <2> QED
    BY <1>4
<1>6. Collect(l) = <<LowPairOf(l)>> \o FlattenSeq([n \in DOMAIN segs |-> part(n)])
  BY DEF Collect
<1> DEFINE p1 == part(1)
           p2 == part(2)
<1>7. Collect(l) = <<LowPairOf(l)>> \o (p1 \o p2)
  <2>1. FlattenSeq(<<p1, p2>>) = p1 \o p2
    BY FlattenTwo
  <2> HIDE DEF part
  <2>2. [n \in DOMAIN segs |-> part(n)] = [n \in 1 .. 2 |-> part(n)]
    BY <1>5
  <2>3. [n \in 1 .. 2 |-> part(n)] = <<part(1), part(2)>>
    OBVIOUS
  <2> QED
    BY <1>6, <2>1, <2>2, <2>3
<1> DEFINE ins1 == new(1)
           ins2 == new(2)
<1>8. /\ p1 = SortedByKey(KeptItems(l, seg) \cup ins1)
      /\ p2 = SortedByKey(KeptItems(l, right) \cup ins2)
  <2> HIDE DEF new, segs, seg, right
  <2> QED
    BY <1>5
<1>9. \A i \in Inserted(l) : l.deltas[i].item[1] \in Nat
  <2> TAKE i \in Inserted(l)
  <2>1. i \in DOMAIN l.deltas
    BY DEF Inserted, Newest
  <2> QED
    BY <2>1, <1>1, ChainFields, DeltaFields
<1>10. \A x : x \in ins1 <=> \E i \in Inserted(l) : x = l.deltas[i].item /\ BelowHigh(seg, x[1])
  <2> HIDE DEF segs, seg
  <2> QED
    BY <1>5
<1>11. \A x : x \in ins2 <=> \E i \in Inserted(l) : x = l.deltas[i].item /\ x[1] >= l.deltas[m].item[1]
  <2>1. \A i \in Inserted(l) :
          /\ BelowHigh(segs[2], l.deltas[i].item[1])
          /\ ~BelowHigh(segs[2 - 1], l.deltas[i].item[1]) <=> l.deltas[i].item[1] >= l.deltas[m].item[1]
    <3> TAKE i \in Inserted(l)
    <3>1. l.deltas[i].item[1] \in Nat /\ l.deltas[m].item[1] \in Nat
      BY <1>2, <1>9
    <3>2. segs[2] = right /\ segs[2 - 1] = seg
      BY <1>5
    <3>3. BelowHigh(right, l.deltas[i].item[1])
      BY <1>3
    <3>4. BelowHigh(seg, l.deltas[i].item[1]) <=> l.deltas[i].item[1] < l.deltas[m].item[1]
      BY <1>3
    <3> HIDE DEF segs, seg, right
    <3>5. ~BelowHigh(seg, l.deltas[i].item[1]) <=> l.deltas[i].item[1] >= l.deltas[m].item[1]
      BY <3>1, <3>4
    <3> QED
      BY <3>2, <3>3, <3>5
  <2>2. \A x : x \in ins2 <=> \E i \in Inserted(l) :
          /\ x = l.deltas[i].item /\ BelowHigh(segs[2], l.deltas[i].item[1])
          /\ ~BelowHigh(segs[2 - 1], l.deltas[i].item[1])
    <3> HIDE DEF segs
    <3> QED
      OBVIOUS
  <2> HIDE DEF ins2, segs
  <2> QED
    BY <2>1, <2>2
<1>12. seg \in BaseType /\ seg.items = l.base.items
  BY <1>1, <1>2, BaseFields DEF BaseType
<1>13. \A k \in Nat : Low(l) <= k /\ BelowHigh(seg, k) =>
         Inside(l, k) /\ BaseFor(l, RightTurns(l, k)) = l.base
  <2> TAKE k \in Nat
  <2> HAVE Low(l) <= k /\ BelowHigh(seg, k)
  <2>1. k < key /\ Low(l) <= k
    BY <1>3
  <2>2. Inside(l, k)
    BY <2>1, <1>2, Constants DEF Inside
  <2>3. ~(k >= key)
    BY <2>1, <1>2
  <2>4. BaseFor(l, RightTurns(l, k)) = l.base
    BY <1>1, <1>2, <2>3, Turned
  <2> QED
    BY <2>2, <2>4
<1> HIDE DEF ins1, ins2, seg, right
<1>14. KeptItems(l, seg) \cup ins1 = Graph(c, R)
  BY <1>10, <1>12, <1>13, LeftSegment
<1>15. KeptItems(l, right) \cup ins2 = Graph(c, T)
  BY <1>11, RightSegment DEF right
<1>16. /\ \A k : k \in R <=> k \in Nat /\ Low(l) < k /\ k < key
       /\ \A k : k \in T <=> k \in Nat /\ k >= key
  BY <1>3
<1> HIDE DEF R, T, p1, p2
<1>17. ListsIn(p1, c, R) /\ ListsIn(p2, c, T)
  <2>1. p1 = SortedByKey(Graph(c, R)) /\ p2 = SortedByKey(Graph(c, T))
    BY <1>8, <1>14, <1>15
  <2>2. ListsIn(SortedByKey(Graph(c, R)), c, R)
    BY ContentFacts, SortedGraph
  <2>3. ListsIn(SortedByKey(Graph(c, T)), c, T)
    BY ContentFacts, SortedGraph
  <2> QED
    BY <2>1, <2>2, <2>3
<1> HIDE DEF key
<1>18. ListsIn(p1 \o p2, c, R \cup T)
  <2>1. \A x \in DOMAIN c \cap R : \A y \in DOMAIN c \cap T : x < y
    BY <1>2, <1>16
  <2> QED
    BY <1>17, <2>1, ListsInConcat
<1> DEFINE b == p1 \o p2
           U == R \cup T
<1>19. Low(l) \in Nat /\ \A k \in DOMAIN c : k \in Nat /\ Low(l) <= k
  BY ContentFacts
<1>20. U \in SUBSET Nat
  BY <1>16
<1>21. \A k \in U : Low(l) < k
  BY <1>2, <1>16, <1>19
<1>22. \A k \in DOMAIN c : k = Low(l) \/ k \in U
  BY <1>2, <1>16, <1>19
<1>23. ListsIn(b, c, U)
  BY <1>18
<1>24. Collect(l) = <<LowPairOf(l)>> \o b
  BY <1>7
<1> HIDE DEF b, U
<1> QED
  BY <1>20, <1>21, <1>22, <1>23, <1>24, LowThenRest

LEMMA CollectLists ==
  ASSUME NEW l, NEW c, ChainOK(l, c)
  PROVE  ListsIn(Collect(l), c, Nat) /\ Collect(l)[1] = LowPairOf(l)
<1>1. CASE Merges(l) = {}
  BY <1>1, CollectOne
<1>2. CASE Merges(l) # {}
  BY <1>2, CollectTwo
<1> QED
  BY <1>1, <1>2

\* Consolidation lists the separators and their children.
LEMMA CollectExact ==
  ASSUME NEW l, NEW c, ChainOK(l, c)
  PROVE  /\ Collect(l) \in Seq(Pairs) /\ Ordered(Collect(l)) /\ Lists(Collect(l), c)
         /\ Collect(l)[1] = LowPairOf(l)
         /\ Len(Collect(l)) = Cardinality(DOMAIN c) /\ Len(Collect(l)) = CountOf(l)
         /\ ToSet(Collect(l)) = {<<s, c[s]>> : s \in DOMAIN c}
         /\ \A n \in 1 .. Len(Collect(l)) - 1 : Collect(l)[n][1] < Collect(l)[n + 1][1]
         /\ \A p \in DOMAIN Collect(l) : Inside(l, Collect(l)[p][1])
<1> DEFINE items == Collect(l)
<1>1. ListsIn(items, c, Nat) /\ items[1] = LowPairOf(l)
  BY CollectLists
<1> HIDE DEF items
<1>2. /\ items \in Seq(Nat \X Nat) /\ Len(items) \in Nat /\ DOMAIN items = 1 .. Len(items)
      /\ \A p, q \in DOMAIN items : p < q => items[p][1] < items[q][1]
      /\ \A p \in DOMAIN items : /\ items[p][1] \in DOMAIN c
                                 /\ items[p] = <<items[p][1], c[items[p][1]]>>
      /\ \A s \in DOMAIN c \cap Nat : \E p \in DOMAIN items : items[p][1] = s
  BY <1>1, LenProperties DEF ListsIn
<1>3. /\ DOMAIN c \in SUBSET Nat /\ Low(l) \in DOMAIN c
      /\ \A s \in DOMAIN c : /\ s \in Nat /\ c[s] \in Nat /\ Inside(l, s)
                             /\ s \in Keys \cup {LowKey} /\ Named(<<s, c[s]>>)
      /\ CountOf(l) = Cardinality(DOMAIN c)
  BY ContentFacts
<1>4. \A s \in DOMAIN c : \E p \in DOMAIN items : items[p][1] = s
  BY <1>2, <1>3
<1>5. Lists(items, c)
  <2>1. \A p \in DOMAIN items : items[p][1] \in DOMAIN c /\ c[items[p][1]] = items[p][2]
    BY <1>2
  <2> QED
    BY <2>1, <1>4 DEF Lists
<1>6. items \in Seq(Pairs)
  <2>1. \A p \in DOMAIN items : items[p] \in Pairs
    BY <1>2, <1>3 DEF Pairs
  <2> DEFINE n == Len(items)
  <2>2. n \in Nat /\ items = [p \in 1 .. n |-> items[p]] /\ \A p \in 1 .. n : items[p] \in Pairs
    BY <2>1, <1>2
  <2> HIDE DEF n
  <2>3. items \in [1 .. n -> Pairs]
    BY <2>2
  <2> QED
    BY <2>2, <2>3, SeqDef
<1>7. Ordered(items)
  <2>1. items # <<>>
    BY <1>2, <1>3, <1>4
  <2>2. \A p \in DOMAIN items : Named(items[p])
    BY <1>2, <1>3
  <2> QED
    BY <2>1, <2>2, <1>2 DEF Ordered
<1>8. Cardinality(DOMAIN c) = Len(items)
  BY <1>2, <1>5, ListsCount
<1>9. ToSet(items) = {<<s, c[s]>> : s \in DOMAIN c}
  <2>1. \A x : x \in ToSet(items) <=> \E p \in DOMAIN items : x = items[p]
    BY DEF ToSet
  <2>2. \A x : x \in ToSet(items) <=> \E s \in DOMAIN c : x = <<s, c[s]>>
    <3> TAKE x
    <3>1. ASSUME NEW p \in DOMAIN items, x = items[p] PROVE \E s \in DOMAIN c : x = <<s, c[s]>>
      BY <3>1, <1>2
    <3>2. ASSUME NEW s \in DOMAIN c, x = <<s, c[s]>> PROVE \E p \in DOMAIN items : x = items[p]
      <4>1. PICK p \in DOMAIN items : items[p][1] = s
        BY <1>4
      <4>2. items[p] = <<s, c[s]>>
        BY <4>1, <1>2
      <4> QED
        BY <3>2, <4>2
    <3> QED
      BY <3>1, <3>2, <2>1
  <2> QED
    BY <2>2
<1>10. \A n \in 1 .. Len(items) - 1 : items[n][1] < items[n + 1][1]
  <2> TAKE n \in 1 .. Len(items) - 1
  <2>1. n \in DOMAIN items /\ n + 1 \in DOMAIN items /\ n < n + 1
    BY <1>2
  <2> QED
    BY <2>1, <1>2
<1>11. \A p \in DOMAIN items : Inside(l, items[p][1])
  BY <1>2, <1>3
<1> QED
  BY <1>1, <1>3, <1>5, <1>6, <1>7, <1>8, <1>9, <1>10, <1>11 DEF items

LEMMA ConsolidatedChain ==
  ASSUME NEW l, NEW c, ChainOK(l, c)
  PROVE  /\ ChainOK(Consolidated(l), c) /\ Consolidated(l).deltas = <<>>
         /\ Merges(Consolidated(l)) = {} /\ Low(Consolidated(l)) = Low(l)
         /\ HighOf(Consolidated(l)) = HighOf(l) /\ Consolidated(l).base.items = Collect(l)
<1> DEFINE items == Collect(l)
           high  == HighOf(l)
           l2    == [deltas |-> <<>>, base |-> [items |-> items, high |-> high]]
<1>1. /\ items \in Seq(Pairs) /\ Ordered(items) /\ Lists(items, c) /\ items[1] = LowPairOf(l)
      /\ \A p \in DOMAIN items : Inside(l, items[p][1])
  BY CollectExact
<1>2. c = [s \in DOMAIN c |-> c[s]]
  BY ContentFacts
<1>3. high \in Pairs
  BY HighType DEF ChainOK
<1>4. high[2] # INVALID_NODE_ID => \A p \in DOMAIN items : items[p][1] < high[1]
  BY <1>1 DEF Inside
<1>5. Consolidated(l) = l2
  BY DEF Consolidated
<1> HIDE DEF items, high
<1>6. ChainOK(l2, c)
  BY <1>1, <1>2, <1>3, <1>4, BaseChain
<1>7. /\ l2.deltas = <<>> /\ Merges(l2) = {} /\ HighOf(l2) = high /\ LowPairOf(l2) = items[1]
      /\ l2.base.items = items
  BY DEF Merges, HighOf, LowPairOf
<1>8. Low(l2) = Low(l)
  BY <1>1, <1>7 DEF Low
<1> QED
  BY <1>5, <1>6, <1>7, <1>8 DEF items, high

-----------------------------------------------------------------------------
(* The left sibling of a child.                                            *)

\* In a list of the separators up to k the one before the last is the greatest
\* one below k.
LEMMA BeforeLast ==
  ASSUME NEW c, NEW R, NEW order, ListsIn(order, c, R), DOMAIN c \in SUBSET Nat,
         NEW k \in DOMAIN c \cap R, \A s \in DOMAIN c \cap R : s <= k,
         NEW r \in DOMAIN c \cap R, r < k, \A s \in DOMAIN c \cap R : s < k => s <= r
  PROVE  order[Len(order) - 1][2] = c[r]
<1> DEFINE n == Len(order)
<1>1. /\ order \in Seq(Nat \X Nat) /\ n \in Nat /\ DOMAIN order = 1 .. n
      /\ \A p, q \in DOMAIN order : p < q => order[p][1] < order[q][1]
      /\ \A p \in DOMAIN order : /\ order[p][1] \in DOMAIN c \cap R
                                 /\ order[p] = <<order[p][1], c[order[p][1]]>>
      /\ \A s \in DOMAIN c \cap R : \E p \in DOMAIN order : order[p][1] = s
  BY LenProperties DEF ListsIn
<1>2. PICK p \in DOMAIN order : order[p][1] = k
  BY <1>1
<1>3. PICK q \in DOMAIN order : order[q][1] = r
  BY <1>1
<1>4. k \in Nat /\ r \in Nat /\ p \in 1 .. n /\ q \in 1 .. n
  BY <1>1, <1>2, <1>3
<1> HIDE DEF n
<1>5. q < p
  <2>1. ~(p < q)
    <3> SUFFICES ASSUME p < q PROVE FALSE
      OBVIOUS
    <3>1. k < r
      BY <1>1, <1>2, <1>3
    <3> QED
      BY <3>1, <1>4
  <2>2. p # q
    BY <1>2, <1>3, <1>4
  <2> QED
    BY <2>1, <2>2, <1>4, <1>1
<1>6. p = n
  <2> SUFFICES ASSUME p # n PROVE FALSE
    OBVIOUS
  <2>1. n \in DOMAIN order /\ p < n
    BY <1>1, <1>4
  <2>2. k < order[n][1] /\ order[n][1] \in DOMAIN c \cap R
    BY <2>1, <1>1, <1>2
  <2> QED
    BY <2>2, <1>4
<1>7. q = n - 1
  <2> SUFFICES ASSUME q # n - 1 PROVE FALSE
    OBVIOUS
  <2>0. DOMAIN order = 1 .. n /\ n \in Nat /\ q \in Nat /\ 1 <= q /\ q < n
    BY <1>1, <1>4, <1>5, <1>6
  <2>1. n - 1 \in DOMAIN order /\ q < n - 1 /\ n - 1 < n /\ n \in DOMAIN order
    <3>1. n - 1 \in 1 .. n /\ q < n - 1 /\ n - 1 < n /\ n \in 1 .. n
      BY <2>0
    <3> QED
      BY <2>0, <3>1
  <2> DEFINE s == order[n - 1][1]
  <2>2. r < s /\ s \in DOMAIN c \cap R
    BY <2>1, <1>1, <1>3
  <2>3. s < k
    BY <2>1, <1>1, <1>2, <1>6
  <2> HIDE DEF s
  <2>4. s \in Nat /\ s <= r
    BY <2>2, <2>3
  <2> QED
    BY <2>2, <2>4, <1>4
<1>8. order[q][2] = c[r]
  BY <1>1, <1>3
<1> QED
  BY <1>7, <1>8 DEF n

LEMMA LeftAmongExact ==
  ASSUME NEW l, NEW c, ChainOK(l, c), Merges(l) = {},
         NEW k \in DOMAIN c, NEW r \in DOMAIN c, r < k, \A s \in DOMAIN c : s < k => s <= r
  PROVE  LeftAmong(l, k) = c[r]
<1> DEFINE items == l.base.items
           known == {i \in Newest(l.deltas) : l.deltas[i].item[1] <= k}
           ins   == {l.deltas[i].item : i \in known \cap Inserted(l)}
           kept  == {items[p] : p \in {q \in 2 .. Len(items) :
                      (items[q][1] <= k) /\ (\A i \in known : l.deltas[i].item[1] # items[q][1])}}
           order == <<items[1]>> \o SortedByKey(ins \cup kept)
           seg   == [items |-> items, high |-> <<k + 1, 1>>]
           R     == {s \in Nat : Low(l) < s /\ BelowHigh(seg, s)}
<1>1. l \in Chains /\ MergesSound(l) /\ l.base \in BaseType /\ Ordered(items)
  BY ChainFields DEF ChainOK
<1>2. /\ DOMAIN c \in SUBSET Nat /\ k \in Nat /\ Low(l) \in Nat /\ Low(l) \in DOMAIN c
      /\ Inside(l, k) /\ \A s \in DOMAIN c : s \in Nat /\ Low(l) <= s
  BY ContentFacts
<1>3. seg.items = items /\ \A s \in Nat : BelowHigh(seg, s) <=> s <= k
  BY <1>2, Constants DEF BelowHigh
<1>4. /\ DOMAIN items = 1 .. Len(items) /\ Len(items) \in Nat
      /\ \A p \in DOMAIN items : items[p][1] \in Nat
  BY <1>1, OrderedItems
<1>5. \A i \in Newest(l.deltas) : l.deltas[i].item[1] \in Nat
  <2> TAKE i \in Newest(l.deltas)
  <2>1. i \in DOMAIN l.deltas
    BY DEF Newest
  <2> QED
    BY <2>1, <1>1, ChainFields, DeltaFields
<1>6. \A s \in Nat : Low(l) <= s /\ BelowHigh(seg, s) =>
        Inside(l, s) /\ BaseFor(l, RightTurns(l, s)) = l.base
  <2> TAKE s \in Nat
  <2> HAVE Low(l) <= s /\ BelowHigh(seg, s)
  <2>1. s <= k
    BY <1>3
  <2>2. Inside(l, s)
    <3>1. HighOf(l)[1] \in Nat
      BY <1>1, HighType
    <3> QED
      BY <2>1, <3>1, <1>2 DEF Inside
  <2>3. BaseFor(l, RightTurns(l, s)) = l.base
    BY <1>1, Turned
  <2> QED
    BY <2>2, <2>3
<1> HIDE DEF seg
<1>7. \A x : x \in ins <=> \E i \in Inserted(l) : x = l.deltas[i].item /\ BelowHigh(seg, x[1])
  <2>1. \A i \in Inserted(l) : i \in Newest(l.deltas)
    BY DEF Inserted
  <2>2. \A i \in Inserted(l) : i \in known <=> BelowHigh(seg, l.deltas[i].item[1])
    BY <2>1, <1>3, <1>5
  <2> HIDE DEF known
  <2> QED
    BY <2>2
<1>8. KeptItems(l, seg) = kept
  <2>1. FirstItem(l, seg) = 2
    <3>1. FirstItem(l, l.base) = 2
      BY <1>1, FirstItemIs DEF LowPairOf
    <3> QED
      BY <3>1, <1>3 DEF FirstItem
  <2>2. \A q \in 2 .. Len(items) :
          /\ BelowHigh(seg, items[q][1]) <=> items[q][1] <= k
          /\ items[q][1] <= k =>
               ((\A i \in known : l.deltas[i].item[1] # items[q][1]) <=>
                (\A i \in Newest(l.deltas) : l.deltas[i].item[1] # items[q][1]))
    <3> TAKE q \in 2 .. Len(items)
    <3>1. q \in DOMAIN items /\ items[q][1] \in Nat
      BY <1>4
    <3>2. BelowHigh(seg, items[q][1]) <=> items[q][1] <= k
      BY <3>1, <1>3
    <3>3. ASSUME items[q][1] <= k, NEW i \in Newest(l.deltas), l.deltas[i].item[1] = items[q][1]
          PROVE  i \in known
      BY <3>3
    <3>4. \A i \in known : i \in Newest(l.deltas)
      OBVIOUS
    <3> HIDE DEF known
    <3> QED
      BY <3>2, <3>3, <3>4
  <2>3. KeptItems(l, seg) =
          {items[p] : p \in {q \in 2 .. Len(items) :
             (BelowHigh(seg, items[q][1])) /\
             (\A i \in Newest(l.deltas) : l.deltas[i].item[1] # items[q][1])}}
    BY <2>1, <1>3 DEF KeptItems
  <2> HIDE DEF known, items
  <2> QED
    BY <2>2, <2>3
<1> HIDE DEF ins
<1>9. KeptItems(l, seg) \cup ins = Graph(c, R)
  BY <1>3, <1>6, <1>7, LeftSegment
<1>10. order = <<LowPairOf(l)>> \o SortedByKey(Graph(c, R))
  <2>1. ins \cup kept = Graph(c, R)
    BY <1>8, <1>9
  <2> HIDE DEF kept
  <2> QED
    BY <2>1 DEF LowPairOf
<1>11. LeftAmong(l, k) = order[Len(order) - 1][2]
  BY DEF LeftAmong, ins
<1>12. \A s : s \in R <=> s \in Nat /\ Low(l) < s /\ s <= k
  BY <1>3
<1> HIDE DEF R, order
<1> DEFINE U == {Low(l)} \cup R
<1>13. ListsIn(order, c, U)
  <2>1. ListsIn(SortedByKey(Graph(c, R)), c, R)
    BY ContentFacts, SortedGraph
  <2>2. R \in SUBSET Nat /\ \A s \in R : Low(l) < s
    BY <1>12
  <2>3. ListsIn(<<LowPairOf(l)>> \o SortedByKey(Graph(c, R)), c, {Low(l)} \cup R)
    BY <2>1, <2>2, LowFirst
  <2> QED
    BY <2>3, <1>10
<1>14. \A s \in DOMAIN c : s \in U <=> s <= k
  BY <1>2, <1>12
<1>15. k \in DOMAIN c \cap U /\ r \in DOMAIN c \cap U
  BY <1>2, <1>14
<1> HIDE DEF U
<1>16. order[Len(order) - 1][2] = c[r]
  <2>1. \A s \in DOMAIN c \cap U : s <= k
    BY <1>14
  <2>2. \A s \in DOMAIN c \cap U : s < k => s <= r
    OBVIOUS
  <2> QED
    BY <2>1, <2>2, <1>2, <1>13, <1>15, BeforeLast
<1> QED
  BY <1>11, <1>16

LEMMA FindLeftExact ==
  ASSUME NEW l, NEW c, ChainOK(l, c),
         NEW k \in DOMAIN c, NEW r \in DOMAIN c, r < k, \A s \in DOMAIN c : s < k => s <= r
  PROVE  FindLeftSibling(l, k) = c[r]
<1>1. CASE Merges(l) = {}
  BY <1>1, LeftAmongExact DEF FindLeftSibling
<1>2. CASE Merges(l) # {}
  <2>1. ChainOK(Consolidated(l), c) /\ Merges(Consolidated(l)) = {}
    BY ConsolidatedChain
  <2> DEFINE l2 == Consolidated(l)
  <2>2. FindLeftSibling(l, k) = LeftAmong(l2, k)
    BY <1>2 DEF FindLeftSibling
  <2> HIDE DEF l2
  <2>3. LeftAmong(l2, k) = c[r]
    BY <2>1, LeftAmongExact DEF l2
  <2> QED
    BY <2>2, <2>3
<1> QED
  BY <1>1, <1>2

-----------------------------------------------------------------------------
(* The two nodes                                                           *)

\* The first separator is the low key.
LEMMA FirstSeparator ==
  ASSUME NEW l, NEW c, ChainOK(l, c)
  PROVE  Min(DOMAIN c) = Low(l)
BY ContentFacts, MinIs

\* The separator left of k.
LEMMA SeparatorLeft ==
  ASSUME NEW l, NEW c, ChainOK(l, c), NEW k \in Nat, Low(l) < k
  PROVE  LET left == Max({r \in DOMAIN c : r < k}) IN
         /\ left \in DOMAIN c /\ left < k /\ \A s \in DOMAIN c : s < k => s <= left
         /\ left = SepBelow(c, k - 1)
<1> DEFINE S == {r \in DOMAIN c : r < k}
           T == {r \in DOMAIN c : r <= k - 1}
<1>1. /\ DOMAIN c \in SUBSET Nat /\ IsFiniteSet(DOMAIN c) /\ Low(l) \in DOMAIN c
      /\ \A s \in DOMAIN c : s \in Nat
  BY ContentFacts
<1>2. S \in SUBSET Nat /\ IsFiniteSet(S) /\ S # {}
  <2>1. S \subseteq DOMAIN c
    OBVIOUS
  <2> QED
    BY <1>1, <2>1, FS_Subset
<1>3. S = T
  BY <1>1
<1>4. \A r : r \in S <=> r \in DOMAIN c /\ r < k
  OBVIOUS
<1> HIDE DEF S, T
<1>5. Max(S) \in S /\ \A y \in S : Max(S) >= y
  BY <1>2, MaxIn
<1> DEFINE left == Max(S)
<1>6. left \in S /\ \A y \in S : left >= y
  BY <1>5
<1> HIDE DEF left
<1>7. left \in DOMAIN c /\ left < k /\ \A s \in DOMAIN c : s < k => s <= left
  BY <1>1, <1>4, <1>6
<1>8. left = Max({r \in DOMAIN c : r < k}) /\ left = SepBelow(c, k - 1)
  BY <1>3 DEF left, S, T, SepBelow
<1> HIDE DEF left
<1> QED
  BY <1>7, <1>8

LEMMA NodeChain ==
  ASSUME ChainInv, NEW i \in 1 .. 2, InUse(i)
  PROVE  ChainOK(inner[i], content[i])
BY DEF ChainInv, NodesOK, InUse

LEMMA FirstInUse ==
  ASSUME ChainInv
  PROVE  ChainOK(inner[1], content[1]) /\ InUse(1) /\ Low(inner[1]) = LowKey
<1>1. ChainOK(inner[1], content[1]) /\ Low(inner[1]) = LowKey
  BY DEF ChainInv, NodesOK
<1>2. inner[1].base.items # <<>>
  BY <1>1 DEF ChainOK, Ordered
<1>3. NoInner.base.items = <<>>
  BY DEF NoInner, NoBase
<1> QED
  BY <1>1, <1>2, <1>3 DEF InUse

LEMMA SecondInUse ==
  ASSUME ChainInv, InUse(2)
  PROVE  /\ ChainOK(inner[2], content[2]) /\ HighOf(inner[2]) = NoHigh
         /\ Merges(inner[1]) = {} /\ HighOf(inner[1]) = <<Low(inner[2]), 2>>
         /\ LowKey < Low(inner[2])
BY DEF ChainInv, NodesOK, InUse

LEMMA SecondNotInUse ==
  ASSUME ChainInv, ~InUse(2)
  PROVE  inner[2] = NoInner /\ content[2] = NoContent /\ HighOf(inner[1]) = NoHigh
<1>1. inner[2] = NoInner
  BY DEF InUse
<1>2. ~ChainOK(NoInner, content[2])
  <2>1. NoInner.base.items = <<>>
    BY DEF NoInner, NoBase
  <2> QED
    BY <2>1 DEF ChainOK, Ordered
<1> QED
  BY <1>1, <1>2 DEF ChainInv, NodesOK

LEMMA OwnsInside ==
  ASSUME ChainInv, NEW i \in 1 .. 2, NEW k \in Keys, Owns(i, k)
  PROVE  /\ ChainOK(inner[i], content[i]) /\ InUse(i) /\ Inside(inner[i], k)
         /\ k \in Nat
<1>1. k \in Nat /\ k > 0 /\ LowKey = 0 /\ INVALID_NODE_ID = 0
  BY Constants
<1>2. InUse(i) /\ (HighOf(inner[i])[2] # INVALID_NODE_ID => k < HighOf(inner[i])[1])
  BY DEF Owns
<1>3. ChainOK(inner[i], content[i])
  BY <1>2, NodeChain
<1>4. Low(inner[i]) <= k
  <2>1. CASE i = 1
    BY <1>1, <2>1, FirstInUse
  <2>2. CASE i = 2
    <3>1. k >= HighOf(inner[1])[1]
      BY <2>2 DEF Owns
    <3>2. HighOf(inner[1]) = <<Low(inner[2]), 2>>
      BY <1>2, <2>2, SecondInUse
    <3>3. Low(inner[2]) \in Nat
      BY <1>3, <2>2, ContentFacts
    <3>4. HighOf(inner[1])[1] = Low(inner[2])
      BY <3>2
    <3> QED
      BY <1>1, <2>2, <3>1, <3>3, <3>4
  <2> QED
    BY <2>1, <2>2
<1> QED
  BY <1>1, <1>2, <1>3, <1>4 DEF Inside

\* The high key pair of a child tells for the keys of its node which are below
\* the next separator.
LEMMA ChildHighEnds ==
  ASSUME ChainInv, NEW i \in 1 .. 2, InUse(i), NEW s \in Seps(i)
  PROVE  ChildHigh(i, s) \in Pairs /\ Ends(inner[i], content[i], s, ChildHigh(i, s))
<1> DEFINE c     == content[i]
           right == {r \in Seps(i) : r > s}
           next  == ChildHigh(i, s)
<1>1. ChainOK(inner[i], c)
  BY NodeChain
<1>2. /\ Seps(i) = DOMAIN c /\ DOMAIN c \in SUBSET Nat
      /\ \A r \in DOMAIN c : /\ r \in Nat /\ c[r] \in Nat
                             /\ r \in Keys \cup {LowKey} /\ Named(<<r, c[r]>>)
  BY <1>1, ContentFacts DEF Seps
<1>3. CASE right # {}
  <2> DEFINE m == Min(right)
  <2>1. right \in SUBSET Nat
    BY <1>2
  <2>2. \A r : r \in right <=> r \in DOMAIN c /\ r > s
    BY <1>2
  <2>3. next = <<m, c[m]>>
    BY <1>3 DEF ChildHigh
  <2>4. m \in right /\ \A r \in right : m <= r
    <3> HIDE DEF right
    <3> QED
      BY <1>3, <2>1, MinIn
  <2> HIDE DEF m, right, next, c
  <2>5. m \in DOMAIN c /\ m \in Nat /\ m > s /\ s \in Nat /\ c[m] \in Nat
    BY <1>2, <2>2, <2>4
  <2>6. c[m] # 0 /\ next \in Pairs /\ next[1] = m /\ next[2] = c[m]
    <3>1. c[m] = 2 * m \/ c[m] = 2 * m + 1
      BY <1>2, <2>5 DEF Named
    <3>2. next \in Pairs /\ next[1] = m /\ next[2] = c[m]
      BY <1>2, <2>3, <2>5 DEF Pairs
    <3> QED
      BY <2>5, <3>1, <3>2
  <2>7. Ends(inner[i], c, s, next)
    <3> SUFFICES ASSUME NEW k \in Nat
                 PROVE  next[2] = INVALID_NODE_ID \/ k < next[1] <=>
                          \A r \in DOMAIN c : r > s => k < r
      BY DEF Ends
    <3>1. next[2] = INVALID_NODE_ID \/ k < next[1] <=> k < m
      BY <2>6, Constants
    <3>2. ASSUME k < m, NEW r \in DOMAIN c, r > s PROVE k < r
      BY <3>2, <1>2, <2>2, <2>4, <2>5
    <3>3. ASSUME \A r \in DOMAIN c : r > s => k < r PROVE k < m
      BY <3>3, <2>5
    <3> QED
      BY <3>1, <3>2, <3>3
  <2> QED
    BY <2>6, <2>7 DEF next, c
<1>4. CASE right = {} /\ HighOf(inner[i])[2] # INVALID_NODE_ID
  <2>1. next = FirstPair(2)
    BY <1>4 DEF ChildHigh
  <2>2. InUse(2) /\ i = 1
    <3>1. NoHigh[2] = INVALID_NODE_ID
      BY DEF NoHigh
    <3>2. HighOf(inner[i]) # NoHigh
      BY <1>4, <3>1
    <3>3. CASE i = 2
      BY <3>2, <3>3, SecondInUse
    <3> QED
      BY <3>2, <3>3, SecondNotInUse
  <2> DEFINE low == Low(inner[2])
             c2  == content[2]
  <2>3. ChainOK(inner[2], c2) /\ HighOf(inner[1]) = <<low, 2>> /\ LowKey < low
    BY <2>2, SecondInUse
  <2>4. low \in DOMAIN c2 /\ low \in Nat /\ low > 0 /\ c2[low] \in Nat /\ Named(<<low, c2[low]>>)
        /\ low \in Keys \cup {LowKey}
    BY <2>3, ContentFacts, Constants
  <2>5. next = <<low, c2[low]>>
    <3>1. Min(DOMAIN c2) = low
      BY <2>3, FirstSeparator
    <3> QED
      BY <2>1, <3>1 DEF FirstPair, Seps
  <2> HIDE DEF low, c2, next
  <2>6. next \in Pairs /\ next[1] = low /\ next[2] = c2[low]
    BY <2>4, <2>5 DEF Pairs
  <2>7. \A k \in Nat : Inside(inner[i], k) => k < next[1]
    <3> TAKE k \in Nat
    <3> HAVE Inside(inner[i], k)
    <3>1. k < HighOf(inner[i])[1]
      BY <1>4 DEF Inside
    <3> QED
      BY <2>2, <2>3, <2>6, <3>1
  <2>8. \A r \in DOMAIN c : ~(r > s)
    BY <1>2, <1>4
  <2>9. Ends(inner[i], c, s, next)
    BY <2>7, <2>8 DEF Ends
  <2> QED
    BY <2>6, <2>9 DEF next
<1>5. CASE right = {} /\ HighOf(inner[i])[2] = INVALID_NODE_ID
  <2>1. next = NoHigh
    BY <1>5 DEF ChildHigh
  <2>2. next[2] = INVALID_NODE_ID /\ next \in Pairs
    BY <2>1, NoBaseType DEF NoHigh
  <2>3. \A r \in DOMAIN c : ~(r > s)
    BY <1>2, <1>5
  <2> HIDE DEF next
  <2>4. Ends(inner[i], c, s, next)
    BY <2>2, <2>3 DEF Ends
  <2> QED
    BY <2>2, <2>4 DEF next
<1> QED
  BY <1>3, <1>4, <1>5

-----------------------------------------------------------------------------
(* The invariant holds at first, and every action keeps it.                *)

LEMMA InitInv == Init => ChainInv
<1> SUFFICES ASSUME Init PROVE ChainInv
  OBVIOUS
<1> DEFINE pair  == <<LowKey, LowChild>>
           items == <<pair>>
           l     == [deltas |-> <<>>, base |-> [items |-> items, high |-> NoHigh]]
           c     == [s \in {LowKey} |-> LowChild]
<1>1. /\ DOMAIN inner = 1 .. 2 /\ DOMAIN content = 1 .. 2
      /\ inner[1] = l /\ inner[2] = NoInner /\ content[1] = c /\ content[2] = NoContent
  BY DEF Init
<1>2. pair \in Pairs /\ pair[1] = 0 /\ pair[2] = 1 /\ Named(pair)
  BY Constants DEF Pairs, Named
<1> HIDE DEF pair
<1>3. items \in Seq(Pairs) /\ items # <<>> /\ DOMAIN items = {1} /\ items[1] = pair
  BY <1>2
<1> HIDE DEF items
<1>4. Ordered(items)
  BY <1>2, <1>3 DEF Ordered
<1>5. DOMAIN c = {0} /\ c[0] = 1 /\ c = [s \in DOMAIN c |-> c[s]]
  BY Constants
<1> HIDE DEF c
<1>6. Lists(items, c)
  BY <1>2, <1>3, <1>5 DEF Lists
<1>7. NoHigh[2] = INVALID_NODE_ID /\ NoHigh \in Pairs
  BY NoBaseType DEF NoHigh
<1>8. ChainOK(l, c)
  BY <1>3, <1>4, <1>5, <1>6, <1>7, BaseChain
<1>9. HighOf(l) = NoHigh /\ Low(l) = LowKey
  BY <1>2, <1>3, Constants DEF HighOf, Low, LowPairOf
<1> HIDE DEF l
<1> QED
  BY <1>1, <1>8, <1>9 DEF ChainInv, NodesOK

\* An action that changes one node and neither its keys nor its high key.
LEMMA OneNode ==
  ASSUME ChainInv, NEW i \in 1 .. 2, InUse(i), NEW l, NEW c, ChainOK(l, c),
         Low(l) = Low(inner[i]), HighOf(l) = HighOf(inner[i]),
         Merges(inner[i]) = {} => Merges(l) = {},
         DOMAIN inner' = 1 .. 2, DOMAIN content' = 1 .. 2,
         inner'[i] = l, content'[i] = c,
         \A j \in 1 .. 2 : j # i => inner'[j] = inner[j] /\ content'[j] = content[j]
  PROVE  ChainInv'
<1>1. CASE i = 1
  <2>1. inner'[1] = l /\ content'[1] = c /\ inner'[2] = inner[2] /\ content'[2] = content[2]
    BY <1>1
  <2>2. NodesOK(inner[1], inner[2], content[1], content[2])
    BY DEF ChainInv
  <2>3. NodesOK(l, inner[2], c, content[2])
    BY <1>1, <2>2 DEF NodesOK
  <2> QED
    BY <2>1, <2>3 DEF ChainInv
<1>2. CASE i = 2
  <2>1. inner'[1] = inner[1] /\ content'[1] = content[1] /\ inner'[2] = l /\ content'[2] = c
    BY <1>2
  <2>2. NodesOK(inner[1], inner[2], content[1], content[2]) /\ inner[2] # NoInner
    BY <1>2 DEF ChainInv, InUse
  <2>3. NodesOK(inner[1], l, content[1], c)
    BY <1>2, <2>2 DEF NodesOK
  <2> QED
    BY <2>1, <2>3 DEF ChainInv
<1> QED
  BY <1>1, <1>2

LEMMA PostedFields ==
  ASSUME NEW l \in Chains, NEW d \in Deltas, IsData(d), d.high = HighOf(l)
  PROVE  /\ Low(Push(l, d)) = Low(l) /\ HighOf(Push(l, d)) = HighOf(l)
         /\ Merges(l) = {} => Merges(Push(l, d)) = {}
<1>1. Low(Push(l, d)) = Low(l) /\ HighOf(Push(l, d)) = d.high
  BY PushFields
<1>2. Merges(Push(l, d)) = Shift(Merges(l))
  BY PushTurns
<1> QED
  BY <1>1, <1>2 DEF Shift

LEMMA PostSeparatorInv ==
  ASSUME ChainInv, NEW i \in 1 .. 2, NEW k \in Keys, PostSeparator(i, k)
  PROVE  ChainInv'
<1> DEFINE l    == inner[i]
           c    == content[i]
           at   == Locate(l, k).location
           next == ChildHigh(i, SepFor(i, k))
<1>1. Owns(i, k) /\ k \notin DOMAIN c /\ Seps(i) = DOMAIN c
  BY DEF PostSeparator, Seps
<1>2. PICK id \in IdsFor(k) :
        /\ inner' = [inner EXCEPT ![i] = Push(l, InnerInsertNode(l, <<k, id>>, next, at))]
        /\ content' = [content EXCEPT ![i] = [s \in Seps(i) \cup {k} |->
                                                IF s = k THEN id ELSE content[i][s]]]
  BY DEF PostSeparator
<1> DEFINE d  == InnerInsertNode(l, <<k, id>>, next, at)
           l2 == Push(l, d)
           c2 == [s \in DOMAIN c \cup {k} |-> IF s = k THEN id ELSE c[s]]
<1>3. ChainOK(l, c) /\ InUse(i) /\ Inside(l, k) /\ k \in Nat
  BY <1>1, OwnsInside
<1>4. Low(l) < k /\ Low(l) \in Nat /\ Low(l) \in DOMAIN c
  <2>1. Low(l) \in Nat /\ Low(l) \in DOMAIN c
    BY <1>3, ContentFacts
  <2>2. Low(l) <= k
    BY <1>3 DEF Inside
  <2> QED
    BY <2>1, <2>2, <1>1, <1>3
<1>5. SepFor(i, k) = SepBelow(c, k) /\ SepBelow(c, k) \in DOMAIN c
  <2>1. DOMAIN c \in SUBSET Nat /\ IsFiniteSet(DOMAIN c)
    BY <1>3, ContentFacts
  <2>2. SepBelow(c, k) \in DOMAIN c
    BY <2>1, <1>3, <1>4, SepBelowIn
  <2> QED
    BY <2>2 DEF SepFor, SepBelow, Seps
<1>6. next \in Pairs /\ Ends(l, c, SepBelow(c, k), next)
  BY <1>1, <1>3, <1>5, ChildHighEnds
<1>7. at \in Nat /\ Located(l, d)
  <2>1. d.item[1] = k /\ d.location = at
    BY DEF InnerInsertNode
  <2> HIDE DEF d
  <2> QED
    BY <2>1, <1>3, <1>4, LocateExact
<1>8. d \in Deltas /\ IsData(d) /\ d.high = HighOf(l)
  <2>1. l \in Chains
    BY <1>3 DEF ChainOK
  <2>2. <<k, id>> \in Pairs
    <3>1. id \in Nat
      BY <1>3 DEF IdsFor
    <3> QED
      BY <3>1 DEF Pairs
  <2>3. CountOf(l) + 1 \in Nat /\ HighOf(l) \in Pairs
    BY <2>1, HighType
  <2> HIDE DEF next, at, l
  <2>4. d \in Deltas
    BY <2>2, <2>3, <1>6, <1>7, NoBaseType DEF InnerInsertNode, Deltas, DeltaTypes
  <2>5. d.high = HighOf(l) /\ d.type = "insert"
    BY DEF InnerInsertNode
  <2> QED
    BY <2>4, <2>5 DEF IsData
<1>9. ChainOK(l2, c2)
  <2> HIDE DEF l, c, next, at
  <2> QED
    BY <1>1, <1>3, <1>5, <1>6, <1>7, InsertChain
<1>10. /\ Low(l2) = Low(l) /\ HighOf(l2) = HighOf(l)
       /\ Merges(l) = {} => Merges(l2) = {}
  <2>1. l \in Chains
    BY <1>3 DEF ChainOK
  <2> HIDE DEF d, l
  <2> QED
    BY <2>1, <1>8, PostedFields
<1>11. /\ DOMAIN inner' = 1 .. 2 /\ DOMAIN content' = 1 .. 2 /\ inner'[i] = l2 /\ content'[i] = c2
       /\ \A j \in 1 .. 2 : j # i => inner'[j] = inner[j] /\ content'[j] = content[j]
  <2>1. DOMAIN inner = 1 .. 2 /\ DOMAIN content = 1 .. 2
    BY DEF ChainInv
  <2>2. inner' = [inner EXCEPT ![i] = l2] /\ content' = [content EXCEPT ![i] = c2]
    BY <1>2 DEF Seps
  <2> HIDE DEF l2, c2
  <2> QED
    BY <2>1, <2>2
<1> HIDE DEF l2, c2
<1> QED
  BY <1>3, <1>9, <1>10, <1>11, OneNode

LEMMA RemoveSeparatorInv ==
  ASSUME ChainInv, NEW i \in 1 .. 2, NEW k \in Keys, RemoveSeparator(i, k)
  PROVE  ChainInv'
<1> DEFINE l    == inner[i]
           c    == content[i]
           at   == Locate(l, k).location
           left == SepLeftOf(i, k)
           next == ChildHigh(i, k)
           d    == InnerDeleteNode(l, <<k, c[k]>>, <<left, c[left]>>, next, at)
           l2   == Push(l, d)
           c2   == Restrict(c, DOMAIN c \ {k})
<1>1. /\ InUse(i) /\ k \in DOMAIN c /\ k # Min(DOMAIN c)
      /\ inner' = [inner EXCEPT ![i] = l2] /\ content' = [content EXCEPT ![i] = c2]
  BY DEF RemoveSeparator, Seps
<1>2. ChainOK(l, c)
  BY <1>1, NodeChain
<1>3. /\ k \in Nat /\ Inside(l, k) /\ Low(l) < k /\ c[k] \in Nat
      /\ DOMAIN c \in SUBSET Nat
      /\ \A s \in DOMAIN c : c[s] \in Nat /\ s \in Keys \cup {LowKey}
  <2>1. k # Low(l)
    BY <1>1, <1>2, FirstSeparator
  <2>2. /\ k \in Nat /\ Inside(l, k) /\ Low(l) <= k /\ Low(l) \in Nat /\ DOMAIN c \in SUBSET Nat
        /\ \A s \in DOMAIN c : c[s] \in Nat /\ s \in Keys \cup {LowKey}
    BY <1>1, <1>2, ContentFacts
  <2> QED
    BY <2>1, <2>2, <1>1
<1>4. left \in DOMAIN c /\ left < k /\ \A s \in DOMAIN c : s < k => s <= left
  <2>1. left = Max({r \in DOMAIN c : r < k})
    BY DEF SepLeftOf, Seps
  <2> HIDE DEF left
  <2> QED
    BY <2>1, <1>2, <1>3, SeparatorLeft
<1>5. next \in Pairs /\ Ends(l, c, k, next)
  BY <1>1, ChildHighEnds DEF Seps
<1>6. at \in Nat /\ Located(l, d)
  <2>1. d.item[1] = k /\ d.location = at
    BY DEF InnerDeleteNode
  <2> HIDE DEF d
  <2> QED
    BY <2>1, <1>2, <1>3, LocateExact
<1>7. ChainOK(l2, c2)
  <2> HIDE DEF l, c, next, at, left
  <2> QED
    BY <1>1, <1>2, <1>3, <1>4, <1>5, <1>6, DeleteChain
<1>8. d \in Deltas /\ IsData(d) /\ d.high = HighOf(l)
  <2>1. l \in Chains /\ CountOf(l) = Cardinality(DOMAIN c) /\ IsFiniteSet(DOMAIN c)
    BY <1>2, ContentFacts DEF ChainOK
  <2>2. <<k, c[k]>> \in Pairs /\ <<left, c[left]>> \in Pairs
    BY <1>3, <1>4 DEF Pairs
  <2>3. CountOf(l) - 1 \in Nat /\ HighOf(l) \in Pairs
    <3>1. CountOf(l) \in Nat /\ HighOf(l) \in Pairs
      BY <2>1, HighType
    <3>2. CountOf(l) # 0
      BY <2>1, <1>1, FS_EmptySet
    <3> QED
      BY <3>1, <3>2
  <2> HIDE DEF next, at, l, c, left
  <2>4. d \in Deltas
    BY <2>2, <2>3, <1>5, <1>6, NoBaseType DEF InnerDeleteNode, Deltas, DeltaTypes
  <2>5. d.high = HighOf(l) /\ d.type = "delete"
    BY DEF InnerDeleteNode
  <2> QED
    BY <2>4, <2>5 DEF IsData
<1>9. /\ Low(l2) = Low(l) /\ HighOf(l2) = HighOf(l)
      /\ Merges(l) = {} => Merges(l2) = {}
  <2>1. l \in Chains
    BY <1>2 DEF ChainOK
  <2> HIDE DEF d, l
  <2> QED
    BY <2>1, <1>8, PostedFields
<1>10. /\ DOMAIN inner' = 1 .. 2 /\ DOMAIN content' = 1 .. 2 /\ inner'[i] = l2 /\ content'[i] = c2
       /\ \A j \in 1 .. 2 : j # i => inner'[j] = inner[j] /\ content'[j] = content[j]
  <2>1. DOMAIN inner = 1 .. 2 /\ DOMAIN content = 1 .. 2
    BY DEF ChainInv
  <2> HIDE DEF l2, c2
  <2> QED
    BY <2>1, <1>1
<1> HIDE DEF l2, c2
<1> QED
  BY <1>1, <1>7, <1>9, <1>10, OneNode

LEMMA ConsolidateInv ==
  ASSUME ChainInv, NEW i \in 1 .. 2, Consolidate(i)
  PROVE  ChainInv'
<1> DEFINE l2 == Consolidated(inner[i])
           c  == content[i]
<1>1. InUse(i) /\ inner' = [inner EXCEPT ![i] = l2] /\ content' = content
  BY DEF Consolidate
<1>2. ChainOK(inner[i], c)
  BY <1>1, NodeChain
<1>3. /\ ChainOK(l2, c) /\ Merges(l2) = {} /\ Low(l2) = Low(inner[i])
      /\ HighOf(l2) = HighOf(inner[i])
  BY <1>2, ConsolidatedChain
<1>4. /\ DOMAIN inner' = 1 .. 2 /\ DOMAIN content' = 1 .. 2 /\ inner'[i] = l2 /\ content'[i] = c
      /\ \A j \in 1 .. 2 : j # i => inner'[j] = inner[j] /\ content'[j] = content[j]
  <2>1. DOMAIN inner = 1 .. 2 /\ DOMAIN content = 1 .. 2
    BY DEF ChainInv
  <2> HIDE DEF l2
  <2> QED
    BY <2>1, <1>1
<1> HIDE DEF l2, c
<1> QED
  BY <1>1, <1>3, <1>4, OneNode

\* A node whose newest delta is of type base has no deltas.
LEMMA BaseOnly ==
  ASSUME NEW l \in Chains, TypeOf(l) = "base"
  PROVE  l.deltas = <<>>
<1> SUFFICES ASSUME l.deltas # <<>> PROVE FALSE
  OBVIOUS
<1>1. Head(l.deltas) \in Deltas
  BY ChainFields
<1>2. Head(l.deltas).type \in DeltaTypes
  BY <1>1, DeltaFields
<1> QED
  BY <1>2 DEF TypeOf, DeltaTypes

LEMMA SplitInv ==
  ASSUME ChainInv, Split
  PROVE  ChainInv'
<1> DEFINE l   == inner[1]
           c   == content[1]
           new == SplitSibling(l.base)
           key == new.items[1][1]
           l1  == Push(l, InnerSplitNode(l, new, 2))
           l2  == [deltas |-> <<>>, base |-> new]
           c1  == Restrict(c, {s \in DOMAIN c : s < key})
           c2  == Restrict(c, {s \in DOMAIN c : s >= key})
<1>1. /\ TypeOf(l) = "base" /\ ~InUse(2) /\ Len(l.base.items) >= UpperThreshold
      /\ inner' = <<l1, l2>> /\ content' = <<c1, c2>>
  BY DEF Split, Seps
<1>2. ChainOK(l, c) /\ Low(l) = LowKey /\ HighOf(l) = NoHigh
  BY <1>1, FirstInUse, SecondNotInUse
<1>3. l.deltas = <<>>
  BY <1>1, <1>2, BaseOnly DEF ChainOK
<1>4. l.base.high = NoHigh
  BY <1>2, <1>3 DEF HighOf
<1>5. /\ ChainOK(l1, c1) /\ ChainOK(l2, c2)
      /\ Merges(l1) = {} /\ Low(l1) = Low(l) /\ HighOf(l1) = <<Low(l2), 2>>
      /\ HighOf(l2) = NoHigh /\ Low(l) < Low(l2)
  <2> HIDE DEF l, c
  <2> QED
    BY <1>1, <1>2, <1>3, <1>4, SplitChains
<1> HIDE DEF l1, l2, c1, c2
<1>6. NodesOK(l1, l2, c1, c2)
  BY <1>2, <1>5 DEF NodesOK
<1>7. /\ DOMAIN inner' = 1 .. 2 /\ DOMAIN content' = 1 .. 2
      /\ inner'[1] = l1 /\ inner'[2] = l2 /\ content'[1] = c1 /\ content'[2] = c2
  BY <1>1
<1> QED
  BY <1>6, <1>7 DEF ChainInv

LEMMA MergeInv ==
  ASSUME ChainInv, Merge
  PROVE  ChainInv'
<1> DEFINE l  == inner[1]
           r  == inner[2]
           c  == content[1]
           c2 == content[2]
           l2 == Push(l, InnerMergeNode(l, r.base, 2))
           c3 == [s \in DOMAIN c \cup DOMAIN c2 |-> IF s \in DOMAIN c THEN c[s] ELSE c2[s]]
<1>1. /\ InUse(2) /\ TypeOf(r) = "base"
      /\ inner' = <<l2, NoInner>> /\ content' = <<c3, NoContent>>
  BY DEF Merge, Seps
<1>2. ChainOK(l, c) /\ Low(l) = LowKey
  BY FirstInUse
<1>3. /\ ChainOK(r, c2) /\ HighOf(r) = NoHigh /\ Merges(l) = {} /\ HighOf(l) = <<Low(r), 2>>
      /\ LowKey < Low(r)
  BY <1>1, SecondInUse
<1>4. r.deltas = <<>>
  BY <1>1, <1>3, BaseOnly DEF ChainOK
<1>5. ChainOK(l2, c3) /\ HighOf(l2) = NoHigh /\ Low(l2) = Low(l)
  <2> HIDE DEF l, r, c, c2
  <2> QED
    BY <1>2, <1>3, <1>4, MergeChain
<1> HIDE DEF l2, c3
<1>6. NodesOK(l2, NoInner, c3, NoContent)
  BY <1>2, <1>5 DEF NodesOK
<1>7. /\ DOMAIN inner' = 1 .. 2 /\ DOMAIN content' = 1 .. 2
      /\ inner'[1] = l2 /\ inner'[2] = NoInner /\ content'[1] = c3 /\ content'[2] = NoContent
  BY <1>1
<1> QED
  BY <1>6, <1>7 DEF ChainInv

LEMMA NextInv == ChainInv /\ [Next]_vars => ChainInv'
<1> SUFFICES ASSUME ChainInv, [Next]_vars PROVE ChainInv'
  OBVIOUS
<1>1. ASSUME NEW i \in 1 .. 2, NEW k \in Keys, PostSeparator(i, k) PROVE ChainInv'
  BY <1>1, PostSeparatorInv
<1>2. ASSUME NEW i \in 1 .. 2, NEW k \in Keys, RemoveSeparator(i, k) PROVE ChainInv'
  BY <1>2, RemoveSeparatorInv
<1>3. ASSUME NEW i \in 1 .. 2, Consolidate(i) PROVE ChainInv'
  BY <1>3, ConsolidateInv
<1>4. CASE Split
  BY <1>4, SplitInv
<1>5. CASE Merge
  BY <1>5, MergeInv
<1>6. CASE UNCHANGED vars
  <2>1. inner' = inner /\ content' = content
    BY <1>6 DEF vars
  <2> QED
    BY <2>1 DEF ChainInv
<1> QED
  BY <1>1, <1>2, <1>3, <1>4, <1>5, <1>6 DEF Next

-----------------------------------------------------------------------------
(* The properties                                                          *)

LEMMA ChainTyped ==
  ASSUME ChainInv, NEW i \in 1 .. 2, InUse(i)
  PROVE  /\ inner[i].base \in BaseType
         /\ content[i] \in [Seps(i) -> Nat] /\ Seps(i) \subseteq Keys \cup {LowKey}
         /\ \A n \in DOMAIN inner[i].deltas :
              LET d == inner[i].deltas[n]
              IN  /\ d.type \in {"insert", "delete", "split", "merge"}
                  /\ d.item \in Pairs /\ d.prev \in Pairs /\ d.next \in Pairs
                  /\ d.right \in BaseType /\ d.high \in Pairs /\ d.count \in Nat
                  /\ IsData(d) =>
                       LET items == BaseFor(inner[i], RightTurns(inner[i], d.item[1])).items
                       IN  /\ d.location \in 1 .. Len(items) + 1
                           /\ \A p \in DOMAIN items :
                                p < d.location <=> \/ items[p][1] < d.item[1]
                                                   \/ items[p] = LowPairOf(inner[i])
<1> DEFINE l == inner[i]
           c == content[i]
<1>1. ChainOK(l, c)
  BY NodeChain
<1>2. l \in Chains /\ DeltasSound(l) /\ ContentSound(l, c)
  BY <1>1 DEF ChainOK
<1>3. l.base \in BaseType
  BY <1>2, ChainFields
<1>4. c \in [DOMAIN c -> Nat] /\ DOMAIN c \subseteq Keys \cup {LowKey}
  BY <1>2 DEF ContentSound
<1>5. ASSUME NEW n \in DOMAIN l.deltas
      PROVE  LET d == l.deltas[n]
             IN  /\ d.type \in {"insert", "delete", "split", "merge"}
                 /\ d.item \in Pairs /\ d.prev \in Pairs /\ d.next \in Pairs
                 /\ d.right \in BaseType /\ d.high \in Pairs /\ d.count \in Nat
                 /\ IsData(d) => Located(l, d)
  <2> DEFINE d == l.deltas[n]
  <2>1. d \in Deltas
    BY <1>2, ChainFields
  <2>2. IsData(d) => Located(l, d)
    BY <1>2 DEF DeltasSound
  <2> HIDE DEF d
  <2>3. /\ d.type \in {"insert", "delete", "split", "merge"}
        /\ d.item \in Pairs /\ d.prev \in Pairs /\ d.next \in Pairs
        /\ d.right \in BaseType /\ d.high \in Pairs /\ d.count \in Nat
    BY <2>1, DeltaFields DEF DeltaTypes
  <2> QED
    BY <2>2, <2>3 DEF d
<1> QED
  BY <1>3, <1>4, <1>5 DEF Located, Seps

\* The parts of NavigateExact for one node and one key.
LEMMA NavigateOne ==
  ASSUME ChainInv, NEW i \in 1 .. 2, NEW k \in Keys, Owns(i, k)
  PROVE  NavigateInnerNode(inner[i], k) = ChildFor(i, k)
<1> DEFINE l == inner[i]
           c == content[i]
<1>1. ChainOK(l, c) /\ Inside(l, k) /\ k \in Nat
  BY OwnsInside
<1> HIDE DEF l, c
<1>2. NavigateInnerNode(l, k) = Walk(l, k)
  BY <1>1, NavigateIsWalk
<1>3. Walk(l, k) = c[SepBelow(c, k)]
  BY <1>1 DEF ChainOK, WalkExact
<1> QED
  BY <1>2, <1>3 DEF l, c, ChildFor, SepFor, SepBelow, Seps

LEMMA NavigateOneBI ==
  ASSUME ChainInv, NEW i \in 1 .. 2, NEW k \in Keys, Owns(i, k), k > Min(Seps(i)),
         \A n \in DOMAIN inner[i].deltas : inner[i].deltas[n].next[1] # k
  PROVE  NavigateInnerNodeBI(inner[i], k) = content[i][SepLeftOf(i, k)]
<1> DEFINE l    == inner[i]
           c    == content[i]
           left == SepLeftOf(i, k)
<1>1. ChainOK(l, c) /\ Inside(l, k) /\ k \in Nat
  BY OwnsInside
<1>2. Low(l) < k /\ Low(l) \in Nat
  <2>1. Low(l) \in Nat /\ Min(DOMAIN c) = Low(l)
    BY <1>1, ContentFacts, FirstSeparator
  <2> QED
    BY <2>1, <1>1 DEF Seps
<1>3. left = Max({r \in DOMAIN c : r < k})
  BY DEF SepLeftOf, Seps
<1>4. \A n \in DOMAIN l.deltas : l.deltas[n].next[1] # k
  OBVIOUS
<1>5. HighOf(l)[1] \in Nat
  BY <1>1, HighType DEF ChainOK
<1> HIDE DEF l, c, left
<1>6. NavigateInnerNodeBI(l, k) = Walk(l, k - 1)
  BY <1>1, <1>2, <1>4, NavigateBackwards
<1>7. Walk(l, k - 1) = c[SepBelow(c, k - 1)]
  <2>1. k - 1 \in Nat /\ Inside(l, k - 1)
    BY <1>1, <1>2, <1>5 DEF Inside
  <2> DEFINE j == k - 1
  <2> HIDE DEF j
  <2>2. j \in Nat /\ Inside(l, j)
    BY <2>1 DEF j
  <2>3. Walk(l, j) = c[SepBelow(c, j)]
    BY <1>1, <2>2 DEF ChainOK, WalkExact
  <2> QED
    BY <2>3 DEF j
<1>8. left = SepBelow(c, k - 1)
  BY <1>1, <1>2, <1>3, SeparatorLeft
<1>9. NavigateInnerNodeBI(l, k) = c[left]
  BY <1>6, <1>7, <1>8
<1> QED
  BY <1>9 DEF l, c, left

LEMMA LocateOne ==
  ASSUME ChainInv, NEW i \in 1 .. 2, NEW k \in Keys, Owns(i, k), k # Min(Seps(i))
  PROVE  LET at == Locate(inner[i], k)
         IN  (at.found <=> k \in Seps(i)) /\ (at.found => at.id = content[i][k])
<1> DEFINE l == inner[i]
           c == content[i]
<1>1. ChainOK(l, c) /\ Inside(l, k) /\ k \in Nat
  BY OwnsInside
<1>2. Low(l) < k
  <2>1. Low(l) \in Nat /\ Min(DOMAIN c) = Low(l)
    BY <1>1, ContentFacts, FirstSeparator
  <2>2. Low(l) <= k /\ k # Low(l)
    BY <1>1, <2>1 DEF Inside, Seps
  <2> QED
    BY <2>1, <2>2, <1>1
<1> DEFINE at == Locate(l, k)
<1>3. (at.found <=> k \in DOMAIN c) /\ (at.found => at.id = c[k])
  <2> HIDE DEF l, c
  <2>1. Locate(l, k).found <=> k \in DOMAIN c
    BY <1>1, <1>2, LocateExact
  <2>2. Locate(l, k).found => Locate(l, k).id = c[k]
    BY <1>1, <1>2, LocateExact
  <2> QED
    BY <2>1, <2>2
<1> QED
  BY <1>3 DEF Seps

LEMMA NavigateInv == ChainInv => NavigateExact
<1> SUFFICES ASSUME ChainInv PROVE NavigateExact
  OBVIOUS
<1>1. ASSUME NEW i \in 1 .. 2, NEW k \in Keys, Owns(i, k)
      PROVE  /\ NavigateInnerNode(inner[i], k) = ChildFor(i, k)
             /\ k > Min(Seps(i)) /\ (\A n \in DOMAIN inner[i].deltas : inner[i].deltas[n].next[1] # k)
                  => NavigateInnerNodeBI(inner[i], k) = content[i][SepLeftOf(i, k)]
             /\ k # Min(Seps(i)) =>
                  LET at == Locate(inner[i], k)
                  IN  (at.found <=> k \in Seps(i)) /\ (at.found => at.id = content[i][k])
  BY <1>1, NavigateOne, NavigateOneBI, LocateOne
<1> QED
  BY <1>1 DEF NavigateExact

LEMMA LeftSiblingInv == ChainInv => LeftSiblingExact
<1> SUFFICES ASSUME ChainInv, NEW i \in 1 .. 2, InUse(i), NEW s \in Seps(i) \ {Min(Seps(i))}
             PROVE  FindLeftSibling(inner[i], s) = content[i][SepLeftOf(i, s)]
  BY DEF LeftSiblingExact
<1> DEFINE l    == inner[i]
           c    == content[i]
           left == SepLeftOf(i, s)
<1>1. ChainOK(l, c) /\ s \in DOMAIN c
  BY NodeChain DEF Seps
<1>2. s \in Nat /\ Low(l) < s
  <2>1. Low(l) \in Nat /\ Min(DOMAIN c) = Low(l) /\ s \in Nat /\ Low(l) <= s
    BY <1>1, ContentFacts, FirstSeparator
  <2>2. s # Low(l)
    BY <2>1 DEF Seps
  <2> QED
    BY <2>1, <2>2
<1>3. left = Max({r \in DOMAIN c : r < s})
  BY DEF SepLeftOf, Seps
<1> HIDE DEF l, c, left
<1>4. left \in DOMAIN c /\ left < s /\ \A r \in DOMAIN c : r < s => r <= left
  BY <1>1, <1>2, <1>3, SeparatorLeft
<1>5. FindLeftSibling(l, s) = c[left]
  BY <1>1, <1>4, FindLeftExact
<1> QED
  BY <1>5 DEF l, c, left

LEMMA ConsolidationInv == ChainInv => ConsolidationExact
<1> SUFFICES ASSUME ChainInv, NEW i \in 1 .. 2, InUse(i)
             PROVE  LET items == Collect(inner[i])
                    IN  /\ ToSet(items) = {<<s, content[i][s]>> : s \in Seps(i)}
                        /\ Len(items) = Cardinality(Seps(i)) /\ Len(items) = CountOf(inner[i])
                        /\ \A n \in 1 .. Len(items) - 1 : items[n][1] < items[n + 1][1]
  BY DEF ConsolidationExact
<1> DEFINE l == inner[i]
           c == content[i]
<1>1. ChainOK(l, c)
  BY NodeChain
<1>2. /\ Len(Collect(l)) = Cardinality(DOMAIN c) /\ Len(Collect(l)) = CountOf(l)
      /\ ToSet(Collect(l)) = {<<s, c[s]>> : s \in DOMAIN c}
      /\ \A n \in 1 .. Len(Collect(l)) - 1 : Collect(l)[n][1] < Collect(l)[n + 1][1]
  BY <1>1, CollectExact
<1> QED
  BY <1>2 DEF Seps

LEMMA Invariant == Spec => []ChainInv
BY InitInv, NextInv, PTL DEF Spec

\* Every field of the two chains has its type in every state, and the location
\* of a delta cuts the items of the base node it is about: the program uses it
\* to narrow the binary search (bwtree.h, NavigateInnerNode).
THEOREM InnerTypeCorrect == Spec => []TypeOK
<1>1. ChainInv => TypeOK
  BY ChainTyped DEF TypeOK
<1> QED
  BY <1>1, Invariant, PTL

\* A traversal that owns its key goes down to the child which holds it, and a
\* thread that completes a split or a merge finds whether the separator is there:
\* for all keys, thresholds and lengths of chains.  Backward iteration goes to the
\* child left of its key on chains without a delta whose next separator is the key;
\* nothing is claimed of the others, where NavigateInnerNodeBI() goes wrong.
THEOREM WalksAreExact == Spec => []NavigateExact
BY NavigateInv, Invariant, PTL

\* A removed child finds the separator left of its own, for chains of any shape.
THEOREM LeftSiblingsAreExact == Spec => []LeftSiblingExact
BY LeftSiblingInv, Invariant, PTL

\* Consolidation lists every separator once, in order, with its child, and as
\* many of them as the newest delta has counted.
THEOREM ConsolidationsAreExact == Spec => []ConsolidationExact
BY ConsolidationInv, Invariant, PTL

=============================================================================
