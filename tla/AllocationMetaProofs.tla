------------------------ MODULE AllocationMetaProofs ------------------------
(***************************************************************************)
(* For any number of threads, chunks and delta sizes: the memory handed    *)
(* out for deltas never overlaps, a chunk underflows by no more than one   *)
(* subtraction of every thread, and Destroy() leaves no chunk behind.      *)
(***************************************************************************)
EXTENDS AllocationMeta, FiniteSetTheorems, TLAPS

USE AllocationAssumption DEF AllocationAssumption

LEMMA SizesNat == \A s \in Sizes : s \in Nat /\ 1 <= s /\ s <= MaxSize
<1> SUFFICES ASSUME NEW s \in Sizes PROVE s \in Nat /\ 1 <= s /\ s <= MaxSize
  OBVIOUS
<1>1. s \in 1 .. MaxSize
  OBVIOUS
<1> QED
  BY <1>1

-----------------------------------------------------------------------------
(* First invariant: types, without the lower bound of the tails.           *)

Types ==
  /\ tail \in [Chunks -> Int] /\ \A c \in Chunks : tail[c] <= ChunkBytes
  /\ next \in [Chunks -> Chunks \cup {NULL}]
  /\ heap \subseteq Chunks
  /\ slots \in Seq(Slot)
  /\ pc \in [Threads -> ThreadPC]
  /\ at \in [Threads -> Chunks]
  /\ size \in [Threads -> Sizes \cup {0}]
  /\ own \in [Threads -> Chunks \cup {NULL}]
  /\ gc \in {"idle", "freeing", "freed"}
  /\ gcAt \in Chunks \cup {NULL}

\* A thread in GrowChunk()'s CAS has a new chunk, one in Allocate() a size.
Working ==
  /\ \A t \in Threads : pc[t] = "cas" <=> own[t] # NULL
  /\ \A t \in Threads : pc[t] # "idle" => size[t] \in Sizes
  /\ gc # "idle" => \A t \in Threads : pc[t] = "idle"
  /\ gc = "freeing" => gcAt \in Chunks

TypeInv == Types /\ Working

LEMMA TypeInvInit == Init => TypeInv
BY DEF Init, TypeInv, Types, Working, ThreadPC

LEMMA TypeInvNext == TypeInv /\ [Next]_vars => TypeInv'
<1> SUFFICES ASSUME TypeInv, [Next]_vars PROVE TypeInv'
  OBVIOUS
<1> USE DEF TypeInv, Types, Working, ThreadPC, Go, GoOnAt
<1>1. ASSUME NEW t \in Threads, Allocate(t) PROVE TypeInv'
  BY <1>1 DEF Allocate
<1>2. ASSUME NEW t \in Threads, TestTail(t) PROVE TypeInv'
  BY <1>2 DEF TestTail
<1>3. ASSUME NEW t \in Threads, SubTail(t) PROVE TypeInv'
  <2> DEFINE newTail == tail[at[t]] - size[t]
  <2>1. newTail \in Int /\ newTail <= ChunkBytes /\ size[t] \in Sizes /\ size[t] \in Nat
    <3>1. at[t] \in Chunks /\ tail[at[t]] \in Int /\ tail[at[t]] <= ChunkBytes
      OBVIOUS
    <3>2. size[t] \in Sizes
      BY <1>3 DEF SubTail
    <3>3. size[t] \in Nat
      BY <3>2, SizesNat
    <3> QED
      BY <3>1, <3>2, <3>3
  <2>2. [chunk |-> at[t], low |-> newTail, high |-> newTail + size[t]] \in Slot
    BY <2>1 DEF Slot
  <2> DEFINE slot == [chunk |-> at[t], low |-> newTail, high |-> newTail + size[t]]
  <2>3. slots' \in Seq(Slot)
    <3>1. slots' = slots \/ slots' = Append(slots, slot)
      BY <1>3 DEF SubTail
    <3>2. slot \in Slot
      BY <2>2
    <3>3. slots \in Seq(Slot)
      OBVIOUS
    <3> HIDE DEF slot, TypeInv, Types
    <3> QED
      BY <3>1, <3>2, <3>3
  <2>4. tail' \in [Chunks -> Int] /\ \A c \in Chunks : tail'[c] <= ChunkBytes
    BY <1>3, <2>1 DEF SubTail
  <2>5. pc' \in [Threads -> ThreadPC] /\ \A u \in Threads : u # t => pc'[u] = pc[u]
    BY <1>3 DEF SubTail
  <2>6. pc'[t] \in {"idle", "next"} /\ pc[t] = "sub"
    BY <1>3 DEF SubTail
  <2>7. UNCHANGED <<next, heap, at, size, own, gc, gcAt>>
    BY <1>3 DEF SubTail
  <2> QED
    BY <2>3, <2>4, <2>5, <2>6, <2>7
<1>4. ASSUME NEW t \in Threads, FollowNext(t) PROVE TypeInv'
  BY <1>4 DEF FollowNext
<1>5. ASSUME NEW t \in Threads, NewChunk(t) PROVE TypeInv'
  BY <1>5 DEF NewChunk
<1>6. ASSUME NEW t \in Threads, LinkChunk(t) PROVE TypeInv'
  BY <1>6 DEF LinkChunk
<1>7. ASSUME NEW t \in Threads, DropChunk(t) PROVE TypeInv'
  BY <1>7 DEF DropChunk, NextUnset
<1>8. CASE Destroy
  BY <1>8 DEF Destroy, threadVars
<1>9. CASE DestroyChunk
  BY <1>9 DEF DestroyChunk, threadVars
<1>10. CASE UNCHANGED vars
  BY <1>10 DEF vars, threadVars
<1> QED
  BY <1>1, <1>2, <1>3, <1>4, <1>5, <1>6, <1>7, <1>8, <1>9, <1>10 DEF Next, Finished

LEMMA TypeInvAlways == Spec => []TypeInv
BY TypeInvInit, TypeInvNext, PTL DEF Spec

-----------------------------------------------------------------------------
(* Second invariant: the underflow.  What the threads that have passed the *)
(* test may still subtract from a chunk is paid for in advance.            *)

Subs(c)  == {t \in Threads : pc[t] = "sub" /\ at[t] = c}
TailInv  == \A c \in Chunks :
              tail[c] >= MaxSize * Cardinality(Subs(c)) - Cardinality(Threads) * MaxSize

LEMMA SubsFinite ==
  ASSUME NEW c
  PROVE  /\ IsFiniteSet(Subs(c)) /\ Cardinality(Subs(c)) \in Nat
         /\ Cardinality(Threads) \in Nat /\ Cardinality(Subs(c)) <= Cardinality(Threads)
<1>1. Subs(c) \in SUBSET Threads
  BY DEF Subs
<1>2. IsFiniteSet(Subs(c)) /\ Cardinality(Subs(c)) <= Cardinality(Threads)
  BY <1>1, FS_Subset
<1> QED
  BY <1>2, FS_CardinalityType

LEMMA Monotone ==
  ASSUME NEW m \in Nat, NEW i \in Nat, NEW j \in Nat, i <= j
  PROVE  m * i <= m * j
OBVIOUS

LEMMA OneMore ==
  ASSUME NEW m \in Nat, NEW i \in Nat
  PROVE  m * (i + 1) = m * i + m
OBVIOUS

LEMMA Commute == \A m, n \in Nat : m * n = n * m /\ m * n \in Nat
OBVIOUS

LEMMA TailInvInit == Init => TailInv
<1> SUFFICES ASSUME Init, NEW c \in Chunks
             PROVE  tail[c] >= MaxSize * Cardinality(Subs(c)) - Cardinality(Threads) * MaxSize
  BY DEF TailInv
<1>1. MaxSize * Cardinality(Subs(c)) <= MaxSize * Cardinality(Threads)
  BY SubsFinite, Monotone
<1>2. Cardinality(Threads) * MaxSize = MaxSize * Cardinality(Threads)
  BY SubsFinite, Commute
<1>3. MaxSize * Cardinality(Subs(c)) \in Nat /\ MaxSize * Cardinality(Threads) \in Nat
  BY SubsFinite, Commute
<1>4. tail[c] = ChunkBytes
  BY DEF Init
<1> QED
  BY <1>1, <1>2, <1>3, <1>4

\* A step that subtracts from no chunk and lets no thread pass the test.
LEMMA TailInvQuiet ==
  ASSUME TypeInv, TailInv, tail' = tail, \A c \in Chunks : Subs(c)' = Subs(c)
  PROVE  TailInv'
BY DEF TailInv

LEMMA TailInvNext == TypeInv /\ TailInv /\ [Next]_vars => TailInv'
<1> SUFFICES ASSUME TypeInv, TailInv, [Next]_vars PROVE TailInv'
  OBVIOUS
<1> USE DEF TypeInv, Types, Working, Go, GoOnAt
<1> DEFINE N == Cardinality(Threads)
           k(c) == Cardinality(Subs(c))
<1>a. \A c \in Chunks : /\ k(c) \in Nat /\ N \in Nat /\ k(c) <= N
                        /\ MaxSize * k(c) \in Nat /\ N * MaxSize \in Nat
                        /\ MaxSize * k(c) <= N * MaxSize
  <2> SUFFICES ASSUME NEW c \in Chunks
               PROVE  /\ k(c) \in Nat /\ N \in Nat /\ k(c) <= N
                      /\ MaxSize * k(c) \in Nat /\ N * MaxSize \in Nat
                      /\ MaxSize * k(c) <= N * MaxSize
    OBVIOUS
  <2>1. k(c) \in Nat /\ N \in Nat /\ k(c) <= N
    BY SubsFinite
  <2>2. MaxSize * k(c) <= MaxSize * N
    BY <2>1, Monotone
  <2> HIDE DEF k, N
  <2> QED
    BY <2>1, <2>2, Commute
<1>1. ASSUME NEW t \in Threads, Allocate(t) \/ FollowNext(t) \/ LinkChunk(t) \/ DropChunk(t)
      PROVE  TailInv'
  <2>1. tail' = tail /\ \A c \in Chunks : Subs(c)' = Subs(c)
    BY <1>1 DEF Allocate, FollowNext, LinkChunk, DropChunk, Subs
  <2> QED
    BY <2>1, TailInvQuiet
<1>2. ASSUME NEW t \in Threads, TestTail(t) PROVE TailInv'
  <2>1. CASE Depleted(at[t])
    <3>1. tail' = tail /\ \A c \in Chunks : Subs(c)' = Subs(c)
      BY <1>2, <2>1 DEF TestTail, Subs
    <3> QED
      BY <3>1, TailInvQuiet
  <2>2. CASE ~Depleted(at[t])
    <3> SUFFICES ASSUME NEW c \in Chunks
                 PROVE  tail'[c] >= MaxSize * Cardinality(Subs(c)') - N * MaxSize
      BY DEF TailInv
    <3>1. tail' = tail
      BY <1>2 DEF TestTail
    <3>2. CASE c # at[t]
      <4>1. Subs(c)' = Subs(c)
        BY <1>2, <3>2 DEF TestTail, Subs
      <4> QED
        BY <3>1, <4>1 DEF TailInv
    <3>3. CASE c = at[t]
      <4>1. tail[c] >= 0
        BY <2>2, <3>3 DEF Depleted
      <4>2. Subs(c)' \in SUBSET Threads
        BY DEF Subs
      <4>3. Cardinality(Subs(c)') \in Nat /\ Cardinality(Subs(c)') <= N /\ N \in Nat
        BY <4>2, FS_Subset, FS_CardinalityType
      <4>4. MaxSize * Cardinality(Subs(c)') <= MaxSize * N
        BY <4>3, Monotone
      <4>5. MaxSize * N = N * MaxSize /\ N * MaxSize \in Nat
            /\ MaxSize * Cardinality(Subs(c)') \in Nat
        BY <4>3, Commute
      <4> QED
        BY <3>1, <4>1, <4>4, <4>5
    <3> QED
      BY <3>2, <3>3
  <2> QED
    BY <2>1, <2>2
<1>3. ASSUME NEW t \in Threads, SubTail(t) PROVE TailInv'
  <2> SUFFICES ASSUME NEW c \in Chunks
               PROVE  tail'[c] >= MaxSize * Cardinality(Subs(c)') - N * MaxSize
    BY DEF TailInv
  <2>1. CASE c # at[t]
    <3>1. Subs(c)' = Subs(c) /\ tail'[c] = tail[c]
      BY <1>3, <2>1 DEF SubTail, Subs
    <3> QED
      BY <3>1 DEF TailInv
  <2>2. CASE c = at[t]
    <3>1. Subs(c)' = Subs(c) \ {t} /\ t \in Subs(c)
      BY <1>3, <2>2 DEF SubTail, Subs
    <3>2. Cardinality(Subs(c)') = k(c) - 1
      <4>1. IsFiniteSet(Subs(c))
        BY SubsFinite
      <4>2. Cardinality(Subs(c) \ {t}) = Cardinality(Subs(c)) - 1
        BY <3>1, <4>1, FS_RemoveElement
      <4> QED
        BY <3>1, <4>2
    <3>3. tail'[c] = tail[c] - size[t] /\ size[t] \in 1 .. MaxSize
      BY <1>3, <2>2 DEF SubTail
    <3>4. k(c) - 1 \in Nat
      BY <3>2, <3>1, SubsFinite, FS_RemoveElement, FS_CardinalityType
    <3> DEFINE j == k(c) - 1
    <3>5. MaxSize * (j + 1) = MaxSize * j + MaxSize /\ MaxSize * j \in Nat
      BY <3>4, OneMore, Commute
    <3>6. j + 1 = k(c)
      BY <1>a
    <3>7. tail[c] >= MaxSize * k(c) - N * MaxSize
      BY DEF TailInv
    <3>8. tail[c] \in Int /\ N * MaxSize \in Nat
      BY <1>a
    <3>9. Cardinality(Subs(c)') = j
      BY <3>2
    <3> HIDE DEF j, k, N
    <3> QED
      BY <3>3, <3>5, <3>6, <3>7, <3>8, <3>9
  <2> QED
    BY <2>1, <2>2
<1>4. ASSUME NEW t \in Threads, NewChunk(t) PROVE TailInv'
  <2> SUFFICES ASSUME NEW c \in Chunks
               PROVE  tail'[c] >= MaxSize * Cardinality(Subs(c)') - N * MaxSize
    BY DEF TailInv
  <2>1. Subs(c)' = Subs(c)
    BY <1>4 DEF NewChunk, Subs
  <2>2. tail'[c] = tail[c] \/ tail'[c] = ChunkBytes
    BY <1>4 DEF NewChunk
  <2>3. tail[c] >= MaxSize * k(c) - N * MaxSize
    BY DEF TailInv
  <2> HIDE DEF k, N
  <2>4. ChunkBytes >= MaxSize * k(c) - N * MaxSize
    <3>1. ChunkBytes \in Nat
      OBVIOUS
    <3> HIDE DEF TypeInv
    <3> QED
      BY <1>a, <3>1
  <2>5. Cardinality(Subs(c)') = k(c)
    BY <2>1 DEF k
  <2> QED
    BY <1>a, <2>2, <2>3, <2>4, <2>5
<1>5. CASE Destroy \/ DestroyChunk \/ UNCHANGED vars
  <2>1. tail' = tail /\ \A c \in Chunks : Subs(c)' = Subs(c)
    BY <1>5 DEF Destroy, DestroyChunk, vars, threadVars, Subs
  <2> QED
    BY <2>1, TailInvQuiet
<1> QED
  BY <1>1, <1>2, <1>3, <1>4, <1>5 DEF Next, Finished

LEMMA TailInvAlways == Spec => []TailInv
BY TailInvInit, TailInvNext, TypeInvAlways, PTL DEF Spec

\* The type invariant: the tail of a chunk goes below its limit by at most one
\* delta of every thread, so that it cannot wrap around (TryAllocate()).
THEOREM AllocationTypeCorrect == Spec => []TypeOK
<1>1. TypeInv /\ TailInv => TypeOK
  <2> SUFFICES ASSUME TypeInv, TailInv PROVE TypeOK
    OBVIOUS
  <2>1. \A c \in Chunks : tail[c] \in -(Cardinality(Threads) * MaxSize) .. ChunkBytes
    <3> SUFFICES ASSUME NEW c \in Chunks
                 PROVE  tail[c] \in -(Cardinality(Threads) * MaxSize) .. ChunkBytes
      OBVIOUS
    <3>1. MaxSize * Cardinality(Subs(c)) \in Nat /\ Cardinality(Threads) * MaxSize \in Nat
      BY SubsFinite, Commute
    <3>2. tail[c] >= MaxSize * Cardinality(Subs(c)) - Cardinality(Threads) * MaxSize
      BY DEF TailInv
    <3>3. tail[c] \in Int /\ tail[c] <= ChunkBytes
      BY DEF TypeInv, Types
    <3> QED
      BY <3>1, <3>2, <3>3
  <2> QED
    BY <2>1 DEF TypeInv, Types, TypeOK
<1> QED
  BY <1>1, TypeInvAlways, TailInvAlways, PTL

-----------------------------------------------------------------------------
(* Third invariant: the list of chunks.  The chunks that are allocated and *)
(* not in the hands of a thread about to link them form one list; their    *)
(* ranks are the positions in it, which is how Destroy() is known to come  *)
(* by all of them.                                                         *)

Linked == {c \in heap : \A t \in Threads : own[t] # c}
Start  == IF gc = "idle" THEN First ELSE gcAt

Owned ==
  /\ \A t \in Threads : own[t] # NULL => own[t] \in heap /\ next[own[t]] = NULL
  /\ \A t, u \in Threads : own[t] # NULL /\ own[t] = own[u] => t = u

Placed ==
  /\ gc = "idle" => \A t \in Threads : at[t] \in Linked
  /\ gc # "freed" => Start \in Linked
  /\ gc = "freed" => heap = {}

Ranked(rank) ==
  /\ \A c, d \in Linked : rank[c] = rank[d] => c = d
  /\ \A c \in Linked : next[c] # NULL => next[c] \in Linked /\ rank[next[c]] = rank[c] + 1
  /\ \A c, d \in Linked : next[c] = NULL => rank[d] <= rank[c]
  /\ gc # "freed" => \A c \in Linked : rank[Start] <= rank[c]

ListInv == Owned /\ Placed /\ \E rank \in [Chunks -> Nat] : Ranked(rank)

LEMMA ListInvInit == Init => ListInv
<1> SUFFICES ASSUME Init PROVE ListInv
  OBVIOUS
<1>1. Linked = {First} /\ Start = First
  BY DEF Init, Linked, Start
<1> DEFINE rank == [c \in Chunks |-> 0]
<1>2. rank \in [Chunks -> Nat] /\ Ranked(rank)
  BY <1>1 DEF Init, Ranked
<1> HIDE DEF rank
<1> QED
  BY <1>1, <1>2 DEF Init, ListInv, Owned, Placed

\* A step that changes no link and no chunk.
LEMMA ListKept ==
  ASSUME TypeInv, ListInv, UNCHANGED <<next, gc, gcAt>>, Linked' = Linked, Owned',
         heap' = {} \/ gc # "freed",
         gc = "idle" => \A t \in Threads : at'[t] \in Linked
  PROVE  ListInv'
<1>1. Start' = Start
  BY DEF Start
<1>2. Placed'
  BY <1>1 DEF ListInv, Placed
<1>3. PICK rank \in [Chunks -> Nat] : Ranked(rank)
  BY DEF ListInv
<1>4. Ranked(rank)'
  BY <1>1, <1>3 DEF Ranked
<1> QED
  BY <1>2, <1>4 DEF ListInv

LEMMA ListInvNext == TypeInv /\ ListInv /\ [Next]_vars => ListInv'
<1> SUFFICES ASSUME TypeInv, ListInv, [Next]_vars PROVE ListInv'
  OBVIOUS
<1>a. PICK rank \in [Chunks -> Nat] : Ranked(rank)
  BY DEF ListInv
<1>b. Owned /\ Placed
  BY DEF ListInv
<1>c. \A t \in Threads : pc[t] # "idle" => gc = "idle" /\ at[t] \in Linked
  BY <1>b DEF TypeInv, Working, Types, Placed
<1>d. \A t \in Threads : pc[t] # "cas" => own[t] = NULL
  BY DEF TypeInv, Working
<1>1. ASSUME NEW t \in Threads, Allocate(t) \/ TestTail(t) \/ SubTail(t) PROVE ListInv'
  <2>1. UNCHANGED <<next, heap, own, gc, gcAt>>
    BY <1>1 DEF Allocate, TestTail, SubTail
  <2>2. Linked' = Linked /\ Owned'
    BY <2>1, <1>b DEF Linked, Owned
  <2>3. gc = "idle" => \A u \in Threads : at'[u] = at[u] \/ at'[u] = First
    BY <1>1 DEF Allocate, TestTail, SubTail, TypeInv, Types
  <2>4. gc = "idle" => \A u \in Threads : at'[u] \in Linked
    BY <2>3, <1>b DEF Placed, Start
  <2> QED
    BY <2>1, <2>2, <2>4, <1>b, ListKept DEF Placed
<1>2. ASSUME NEW t \in Threads, FollowNext(t) PROVE ListInv'
  <2>1. UNCHANGED <<next, heap, gc, gcAt>> /\ next[at[t]] # NULL /\ pc[t] = "next"
    BY <1>2 DEF FollowNext
  <2>2. own' = own
    BY <1>2, <1>d, <2>1 DEF FollowNext, GoOnAt, TypeInv, Types
  <2>3. Linked' = Linked /\ Owned'
    BY <2>1, <2>2, <1>b DEF Linked, Owned
  <2>4. next[at[t]] \in Linked
    BY <1>a, <1>c, <2>1 DEF Ranked
  <2>5. \A u \in Threads : at'[u] = at[u] \/ at'[u] = next[at[t]]
    BY <1>2 DEF FollowNext, GoOnAt, TypeInv, Types
  <2> QED
    BY <2>1, <2>3, <2>4, <2>5, <1>b, ListKept DEF Placed
<1>3. ASSUME NEW t \in Threads, NewChunk(t) PROVE ListInv'
  <2>1. PICK c \in Chunks \ heap :
          /\ heap' = heap \cup {c}
          /\ next' = [next EXCEPT ![c] = NULL]
          /\ own' = [own EXCEPT ![t] = c]
    BY <1>3 DEF NewChunk
  <2>2. gc = "idle" /\ UNCHANGED <<gc, gcAt, at>> /\ own[t] = NULL
    BY <1>3, <1>c, <1>d DEF NewChunk
  <2>3. \A u \in Threads : own[u] # c
    BY <2>1, <1>b DEF Owned, TypeInv, Types
  <2>4. Linked' = Linked
    BY <2>1, <2>2, <2>3 DEF Linked, TypeInv, Types
  <2>5. \A d \in heap : d # c /\ next'[d] = next[d]
    BY <2>1 DEF TypeInv, Types
  <2>6. next'[c] = NULL /\ own'[t] = c /\ \A u \in Threads : u # t => own'[u] = own[u]
    BY <2>1 DEF TypeInv, Types
  <2>7. Owned'
    BY <2>1, <2>2, <2>3, <2>5, <2>6, <1>b DEF Owned
  <2>8. Start' = Start
    BY <2>2 DEF Start
  <2>9. Placed'
    BY <2>2, <2>4, <2>8, <1>b DEF Placed
  <2>10. \A d \in Linked : next'[d] = next[d]
    BY <2>5 DEF Linked
  <2>11. Ranked(rank)'
    BY <1>a, <2>2, <2>4, <2>8, <2>10 DEF Ranked
  <2> QED
    BY <2>7, <2>9, <2>11 DEF ListInv
<1>4. ASSUME NEW t \in Threads, LinkChunk(t) PROVE ListInv'
  <2> DEFINE a == at[t]
             c == own[t]
  <2>1. pc[t] = "cas" /\ next[a] = NULL /\ UNCHANGED <<heap, gc, gcAt>>
    BY <1>4 DEF LinkChunk, NextUnset
  <2>2. c # NULL /\ c \in heap /\ c \in Chunks /\ next[c] = NULL
    BY <2>1, <1>b DEF Owned, TypeInv, Working, Types
  <2>3. gc = "idle" /\ a \in Linked /\ a # c /\ c \notin Linked
    BY <2>1, <1>c DEF Linked
  <2>4. next' = [next EXCEPT ![a] = c] /\ at' = [at EXCEPT ![t] = c]
        /\ own' = [own EXCEPT ![t] = NULL]
    BY <1>4 DEF LinkChunk, GoOnAt
  <2>5. Linked' = Linked \cup {c}
    <3>1. \A u \in Threads : u # t => own'[u] = own[u] /\ own[u] # c
      BY <2>2, <2>4, <1>b DEF Owned, TypeInv, Types
    <3>2. own'[t] = NULL /\ NULL \notin heap
      BY <2>4 DEF TypeInv, Types
    <3> QED
      BY <2>1, <2>2, <3>1, <3>2 DEF Linked
  <2>6. Linked \subseteq Chunks
    BY DEF Linked, TypeInv, Types
  <2>7. /\ next'[a] = c /\ next'[c] = NULL
        /\ \A d \in Linked : d # a => next'[d] = next[d]
    BY <2>2, <2>3, <2>4, <2>6 DEF TypeInv, Types
  <2>8. Owned'
    <3>1. \A u \in Threads : own'[u] # NULL => u # t /\ own'[u] = own[u]
      BY <2>4 DEF TypeInv, Types
    <3>2. \A u \in Threads : own[u] # NULL => own[u] # a
      BY <2>3 DEF Linked
    <3>3. \A u \in Threads : own'[u] # NULL => next'[own'[u]] = next[own[u]]
      BY <2>4, <3>1, <3>2 DEF TypeInv, Types
    <3> QED
      BY <2>1, <3>1, <3>3, <1>b DEF Owned
  <2>9. Start' = Start
    BY <2>1 DEF Start
  <2>10. Placed'
    <3>1. \A u \in Threads : at'[u] = at[u] \/ at'[u] = c
      BY <2>4 DEF TypeInv, Types
    <3> QED
      BY <2>1, <2>3, <2>5, <2>9, <3>1, <1>b DEF Placed
  <2>11. PICK r \in [Chunks -> Nat] :
            /\ r[c] = rank[a] + 1 /\ rank[a] \in Nat
            /\ \A d \in Linked : r[d] = rank[d] /\ rank[d] \in Nat
    <3> DEFINE q == [rank EXCEPT ![c] = rank[a] + 1]
    <3>1. /\ q \in [Chunks -> Nat] /\ q[c] = rank[a] + 1 /\ rank[a] \in Nat
          /\ \A d \in Linked : q[d] = rank[d] /\ rank[d] \in Nat
      BY <1>a, <2>2, <2>3, <2>6
    <3> QED
      BY <3>1
  <2>12. \A d \in Linked : rank[d] <= rank[a]
    BY <1>a, <2>1, <2>3 DEF Ranked
  <2> HIDE DEF a, c
  <2>13. \A d, e \in Linked' : r[d] = r[e] => d = e
    BY <1>a, <2>5, <2>11, <2>12 DEF Ranked
  <2>14. \A d \in Linked' : next'[d] # NULL => next'[d] \in Linked' /\ r[next'[d]] = r[d] + 1
    BY <1>a, <2>3, <2>5, <2>7, <2>11 DEF Ranked
  <2>15. \A d, e \in Linked' : next'[d] = NULL => r[e] <= r[d]
    <3>1. \A d \in Linked : next'[d] # NULL
      <4> SUFFICES ASSUME NEW d \in Linked, d # a, next[d] = NULL PROVE FALSE
        BY <2>2, <2>7
      <4>1. rank[a] <= rank[d]
        BY <1>a, <2>3 DEF Ranked
      <4>2. rank[d] = rank[a]
        BY <4>1, <2>11, <2>12
      <4> QED
        BY <4>2, <1>a, <2>3 DEF Ranked
    <3> QED
      BY <3>1, <2>5, <2>11, <2>12
  <2>16. \A d \in Linked' : r[Start'] <= r[d]
    <3>1. Start \in Linked
      BY <2>3, <1>b DEF Placed
    <3>2. \A d \in Linked : rank[Start] <= rank[d]
      BY <1>a, <2>3 DEF Ranked
    <3> QED
      BY <3>1, <3>2, <2>3, <2>5, <2>9, <2>11
  <2>17. Ranked(r)'
    BY <2>13, <2>14, <2>15, <2>16 DEF Ranked
  <2> QED
    BY <2>8, <2>10, <2>11, <2>17 DEF ListInv
<1>5. ASSUME NEW t \in Threads, DropChunk(t) PROVE ListInv'
  <2>1. /\ pc[t] = "cas" /\ next[at[t]] # NULL /\ heap' = heap \ {own[t]}
        /\ UNCHANGED <<next, gc, gcAt>>
    BY <1>5 DEF DropChunk, NextUnset
  <2>2. gc = "idle" /\ next[at[t]] \in Linked
    BY <1>a, <1>c, <2>1 DEF Ranked
  <2>3. \A u \in Threads : /\ (at'[u] = at[u] \/ at'[u] = next[at[t]])
                           /\ own'[u] = IF u = t THEN NULL ELSE own[u]
    BY <1>5 DEF DropChunk, GoOnAt, TypeInv, Types
  <2>4. own[t] # NULL /\ \A u \in Threads : u # t => own[u] # own[t]
    BY <2>1, <1>b DEF Owned, TypeInv, Working
  <2>5. Linked' = Linked
    <3>1. heap \subseteq Chunks /\ own \in [Threads -> Chunks \cup {NULL}]
      BY DEF TypeInv, Types
    <3>2. \A c \in heap : (\A u \in Threads : own[u] # c)
             <=> c # own[t] /\ (\A u \in Threads : own'[u] # c)
      BY <2>3, <3>1 DEF AllocationAssumption
    <3> QED
      BY <2>1, <3>2 DEF Linked
  <2>6. Owned'
    BY <2>1, <2>3, <2>4, <1>b DEF Owned
  <2>7. \A u \in Threads : at'[u] \in Linked
    BY <2>2, <2>3, <1>b DEF Placed
  <2> QED
    BY <2>1, <2>2, <2>5, <2>6, <2>7, ListKept
<1>6. CASE Destroy
  <2>1. gc = "idle" /\ gc' = "freeing" /\ gcAt' = First /\ UNCHANGED <<next, heap, at, own>>
    BY <1>6 DEF Destroy, threadVars
  <2>2. Start' = Start /\ Linked' = Linked
    BY <2>1 DEF Start, Linked
  <2>3. Owned' /\ Placed'
    BY <2>1, <2>2, <1>b DEF Owned, Placed
  <2>4. Ranked(rank)'
    BY <2>1, <2>2, <1>a DEF Ranked
  <2> QED
    BY <2>3, <2>4 DEF ListInv
<1>7. CASE DestroyChunk
  <2>1. /\ gc = "freeing" /\ heap' = heap \ {gcAt} /\ gcAt' = next[gcAt]
        /\ gc' = (IF next[gcAt] = NULL THEN "freed" ELSE "freeing")
        /\ UNCHANGED <<next, at, own>>
    BY <1>7 DEF DestroyChunk, threadVars
  <2>2. \A t \in Threads : own[t] = NULL
    BY <2>1, <1>d DEF TypeInv, Working
  <2>3. Linked = heap /\ Linked' = heap \ {gcAt} /\ heap \subseteq Chunks
    BY <2>1, <2>2 DEF Linked, TypeInv, Types
  <2>4. Start = gcAt /\ gcAt \in Linked /\ Start' = next[gcAt]
    BY <2>1, <1>b DEF Start, Placed
  <2>5. Owned'
    BY <2>1, <2>2 DEF Owned
  <2>6. \A c \in Linked : rank[c] \in Nat /\ rank[gcAt] <= rank[c]
    BY <1>a, <2>1, <2>3, <2>4 DEF Ranked
  <2>7. \A c \in Linked' : rank[gcAt] < rank[c]
    <3> SUFFICES ASSUME NEW c \in Linked' PROVE rank[gcAt] < rank[c]
      OBVIOUS
    <3>1. c \in Linked /\ c # gcAt
      BY <2>3
    <3>2. rank[c] # rank[gcAt]
      BY <3>1, <1>a, <2>4 DEF Ranked
    <3> QED
      BY <3>1, <3>2, <2>4, <2>6
  <2>8. CASE next[gcAt] = NULL
    <3>1. heap' = {}
      <4> SUFFICES ASSUME NEW c \in heap' PROVE FALSE
        OBVIOUS
      <4>1. c \in Linked /\ c \in Linked'
        BY <2>1, <2>3
      <4>2. rank[c] <= rank[gcAt]
        BY <4>1, <1>a, <2>4, <2>8 DEF Ranked
      <4> QED
        BY <4>1, <4>2, <2>4, <2>6, <2>7
    <3>2. Linked' = {} /\ gc' = "freed"
      BY <2>1, <2>3, <2>8, <3>1
    <3>3. Placed' /\ Ranked(rank)'
      BY <3>1, <3>2 DEF Placed, Ranked
    <3> QED
      BY <1>a, <2>5, <3>3 DEF ListInv
  <2>9. CASE next[gcAt] # NULL
    <3>1. gc' = "freeing" /\ next[gcAt] \in Linked /\ rank[next[gcAt]] = rank[gcAt] + 1
      BY <2>1, <2>4, <2>9, <1>a DEF Ranked
    <3>2. next[gcAt] \in Linked'
      <4>1. next[gcAt] # gcAt
        BY <3>1, <2>4, <2>6
      <4> QED
        BY <4>1, <3>1, <2>3
    <3>3. Placed'
      BY <3>1, <3>2, <2>4 DEF Placed
    <3>4. \A c \in Linked' : next[c] # NULL => next[c] \in Linked' /\ rank[next[c]] = rank[c] + 1
      <4> SUFFICES ASSUME NEW c \in Linked', next[c] # NULL
                   PROVE  next[c] \in Linked' /\ rank[next[c]] = rank[c] + 1
        OBVIOUS
      <4>1. next[c] \in Linked /\ rank[next[c]] = rank[c] + 1
        BY <2>3, <1>a DEF Ranked
      <4>2. next[c] # gcAt
        BY <4>1, <2>3, <2>4, <2>6, <2>7
      <4> QED
        BY <4>1, <4>2, <2>3
    <3>5. \A c \in Linked' : rank[Start'] <= rank[c]
      BY <3>1, <2>3, <2>4, <2>6, <2>7
    <3>6. /\ \A c, d \in Linked' : rank[c] = rank[d] => c = d
          /\ \A c, d \in Linked' : next[c] = NULL => rank[d] <= rank[c]
      BY <2>3, <1>a DEF Ranked
    <3>7. Ranked(rank)'
      BY <2>1, <3>4, <3>5, <3>6 DEF Ranked
    <3> QED
      BY <1>a, <2>5, <3>3, <3>7 DEF ListInv
  <2> QED
    BY <2>8, <2>9
<1>8. CASE UNCHANGED vars
  <2>1. UNCHANGED <<next, heap, at, own, gc, gcAt>>
    BY <1>8 DEF vars, threadVars
  <2>2. Linked' = Linked /\ Owned'
    BY <2>1, <1>b DEF Linked, Owned
  <2> QED
    BY <2>1, <2>2, <1>b, ListKept DEF Placed
<1> QED
  BY <1>1, <1>2, <1>3, <1>4, <1>5, <1>6, <1>7, <1>8 DEF Next, Finished

LEMMA ListInvAlways == Spec => []ListInv
BY ListInvInit, ListInvNext, TypeInvAlways, PTL DEF Spec

\* Destroy() frees every chunk, the ones that lost the race to be linked having
\* been freed by the thread that made them.
THEOREM EveryChunkFreed == Spec => []ChunksFreed
<1>1. ListInv => ChunksFreed
  BY DEF ListInv, Placed, ChunksFreed
<1> QED
  BY <1>1, ListInvAlways, PTL

-----------------------------------------------------------------------------
(* Fourth invariant: the slots.  Those of a chunk lie above its tail, so   *)
(* that what a thread cuts off next is nobody's.                           *)

SlotInv ==
  /\ \A i \in 1 .. Len(slots) :
       /\ slots[i].low >= 0 /\ slots[i].high <= ChunkBytes
       /\ gc = "idle" => slots[i].chunk \in Linked /\ slots[i].low >= tail[slots[i].chunk]
  /\ \A i, j \in 1 .. Len(slots) : i < j =>
       \/ slots[i].chunk # slots[j].chunk
       \/ slots[i].low >= slots[j].high
       \/ slots[j].low >= slots[i].high

LEMMA SlotInvInit == Init => SlotInv
BY DEF Init, SlotInv

\* A step that hands out no memory.
LEMMA SlotsKept ==
  ASSUME SlotInv, slots' = slots, gc' = gc \/ gc' # "idle",
         gc = "idle" => Linked \subseteq Linked' /\ \A c \in Linked : tail'[c] = tail[c]
  PROVE  SlotInv'
BY DEF SlotInv

LEMMA SlotInvNext == TypeInv /\ ListInv /\ ListInv' /\ SlotInv /\ [Next]_vars => SlotInv'
<1> SUFFICES ASSUME TypeInv, ListInv, ListInv', SlotInv, [Next]_vars PROVE SlotInv'
  OBVIOUS
<1>1. ASSUME NEW t \in Threads, Allocate(t) \/ TestTail(t) \/ FollowNext(t) PROVE SlotInv'
  <2>1. UNCHANGED <<slots, gc, heap, tail>>
    BY <1>1 DEF Allocate, TestTail, FollowNext
  <2>2. own' = own
    BY <1>1 DEF Allocate, TestTail, FollowNext, GoOnAt, TypeInv, Types, Working
  <2>3. Linked' = Linked
    BY <2>1, <2>2 DEF Linked
  <2> QED
    BY <2>1, <2>3, SlotsKept
<1>2. ASSUME NEW t \in Threads, NewChunk(t) PROVE SlotInv'
  <2>1. PICK c \in Chunks \ heap :
          /\ heap' = heap \cup {c}
          /\ tail' = [tail EXCEPT ![c] = ChunkBytes]
          /\ own' = [own EXCEPT ![t] = c]
    BY <1>2 DEF NewChunk
  <2>2. UNCHANGED <<slots, gc>>
    BY <1>2 DEF NewChunk
  <2>3. Linked \subseteq Linked'
    BY <2>1 DEF Linked, TypeInv, Types
  <2>4. \A d \in Linked : tail'[d] = tail[d]
    BY <2>1 DEF Linked, TypeInv, Types
  <2> QED
    BY <2>2, <2>3, <2>4, SlotsKept
<1>3. ASSUME NEW t \in Threads, LinkChunk(t) PROVE SlotInv'
  <2>1. UNCHANGED <<slots, gc, heap, tail>>
    BY <1>3 DEF LinkChunk
  <2>2. \A u \in Threads : own'[u] = own[u] \/ own'[u] = NULL
    BY <1>3 DEF LinkChunk, GoOnAt, TypeInv, Types
  <2>3. Linked \subseteq Linked'
    BY <2>1, <2>2 DEF Linked, TypeInv, Types
  <2> QED
    BY <2>1, <2>3, SlotsKept
<1>4. ASSUME NEW t \in Threads, DropChunk(t) PROVE SlotInv'
  <2>1. UNCHANGED <<slots, gc, tail>> /\ heap' = heap \ {own[t]}
    BY <1>4 DEF DropChunk
  <2>2. \A u \in Threads : own'[u] = own[u] \/ own'[u] = NULL
    BY <1>4 DEF DropChunk, GoOnAt, TypeInv, Types
  <2>3. Linked \subseteq Linked'
    BY <2>1, <2>2 DEF Linked, TypeInv, Types
  <2> QED
    BY <2>1, <2>3, SlotsKept
<1>5. ASSUME NEW t \in Threads, SubTail(t) PROVE SlotInv'
  <2> DEFINE a == at[t]
             newTail == tail[a] - size[t]
             slot == [chunk |-> a, low |-> newTail, high |-> newTail + size[t]]
  <2>1. gc = "idle" /\ a \in Linked /\ a \in Chunks
    BY <1>5 DEF SubTail, TypeInv, Types, Working, ListInv, Placed
  <2>2. size[t] \in Nat /\ tail[a] \in Int /\ tail[a] <= ChunkBytes
    <3>1. size[t] \in Sizes
      BY <1>5 DEF SubTail, TypeInv, Working
    <3> QED
      BY <2>1, <3>1, SizesNat DEF TypeInv, Types
  <2>3. newTail \in Int /\ newTail <= tail[a] /\ newTail + size[t] = tail[a]
    BY <2>2
  <2>4. UNCHANGED <<gc, heap, own>> /\ Linked' = Linked
    BY <1>5 DEF SubTail, Linked
  <2>5. /\ tail'[a] = newTail
        /\ \A c \in Linked : c # a => tail'[c] = tail[c]
    BY <1>5, <2>1 DEF SubTail, TypeInv, Types, Linked
  <2>6. \A i \in 1 .. Len(slots) :
          /\ slots[i] \in Slot /\ slots[i].low \in Int /\ slots[i].high \in Int
          /\ slots[i].chunk \in Linked /\ slots[i].low >= tail[slots[i].chunk]
          /\ slots[i].low >= tail'[slots[i].chunk]
    <3> SUFFICES ASSUME NEW i \in 1 .. Len(slots)
                 PROVE  /\ slots[i] \in Slot /\ slots[i].low \in Int /\ slots[i].high \in Int
                        /\ slots[i].chunk \in Linked /\ slots[i].low >= tail[slots[i].chunk]
                        /\ slots[i].low >= tail'[slots[i].chunk]
      OBVIOUS
    <3>1. slots[i] \in Slot
      BY DEF TypeInv, Types
    <3>2. slots[i].low \in Int /\ slots[i].high \in Int
      BY <3>1 DEF Slot
    <3>3. slots[i].chunk \in Linked /\ slots[i].low >= tail[slots[i].chunk]
      BY <2>1 DEF SlotInv
    <3> DEFINE low == slots[i].low
               c == slots[i].chunk
    <3>4. low >= tail'[c]
      <4> HIDE DEF low, c, newTail, TypeInv
      <4>1. low \in Int /\ c \in Linked /\ low >= tail[c]
        BY <3>2, <3>3 DEF low, c
      <4>2. CASE c = a
        BY <4>1, <4>2, <2>2, <2>3, <2>5
      <4>3. CASE c # a
        BY <4>1, <4>3, <2>5
      <4> QED
        BY <4>2, <4>3
    <3> QED
      BY <3>1, <3>2, <3>3, <3>4
  <2>7. CASE slots' = slots
    <3> SUFFICES /\ \A i \in 1 .. Len(slots) :
                      slots[i].chunk \in Linked' /\ slots[i].low >= tail'[slots[i].chunk]
      BY <2>7 DEF SlotInv
    <3> QED
      BY <2>4, <2>6
  <2>8. CASE slots' = Append(slots, slot) /\ newTail >= 0
    <3>1. slots \in Seq(Slot) /\ Len(slots) \in Nat
      BY DEF TypeInv, Types
    <3> DEFINE n == Len(slots)
    <3>2. /\ Len(slots') = n + 1 /\ slots'[n + 1] = slot
          /\ \A i \in 1 .. n : slots'[i] = slots[i]
      <4> HIDE DEF slot
      <4> QED
        BY <2>8, <3>1
    <3>3. slot.chunk = a /\ slot.low = newTail /\ slot.high = tail[a]
      BY <2>3
    <3> HIDE DEF slot, newTail, n
    <3>4. n \in Nat /\ \A i \in 1 .. n + 1 : i \in 1 .. n \/ i = n + 1
      BY <3>1 DEF n
    <3>5. \A i \in 1 .. n : slots[i].low >= 0 /\ slots[i].high <= ChunkBytes
      BY DEF SlotInv, n
    <3>6. \A i \in 1 .. n + 1 :
            /\ slots'[i].low >= 0 /\ slots'[i].high <= ChunkBytes
            /\ slots'[i].chunk \in Linked' /\ slots'[i].low >= tail'[slots'[i].chunk]
      <4> SUFFICES ASSUME NEW i \in 1 .. n + 1
                   PROVE  /\ slots'[i].low >= 0 /\ slots'[i].high <= ChunkBytes
                          /\ slots'[i].chunk \in Linked' /\ slots'[i].low >= tail'[slots'[i].chunk]
        OBVIOUS
      <4>1. CASE i \in 1 .. n
        <5>1. /\ slots'[i] = slots[i] /\ slots[i].low >= 0 /\ slots[i].high <= ChunkBytes
          BY <4>1, <3>2, <3>5
        <5>2. slots[i].chunk \in Linked /\ slots[i].low >= tail'[slots[i].chunk]
          BY <4>1, <2>6 DEF n
        <5> QED
          BY <5>1, <5>2, <2>4
      <4>2. CASE i = n + 1
        BY <4>2, <2>1, <2>2, <2>3, <2>4, <2>5, <2>8, <3>2, <3>3
      <4> QED
        BY <3>4, <4>1, <4>2
    <3>7. \A i, j \in 1 .. n + 1 : i < j =>
            \/ slots'[i].chunk # slots'[j].chunk
            \/ slots'[i].low >= slots'[j].high
            \/ slots'[j].low >= slots'[i].high
      <4> SUFFICES ASSUME NEW i \in 1 .. n + 1, NEW j \in 1 .. n + 1, i < j,
                          slots'[i].chunk = slots'[j].chunk
                   PROVE  \/ slots'[i].low >= slots'[j].high
                          \/ slots'[j].low >= slots'[i].high
        OBVIOUS
      <4>1. i \in 1 .. n
        BY <3>4
      <4>2. CASE j \in 1 .. n
        <5>1. slots'[i] = slots[i] /\ slots'[j] = slots[j]
          BY <3>2, <4>1, <4>2
        <5> QED
          BY <4>1, <4>2, <5>1 DEF SlotInv, n
      <4>3. CASE j = n + 1
        <5>1. slots'[i] = slots[i] /\ slots'[j] = slot
          BY <4>1, <4>3, <3>2
        <5>2. slots[i].low >= tail[slots[i].chunk]
          BY <4>1, <2>6 DEF n
        <5> QED
          BY <5>1, <5>2, <3>3
      <4> QED
        BY <3>4, <4>2, <4>3
    <3> QED
      BY <3>2, <3>6, <3>7 DEF SlotInv
  <2>9. slots' = slots \/ (slots' = Append(slots, slot) /\ newTail >= 0)
    BY <1>5 DEF SubTail, Fits
  <2> QED
    BY <2>7, <2>8, <2>9
<1>6. CASE Destroy \/ DestroyChunk
  <2>1. slots' = slots /\ gc' # "idle"
    BY <1>6 DEF Destroy, DestroyChunk
  <2> QED
    BY <2>1 DEF SlotInv
<1>7. CASE UNCHANGED vars
  <2>1. UNCHANGED <<slots, gc, tail>> /\ Linked' = Linked
    BY <1>7 DEF vars, threadVars, Linked
  <2> QED
    BY <2>1, SlotsKept
<1> QED
  BY <1>1, <1>2, <1>3, <1>4, <1>5, <1>6, <1>7 DEF Next, Finished

LEMMA SlotInvAlways == Spec => []SlotInv
BY SlotInvInit, SlotInvNext, TypeInvAlways, ListInvAlways, PTL DEF Spec

\* The memory of every delta is its own, and lives as long as the chain.
THEOREM SlotsNeverShared == Spec => []SlotsDisjoint
<1>1. SlotInv => SlotsDisjoint
  BY DEF SlotInv, SlotsDisjoint, Linked
<1> QED
  BY <1>1, SlotInvAlways, PTL
=============================================================================
