--------------------------- MODULE AllocationMeta ---------------------------
(***************************************************************************)
(* Where the deltas of a chain live (bwtree.h, class AllocationMeta): every *)
(* base node is preceded by a chunk of memory that deltas are cut from, high *)
(* address first, by any number of threads at once; when a chunk is used up *)
(* another one is linked behind it.                                        *)
(*                                                                         *)
(* Chunks are addresses of the heap, bytes count from the limit of a chunk *)
(* (the first byte after its AllocationMeta).  A step is one atomic access. *)
(***************************************************************************)
EXTENDS Integers, Sequences, FiniteSets

CONSTANTS
  Threads,
  Chunks,       \* what new char[CHUNK_SIZE()] may return
  First,        \* the chunk in front of the base node
  NULL,
  Sizes,        \* sizes of the delta nodes
  MaxSize,      \* sizeof(DeltaNodeUnion), the largest of them
  ChunkBytes,   \* CHUNK_SIZE() without the AllocationMeta: 8 * MaxSize in the code
  MaxSlots      \* bound: allocations in all

ASSUME AllocationAssumption ==
  /\ IsFiniteSet(Threads)
  /\ First \in Chunks /\ NULL \notin Chunks
  /\ MaxSize \in Nat /\ Sizes \subseteq 1 .. MaxSize
  /\ ChunkBytes \in Nat /\ MaxSize <= ChunkBytes
  /\ MaxSlots \in Nat

VARIABLES
  tail,    \* chunk -> tail
  next,    \* chunk -> next
  heap,    \* the chunks that are allocated
  slots,   \* history: the memory handed out, in order
  pc,      \* thread -> where it is in Allocate()
  at,      \* thread -> meta_p
  size,    \* thread -> what it asks for
  own,     \* thread -> new_chunk in GrowChunk()
  gc,      \* whether the chain is being destroyed
  gcAt     \* meta_p of Destroy()

threadVars == <<pc, at, size, own>>
vars == <<tail, next, heap, slots, threadVars, gc, gcAt>>

\* A thread works on a chunk between "test" and the step that gives it a slot.
ThreadPC == {"idle", "test", "sub", "next", "cas"}

Init ==
  /\ tail = [c \in Chunks |-> ChunkBytes]
  /\ next = [c \in Chunks |-> NULL]
  /\ heap = {First}
  /\ slots = <<>>
  /\ pc = [t \in Threads |-> "idle"]
  /\ at = [t \in Threads |-> First]
  /\ size = [t \in Threads |-> 0]
  /\ own = [t \in Threads |-> NULL]
  /\ gc = "idle" /\ gcAt = NULL

Go(t, label) == pc' = [pc EXCEPT ![t] = label]

-----------------------------------------------------------------------------
(* TryAllocate()                                                           *)

\* Other allocations have already gone below the limit: do not subtract more.
Depleted_Never(c) == FALSE
Depleted(c) == tail[c] < 0

\* Is the tail this thread has set still in the chunk?
Fits_Tested(newTail) == TRUE
Fits(newTail) == newTail >= 0

\* ElasticNode::InlineAllocate(): Allocate() at the chunk of the base node.
Allocate(t) ==
  /\ pc[t] = "idle" /\ gc = "idle"
  /\ Len(slots) + Cardinality({u \in Threads : pc[u] # "idle"}) < MaxSlots
  /\ \E s \in Sizes : size' = [size EXCEPT ![t] = s]
  /\ at' = [at EXCEPT ![t] = First]
  /\ Go(t, "test")
  /\ UNCHANGED <<tail, next, heap, slots, own, gc, gcAt>>

TestTail(t) ==
  /\ pc[t] = "test"
  /\ Go(t, IF Depleted(at[t]) THEN "next" ELSE "sub")
  /\ UNCHANGED <<tail, next, heap, slots, at, size, own, gc, gcAt>>

\* tail.fetch_sub(size) - size
SubTail(t) ==
  LET newTail == tail[at[t]] - size[t]
  IN  /\ pc[t] = "sub"
      /\ tail' = [tail EXCEPT ![at[t]] = newTail]
      /\ \/ /\ Fits(newTail)
            /\ slots' = Append(slots, [chunk |-> at[t], low |-> newTail,
                                       high |-> newTail + size[t]])
            /\ Go(t, "idle")
         \/ /\ ~Fits(newTail)
            /\ Go(t, "next")
            /\ UNCHANGED slots
      /\ UNCHANGED <<next, heap, at, size, own, gc, gcAt>>

-----------------------------------------------------------------------------
(* GrowChunk()                                                             *)

\* Allocate() goes on at chunk c.
GoOnAt(t, c) ==
  /\ at' = [at EXCEPT ![t] = c]
  /\ own' = [own EXCEPT ![t] = NULL]
  /\ Go(t, "test")

FollowNext(t) ==
  /\ pc[t] = "next" /\ next[at[t]] # NULL
  /\ GoOnAt(t, next[at[t]])
  /\ UNCHANGED <<tail, next, heap, slots, size, gc, gcAt>>

\* There is no next chunk: make one.
NewChunk(t) ==
  /\ pc[t] = "next" /\ next[at[t]] = NULL
  /\ \E c \in Chunks \ heap :
       /\ heap' = heap \cup {c}
       /\ tail' = [tail EXCEPT ![c] = ChunkBytes]
       /\ next' = [next EXCEPT ![c] = NULL]
       /\ own' = [own EXCEPT ![t] = c]
  /\ Go(t, "cas")
  /\ UNCHANGED <<slots, at, size, gc, gcAt>>

\* The compare-and-swap of next: nobody has linked a chunk meanwhile.
NextUnset_Assumed(c) == TRUE
NextUnset(c) == next[c] = NULL

LinkChunk(t) ==
  /\ pc[t] = "cas" /\ NextUnset(at[t])
  /\ next' = [next EXCEPT ![at[t]] = own[t]]
  /\ GoOnAt(t, own[t])
  /\ UNCHANGED <<tail, heap, slots, size, gc, gcAt>>

\* Somebody has: free the new chunk and use theirs.
DropChunk(t) ==
  /\ pc[t] = "cas" /\ ~NextUnset(at[t])
  /\ heap' = heap \ {own[t]}
  /\ GoOnAt(t, next[at[t]])
  /\ UNCHANGED <<tail, next, slots, size, gc, gcAt>>

-----------------------------------------------------------------------------
(* Destroy(), when the chain is unreachable and every thread that could     *)
(* have reached it has left its epoch (module EpochManager)                *)

Destroy ==
  /\ gc = "idle" /\ \A t \in Threads : pc[t] = "idle"
  /\ gc' = "freeing" /\ gcAt' = First
  /\ UNCHANGED <<tail, next, heap, slots, threadVars>>

\* next is read before the chunk that holds it is freed.
DestroyChunk ==
  /\ gc = "freeing"
  /\ heap' = heap \ {gcAt}
  /\ gcAt' = next[gcAt]
  /\ gc' = IF next[gcAt] = NULL THEN "freed" ELSE "freeing"
  /\ UNCHANGED <<tail, next, slots, threadVars>>

Finished == gc = "freed" /\ UNCHANGED vars

Next ==
  \/ \E t \in Threads :
       \/ Allocate(t) \/ TestTail(t) \/ SubTail(t)
       \/ FollowNext(t) \/ NewChunk(t) \/ LinkChunk(t) \/ DropChunk(t)
  \/ Destroy
  \/ DestroyChunk
  \/ Finished

Spec == Init /\ [][Next]_vars

-----------------------------------------------------------------------------
(* Properties                                                              *)

Slot == [chunk : Chunks, low : Int, high : Int]

\* The type invariant.  It bounds the underflow that TryAllocate() guards
\* against: however often threads come back to a chunk that is used up, each can
\* have subtracted only once after the chunk was found in order.
TypeOK ==
  /\ tail \in [Chunks -> -(Cardinality(Threads) * MaxSize) .. ChunkBytes]
  /\ next \in [Chunks -> Chunks \cup {NULL}]
  /\ heap \subseteq Chunks
  /\ slots \in Seq(Slot)
  /\ pc \in [Threads -> ThreadPC]
  /\ at \in [Threads -> Chunks]
  /\ size \in [Threads -> Sizes \cup {0}]
  /\ own \in [Threads -> Chunks \cup {NULL}]
  /\ gc \in {"idle", "freeing", "freed"}
  /\ gcAt \in Chunks \cup {NULL}

\* No two deltas of a chain share a byte, nor does one with what is around its
\* chunk, whoever allocated them and in whatever order the threads met the end of
\* a chunk; and the chunk a delta is in stays allocated until the chain is
\* destroyed, also when the thread that made it lost the race to link it.
SlotsDisjoint ==
  /\ \A i \in 1 .. Len(slots) : slots[i].low >= 0 /\ slots[i].high <= ChunkBytes
  /\ \A i, j \in 1 .. Len(slots) : i < j =>
       \/ slots[i].chunk # slots[j].chunk
       \/ slots[i].low >= slots[j].high
       \/ slots[j].low >= slots[i].high
  /\ gc = "idle" => \A i \in 1 .. Len(slots) : slots[i].chunk \in heap

\* Destroy() frees every chunk that was allocated: the ones that lost the race
\* to be linked are gone by then, and none is linked where the walk does not
\* come by.
ChunksFreed == gc = "freed" => heap = {}
=============================================================================
