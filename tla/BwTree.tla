------------------------------- MODULE BwTree -------------------------------
(***************************************************************************)
(* The Bw-Tree of bwtree.h: a B-link tree without latches.  Every node has *)
(* an id; mapping_table[id] points to a chain of deltas over a base node,  *)
(* and every change is one compare-and-swap of that entry.  A split, a     *)
(* merge or a new root takes several of them, and whichever thread next    *)
(* meets a half-done one finishes it (FinishPartialSMO) before going on.   *)
(*                                                                         *)
(* A chain is represented by what it says (LeafChain and InnerChain check  *)
(* that the walks over a chain compute just that): its low key, its high   *)
(* key with the right sibling's id, its items, the type of its topmost     *)
(* delta and its depth.  Ids are not recycled; module EpochManager is      *)
(* about when they may be.                                                 *)
(*                                                                         *)
(* One step is one atomic access to shared memory followed by the local    *)
(* code up to the next.  Between steps a thread's Context holds its        *)
(* snapshots; a snapshot is fresh while mapping_table[id] holds the        *)
(* pointer it was taken from, an abort delta on top set aside.             *)
(***************************************************************************)
EXTENDS Integers, FiniteSets, SequencesExt, FiniteSetsExt, SortedSets

CONSTANTS
  Threads,
  MaxId,             \* bound: node ids 1..MaxId
  LeafUpper, LeafLower,      \* LEAF_NODE_SIZE_UPPER/LOWER_THRESHOLD
  InnerUpper, InnerLower,    \* INNER_NODE_SIZE_UPPER/LOWER_THRESHOLD
  LeafDepth, InnerDepth,     \* LEAF/INNER_DELTA_CHAIN_LENGTH_THRESHOLD
  CacheSize,         \* cache_size of the LRU caches
  Scenarios          \* what a run may start from: a tree [root, next, mapping], what
                     \* every thread's lru_cache holds, the requests
                     \* <<operation, key>> the callers make, and a bound: how many
                     \* operations are started in all (ops)

ASSUME BwTreeAssumption ==
  /\ \A s \in Scenarios :
       /\ s.requests \subseteq {"insert", "insertLRU", "delete", "get", "scan"} \X (Nat \ {0})
       /\ s.ops \in Nat
  /\ MaxId \in Nat /\ CacheSize \in Nat \ {0}
  /\ {LeafUpper, InnerUpper, LeafDepth, InnerDepth} \subseteq Nat \ {0}
  /\ LeafLower \in 0 .. LeafUpper - 1 /\ InnerLower \in 0 .. InnerUpper - 1
  /\ InnerUpper >= 2

\* Insert_LRU() promises what Insert() does.
Promised(op) == IF op = "insertLRU" THEN "insert" ELSE op
\* The requests that ConcurrentIndex is about.
Requests ==
  {<<Promised(r[1]), r[2]>> : r \in {q \in UNION {s.requests : s \in Scenarios} : q[1] # "scan"}}

VARIABLES
  root_id,
  mapping,      \* mapping_table, without abort deltas
  blocked,      \* ids whose entry has an InnerAbortNode on top
  next_unused_node_id,
  ctx,          \* thread -> its Context and where it is
  contents,     \* the keys in the index, as its callers have been told
  released,     \* ids handed to the epoch manager by PostInnerDeleteNode()
  lru_cache,    \* thread -> its LRUcache, <<key, NodeID>> pairs, newest first
  left,         \* operations that may still be started
  requests      \* the requests of the scenario

shared == <<root_id, mapping, blocked, next_unused_node_id, contents, released, lru_cache>>
bounds == <<left, requests>>
vars   == <<shared, ctx, bounds>>

INVALID_NODE_ID == 0
\* parent_snapshot of a reader: its memory was never written.
UNSET           == -1
NodeIds == 1 .. MaxId
LowKey  == 0     \* KeyType{}: the low key of the leftmost nodes

-----------------------------------------------------------------------------
(* Nodes                                                                   *)

\* A consolidated node.  items maps the separators of an inner node to the ids
\* of its children, the keys of a leaf to INVALID_NODE_ID.
Base(kind, low, high, items) ==
  [kind |-> kind, type |-> "base", low |-> low, high |-> high, items |-> items,
   depth |-> 0, sep |-> 0, other |-> 0, merges |-> FALSE]

\* An id that is not allocated.
NoNode == Base("leaf", LowKey, <<0, INVALID_NODE_ID>>, [k \in {} |-> INVALID_NODE_ID])

IsLeaf(n)      == n.kind = "leaf"
IsDeltaNode(n) == n.type # "base"
GetNextNodeID(n) == n.high[2]
\* Does k lie to the left of the high key?
InRange(n, k)  == GetNextNodeID(n) = INVALID_NODE_ID \/ k < n.high[1]
Seps(n)        == DOMAIN n.items
GetSize(n)     == Cardinality(Seps(n))

GetLowKeyNodeID(n) == n.items[n.low]
\* NavigateInnerNode(): the child to go down to.
ChildFor(n, k) == n.items[Max({s \in Seps(n) : s <= k})]
\* NavigateInnerNode() with a location: is k a separator?  The node's own first
\* item is skipped, its key may be a place holder.
Found(n, k)    == k \in Seps(n) \ {n.low}
\* FindLeftSibling(): the separator before the last one not above k.
LeftSeps(n, k) == {s \in Seps(n) : s <= k}
LeftOf(n, k)   == n.items[Max(LeftSeps(n, k) \ {Max(LeftSeps(n, k))})]

\* CollectAllValuesOnLeaf(), CollectAllSepsOnInner()
Consolidated(n) == Base(n.kind, n.low, n.high, n.items)

\* The items of n on one side of a split, with one more, and with its right sibling's.
Part(n, S) == [k \in S |-> n.items[k]]
WithItem(n, k, id) == [s \in Seps(n) \cup {k} |-> IF s = k THEN id ELSE n.items[s]]
WithItemsOf(n, right) ==
  [s \in Seps(n) \cup Seps(right) |-> IF s \in Seps(n) THEN n.items[s] ELSE right.items[s]]

\* FindSplitPoint(): the items left of a leaf's split, 0 if there is no point.
\* (The walks over equal keys are in module LeafChain: keys are unique here.)
FindSplitPoint(n) ==
  LET central == GetSize(n) \div 2 IN
  IF central > LeafLower THEN central
  ELSE IF GetSize(n) - (central + 1) > LeafLower THEN central + 1
  ELSE 0

SplitIndex(n) == IF IsLeaf(n) THEN FindSplitPoint(n) ELSE GetSize(n) \div 2
SplitKey(n)   == Nth(Seps(n), SplitIndex(n))

\* GetSplitSibling(), and the Leaf/InnerSplitNode over the node itself.
SplitSibling_NoKey(n) ==
  Base(n.kind, SplitKey(n), n.high, Part(n, {k \in Seps(n) : k > SplitKey(n)}))
SplitSibling_SameLowKey(n) ==
  Base(n.kind, n.low, n.high, Part(n, {k \in Seps(n) : k >= SplitKey(n)}))
SplitSibling(n) ==
  Base(n.kind, SplitKey(n), n.high, Part(n, {k \in Seps(n) : k >= SplitKey(n)}))
SplitNode(n, id) ==
  [n EXCEPT !.type = "split", !.high = <<SplitKey(n), id>>, !.sep = SplitKey(n),
            !.other = id, !.items = Part(n, {k \in Seps(n) : k < SplitKey(n)})]

RemoveNode(n) == [n EXCEPT !.type = "remove"]

\* PostLeafMergeNode(), PostInnerMergeNode(): n takes over its right sibling.
MergeNode_SameNext(n, right, id) ==
  [n EXCEPT !.type = "merge", !.high[1] = right.high[1], !.sep = n.high[1],
            !.other = id, !.items = WithItemsOf(n, right), !.depth = @ + right.depth,
            !.merges = ~IsLeaf(n)]
MergeNode(n, right, id) ==
  [n EXCEPT !.type = "merge", !.high = right.high, !.sep = n.high[1], !.other = id,
            !.items = WithItemsOf(n, right), !.depth = @ + right.depth,
            !.merges = ~IsLeaf(n)]

DataNode(n, items) ==
  [n EXCEPT !.type = "delta", !.items = items, !.depth = @ + 1, !.sep = 0, !.other = 0]
InnerInsertNode(n, k, id) == DataNode(n, WithItem(n, k, id))
InnerDeleteNode(n, k) == DataNode(n, Part(n, Seps(n) \ {k}))
LeafInsertNode(n, k) == DataNode(n, WithItem(n, k, INVALID_NODE_ID))
LeafDeleteNode(n, k) == DataNode(n, Part(n, Seps(n) \ {k}))

-----------------------------------------------------------------------------
(* Trees.  What is true of a mapping table m with the ids below next in    *)
(* use, of which a run may start from any (SMOs may be half done).         *)

NodeSet(keys) ==
  [kind : {"leaf", "inner"}, type : {"base", "delta", "split", "merge", "remove"},
   low : Nat, high : Nat \X (0 .. MaxId), items : [keys -> 0 .. MaxId], depth : Nat,
   sep : Nat, other : 0 .. MaxId, merges : BOOLEAN]
IsNode(n) == Seps(n) \in SUBSET Nat /\ n \in NodeSet(Seps(n))

InUse(next) == 1 .. next - 1
\* Node id starts at low and, as its right sibling or child, is right of another.
StartsAt(m, next, id, low) == id \in InUse(next) /\ m[id].low = low

\* What a node says of itself and of others: its items lie between its low key
\* and its high key, and where it leads to starts at the key that leads there.
SoundItems(n) == IsFiniteSet(Seps(n)) /\ \A k \in Seps(n) : n.low <= k /\ InRange(n, k)
SoundChildren(m, next, n) ==
  IF IsLeaf(n) THEN \A k \in Seps(n) : n.items[k] = INVALID_NODE_ID
  ELSE n.low \in Seps(n) /\ \A k \in Seps(n) : StartsAt(m, next, n.items[k], k)
SoundSibling(m, next, n) ==
  GetNextNodeID(n) # INVALID_NODE_ID =>
    /\ n.low < n.high[1]
    /\ StartsAt(m, next, GetNextNodeID(n), n.high[1])
    /\ m[GetNextNodeID(n)].kind = n.kind
SoundDelta(next, n) ==
  /\ n.type = "split" => n.high = <<n.sep, n.other>> /\ n.other # INVALID_NODE_ID
  /\ n.type = "merge" => n.low < n.sep /\ n.other \in InUse(next)
Sound(m, next, n) ==
  /\ IsNode(n) /\ SoundItems(n) /\ SoundChildren(m, next, n)
  /\ SoundSibling(m, next, n) /\ SoundDelta(next, n)

FIRST_LEAF_NODE_ID == 2
\* The leaves that are not merged yet: linked from the first one, their ranges
\* do not overlap.  Only removed leaves have been merged.
LeavesLinked(m, next, leaves) ==
  /\ FIRST_LEAF_NODE_ID \in leaves /\ m[FIRST_LEAF_NODE_ID].low = LowKey
  /\ \A i \in leaves : IsLeaf(m[i]) /\ GetNextNodeID(m[i]) \in leaves \cup {INVALID_NODE_ID}
  /\ \A i \in leaves \ {FIRST_LEAF_NODE_ID} : \E j \in leaves : GetNextNodeID(m[j]) = i
  /\ \A i \in leaves : \A j \in leaves \ {i} :
       m[i].low <= m[j].low => ~InRange(m[i], m[j].low)
  /\ \A i \in InUse(next) \ leaves : IsLeaf(m[i]) => m[i].type = "remove"

WellFormed(tree) ==
  /\ tree.next \in 1 .. MaxId + 1
  /\ DOMAIN tree.mapping = NodeIds /\ \A i \in NodeIds : IsNode(tree.mapping[i])
  /\ \A i \in InUse(tree.next) : Sound(tree.mapping, tree.next, tree.mapping[i])
  /\ StartsAt(tree.mapping, tree.next, tree.root, LowKey)
  /\ ~IsLeaf(tree.mapping[tree.root])
  /\ \E leaves \in SUBSET InUse(tree.next) : LeavesLinked(tree.mapping, tree.next, leaves)

\* A cached node starts left of its key.
WellCached(tree, cache) ==
  /\ cache \in Seq(Nat \X InUse(tree.next)) /\ Len(cache) <= CacheSize
  /\ \A e \in ToSet(cache) : ~IsLeaf(tree.mapping[e[2]]) /\ tree.mapping[e[2]].low <= e[1]

ASSUME ScenarioAssumption ==
  \A s \in Scenarios : WellFormed(s.tree) /\ WellCached(s.tree, s.cache)

-----------------------------------------------------------------------------
(* Contexts.  pending holds the remove deltas whose left sibling is being  *)
(* looked for, <<removed id, its chain>>, innermost first.                 *)

NoSnap == [id |-> INVALID_NODE_ID, node |-> NoNode, fresh |-> FALSE]

PCs == {"idle", "hit", "root", "take", "jump", "removeCheck", "parentConsolidate",
        "mergePost", "mergeCheck", "postDelete", "postInsert", "newRoot",
        "consolidate", "tryConsolidate", "probe", "split", "abortPost",
        "removePost", "abortUndo", "op", "done", "undefined"}

\* No operation.  got is what an iterator has yielded; seen, steady and ever say
\* what was in the index since the call: whether the key was, which keys have
\* been all the time, which ones at some time; freed is the ids that were released
\* before the call: their entries may have been cleared or used again.
IdleContext ==
  [pc |-> "idle", op |-> "none", key |-> 0, cur |-> NoSnap, par |-> NoSnap,
   pending |-> <<>>, to |-> INVALID_NODE_ID, res |-> FALSE, seen |-> {},
   got |-> <<>>, steady |-> {}, ever |-> {}, freed |-> {}]

Unset == [NoSnap EXCEPT !.id = UNSET]

\* abort_flag: back to the root.  A reader never writes parent_snapshot.
Abort(c) ==
  [c EXCEPT !.pc = "root", !.cur = NoSnap, !.pending = <<>>, !.to = INVALID_NODE_ID,
            !.par = IF c.op = "get" THEN Unset ELSE NoSnap]

\* A new Context.  Traverse_LRU() starts at the node the thread's lru_cache has
\* for the key; parent_snapshot is not written then.
Begin(c, cache) ==
  LET entries == {e \in ToSet(cache) : e[1] = c.key} IN
  IF c.op = "insertLRU" /\ entries # {}
  THEN [Abort(c) EXCEPT !.pc = "hit", !.par = Unset, !.to = (CHOOSE e \in entries : TRUE)[2]]
  ELSE Abort(c)

\* LRUcache::refer(): the oldest entry makes room for a new key.
Refer(cache, key, id) ==
  LET at == {i \in DOMAIN cache : cache[i][1] = key} IN
  <<<<key, id>>>> \o (IF at # {} THEN RemoveAt(cache, Min(at))
                    ELSE IF Len(cache) = CacheSize THEN Front(cache) ELSE cache)

At(c, pc)          == [c EXCEPT !.pc = pc]
\* The operation has its answer; its Context is gone.
Done(c, res) ==
  [c EXCEPT !.pc = "done", !.res = res, !.cur = NoSnap, !.par = NoSnap]
HasParentNode(c)   == c.par.id \in NodeIds
\* IsOnRootNode(), when parent_snapshot has been written.
IsOnRootNode(c)    == c.par.id = INVALID_NODE_ID
IsOnLeftMostChild_Never(c) == FALSE
IsOnLeftMostChild(c) == GetLowKeyNodeID(c.par.node) = c.cur.id
Reading(c)         == c.op = "get"
\* The code at pc dereferences parent_snapshot.node_p, whatever it holds.
WithParent(c, next) == IF HasParentNode(c) THEN next ELSE At(c, "undefined")

\* The sibling links from the first leaf, which is never removed.
LeafAt[i \in Nat] ==
  IF i = 0 THEN FIRST_LEAF_NODE_ID
  ELSE IF LeafAt[i - 1] = INVALID_NODE_ID THEN INVALID_NODE_ID
  ELSE GetNextNodeID(mapping[LeafAt[i - 1]])
LeafIds == {LeafAt[i] : i \in 0 .. MaxId} \ {INVALID_NODE_ID}

Init ==
  /\ \E s \in Scenarios :
       /\ root_id = s.tree.root
       /\ mapping = s.tree.mapping
       /\ next_unused_node_id = s.tree.next
       /\ lru_cache = [t \in Threads |-> s.cache]
       /\ requests = s.requests
       /\ left = s.ops
  /\ blocked = {}
  /\ ctx = [t \in Threads |-> IdleContext]
  /\ contents = UNION {Seps(mapping[id]) : id \in LeafIds}
  /\ released = {}

-----------------------------------------------------------------------------
(* The code between two atomic accesses.  Each operator says where a       *)
(* Context goes on from a point of the code; they are listed last to first.*)

\* ForwardIterator::LowerBound() has its leaf: the iterator yields the items from
\* the start key on, and looks for the next page at the leaf's high key.
PageItems_All(n, start) == Seps(n)
PageItems(n, start) == {k \in Seps(n) : k >= start}

LowerBound(c) ==
  LET n == c.cur.node
      d == [c EXCEPT !.got = @ \o Sorted(PageItems(n, c.key))] IN
  IF GetNextNodeID(n) = INVALID_NODE_ID THEN Done(d, TRUE)
  ELSE Abort([d EXCEPT !.key = n.high[1]])

\* NavigateSiblingChain(), then NavigateInnerNode() or what the operation does
\* with the leaf.
Navigate(c) ==
  LET n == c.cur.node IN
  IF ~InRange(n, c.key) THEN [c EXCEPT !.pc = "jump", !.to = GetNextNodeID(n)]
  ELSE IF ~IsLeaf(n) THEN [c EXCEPT !.pc = "take", !.to = ChildFor(n, c.key)]
  ELSE IF c.op = "scan" THEN LowerBound(c)
  ELSE LET present == c.key \in Seps(n) IN
       IF c.op = "get" THEN Done(c, present)
       ELSE IF (Promised(c.op) = "insert") = present THEN Done(c, FALSE)
       ELSE At(c, "op")

\* JumpToLeftSibling(): the node it jumped to is still the left neighbour.
IsLeftSibling_Assumed(n, id) == TRUE
IsLeftSibling(n, id) == GetNextNodeID(n) = id

\* LoadNodeID() or JumpToNodeID() is over.  If it was JumpToLeftSibling() that
\* jumped, the merge delta comes next.
Loaded(c) ==
  IF c.pending = <<>> THEN Navigate(c)
  ELSE IF ~IsLeftSibling(c.cur.node, Head(c.pending)[1]) THEN Abort(c)
  ELSE At(c, "mergePost")

\* AdjustNodeSize() leaves a chain of deltas to a later visit.
Adjustable_Always(n) == TRUE
Adjustable(n) == ~IsDeltaNode(n)

AdjustNodeSize(c) ==
  LET n == c.cur.node IN
  IF ~Adjustable(n) THEN Loaded(c)
  ELSE IF IsLeaf(n) /\ GetSize(n) >= LeafUpper
       THEN IF FindSplitPoint(n) = 0 THEN Loaded(c) ELSE At(c, "split")
  ELSE IF ~IsLeaf(n) /\ GetSize(n) >= InnerUpper THEN At(c, "probe")
  ELSE IF GetSize(n) > (IF IsLeaf(n) THEN LeafLower ELSE InnerLower) THEN Loaded(c)
  ELSE IF ~IsLeaf(n) /\ IsOnRootNode(c) THEN Loaded(c)
  ELSE WithParent(c, IF IsOnLeftMostChild(c) THEN Loaded(c) ELSE At(c, "abortPost"))

\* TryConsolidateNode()
TryConsolidateNode(c) ==
  LET n == c.cur.node IN
  IF IsDeltaNode(n) /\ n.depth >= (IF IsLeaf(n) THEN LeafDepth ELSE InnerDepth)
  THEN At(c, "tryConsolidate")
  ELSE AdjustNodeSize(c)

\* FinishPartialSMO(), by the type of the node's topmost delta.
FinishRemove(c) ==
  WithParent(c, IF IsOnLeftMostChild(c) THEN Abort(c) ELSE At(c, "removeCheck"))

FinishMerge(c) == WithParent(c, At(c, "mergeCheck"))

FinishSplit(c) ==
  LET n == c.cur.node
      p == c.par.node IN
  IF IsOnRootNode(c) THEN At(c, "newRoot")
  ELSE WithParent(c,
         IF ~InRange(p, n.sep) THEN TryConsolidateNode(c)
         ELSE IF ~Found(p, n.sep) THEN At(c, "postInsert")
         ELSE IF p.items[n.sep] # n.other THEN Abort(c)
         ELSE TryConsolidateNode(c))

FinishPartialSMO(c) ==
  CASE c.cur.node.type = "remove" -> FinishRemove(c)
    [] c.cur.node.type = "merge"  -> FinishMerge(c)
    [] c.cur.node.type = "split"  -> FinishSplit(c)
    [] OTHER                      -> TryConsolidateNode(c)

\* FinishPartialSMOReadOptimized(): no SMO is finished, a remove delta aborts.
FinishPartialSMOReadOptimized(c) ==
  IF c.cur.node.type = "remove" THEN Abort(c) ELSE Navigate(c)

-----------------------------------------------------------------------------
(* The steps                                                               *)

Snapshot(id) == [id |-> id, node |-> mapping[id], fresh |-> TRUE]
\* mapping_table[id] is the pointer the snapshot holds: a CAS succeeds.
Current_Assumed(snap) == snap.id \notin blocked
Current(snap) == snap.fresh /\ snap.id \notin blocked

\* Other threads' snapshots of id are out of date.
Outdated(c, id) ==
  [c EXCEPT !.cur.fresh = @ /\ c.cur.id # id, !.par.fresh = @ /\ c.par.id # id]

Continue(t, c) == ctx' = [ctx EXCEPT ![t] = c]
\* InstallNodeToReplace() succeeds: id now points to n, and t goes on as c.
Install(t, id, n, c) ==
  /\ mapping' = [mapping EXCEPT ![id] = n]
  /\ ctx' = [u \in Threads |-> IF u = t THEN c ELSE Outdated(ctx[u], id)]

\* An operation is called: Insert(), Insert_LRU(), Delete() or GetValue(), or an
\* iteration from a key to the end.
Called(op, key) ==
  LET c == [IdleContext EXCEPT !.op = op, !.key = key] IN
  IF op = "scan" THEN [c EXCEPT !.steady = {k \in contents : k >= key}, !.ever = contents]
  ELSE [c EXCEPT !.seen = {(key \in contents)}, !.freed = IF op = "insertLRU" THEN released ELSE {}]

Start(t) ==
  /\ ctx[t].pc = "idle"
  /\ left > 0
  /\ left' = left - 1
  /\ \E r \in requests : Continue(t, Begin(Called(r[1], r[2]), lru_cache[t]))
  /\ UNCHANGED <<shared, requests>>

\* Traverse_LRU() takes a cached node as it is, whatever delta is on top of it.
\* The epoch does not protect an id that was released before the call; and with
\* an abort delta in the snapshot no navigation of the parent is defined, nor
\* will its CAS succeed as it should.
CacheHit(t) ==
  LET id == ctx[t].to
      c == [ctx[t] EXCEPT !.cur = [Snapshot(id) EXCEPT !.fresh = id \notin blocked],
                          !.to = INVALID_NODE_ID] IN
  /\ ctx[t].pc = "hit"
  /\ \/ Continue(t, Navigate(c))
     \/ id \in c.freed \cup blocked /\ Continue(t, At(c, "undefined"))
  /\ UNCHANGED <<shared, bounds>>

\* start_node_id = root_id.load()
LoadRoot(t) ==
  /\ ctx[t].pc = "root"
  /\ Continue(t, [ctx[t] EXCEPT !.pc = "take", !.to = root_id])
  /\ UNCHANGED <<shared, bounds>>

\* LoadNodeID(), and LoadNodeIDReadOptimized() for a reader.
LoadNodeID(t) ==
  /\ ctx[t].pc = "take"
  /\ LET c == [ctx[t] EXCEPT !.cur = Snapshot(ctx[t].to), !.to = INVALID_NODE_ID] IN
     Continue(t, IF Reading(c) THEN FinishPartialSMOReadOptimized(c)
                 ELSE FinishPartialSMO([c EXCEPT !.par = ctx[t].cur]))
  /\ UNCHANGED <<shared, bounds>>

\* JumpToNodeID(), the same for readers.
JumpToNodeID(t) ==
  /\ ctx[t].pc = "jump"
  /\ Continue(t, FinishPartialSMO([ctx[t] EXCEPT !.cur = Snapshot(ctx[t].to),
                                                 !.to = INVALID_NODE_ID]))
  /\ UNCHANGED <<shared, bounds>>

\* The end of FindLeftSibling(): jump to it with the remove delta pending.
\* With a single separator up to the low key its loop runs off the array.
JumpLeft(c) ==
  IF Cardinality(LeftSeps(c.par.node, c.cur.node.low)) < 2 THEN At(c, "undefined")
  ELSE [c EXCEPT !.pc = "jump", !.to = LeftOf(c.par.node, c.cur.node.low),
                 !.pending = <<<<c.cur.id, c.cur.node>>>> \o @]

\* JumpToLeftSibling() compares its parent snapshot with the mapping table;
\* FindLeftSibling() has to consolidate a parent that has a merge delta.
JumpToLeftSibling(t) ==
  LET c == ctx[t] IN
  /\ c.pc = "removeCheck"
  /\ Continue(t, IF ~Current(c.par) THEN Abort(c)
                 ELSE IF c.par.node.merges THEN At(c, "parentConsolidate")
                 ELSE JumpLeft(c))
  /\ UNCHANGED <<shared, bounds>>

\* The new base node does not start at depth 0 but where the chain ended.
ConsolidateParent(t) ==
  LET c == ctx[t]
      n == [Consolidated(c.par.node) EXCEPT !.depth = c.par.node.depth + 1] IN
  /\ c.pc = "parentConsolidate"
  /\ IF Current(c.par)
     THEN Install(t, c.par.id, n, JumpLeft([c EXCEPT !.par.node = n]))
     ELSE UNCHANGED mapping /\ Continue(t, JumpLeft(c))
  /\ UNCHANGED <<root_id, blocked, next_unused_node_id, contents, released, lru_cache, bounds>>

\* PostLeafMergeNode(), PostInnerMergeNode() on the left sibling.
PostMergeNode(t) ==
  LET c == ctx[t]
      removed == Head(c.pending)
      n == MergeNode(c.cur.node, removed[2], removed[1]) IN
  /\ c.pc = "mergePost"
  /\ IF Current(c.cur)
     THEN Install(t, c.cur.id, n,
                  [c EXCEPT !.cur.node = n, !.pending = Tail(@), !.pc = "mergeCheck"])
     ELSE UNCHANGED mapping /\ Continue(t, Abort(c))
  /\ UNCHANGED <<root_id, blocked, next_unused_node_id, contents, released, lru_cache, bounds>>

\* FinishPartialSMO() decides by its parent snapshot only if it is current.
ParentKnown(c) == Current(c.par)

\* A merge delta: is the separator still in the parent?
CheckMerge(t) ==
  LET c == ctx[t] IN
  /\ c.pc = "mergeCheck"
  /\ Continue(t, IF ~ParentKnown(c) THEN Abort(c)
                 ELSE IF Found(c.par.node, c.cur.node.sep) THEN At(c, "postDelete")
                 ELSE TryConsolidateNode(c))
  /\ UNCHANGED <<shared, bounds>>

\* PostInnerDeleteNode(); the removed node is garbage and its id with it.
PostInnerDeleteNode(t) ==
  LET c == ctx[t]
      n == InnerDeleteNode(c.par.node, c.cur.node.sep) IN
  /\ c.pc = "postDelete"
  /\ IF Current(c.par)
     THEN /\ Install(t, c.par.id, n, [c EXCEPT !.par.node = n, !.pc = "consolidate"])
          /\ released' = released \cup {c.cur.node.other}
     ELSE UNCHANGED <<mapping, released>> /\ Continue(t, Abort(c))
  /\ UNCHANGED <<root_id, blocked, next_unused_node_id, contents, lru_cache, bounds>>

PostInnerInsertNode(t) ==
  LET c == ctx[t]
      n == InnerInsertNode(c.par.node, c.cur.node.sep, c.cur.node.other) IN
  /\ c.pc = "postInsert"
  /\ IF Current(c.par)
     THEN Install(t, c.par.id, n, [c EXCEPT !.par.node = n, !.pc = "consolidate"])
     ELSE UNCHANGED mapping /\ Continue(t, Abort(c))
  /\ UNCHANGED <<root_id, blocked, next_unused_node_id, contents, released, lru_cache, bounds>>

\* A split delta on the root: a new root with two items.  The traversal starts
\* again whether or not InstallRootNode() succeeds.
InstallRootNode(t) ==
  LET c == ctx[t]
      items == [s \in {LowKey, c.cur.node.sep} |->
                  IF s = LowKey THEN c.cur.id ELSE c.cur.node.other] IN
  /\ c.pc = "newRoot"
  /\ IF root_id = c.cur.id
     THEN /\ next_unused_node_id <= MaxId
          /\ mapping' = [mapping EXCEPT ![next_unused_node_id] =
                           Base("inner", LowKey, <<0, INVALID_NODE_ID>>, items)]
          /\ root_id' = next_unused_node_id
          /\ next_unused_node_id' = next_unused_node_id + 1
     ELSE UNCHANGED <<mapping, root_id, next_unused_node_id>>
  /\ Continue(t, Abort(c))
  /\ UNCHANGED <<blocked, contents, released, lru_cache, bounds>>

\* ConsolidateNode() on the current snapshot, after an SMO was finished or from
\* TryConsolidateNode().  If the CAS fails the chain is used as it is.
ConsolidateNode(t) ==
  LET c == ctx[t]
      n == Consolidated(c.cur.node)
      After(d) == IF c.pc = "consolidate" THEN TryConsolidateNode(d)
                  ELSE AdjustNodeSize(d) IN
  /\ c.pc \in {"consolidate", "tryConsolidate"}
  /\ IF Current(c.cur)
     THEN Install(t, c.cur.id, n, After([c EXCEPT !.cur.node = n]))
     ELSE UNCHANGED mapping /\ Continue(t, After(c))
  /\ UNCHANGED <<root_id, blocked, next_unused_node_id, contents, released, lru_cache, bounds>>

\* An inner node is not split at a child that has a remove delta.
MaySplitAt(child) == mapping[child].type # "remove"

ProbeSplitChild(t) ==
  LET c == ctx[t]
      child == c.cur.node.items[SplitKey(c.cur.node)] IN
  /\ c.pc = "probe"
  /\ Continue(t, IF MaySplitAt(child) THEN At(c, "split") ELSE Loaded(c))
  /\ UNCHANGED <<shared, bounds>>

PostSplitNode(t) ==
  LET c == ctx[t]
      new == next_unused_node_id
      n == c.cur.node IN
  /\ c.pc = "split"
  /\ IF Current(c.cur)
     THEN /\ new <= MaxId
          /\ mapping' = [mapping EXCEPT ![new] = SplitSibling(n),
                                        ![c.cur.id] = SplitNode(n, new)]
          /\ ctx' = [u \in Threads |-> IF u = t THEN Abort(c)
                                       ELSE Outdated(ctx[u], c.cur.id)]
          /\ next_unused_node_id' = new + 1
     ELSE UNCHANGED <<mapping, next_unused_node_id>> /\ Continue(t, Loaded(c))
  /\ UNCHANGED <<root_id, blocked, contents, released, lru_cache, bounds>>

PostAbortOnParent(t) ==
  LET c == ctx[t] IN
  /\ c.pc = "abortPost"
  /\ IF Current(c.par)
     THEN blocked' = blocked \cup {c.par.id} /\ Continue(t, At(c, "removePost"))
     ELSE UNCHANGED blocked /\ Continue(t, Abort(c))
  /\ UNCHANGED <<root_id, mapping, next_unused_node_id, contents, released, lru_cache, bounds>>

PostRemoveNode(t) ==
  LET c == ctx[t] IN
  /\ c.pc = "removePost"
  /\ IF Current(c.cur)
     THEN Install(t, c.cur.id, RemoveNode(c.cur.node), At(c, "abortUndo"))
     ELSE UNCHANGED mapping /\ Continue(t, At(c, "abortUndo"))
  /\ UNCHANGED <<root_id, blocked, next_unused_node_id, contents, released, lru_cache, bounds>>

\* RemoveAbortOnParent() puts back the pointer PostAbortOnParent() replaced:
\* snapshots taken before the abort delta are current again.
RemoveAbortOnParent(t) ==
  /\ ctx[t].pc = "abortUndo"
  /\ blocked' = blocked \ {ctx[t].par.id}
  /\ Continue(t, Abort(ctx[t]))
  /\ UNCHANGED <<root_id, mapping, next_unused_node_id, contents, released, lru_cache, bounds>>

\* What another thread's operation has seen of the index once it holds now.
Observe(c, k, now) ==
  IF c.op = "scan" /\ c.pc # "done"
  THEN [c EXCEPT !.steady = @ \cap now, !.ever = @ \cup now]
  ELSE IF c.op # "scan" /\ c.key = k THEN [c EXCEPT !.seen = @ \cup {(k \in now)}]
  ELSE c

\* The node that Insert_LRU() found its leaf below.
CachedNode(c) == c.par.id

\* The CAS of Insert(), Insert_LRU() or Delete() on the leaf; if it fails they
\* start again with a new Context.
PostLeafNode(t) ==
  LET c == ctx[t]
      k == c.key
      inserts == Promised(c.op) = "insert"
      n == IF inserts THEN LeafInsertNode(c.cur.node, k) ELSE LeafDeleteNode(c.cur.node, k) IN
  /\ c.pc = "op"
  /\ IF Current(c.cur)
     THEN /\ mapping' = [mapping EXCEPT ![c.cur.id] = n]
          /\ contents' = IF inserts THEN contents \cup {k} ELSE contents \ {k}
          /\ ctx' = [u \in Threads |->
               IF u = t THEN Done([c EXCEPT !.seen = {(k \in contents)}], TRUE)
               ELSE Observe(Outdated(ctx[u], c.cur.id), k, contents')]
          /\ lru_cache' = IF c.op = "insertLRU"
                         THEN [lru_cache EXCEPT ![t] = Refer(@, k, CachedNode(c))]
                         ELSE lru_cache
     ELSE UNCHANGED <<mapping, contents, lru_cache>> /\ Continue(t, Begin(c, lru_cache[t]))
  /\ UNCHANGED <<root_id, blocked, next_unused_node_id, released, bounds>>

Return(t) ==
  /\ ctx[t].pc = "done"
  /\ Continue(t, IdleContext)
  /\ UNCHANGED <<shared, bounds>>

Step(t) ==
  \/ CacheHit(t) \/ LoadRoot(t) \/ LoadNodeID(t) \/ JumpToNodeID(t)
  \/ JumpToLeftSibling(t) \/ ConsolidateParent(t)
  \/ PostMergeNode(t) \/ CheckMerge(t) \/ PostInnerDeleteNode(t)
  \/ PostInnerInsertNode(t) \/ InstallRootNode(t)
  \/ ConsolidateNode(t) \/ ProbeSplitChild(t) \/ PostSplitNode(t)
  \/ PostAbortOnParent(t) \/ PostRemoveNode(t) \/ RemoveAbortOnParent(t)
  \/ PostLeafNode(t) \/ Return(t)

Next == \E t \in Threads : Start(t) \/ Step(t)

Spec == Init /\ [][Next]_vars
\* The operating system keeps running every thread that has something to do;
\* nothing obliges a thread to start an operation.
FairSpec == Spec /\ \A t \in Threads : WF_vars(Step(t))

-----------------------------------------------------------------------------
(* Properties                                                              *)

IsSnap(s) == s.id \in UNSET .. MaxId /\ s.fresh \in BOOLEAN /\ IsNode(s.node)

\* The type invariant: the parts of the tree and of a Context hold values of
\* their kinds, and the chain a Context works on is one its step can handle.
TypeOK ==
  /\ root_id \in NodeIds
  /\ \A i \in NodeIds : IsNode(mapping[i])
  /\ blocked \subseteq NodeIds /\ released \subseteq NodeIds
  /\ next_unused_node_id \in 1 .. MaxId + 1
  /\ contents \subseteq Nat
  /\ left \in Nat
  /\ \A t \in Threads : /\ lru_cache[t] \in Seq(Nat \X NodeIds)
                        /\ Len(lru_cache[t]) <= CacheSize
  /\ \A t \in Threads :
       LET c == ctx[t] IN
       /\ c.pc \in PCs
       /\ IsSnap(c.cur) /\ IsSnap(c.par)
       /\ c.to \in 0 .. MaxId /\ c.res \in BOOLEAN /\ c.seen \subseteq BOOLEAN
       /\ c.pc \in {"mergeCheck", "postDelete"} => c.cur.node.type = "merge"
       /\ c.pc \in {"postInsert", "newRoot"} => c.cur.node.type = "split"
       /\ c.pc \in {"split", "probe", "removePost"} => c.cur.node.type = "base"
       /\ c.pc = "op" => IsLeaf(c.cur.node)

Live(id) == id < next_unused_node_id /\ mapping[id].type # "remove"
LiveIds  == {id \in NodeIds : Live(id)}
\* Whatever SMOs are half done, the sibling links from the first leaf visit
\* leaves that divide the keys among them, each at its high key, and hold
\* exactly the keys that were inserted and not deleted (AdjustNodeSize(),
\* PostLeafMergeNode()).
ContentsKept ==
  /\ contents = UNION {Seps(mapping[id]) : id \in LeafIds}
  /\ \A id \in LeafIds :
       LET n == mapping[id] IN
       /\ IsLeaf(n)
       /\ \A k \in Seps(n) : n.low <= k /\ InRange(n, k)
       /\ GetNextNodeID(n) # INVALID_NODE_ID => mapping[GetNextNodeID(n)].low = n.high[1]

\* Every item of a live inner node leads to a node that starts at its
\* separator, so a traversal never gets to the right of its key and
\* NavigateSiblingChain() can always put it right.
SeparatorsExact ==
  \A p \in LiveIds : ~IsLeaf(mapping[p]) =>
    \A s \in Seps(mapping[p]) : mapping[mapping[p].items[s]].low = s

\* Once PostInnerDeleteNode() has given an id to the epoch manager, which will
\* recycle it, no live node leads to it, as a child or as a right sibling.
ReleasedUnreachable ==
  \A p \in LiveIds :
    /\ GetNextNodeID(mapping[p]) \notin released
    /\ \A s \in Seps(mapping[p]) : mapping[p].items[s] \notin released

\* The assertions of FinishPartialSMO() and PostInnerDeleteNode(): the item
\* found for a merge delta is the one it names, and that node has been removed.
DeletedIsRemoved ==
  \A t \in Threads : LET c == ctx[t] IN
    c.pc = "postDelete" /\ Current(c.par) =>
      /\ c.par.node.items[c.cur.node.sep] = c.cur.node.other
      /\ mapping[c.cur.node.other].type = "remove"

\* What a caller knows of its operation.
CallOf(c) ==
  IF c.pc = "idle" \/ c.op = "scan"
  THEN [state |-> "idle", op |-> "none", key |-> 0, res |-> FALSE, seen |-> {}]
  ELSE [state |-> IF c.pc = "done" THEN "done" ELSE "busy",
        op |-> Promised(c.op), key |-> c.key, res |-> c.res,
        seen |-> IF c.pc = "done" THEN {} ELSE c.seen]

Index == INSTANCE ConcurrentIndex WITH
           keys <- contents, call <- [t \in Threads |-> CallOf(ctx[t])]

\* Every Insert(), Delete() and GetValue() answers as a set of keys would at one
\* moment between its call and its return: an update when its leaf delta is
\* installed, a refusal or a read according to some state of the set meanwhile.
RefinesIndex == Index!Spec

\* An iteration yields keys in order and none twice, only keys that have been in
\* the index since it began, and every key that has been there all the time:
\* pages that split or merge between two LowerBound() calls are not skipped or
\* read again.
ScanExact ==
  \A t \in Threads : LET c == ctx[t] IN c.op = "scan" =>
    /\ \A i \in 1 .. Len(c.got) - 1 : c.got[i] < c.got[i + 1]
    /\ ToSet(c.got) \subseteq c.ever
    /\ \A k \in c.steady : k < c.key \/ c.pc = "done" => k \in ToSet(c.got)

\* parent_snapshot is only dereferenced when there is a parent: the code that
\* helps a remove or merge delta, or removes a node, is never run on a node
\* that was reached without one.
ParentDefined == \A t \in Threads : ctx[t].pc # "undefined"

\* Every operation returns, however often its traversal aborts.
OpsTerminate == \A t \in Threads : ctx[t].pc # "idle" ~> ctx[t].pc = "idle"
=============================================================================
