# Multiprocessor_Programming in TLA+

The repository holds four course projects on concurrent data structures:

| directory | what it is |
|---|---|
| `src/project1` | documents and archives only, no source |
| `src/project2` | a wait-free atomic snapshot and a throughput test of it |
| `src/project3` | the NoisePage/Peloton Bw-Tree (`bwtree/include/bwtree.h`), to which an LRU cache of inner nodes was added, and the thread pool its tests run on |
| `src/project4` | a patch to PostgreSQL: parallel WAL insertion with a Border-Collie recoverable LSN |

The modules in this directory model the Bw-Tree with its memory reclamation and
allocation, the worker pool and the atomic snapshot. Line numbers without a file
name are those of `src/project3/sourcefile/bwtree/include/bwtree.h`.

Contents: [1 Inventory](#1-inventory), [2 Modules](#2-modules),
[3 Runs](#3-runs), [4 Bounds](#4-bounds), [5 Fairness](#5-fairness),
[6 Proofs](#6-proofs), [7 Findings](#7-findings),
[8 What is not modelled](#8-what-is-not-modelled), [9 What is left](#9-what-is-left).

## 1 Inventory

### Bw-Tree (project 3)

**Mapping table, nodes, traversal, structure modification.** State: `root_id`,
`mapping_table` (one atomic pointer per node id), `next_unused_node_id`; per
operation a `Context` with the search key, the snapshot (id, pointer) of the
current node and of its parent, and `abort_flag`. A node is a chain of immutable
deltas over a base node; the only write to shared state is a compare-and-swap of
a mapping-table entry (`InstallNodeToReplace`). Operations: `Insert`,
`Insert_LRU`, `Delete`, `GetValue`, `ConditionalInsert`, iteration. Every one of
them traverses from the root (`Traverse`), finishing whatever half-done split,
remove or merge it meets (`FinishPartialSMO`), consolidating long chains
(`TryConsolidateNode`) and splitting or removing nodes of the wrong size
(`AdjustNodeSize`). What is hard: a split takes two CASes, a merge four
(abort delta on the parent, remove delta, merge delta, separator delete), done
by different threads; parents and left siblings are found from snapshots that
may be old; a lost CAS sends the operation back to the root. Right means: the
index answers like an atomic set, the sibling chain always holds every key once,
separators and released ids are exact, operations end.

**Leaf delta chains.** State: the chain of one leaf. Operations: posting insert,
delete, split and merge deltas; three walks that look for a key
(`NavigateLeafNode`); consolidation (`CollectAllValuesOnLeaf`); the split
point. What is hard: each delta carries an index into the base node below it, and
the walks and the consolidation each repeat the same case analysis over merge
deltas, deleted and re-inserted pairs. Right means: all of them agree with the
set of pairs that the deltas, read in order, stand for.

**Inner delta chains.** The same for separators: four walks (`NavigateInnerNode`,
its variant for backward iteration, the one that locates a separator,
`FindLeftSibling`) and `CollectAllSepsOnInner`. What is hard: a delta decides for a
whole range of keys as it was when the delta was posted, and carries the place of
its separator in a base node that another delta computed.

**Epoch-based garbage collection** (`EpochManager`, build `USE_OLD_EPOCH`).
State: a list of epochs, each with `active_thread_count` and a garbage list.
Workers join the newest epoch, leave the one they joined, and push replaced nodes
onto the newest one; a GC thread deletes the oldest epochs whose counter it finds
zero and creates a new one every interval. What is hard: joining is a load and a
`fetch_add`, cleaning a load and a `fetch_sub`, and they interleave. Right means:
no node is freed while a thread may hold it; every node is freed once.

**Preallocated delta slots** (`AllocationMeta`, `ElasticNode`). State: in front of
every base node a chunk of memory with an atomic `tail` and `next`. Threads cut
deltas off the tail with a `fetch_sub`, and link a new chunk when one is used up.
What is hard: several threads overrun a chunk at once, and several link a
successor at once. Right means: deltas do not overlap, and the whole chain of
chunks is freed.

**LRU cache of inner nodes** (`LRUcache`, `Insert_LRU`, `Traverse_LRU`). State:
per thread a list of keys with the id of the inner node each was found below.
What is hard: a remembered id may have been split, removed or released. Right
means: what it leads to is what `Traverse` leads to.

**Iterators.** State: a copy of one consolidated leaf and a position. The forward
iterator takes the next page by a traversal to the high key of the last one
(`LowerBound`). What is hard: leaves split and merge between two pages.

**Node ids.** `GetNextNodeID` (2718) takes an id from `node_id_list`, a queue of
released ids under a mutex, or from a counter if that is empty; `InvalidateNodeID`
puts them there. Right means: an id is released once nothing leads to it.
`AtomicStack`, once meant for the queue, is dead code (its use at 2471 is
commented out).

**Worker pool of the tests** (`worker_pool.h`). State: `workers_`, `task_queue_`,
`busy_workers_`, `is_running_` under one mutex with two condition variables.
What is hard: who sleeps must be notified, a pool is stopped with tasks in the
queue and started again. Right means: no task is lost or run twice, waiting and
stopping mean what they say, every call returns.

### Atomic snapshot (project 2)

State: one atomic `shared_ptr<SnapValue>` per thread (label, value, the snapshot
its writer took), a start gate (mutex, condition variable, flag), `is_done_`, one
plain counter per thread. Operations: the constructor starts the threads, `run`
opens the gate, waits, joins and sums; `update` scans and stores in a loop; `scan`
collects until two collects agree or one register has moved twice. Right means: a
scan returns what all registers held at one moment, in a bounded number of
collects, and `run` counts every store.

### Border-Collie (project 4)

A patch against sources that are not in the repository: WAL buffers per thread,
and a recoverable LSN computed as the minimum over the threads' progress.

### How the parts interact

A tree operation is bracketed by `JoinEpoch` / `LeaveEpoch`; consolidation and
`PostInnerDeleteNode` hand chains, and ids inside remove deltas, to
`AddGarbageNode`; the GC thread frees them and releases the ids. The tree calls
the chain walks on each snapshot and posts what they compute; the deltas live in
the chunk in front of the base node, which is destroyed with it. The tests submit
tree operations to the pool. The modules split exactly there: `LeafChain` and
`InnerChain` show that the walks compute what a chain stands for; `BwTree` then
represents a chain by what it stands for and shows that released ids are
unreachable (`ReleasedUnreachable`); `EpochManager` shows that what was
unreachable when it was handed over is not freed while a thread can still hold it;
`AllocationMeta!Destroy` is enabled when no thread is at work on the chain,
which is what the epoch manager promises.

The hazards of each part, at their lines, are listed in `PROJECT.json`.

## 2 Modules

| module | models | extends / used by |
|---|---|---|
| `EpochManager` | class `EpochManager`, the reading and consolidating worker around it | `MCEpochManager`, `EpochManagerProofs` |
| `AtomicSnapshot` | class `Snapshot` | `AtomicSnapshotProofs`; checked directly |
| `LeafChain` | leaf chains, `NavigateLeafNode`, `CollectAllValuesOnLeaf`, `FindSplitPoint` | `MCLeafChain`, `LeafChainProofs` |
| `InnerChain` | inner chains, their four walks, `CollectAllSepsOnInner` | `InnerChainProofs`; checked directly |
| `SortedSets` | sets of keys or items in the order of a sorted array | `BwTree`, `InnerChain`, `LeafChain` |
| `ConcurrentIndex` | what the Bw-Tree promises to callers (abstract) | instantiated by `BwTree` |
| `BwTree` | traversal, structure modification, LRU cache, forward iteration | `BwTreeSmo`, `BwTreeProofs` |
| `BwTreeSmo` | no code: what is true of the tree and of each thread while SMOs are half done | extends `BwTree`; `MCBwTree`, `BwTreeSmoProofs` |
| `AllocationMeta` | class `AllocationMeta` | `MCAllocationMeta`, `AllocationMetaProofs` |
| `WorkerPool` | class `WorkerPool` and the thread that uses it | `WorkerPoolProofs`; checked directly |

An operator with a suffix (`SneakedIn_Never`, `PageItems_All`) is a plausible
slip in the operator of the same name. No action uses it; `PROJECT.json` says
which property fails when it takes the operator's place.

### EpochManager

`pc[t]` follows a worker: `out`; `joinAdd` (it has read `current_epoch_p` into
`ep[t]`), `joinUndo` (the counter was negative), `in`; `addRead`, `addLoad`,
`addCAS` inside `AddGarbageNode`. `gc` follows the GC thread through
`ClearEpoch` (`check`, `load`, `sub`, `addBack`, `walk`, `free`), `CreateNewEpoch`
(`create`) and, after `exited_flag`, `~EpochManager` (`dcheck` .. `destroyed`),
with its reset of the counters (`dreset`) for a second pass (`retried`).
Epochs are numbered in list order, `head..last` is the list, a smaller number is
a deleted `EpochNode`. Every atomic access and every plain read of
`current_epoch_p` is a step of its own. The garbage list is loaded once, into
`chain`, and not written by the walk over it, as in `ClearEpoch` (7902): what is
pushed after the load is lost with the `EpochNode`.

`addr[e]` is the address of epoch e's `EpochNode`. `new EpochNode{}` (7504) may
get the address of one that was deleted (7919), in any order. A pointer is an
address: `At(e)` is the `EpochNode` that a pointer to epoch e leads to now, if
there is one, so that a late `fetch_add` (7578), `fetch_sub` (7592, 7613) or push
(7550) hits the counter or the list of a later epoch.

The tree is reduced to what reclamation depends on: a node is `free`, `linked`
(some mapping-table entry points to it) or `retired`; a worker inside an epoch
reads linked nodes (`GetNode`), and replaces one by a fresh one (`Consolidate`),
after which it must add the old one to the garbage.

`StalledJoin` chooses between two environments. In the code nothing stops the
operating system from suspending a thread between line 7576 and the `fetch_add`
after it for longer than `GC_INTERVAL`. With `FALSE` (guard `JoinersPrompt`)
the GC thread's next round waits for joiners; with `TRUE` it does not, and
`JoinAddDeleted` is the `fetch_add` on freed memory that is no `EpochNode` yet.
Finding 1 comes from `TRUE`. There `NoUseAfterFree`, `CountExact` and `RetiredOnce`
all fail, even for threads that never stalled, as a stalled one changes the counter
of the epoch that they joined; they are checked and proved with `FALSE`. What the
code still achieves with `TRUE` is `FreedOnce` and `EpochsCleared`.

Taken simply: a deleted `EpochNode`'s memory becomes another `EpochNode` or
nothing, so what a stalled thread writes into other objects is left out; the
assertion at 7869 (a counter is never negative) is compiled out, so a negative
counter ends the pass; filling in an `EpochNode` and publishing it are one step, as
nothing else leads to it; and two garbage lists are compared by their nodes, where
the code compares pointers to their first element. A pointer may be equal although
the list behind it is another one, at the same addresses; the push then puts its
node in front of the list that is there, which is what the model's next try does.

### AtomicSnapshot

One action per atomic access of a register and per step of the start protocol,
including the spurious wakeup of the condition variable and the constructor's
order: thread i is started before register i is made. A `SnapValue` is a record;
`snap` of the initial one is `NullSnap`; an element of `new int[n]` that nobody
wrote is `Uninit`. `during[t]` (auxiliary) is the set of register contents since
thread t's scan began, against which the returned snapshot is judged; `collects`
counts its collects. `is_done_` is a plain `bool`; its accesses are taken as
single accesses in program order, which is what the build makes of them between
the library calls that surround them.

### LeafChain

Two sibling leaves, `leaf[1]` and `leaf[2]`, each a base node and a sequence of
deltas, newest first, with the metadata that deltas inherit (`item_count`,
depth, high key). `content` is the set of pairs each should hold. Actions:
`Insert`, `Delete`, `ConditionalInsert`, `Consolidate`, `Split`, `Merge`.
`NavigateValue`, `NavigatePredicate` and `NavigateRead` are the three overloads
of `NavigateLeafNode`; `NavigateRead` models `start_index` / `end_index`, the
range of the base node that is searched. As in `InnerChain`, a walk is described by
what it meets: `Visited` are the positions of the deltas it passes on its way to
`BaseFor`, down to the first merge delta where it turns right, and `On` those among
them that are about the pair (with `unique_key`, about the key), of which the
newest decides.

`Collect` is `CollectAllValuesOnLeafRecursive`. `LiveDeltas` are what `delta_set`
keeps, `Segments` the base nodes from the left branch of a merge delta to the right,
each with the high key up to which its call takes deltas, and `Mine` those it takes.
An entry of the result is an inserted item or an item of the base node that no delta
overwrites; the merge loop puts them in the order of segment, index, inserted ones
first, and these by key and newest first, as `SortedSmallSet` has them (`Precedes`).
The Bloom filter and `SortedSmallSet` are represented by the sets and the order
they implement.

### InnerChain

The same for two sibling inner nodes. `content[i]` maps the separators node i
should have to the ids of their children. `PostSeparator` is
`PostInnerInsertNode` for a child that has split, `RemoveSeparator` is
`PostInnerDeleteNode` for a child that has been merged; both use the walk
`Locate` to find the location that the delta stores. An id may be used a second
time while a delta of its first use is still on the chain. `NavigateInnerNode`,
`NavigateInnerNodeBI`, `Locate`, `FindLeftSibling` and `Collect` are the walks as
the code does them, with the deltas that decide at once (`Decides`), the range of
base items narrowed by the locations of the others, the merge deltas where they
turn right, and the first item of the leftmost node, which has no proper key.
A walk is described by what it meets, not by a recursion: the positions it visits
(`Visited`, down to the first merge delta where it turns right), those among them
that decide, of which it takes the newest, and the base node it ends in.
`Segments` are the base nodes that a consolidation comes through from left to right,
each with the high key up to which it takes items and inserted separators.

### BwTree

A chain is a record of what it stands for: kind, low key, high key with the right
sibling's id, items (separator -> child, or key), topmost delta, depth. One value
to a key (the several values of a multimap are the subject of `LeafChain`). Keys
are numbers, `LowKey` = 0 is the `KeyType{}` of the leftmost nodes.

`ctx[t]` is a thread's `Context` with a `pc`: each `pc` other than `idle` and
`done` names the next atomic access, and each action makes one access and runs the
local code to the next. The operators `Navigate`, `Loaded`, `AdjustNodeSize`,
`TryConsolidateNode`, `FinishRemove`, `FinishMerge`, `FinishSplit`,
`FinishPartialSMO` are that local code. A snapshot is `fresh` as long as the
mapping-table entry holds the pointer it was taken from; an abort delta is not
part of the chain but puts the id in `blocked`, and a CAS succeeds iff the
snapshot is fresh and the id not blocked. This keeps the ABA of the code:
`RemoveAbortOnParent` puts the very pointer back that was there, so snapshots
taken before are good again.

| source | action |
|---|---|
| `Insert`, `Insert_LRU`, `Delete`, `GetValue`, an iteration: called / returned | `Start`, `Return` |
| `Traverse_LRU`: the entry of the cached id | `CacheHit` |
| `Traverse`: `root_id.load()`, `LoadNodeID`, `JumpToNodeID` | `LoadRoot`, `LoadNodeID`, `JumpToNodeID` |
| the CAS of the leaf delta, and `lru_cache->refer()` | `PostLeafNode` |
| `AdjustNodeSize` | `ProbeSplitChild`, `PostSplitNode`, `PostAbortOnParent`, `PostRemoveNode`, `RemoveAbortOnParent` |
| `FinishPartialSMO`: remove, merge, split, root split | `JumpToLeftSibling`, `ConsolidateParent`, `PostMergeNode`, `CheckMerge`, `PostInnerDeleteNode`, `PostInnerInsertNode`, `InstallRootNode` |
| `ConsolidateNode` | `ConsolidateNode` |
| `ForwardIterator::LowerBound`, `MoveAheadByOne` | `LowerBound`, `PageItems` in the step that reaches the leaf |

Details kept on purpose: `FinishPartialSMO` after a right jump keeps the parent
of the node it came from; a leaf is removed at the macro's lower threshold (6060)
and split at the tree's upper one; `ConsolidateParent` builds a base node whose
depth continues the chain's; a reader skips `parent_snapshot` altogether
(`UNSET`), and any step that would dereference it goes to `pc = "undefined"`.

`lru_cache[t]` is the thread's cache (988), newest entry first; `freed` in a
`Context` is the set of ids that had been released when the call began: those the
thread's epoch does not keep. `CacheHit` reads the mapping table without helping
(2985-2992). If the id is in `freed`, the entry may be empty by now, and if an
abort delta is on top, the snapshot is of the abort delta itself, which no
navigation of a parent is written for: both may end in `"undefined"`.

An iteration copies the items of a leaf from its key on (`got`) and goes on at the
leaf's high key. `steady` and `ever` (auxiliary) are the keys that have been in the
index all the time since it began, and those that have been at some time.

`contents` is an auxiliary set: it changes at the CAS of a leaf delta. `seen` in
a `Context` remembers whether the operation's key was present at the moments
since its call, which is what the refinement of `ConcurrentIndex` needs to
justify a read or a refusal after the fact.

### ConcurrentIndex

A set of keys, and for each thread a call that is idle, busy or done. Updates take
effect at one moment between call and return; a refusal or a read must have been
true at some moment in between. `BwTree!RefinesIndex` is the specification of
this module with `keys <- contents` and each `Context` seen as a call.
`Insert_LRU` promises what `Insert` does; iterations are judged by `ScanExact`.

### AllocationMeta

Chunks are addresses, bytes are counted from the limit of a chunk. A thread that
allocates goes through `test` (the plain load of `tail`), `sub` (`fetch_sub`),
`next` (load), and if there is no successor `NewChunk` and `cas`; who loses the
CAS frees its chunk and goes on in the winner's. `slots` (auxiliary) records what
was handed out. `Destroy` follows `next` and frees every chunk; an address may
be allocated again after it was freed by a loser.

### WorkerPool

A critical section of `task_lock_` is one step, what is done outside of it
(`notify_one`, `notify_all`, `task()`, `join`) another. A thread that waits on a
condition variable is `asleep` until a notification or a spurious wakeup. `mpc`
follows a master through `Startup`, `Shutdown`, `SubmitTask`,
`WaitUntilAllFinished`, `SetNumWorkers` and the destructor, which it may call in
any order that their assertions allow; `wpc` a worker through the loop of
`AddThread`. `submitted` and `ran` are history variables.

## 3 Runs

| run | expects | shows |
|---|---|---|
| `EpochManager_safety` | pass | With prompt joiners: nodes are not freed in use, everything is freed at the end, garbage of a closed epoch is freed, a retry of `JoinEpoch` finds a later epoch; counters are exact, every retired node is in exactly one place. |
| `EpochManager_late` | pass | With stalled joiners and reused addresses: no node is freed twice or while linked, and the destructor's two passes delete every `EpochNode`. |
| `AtomicSnapshot_scan` | pass | Clean double collects are snapshots, stolen ones nested, scans wait-free, the start gate holds, the count is exact; three threads. |
| `LeafChain_merged` | pass | Consolidation, counts, lookups and split points are right on every chain, on a multimap and on a unique index, apart from findings 3 and 4. |
| `LeafChain_lost_read` | violation | `GetValue` misses values above a merge delta (finding 3). |
| `InnerChain_walks` | pass | All walks over an inner chain, and its consolidation, agree with the separators it stands for. |
| `BwTree_safety` | pass | From five scenarios, with leaves and inner nodes that split, are removed and merge, iterations, and stale cached nodes: linearizable answers, no key lost or doubled, exact separators, released ids unreachable, complete iterations. |
| `BwTree_live` | pass | Updates on a tree whose root splits and shrinks end; the helping code has the parent it needs. |
| `BwTree_reader` | violation | A reader that goes right runs the updaters' helping code without a parent (finding 5). |
| `BwTree_livelock` | violation | A split prepared before an abort delta and installed after it makes an inner node through which no traversal ever gets (finding 6). |
| `WorkerPool` | pass | One master, any legal order of calls: no task lost or run twice, waiting exact, nobody left after `Shutdown`, every call returns. |
| `AllocationMeta` | pass | Three threads over the end of several chunks: no overlap, bounded underflow, no leak. |

The properties of the passing runs, and what would break each:

* `NoUseAfterFree`: dropping the check of the `fetch_sub` result.
  `CountExact`: leaving the current epoch instead of the one that was joined.
  `RetiredOnce`: a push that does not compare.
  `GarbageFreed`: forgetting to give the `MAX_THREAD_COUNT` back.
  `RetriesAdvance`: closing the current epoch too. `AllFreedAtEnd`: stopping before
  the current epoch. `FreedOnce`: the loser of the mapping-table CAS retires the old
  node. `EpochsCleared`: a second pass without the reset of the counters.
* `CleanScanIsSnapshot`: comparing all registers but one. `StolenSnapshotIsNested`:
  stealing at the first move. `WaitFree`: never stealing. `GateProtectsConstruction`:
  an unchecked wakeup. `ReturnedCountExact`: summing before the joins.
* `LeafChain`: `ConsolidationExact`: keeping hidden deltas. `NavigateExact`:
  turning left at the merge key. `SplitFair`: cutting at the centre, also between
  values of a key.
* `InnerChain`: `NavigateExact`: turning left at the merge key. `LeftSiblingExact`:
  taking every delta on a separator and not the newest. `ConsolidationExact`:
  comparing the key of the first item of the leftmost node.
* `ContentsKept`, `SeparatorsExact`: a sibling without its first key, or with the
  old low key. `ReleasedUnreachable`: a merged node that keeps its sibling link.
  `DeletedIsRemoved`: not comparing the left sibling's link. `RefinesIndex`: a
  compare-and-swap that does not compare. `ScanExact`: a page that starts before the
  search key. `ParentDefined`, `OpsTerminate`: removing a leftmost child.
* `TasksOnce`: a worker that does not take the task off the queue. `WaitExact`:
  waiting for an empty queue only. `QuietAfterShutdown`: joining idle workers only.
  `CallsReturn`: `notify_one` in place of `notify_all` at shutdown.
* `SlotsDisjoint`: using the slot without looking at the result of the
  `fetch_sub`. `ChunksFreed`: linking the new chunk without a CAS.
* The type invariants carry a bound or a shape each: `busy_workers_` counted too
  late, the underflow of `tail` without its guard, the locations of separators,
  labels that count down, chains that a step cannot handle.

## 4 Bounds

* **EpochManager.** Two threads: the races are between one joiner or leaver and
  the GC thread, and between two pushers on one list. `MaxEpoch` = 2 gives three
  epochs: one closed, one between, one current, then the GC thread stops creating;
  the third can be at the address of the first. No property rests on this end of the
  sequence: what would is that `JoinEpoch` ends, and that is not claimed (section 5).
  Three nodes: one linked, one replaced, one in the hands of the loser of a CAS; a
  freed one is reused while another is held. `MaxThreadCount` = 5 (0x7FFFFFFF in
  the code): only that it exceeds the number of threads matters
  (`EpochAssumption`). The proofs have none of these bounds.
* **AtomicSnapshot.** Three threads: with two, only one register can move during
  a scan (the thread's own cannot), and no collect of one moving register is torn.
  `MaxStores` = 2 lets a register move twice during a scan, the condition for
  stealing. `LabelPeriod` = 8 stays above the labels that occur, as `UINT_MAX`
  does in a 60-second run.
* **LeafChain.** Upper threshold 4, lower 1 (128 and 32 by default; the defaults
  keep the same ratio), data deltas on chains of depth below `MaxDepth` = 2, three
  keys with two values, or four keys on a unique index. 4 and 1 are the small
  thresholds the code itself keeps in a comment (87-91). Every pair of adjacent
  deltas occurs, below and above a merge. `Reinserts` = FALSE
  leaves out finding 4: `ConditionalInsert` is given no pair, on a unique index no
  key, that a delta of the chain is about.
* **InnerChain.** The same thresholds; four keys besides the low key, so that a
  split leaves two separators on a side and a merge puts them back; separators are
  posted on chains of up to two deltas, merges on any chain, which gives
  three data deltas on one another, below and above a merge. Two ids to a key, so
  that a separator can come back with another child.
* **BwTree.** Two threads, up to 5 operations in all, thresholds 2 / 0 for leaves
  and 4 / 1 for inner nodes, consolidation above depth 1 or 2 (8 by default), one
  cache entry to a thread (`CacheSize`). `MaxId` is chosen so that no run that
  passes needs another id. Two threads suffice for one to be suspended anywhere in
  an SMO while the other finishes it and goes on. The runs start from trees that
  operations lead to, because the ones whose inner nodes split and merge are too
  many operations away from the empty tree:

  | scenario (`MCBwTree`) | tree | operations |
  |---|---|---|
  | `MCLeafWork` | `MCLeaves`: three leaves under a root | deletes of all keys, two inserts, a read |
  | `MCInnerWork` | `MCWide`: the root is about to split | an insert and deletes that empty the right node |
  | `MCMergedWork` | `MCMerged`: an inner node and a leaf have just been merged; the thread that deleted the separator is suspended before it consolidates (between 5397 and 5430), so that the merge delta is still there | the same |
  | `MCScanWork` | `MCLeaves` | iterations, while leaves split and merge |
  | `MCCacheWork` | `MCTall`: two inner nodes under a root | `Insert_LRU` with a cached node that has been split since, deletes |
* **AllocationMeta.** Three threads, so that two can overrun a chunk that a third
  has used up and race to link the next; chunks of 5 bytes for deltas of 2 and 3,
  so that two, one or none of them still fit; six addresses and five
  allocations, enough for three chunks in a chain.
* **WorkerPool.** One master, three workers, three tasks: more workers than tasks
  queued and the reverse, and one worker asleep, one about to sleep and one at work
  at once.

## 5 Fairness

* `EpochManager`: weak fairness of the GC thread, of the destructor's steps once
  it began, and of the steps that complete a join or a push: the operating system
  runs every runnable thread. Strong fairness of leaving: a tree operation is
  finite, the model's read loop is not, so leaving must not lose to reading for
  ever. Starting an operation is not fair: nothing obliges a thread to. Nothing
  bounds the retries of `JoinEpoch` (7594): with an endless sequence of epochs, fair
  steps of the GC thread can close each one between the read and the `fetch_add`.
  What holds is `RetriesAdvance`: every retry costs the GC thread an epoch.
* `BwTree`: weak fairness of every thread's steps within an operation; starting is
  not fair. CAS failures are not assumed to end: `OpsTerminate` holds in
  `BwTree_live` because an abort is caused by another thread's progress, and the
  operations are finitely many.
* `WorkerPool`: weak fairness of what a master does within a call and of each
  worker's loop: threads that are ready run, tasks end, the lock is held for a
  moment only. Nothing is assumed of spurious wakeups, so a call that returns does
  not need one.
* The other modules state safety properties only; that a scan ends is `WaitFree`,
  a bound on its collects, and needs no fairness.

## 6 Proofs

Each theorem holds for every value of the constants under the assumptions of its
module (`EpochAssumption`, `SnapshotAssumption`, `PoolAssumption`,
`AllocationAssumption`, `InnerChainAssumption`, `LeafChainAssumption`,
`BwTreeAssumption` and `ScenarioAssumption`) and what the last column adds.

| module | theorem | says | also assumes |
|---|---|---|---|
| `EpochManagerProofs` | `TypeCorrect` | `Spec => []TypeOK` | |
| | `NothingFreedTwice` | `Spec => []FreedOnce` | |
| | `DestructorClearsAll` | `Spec => []EpochsCleared` | |
| | `CountersExact` | `Spec => []CountExact` | `~StalledJoin` |
| | `RetiredExactlyOnce` | `Spec => []RetiredOnce` | `~StalledJoin` |
| | `RetriesAlwaysAdvance` | `Spec => RetriesAdvance` | `~StalledJoin` |
| | `NothingFreedInUse` | `Spec => []NoUseAfterFree` | `~StalledJoin` |
| | `CleaningIsExclusive` | `Spec => []CleaningExcludesThreads` | `~StalledJoin` |
| | `GarbageTargetIsLive` | `Spec => []GarbageTargetLive` | `~StalledJoin` |
| | `EverythingFreed` | `Spec => []AllFreedAtEnd` | `~StalledJoin` |
| `AtomicSnapshotProofs` | `SnapshotTypeCorrect` | `Spec => []TypeOK` | |
| | `StartGateProtects` | `Spec => []GateProtectsConstruction` | |
| | `ScanIsWaitFree` | `Spec => []WaitFree` | |
| | `CleanScansAreSnapshots` | `[]CleanScanIsSnapshot` | `[]NoWrap` |
| | `StolenScansAreNested` | `[]StolenSnapshotIsNested` | `[]NoWrap` |
| | `ReturnsNumberOfStores` | `[]ReturnedCountExact` | `[]NoWrap` |
| `WorkerPoolProofs` | `PoolTypeCorrect` | `Spec => []TypeOK` | |
| | `EveryTaskOnce` | `Spec => []TasksOnce` | |
| | `WaitIsExact` | `Spec => WaitExact` | |
| | `ShutdownLeavesNobody` | `Spec => []QuietAfterShutdown` | a single master |
| `AllocationMetaProofs` | `AllocationTypeCorrect` | `Spec => []TypeOK` | |
| | `SlotsNeverShared` | `Spec => []SlotsDisjoint` | |
| | `EveryChunkFreed` | `Spec => []ChunksFreed` | |
| `InnerChainProofs` | `InnerTypeCorrect` | `Spec => []TypeOK` | |
| | `WalksAreExact` | `Spec => []NavigateExact` | |
| | `LeftSiblingsAreExact` | `Spec => []LeftSiblingExact` | |
| | `ConsolidationsAreExact` | `Spec => []ConsolidationExact` | |
| `LeafChainProofs` | `LeafTypeCorrect` | `Spec => []TypeOK` | `~Reinserts` |
| | `LeafConsolidationsAreExact` | `Spec => []ConsolidationExact` | `~Reinserts` |
| | `LeafWalksAreExact` | `Spec => []NavigateExact` | `~Reinserts` |
| | `LeafSplitsAreFair` | `Spec => SplitFair` | `~Reinserts` |
| `BwTreeProofs` | `TreeTypeCorrect` | `Spec => []TypeOK` | |
| | `SeparatorsLeadExactly` | `Spec => []SeparatorsExact` | |
| | `KeysAreKept` | `Spec => []ContentsKept` | |
| | `IterationsAreExact` | `Spec => []ScanExact` | |
| | `TreeRefinesIndex` | `Spec => RefinesIndex` | |
| `BwTreeSmoProofs` | `MergedWasRemoved` | `[]DeletedIsRemoved` | `CoherentScenarios`, `[][SplitsHold /\ HitsWhole]_vars` |
| | `ReleasedNotReached` | `[]ReleasedUnreachable` | `CoherentScenarios`, `[][SplitsHold /\ HitsWhole]_vars` |

The extra assumptions are needed: with `StalledJoin` finding 1 is the
counterexample; a label that wraps around during a scan makes a moved register
look still (`NoWrap` says that no register has reached the last label); two
masters are finding 9; with `Reinserts` finding 4 breaks `ConsolidationExact`.

The two theorems about half-done SMOs take three (all in `BwTreeSmo`):

* `CoherentScenarios` is about the tree an execution starts from: its half-done
  SMOs are ones that operations can leave. `MCCoherent` in `MCBwTree` says this of
  the trees of the runs, and TLC evaluates it.
* `SplitsHold`, about steps: when an inner node is split, the leftmost child of the
  new half has still no remove delta. `AdjustNodeSize` looks at that child before the
  split and not again; the race is finding 6. `BwTree_safety` reaches such splits
  (TLC finds `[][SplitsHold]_vars` violated there), and the two properties
  hold in all its states nevertheless, but what lies beyond its bounds is open.
* `HitsWhole`, about steps: a cached id does not lead to a node with a remove or
  a merge delta on top, which `Traverse_LRU` would not finish. Without it finding 8
  is a counterexample to `ReleasedUnreachable`. It holds in `BwTree_safety`.

None of the properties is inductive as it stands.

**EpochManager.** The inductive invariant is built in layers, each proved from the
ones before.

Without any assumption about joiners:

* `TypeInv`: types, `EpochOrder` (head and last are in order) and `AddingHasNode`
  (who adds garbage has a node to add).
* `ListInv`: the `EpochNode`s of the list have different addresses (`AddrDistinct`),
  so that a pointer leads to one at most; what the walk has loaded is in the list it
  was loaded from (`GarbageListed`).
* `EndInv` follows the destructor: nobody is in the tree (`Quiet`), and from its
  second pass on the counters of the `EpochNode`s left are 0, but for the one being
  cleared (`RetriedZero`). So the second pass cannot stop early: `EpochsCleared`.
* `FreedOnce` is inductive with these (`ShapeInv`): a push puts its node in front of
  the list that is there, and a stalled one can only take a node away from all places.

With `~StalledJoin`:

* `CountInv`: an epoch that a joiner has read is still in the list and not being
  cleaned (`JoinersLive`), one that turned a joiner away is older than the current one
  (`UndoEarlier`, hence `RetriesAdvance`), threads know existing epochs only
  (`EpochsKnown`), and an epoch being cleaned has no member inside (`ClosedEmpty`).
  Then every pointer in use leads to the epoch it was read for, and every step
  keeps `CountExact`. That the number of members stays below `MaxThreadCount` makes
  the sign of a counter tell whether the epoch is closed.
* `OwnerInv` adds `RetiredKept`: no push goes to a list that has been loaded or
  deleted, so nothing retired is lost. This gives `RetiredOnce` and, with
  `EpochsCleared`, `AllFreedAtEnd`.
* `HeldReachable`: every node held by a thread inside is linked, or in the garbage of
  an epoch not older than the one it joined, or about to be added to such an epoch.
  With `ClosedEmpty` this is what makes freeing the head epoch's garbage safe.

**AtomicSnapshot.** `TypeInv` gives the shapes of registers and of the local
copies; `Gate` says that nobody passes the gate before the last register is made.
`WaitInv` counts: `moved` grows with every collect that is not clean, a thread's
own register never moves, so N + 1 collects suffice. `OrderInv` relates what a scan
has collected to the history `during`: every label collected is that of a state
the register went through since the scan began, and labels grow, so equal labels
mean that the register has not moved, and the two collects enclose a state with all
of them. `NestInv` says of a register that moved during a scan, at its second
move, that its writer's scan began after it. `CountInv` equates a thread's counter
with the label of its register.

**WorkerPool.** `PoolInv` adds to the types that `busy_workers_` is the number of
workers between taking a task and signing off, and that they hold a task;
`TasksOnce` is inductive together with it. For `QuietAfterShutdown`, `RestInv` says
that the worker threads that exist are those in `workers_`, and that `workers_` is
empty unless the pool runs or a call is in progress.

**AllocationMeta.** `TailInv` bounds the underflow by the threads between their
test and their subtraction. `ListInv` says that every allocated chunk is a thread's
unlinked chunk or reachable through `next`; as reachability is recursive, it is
stated by a rank: there is a numbering of the chunks that grows along `next`, has
the first chunk lowest, and in which only the last has no successor. `SlotInv`
says that every slot lies above its chunk's tail, so that the next one is below.

**InnerChain.** The properties compare what the walks compute with the history
variable `content`; how a chain came about is no longer visible in it. The inductive
invariant `ChainInv` therefore says of a chain alone, however long, what makes it
stand for its content:

* `MergesSound`: there is at most one merge delta, it lies above the split delta if
  any, and the keys of its right branch start at its key; a second split or merge needs a
  consolidation first. `DeltasSound`: below a merge delta every delta is left of
  its key; `Located` says of the location a delta carries that it cuts the base
  node, on the delta's side of the merge, into the items below its key and the others.
* `WalkExact`: the first visited delta that decides for a key, or else the last
  item of the *whole* base node up to the key, names the child that `content` names.
  The search range plays no part in it, so that a new delta needs to be looked at for
  the keys it decides for only.
* `KnownExact`: whether a key is a separator is told by the newest delta on it, or by
  the base node if no delta is. Consolidation and `FindLeftSibling` rest on this.

One lemma per operation shows that it makes chains from chains: `InsertChain` and
`DeleteChain` (a posted delta decides from its key, or from the separator before, to
the next separator, which is the range whose child it names), `SplitChains`,
`MergeChain`, `ConsolidatedChain`. A second set derives the properties of
any chain: `NavigateIsWalk` (by `Located`, the range narrowed by the deltas still
holds the item that the whole base node would give), `NavigateBackwards`,
`LocateExact`, `CollectLists` and `CollectExact` (segment by segment, the items kept
and the separators inserted are the content in that range), `FindLeftExact`. Only the
last step looks at the two nodes and their actions.

**LeafChain.** Again the invariant, `LeafInv`, says of each chain alone, however long,
what makes it stand for its content (`ChainOK`):

* `MergesSound`: there is at most one merge delta; the chain below it ends at its
  key, and its right branch starts there. `BaseSound`: base nodes are sorted and
  without doubles, on a unique index of keys.
* `DeltasSound`: every delta's index, and whether it overwrites, is right for the
  base node that a search for its key ends in (`Placed`), however long ago it was
  computed: either the item is at the index, or it is not in the base node and the
  index is where the items of its key end. This is the part that `ConditionalInsert`
  breaks in finding 4, and where `~Reinserts` is used.
* `KnownExact`: whether a pair is held is told by the newest delta about it, or by
  the base node if there is none; on a unique index the same for keys.
  `ContentSound`: `item_count` is the number of pairs.

`InsertChain`, `DeleteChain`, `SplitLeft`, `SplitRight`, `MergeChain` and
`ConsolidatedChain` show that each operation makes chains from chains: a delta may
copy the index of the delta or the item it found, because both are `Placed`. For the
walks, `ValueExact` and `PredicateExact` follow from `KnownExact`, and `ReadBounds`
from `Placed`: `start_index` and `end_index`, from the deltas on other keys, enclose
the items of the key, if all of them are about the same base node. For consolidation,
`EntryFor` and `EntryOnce` make the entries correspond one to one to the pairs of
the content, `EntryOrder` shows that the merge loop meets them in the order of their
keys, and `CollectListed` that the sequence then lists them.

The facts about minima, `Nth`, `Sorted` and `SortedByKey` (the sorted sequence of a
finite set lists it once and in order) that these proofs and those of `InnerChain` and
`BwTree` rest on are at the head of each of the three modules.

**BwTree.** The theorems are about any number of threads, keys and thresholds, and
about a run that starts from any tree, not only from the scenarios of the runs.
`ScenarioAssumption` (section "Trees" of `BwTree`) says what a tree is: the items of
a node lie between its low and its high key; a child or right sibling starts at
the key that leads to it and is of the right kind; the leaves that are not merged
are linked from the first one, their ranges do not overlap, and any other leaf has
been removed. SMOs may be half done: parents may lack separators, or still have
those of removed nodes. `InitNodeLayout` builds such a tree, and the inductive
invariants below contain the same conditions, so they stay true; TLC evaluates
them on the trees of the scenarios.

* `StructInv` is about what cannot go wrong however old a snapshot is. The table is
  a tree in the sense above (`TreeOK`). A node never changes its low key or its
  kind and ids stay in use (`Grows`); so a node that a `Context` holds, which need
  no longer be what its id leads to, still says true things of others (`Taken`,
  `Holds`). What is in hand is never right of the key nor left of its parent
  (`Here`), where a thread is about to go is not right of the key (`LeadsTo`), and
  each place in the code finds the kind of chain it works on (`Ready`). From that
  follow `SeparatorsExact`: a separator is posted with the id of a node that starts
  there.
* `ContentsInv` adds the keys. `Linked` says that the unmerged leaves hold exactly
  `contents`; it is stated with the set of leaves, and the lemma `LeafIdsAreLinked`
  shows that the walk along the sibling links visits exactly that set (each link
  leads to a greater low key, so it takes as many steps as there are leaves below).
  `FreshKnown` says that a fresh snapshot of a leaf is what the table holds, but for
  the thread's own remove delta between `PostRemoveNode` and `RemoveAbortOnParent`;
  `RemovedKnown` that a removed leaf does not change, so that the thread that merges
  it merges all of its keys. `LeafClaim` relates a snapshot that may be old to the
  history since the call: if the key lies in its range, its presence in the snapshot
  is in `seen`; for an iteration, its keys have been there and it lacks none that
  was there all the time. `Yields` is the same for the pages so far.
* The refinement: every step changes the caller's view by one step of
  `ConcurrentIndex` or not at all. `Progresses`, `Updates`, `Calls` and `Returns` say
  which, one lemma per action; the effect of an update on the calls of the other
  threads on that key is `SeenBy`.

The helping code may follow a parent that has been removed or a left sibling found
from an old snapshot; none of the theorems above depends on where it looks, only on
the conditions it checks before each CAS.

The remaining two, in `BwTreeSmoProofs`, are about what a finished merge takes
out of the parent, and depend on where every thread is. Their invariant is `SmoInv`:
there are a `level` for each node and a set `nodes` of those that are not merged into
their left sibling yet, both of which the program does not hold, such that

* `Layered`: items lead one level down, sibling links stay on their level, and on each
  level the nodes are linked and their ranges do not overlap.
* `Removals`: a merged node has a remove delta on top, and an item leads to it at most
  as long as a merge delta that put it away is unfinished on top of a node. No
  leftmost child has a remove delta, and a node that is split off and has no item yet
  has none either.
* `Gone`: a released id is merged and no item of an unmerged node leads to it. With
  `Layered` this is `ReleasedUnreachable`.
* `Claims` of each thread, by the place where it is. `ParentAt`: its parent is one
  level above the node it is at or goes to (`Target`), holds its key, has no remove
  delta on top and no unfinished merge delta, and, while the snapshot is fresh, has the
  item of that node or the node has been taken off the split delta that made it
  (`Handed`). `NodeClaim`, `PendingClaim`: what it has in hand is what the table holds,
  where the code relies on that. `PlaceClaim`: what it has found out so far, such as
  that the parent's item is the merged node's when it is about to delete it. With
  `Removals` this is `DeletedIsRemoved`.
* `Locks` and `Inserts` of each pair of threads: no two have an abort delta on one
  parent; and while one is about to post the item of a node, no other is on the way
  to merge that node.

A lemma per action shows that it keeps all of this for a suitable `level` and
`nodes`: a merge takes a node out of `nodes`, a split puts one in, a new root gets
the next level, everything else leaves both alone. `MergeCoherent`, `SplitCoherent`,
`RootCoherent` and `ReplaceCoherent` do it for the tree; for the claims of the other
threads, most actions need to know only what a change of a node leaves true (`Tame`:
low keys, levels and removed nodes stay; no node is split off again, no item leads to a
merged node again) and that snapshots of it are not fresh any more (`Stale`).
TLC checked `SmoInv` on the trees of the runs, with the levels and the set of nodes
computed from the table.

A membership that is itself an element is
written `{(k \in S)}`: without the parentheses the provers' parser takes it for the
beginning of a set comprehension.

Model-checked only:

* liveness (`GarbageFreed`, `OpsTerminate`, `CallsReturn`), which
  rests on fairness and is out of the prover's reach;
* `LeafChain!ReadExact`, which is false (finding 3);
* `BwTree!ParentDefined`, which holds in `BwTree_live` and not in general: findings 5
  and 8, and the old root described at the end of the next section. That threads
  have a parent whenever they need one is therefore no part of `SmoInv`; its claims
  about a parent are made if there is one (`HasParentNode`).

## 7 Findings

1. **Joining an epoch that is gone** (7576). `JoinEpoch` loads `current_epoch_p`
   and then increments that node's counter. A thread suspended in between while the
   GC thread advances twice increments a deleted `EpochNode` and is protected by
   none. If the memory is a later `EpochNode` by then (7504), its increment (7578) is
   lost or made on that epoch, and its decrement (7592, 7613) can bring the
   counter below the number of others who joined, so that what they hold is freed.
   And its garbage may be pushed (7550) onto a list already loaded to be freed (7902),
   or onto a deleted one, and leak. To see these, check `NoUseAfterFree`,
   `CountExact` and `RetiredOnce` in `EpochManager_late.cfg`; an epoch that is freed
   while a thread that joined it at once is inside takes `MaxEpoch = 3`.
2. **Stolen snapshots** (`snapshot.cpp:110`). The loop over `j` assigns `snap[i]`,
   not `snap[j]`. To see it, check `ScanIsSnapshot` in `AtomicSnapshot_scan.cfg`.
3. **Lost reads above a merge delta** (4019, run `LeafChain_lost_read`).
   `start_index` and `end_index` come from deltas posted on a merge delta and count
   in one branch's base node, but are applied to whichever branch the key leads to.
   The window is small: the thread that finishes a merge consolidates the node; it
   opens if another thread posts first. The last part of `LeafChain!NavigateExact`
   shows that reads are exact outside it.
4. **Conditional re-insertion** (4349). `ConditionalInsert` always takes the index
   behind the items of its key and "not overwritten", also after a delta has
   deleted such an item (the comment at 4343 says that this cannot matter). Its
   insert delta hides the delete delta that hid the base item, so that both copies come
   back, in a node allocated for one (the assertion at 4538). On a unique index it
   is enough that the *key* is re-inserted: a later `Delete` and a later `Insert` of
   the value in the base node inherit the wrong index. To see both, check
   `ConsolidationExact` with `Reinserts = TRUE` on `MCMultiMap` and, with
   `MaxDepth = 4`, on `MCOneKey`.
5. **Readers without a parent** (5103, run `BwTree_reader`). `GetValue` jumping
   right calls `FinishPartialSMO` / `AdjustNodeSize`, which use `parent_snapshot`.
6. **Livelock after an abort delta** (6287, run `BwTree_livelock`). Removing an
   abort delta restores the old pointer. A thread that decided before it to split
   the parent at a child installs the split although that child has been removed
   meanwhile. The new inner node starts at a removed leaf, and every traversal that
   reaches it aborts in `JumpToLeftSibling`. The model has no other thread left
   that could finish the merge: the left sibling lies under another parent.
   A second way to a child that nobody can merge is the bounds check at 5740-5762:
   a separator right of the high key of the parent snapshot is not posted, as "we know
   the index term has already been inserted", and the snapshot is not compared with
   the table. If meanwhile the parent's right sibling has been merged into it, the
   leaf's right neighbour has been merged into the leaf and the leaf has been split
   again beyond the old high key, the thread consolidates the split delta away and
   its separator is never posted. The new leaf can be reached by its sibling link
   only; keys are found there, but once it is removed, `FindLeftSibling` gives a wrong
   left sibling and every `JumpToLeftSibling` aborts. It takes more operations
   than the runs have; the theorems of section 6 allow for such nodes.
7. **Backward iteration goes to a removed child** (3532). `NavigateInnerNodeBI` at
   a separator takes the item before it in the base node, although a delta above
   may have deleted that one. `NavigateExact` judges the
   backward walk only on chains in which no delta's next separator is the key, that
   is outside of this case. To see it, check `InnerChain!BackwardLive` with
   `Keys = {1, 2}` and `MaxDeltas = 2`.
8. **The LRU cache keeps ids outside of epochs** (2985). An id is released when
   all threads that were inside have left, but a thread that cached it looks at it
   later: the entry may be empty or another node's. Before that, a thread that
   enters a removed node through its cache can post a separator on top of the
   remove delta, and the leaf it names is later merged through another node and
   released while this one still leads to it. And the entry may hold an abort
   delta, which `FinishPartialSMO` steps over and `Traverse_LRU` does not. Nor does
   `Traverse_LRU` finish a merge or a split delta on top of the cached node before a
   separator is posted above it. To see
   the first two, check `ParentDefined` and `ReleasedUnreachable` from `MCTall` with
   the cache `<<<<4, 6>>>>`, `insertLRU` of 3 and 4 and deletes of 3, 4 and 5, six
   operations; the third, `ParentDefined` on `MCCacheWork`. Where the
   cached node has only been split, `BwTree_safety` shows that nothing is wrong.
9. **Two masters of a pool** (`worker_pool.h:70`). `Startup` and `Shutdown` are
   documented as thread-safe but change `workers_` without the lock; with two
   masters `QuietAfterShutdown` fails, and `CallsReturn` too, as `finished_cv_` is
   notified once. No caller in the repository has two.

`BwTree_live` shows the limit of findings 5 and 6: with updaters only, from
`MCWide`, the parent is always defined and operations end. From `MCMerged`
`OpsTerminate` fails (finding 6). With `InnerDepth` = 1 `ParentDefined` fails for
updaters too: a thread suspended after `root_id.load()` can wake up on an old root
that has meanwhile become a child and been removed, and has no parent to help it
with.

## 8 What is not modelled

* Taking a released id from `node_id_list` again: `BwTree` never reuses an id, and
  an id taken for a split whose CAS fails is not used up;
  `EpochManager` treats an address and its reuse, `InnerChain` a second use of an
  id in one chain.
* A cached inner node that has been released, beyond the step that reads its
  entry: what the entry holds then is anything (finding 8).
* Backward iteration beyond its walk over inner chains: it goes left until the leaf
  holds the key, through leaves that merge meanwhile. The buffers of an iterator
  and their reference counts belong to one thread.
* `ConditionalInsert` in `BwTree`: it differs from `Insert` in the walk over the
  leaf chain, which `LeafChain` has. The tree's constructor and destructor.
* Labels of `AtomicSnapshot` that wrap around (2^32 updates of one register in a
  scan): the modulus is in the model, the bound keeps labels below it, the proofs
  say `NoWrap`.
* Weak memory orders: the code uses sequentially consistent atomics throughout, and
  the plain accesses it races on are single words.
* `AtomicStack` (dead code) and the thread-local GC scheme, whose calls
  `USE_OLD_EPOCH` compiles out.
* Border-Collie (`project4/patchfile`): twenty lines inside three PostgreSQL
  functions. Whether they are right depends on the locks and callers around them,
  which are not in the repository; a model would be one of external code.
* Timing, statistics (such as `mapping_table_cnt` in `GetNode`), logging, debugging builds, tests and benchmarks.

## 9 What is left

* Backward iteration over leaves that split and merge under it, against the same
  kind of property as `ScanExact`.
* Recycling of ids in `BwTree`, with the epochs that gate it: the composition of
  `BwTree` and `EpochManager` in one module.
* `DeletedIsRemoved` and `ReleasedUnreachable` after a split of the kind of finding 6,
  which the theorems exclude (`SplitsHold`): either a longer counterexample than the
  runs can reach, or an invariant for inner nodes whose leftmost child is removed.
