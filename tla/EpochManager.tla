---------------------------- MODULE EpochManager ----------------------------
(***************************************************************************)
(* Epoch-based reclamation of the Bw-Tree (bwtree.h, class EpochManager,   *)
(* the USE_OLD_EPOCH build that bwtree.h selects).                         *)
(*                                                                         *)
(* Worker threads bracket every tree operation with JoinEpoch() and        *)
(* LeaveEpoch(); while inside they take pointers out of the mapping table  *)
(* and replace nodes, handing the replaced one to AddGarbageNode().  One   *)
(* GC thread repeats ClearEpoch(); CreateNewEpoch(); sleep.                *)
(*                                                                         *)
(* Epochs are numbered in the order of the linked list: the list is        *)
(* head..last, a number below head is an EpochNode that has been deleted.  *)
(* A pointer to epoch e is its address addr[e], which the allocator may    *)
(* give to a later EpochNode once e has been deleted.  Each atomic access  *)
(* (and each plain read of current_epoch_p) is one step.                   *)
(***************************************************************************)
EXTENDS Integers, Sequences, FiniteSets

CONSTANTS
  Threads,          \* worker threads
  Nodes,            \* addresses at which tree nodes can be allocated
  NoNode,           \* no node: a thread is not adding garbage
  MaxThreadCount,   \* MAX_THREAD_COUNT
  MaxEpoch,         \* bound: no epoch beyond this number is created
  StalledJoin       \* may JoinEpoch() be descheduled across a whole GC round?

ASSUME EpochAssumption ==
  /\ IsFiniteSet(Threads)
  /\ NoNode \notin Nodes
  /\ MaxThreadCount \in Nat
  /\ Cardinality(Threads) < MaxThreadCount
  /\ MaxEpoch \in Nat
  /\ StalledJoin \in BOOLEAN

VARIABLES
  pc,       \* thread -> where it is in the tree operation
  ep,       \* thread -> epoch_p of JoinEpoch(), then the epoch it must leave
  held,     \* thread -> node pointers it read since it joined
  target,   \* thread -> epoch_p of AddGarbageNode()
  seen,     \* thread -> the expected value of its CAS on garbage_list_p
  adding,   \* thread -> node_p argument of AddGarbageNode()
  status,   \* node -> "free", "linked" (in the mapping table) or "retired"
  head,     \* head_epoch_p
  last,     \* the newest EpochNode
  addr,     \* epoch -> the address of its EpochNode
  count,    \* epoch -> active_thread_count
  garbage,  \* epoch -> garbage_list_p, newest first
  gc,       \* where the GC thread is
  chain,    \* garbage_node_p and what follows it in the walk of ClearEpoch()
  exited,   \* exited_flag
  retried   \* ~EpochManager() has reset the counters and clears once more

threadVars == <<pc, ep, held, target, seen, adding>>
listVars   == <<head, last, addr>>
gcVars     == <<listVars, gc, chain, exited, retried>>
vars       == <<threadVars, gcVars, status, count, garbage>>

Epochs     == 0 .. MaxEpoch
ThreadPC   == {"out", "joinAdd", "joinUndo", "in", "addRead", "addLoad", "addCAS"}
\* The thread has joined an epoch and has not left it yet.
InsidePC   == {"in", "addRead", "addLoad", "addCAS"}
\* ~EpochManager() runs with current_epoch_p = nullptr.
GCPC       == {"check", "load", "sub", "addBack", "walk", "free", "create", "stopped",
               "dcheck", "dload", "dsub", "dwalk", "dfree", "dreset", "destroyed"}

Inside(t)     == pc[t] \in InsidePC
\* Threads whose increment of e's active_thread_count is outstanding.
Members(e)    == {t \in Threads : (Inside(t) \/ pc[t] = "joinUndo") /\ ep[t] = e}
Deleted(e)    == e < head
\* The EpochNode in the list, if there is one, that a pointer to e points to:
\* e itself, or after its deletion a later one at the same address.
At(e)         == {f \in head .. last : addr[f] = addr[e]}
\* garbage_list_p read through a pointer to e; freed memory may hold anything,
\* and as it is only compared with what it is next, one value stands for all.
List(e)       == IF At(e) = {} THEN <<>> ELSE garbage[CHOOSE f \in At(e) : TRUE]

Init ==
  /\ pc      = [t \in Threads |-> "out"]
  /\ ep      = [t \in Threads |-> 0]
  /\ held    = [t \in Threads |-> {}]
  /\ target  = [t \in Threads |-> 0]
  /\ seen    = [t \in Threads |-> <<>>]
  /\ adding  = [t \in Threads |-> NoNode]
  /\ \E n \in Nodes : status = [m \in Nodes |-> IF m = n THEN "linked" ELSE "free"]
  /\ head    = 0
  /\ last    = 0
  /\ addr    = [e \in Epochs |-> e]
  /\ count   = [e \in Epochs |-> 0]
  /\ garbage = [e \in Epochs |-> <<>>]
  /\ gc      = "check"
  /\ chain   = <<>>
  /\ exited  = FALSE
  /\ retried = FALSE

-----------------------------------------------------------------------------
(* The decisions the two counters hang on.  An operator with a suffix is a *)
(* slip one could make there; TLC has to refute each of them.              *)

\* The plain read of current_epoch_p.
CurrentEpoch == last

\* prev_count < 0: the epoch joined is being cleaned, or was.
BeingCleaned_Never(prev) == FALSE
BeingCleaned(prev) == prev < 0

\* fetch_sub(MAX_THREAD_COUNT) > 0: a thread came between the load and this.
SneakedIn_Never(prev) == FALSE
SneakedIn(prev) == prev > 0

\* fetch_sub(1) through epoch_p: on whatever EpochNode is there now, and on no
\* counter if it was deleted and its memory has not become another EpochNode.
Decremented_Current(e) == [count EXCEPT ![last] = @ - 1]
Decremented(e) == [f \in Epochs |-> IF f \in At(e) THEN count[f] - 1 ELSE count[f]]

-----------------------------------------------------------------------------
(* JoinEpoch() and LeaveEpoch()                                            *)

\* epoch_p = current_epoch_p.  No operation starts once the tree is being
\* destroyed.
JoinRead(t) ==
  /\ pc[t] = "out"
  /\ ~exited
  /\ pc' = [pc EXCEPT ![t] = "joinAdd"]
  /\ ep' = [ep EXCEPT ![t] = CurrentEpoch]
  /\ UNCHANGED <<held, target, seen, adding, gcVars, status, count, garbage>>

\* prev_count = fetch_add(1); a negative value means the epoch is being cleaned.
\* If the memory was freed and is a later EpochNode now, t joins that one.
JoinAdd(t) ==
  /\ pc[t] = "joinAdd"
  /\ \E e \in At(ep[t]) :
       /\ count' = [count EXCEPT ![e] = @ + 1]
       /\ ep' = [ep EXCEPT ![t] = e]
       /\ pc' = [pc EXCEPT ![t] = IF BeingCleaned(count[e]) THEN "joinUndo" ELSE "in"]
  /\ UNCHANGED <<held, target, seen, adding, gcVars, status, garbage>>

\* The same fetch_add on freed memory that is no EpochNode yet: the value read
\* may have either sign, and the increment is lost when new EpochNode sets 0.
JoinAddDeleted(t) ==
  /\ pc[t] = "joinAdd"
  /\ At(ep[t]) = {}
  /\ \E next \in {"in", "joinUndo"} : pc' = [pc EXCEPT ![t] = next]
  /\ UNCHANGED <<ep, held, target, seen, adding, gcVars, status, count, garbage>>

\* fetch_sub(1); goto try_join_again, whose first statement is JoinRead.
JoinUndo(t) ==
  /\ pc[t] = "joinUndo"
  /\ pc' = [pc EXCEPT ![t] = "joinAdd"]
  /\ ep' = [ep EXCEPT ![t] = CurrentEpoch]
  /\ count' = Decremented(ep[t])
  /\ UNCHANGED <<held, target, seen, adding, gcVars, status, garbage>>

LeaveEpoch(t) ==
  /\ pc[t] = "in"
  /\ pc' = [pc EXCEPT ![t] = "out"]
  /\ held' = [held EXCEPT ![t] = {}]
  /\ count' = Decremented(ep[t])
  /\ ep' = [ep EXCEPT ![t] = 0]
  /\ UNCHANGED <<target, seen, adding, gcVars, status, garbage>>

-----------------------------------------------------------------------------
(* What a thread does inside its epoch: read pointers, replace nodes.      *)

GetNode(t) ==
  /\ pc[t] = "in"
  /\ \E n \in Nodes :
       /\ status[n] = "linked"
       /\ held' = [held EXCEPT ![t] = @ \cup {n}]
  /\ UNCHANGED <<pc, ep, target, seen, adding, gcVars, status, count, garbage>>

\* ConsolidateLeafNode() / ConsolidateInnerNode(): the CAS on the mapping table
\* either publishes the new node and retires the old one, or loses, and then
\* the new node is the garbage.
Consolidate_LoserRetiresOld(t) ==
  /\ pc[t] = "in"
  /\ \E old \in held[t], new \in Nodes :
       /\ status[new] = "free"
       /\ IF status[old] = "linked"
            THEN /\ status' = [status EXCEPT ![old] = "retired", ![new] = "linked"]
                 /\ held' = [held EXCEPT ![t] = @ \cup {new}]
            ELSE UNCHANGED <<status, held>>
       /\ adding' = [adding EXCEPT ![t] = old]
  /\ pc' = [pc EXCEPT ![t] = "addRead"]
  /\ UNCHANGED <<ep, target, seen, gcVars, count, garbage>>

Consolidate(t) ==
  /\ pc[t] = "in"
  /\ \E old \in held[t], new \in Nodes :
       /\ status[new] = "free"
       /\ IF status[old] = "linked"
            THEN /\ status' = [status EXCEPT ![old] = "retired", ![new] = "linked"]
                 /\ held' = [held EXCEPT ![t] = @ \cup {new}]
                 /\ adding' = [adding EXCEPT ![t] = old]
            ELSE /\ status' = [status EXCEPT ![new] = "retired"]
                 /\ adding' = [adding EXCEPT ![t] = new]
                 /\ UNCHANGED held
  /\ pc' = [pc EXCEPT ![t] = "addRead"]
  /\ UNCHANGED <<ep, target, seen, gcVars, count, garbage>>

-----------------------------------------------------------------------------
(* AddGarbageNode()                                                        *)

AddGarbageRead(t) ==
  /\ pc[t] = "addRead"
  /\ pc' = [pc EXCEPT ![t] = "addLoad"]
  /\ target' = [target EXCEPT ![t] = CurrentEpoch]
  /\ UNCHANGED <<ep, held, seen, adding, gcVars, status, count, garbage>>

AddGarbageLoad(t) ==
  /\ pc[t] = "addLoad"
  /\ pc' = [pc EXCEPT ![t] = "addCAS"]
  /\ seen' = [seen EXCEPT ![t] = List(target[t])]
  /\ UNCHANGED <<ep, held, target, adding, gcVars, status, count, garbage>>

\* The garbage list with the new GarbageNode in front.  What is written to freed
\* memory is in no list: the node is lost.
PushedNode(t, n) ==
  [e \in Epochs |-> IF e \in At(target[t]) THEN <<n>> \o seen[t] ELSE garbage[e]]
Pushed_NoNode(t) == PushedNode(t, NoNode)
Pushed(t) == PushedNode(t, adding[t])

\* compare_exchange_strong: a failure stores the actual list into seen and the
\* loop tries again.  Lists are compared where the code compares pointers to
\* GarbageNodes: equal lists at different addresses cost one more try only.
ListUnchanged_Assumed(t) == TRUE
ListUnchanged(t) == List(target[t]) = seen[t]

AddGarbageCAS(t) ==
  /\ pc[t] = "addCAS"
  /\ IF ListUnchanged(t)
       THEN /\ garbage' = Pushed(t)
            /\ adding' = [adding EXCEPT ![t] = NoNode]
            /\ seen' = [seen EXCEPT ![t] = <<>>]
            /\ pc' = [pc EXCEPT ![t] = "in"]
            /\ target' = [target EXCEPT ![t] = 0]
       ELSE /\ seen' = [seen EXCEPT ![t] = List(target[t])]
            /\ UNCHANGED <<pc, adding, target, garbage>>
  /\ UNCHANGED <<ep, held, gcVars, status, count>>

-----------------------------------------------------------------------------
(* The GC thread: ThreadFunc() { ClearEpoch(); CreateNewEpoch(); sleep }   *)

GCStep(from, to) == gc = from /\ gc' = to

\* while (!exited_flag): the flag is tested between two rounds.
GCStop ==
  /\ exited
  /\ GCStep("check", "stopped")
  /\ UNCHANGED <<threadVars, listVars, chain, exited, retried, status, count, garbage>>

\* head_epoch_p == current_epoch_p ends the pass.
ClearCheck_AnyEpoch ==
  /\ GCStep("check", "load")
  /\ UNCHANGED <<threadVars, listVars, chain, exited, retried, status, count, garbage>>

ClearCheck ==
  /\ gc = "check"
  /\ gc' = IF head = last THEN "create" ELSE "load"
  /\ UNCHANGED <<threadVars, listVars, chain, exited, retried, status, count, garbage>>

ClearLoad ==
  /\ gc = "load"
  /\ gc' = IF count[head] # 0 THEN "create" ELSE "sub"
  /\ UNCHANGED <<threadVars, listVars, chain, exited, retried, status, count, garbage>>

\* fetch_sub(MAX_THREAD_COUNT) > 0: some thread sneaked in.
ClearSub ==
  /\ gc = "sub"
  /\ gc' = IF SneakedIn(count[head]) THEN "addBack" ELSE "walk"
  /\ count' = [count EXCEPT ![head] = @ - MaxThreadCount]
  /\ UNCHANGED <<threadVars, listVars, chain, exited, retried, status, garbage>>

ClearAddBack_Forgotten ==
  /\ GCStep("addBack", "create")
  /\ UNCHANGED <<threadVars, listVars, chain, exited, retried, status, count, garbage>>

ClearAddBack ==
  /\ GCStep("addBack", "create")
  /\ count' = [count EXCEPT ![head] = @ + MaxThreadCount]
  /\ UNCHANGED <<threadVars, listVars, chain, exited, retried, status, garbage>>

\* garbage_list_p is loaded once and not written: what is pushed onto it from
\* here on goes with the EpochNode.
LoadGarbage ==
  /\ \/ GCStep("walk", "free")
     \/ GCStep("dwalk", "dfree")
  /\ chain' = garbage[head]
  /\ UNCHANGED <<threadVars, listVars, exited, retried, status, count, garbage>>

\* One iteration of the walk over the garbage chain.
FreeGarbage ==
  /\ gc \in {"free", "dfree"}
  /\ chain # <<>>
  /\ status' = [status EXCEPT ![Head(chain)] = "free"]
  /\ chain' = Tail(chain)
  /\ UNCHANGED <<threadVars, listVars, gc, exited, retried, count, garbage>>

\* GC_INTERVAL: unless StalledJoin, a thread that read current_epoch_p executes
\* its fetch_add within the milliseconds that separate two rounds, so it is not
\* between the two (nor before its fetch_sub) when the EpochNode is deleted.
JoinersPrompt ==
  StalledJoin \/ \A t \in Threads : pc[t] \in {"joinAdd", "joinUndo"} => ep[t] # head

\* delete head_epoch_p; head_epoch_p = next_epoch_node_p; next iteration.
DeleteEpoch ==
  /\ \/ GCStep("free", "check")
     \/ GCStep("dfree", "dcheck")
  /\ chain = <<>>
  /\ JoinersPrompt
  /\ head' = head + 1
  /\ garbage' = [garbage EXCEPT ![head] = <<>>]
  /\ UNCHANGED <<threadVars, last, addr, chain, exited, retried, status, count>>

\* new EpochNode{}, with the counter 0 and no garbage, at any address that no
\* EpochNode of the list has: one never used, or a deleted one's.  It can be reached
\* only by current_epoch_p, so filling it in and publishing it are one step.  The
\* bound stands in for an endless sequence of epochs; at it the GC thread only clears.
CreateNewEpoch ==
  /\ GCStep("create", "check")
  /\ IF last < MaxEpoch
       THEN /\ last' = last + 1
            /\ \E e \in {f \in 0 .. last + 1 : \A g \in head .. last : addr[f] # addr[g]} :
                 addr' = [addr EXCEPT ![last + 1] = addr[e]]
            /\ count' = [count EXCEPT ![last + 1] = 0]
            /\ garbage' = [garbage EXCEPT ![last + 1] = <<>>]
       ELSE UNCHANGED <<last, addr, count, garbage>>
  /\ UNCHANGED <<threadVars, head, chain, exited, retried, status>>

-----------------------------------------------------------------------------
(* ~EpochManager(): set exited_flag, join the GC thread, forget the        *)
(* current epoch, clear everything.  No thread is in the tree by then.     *)

SetExited ==
  /\ ~exited
  /\ \A t \in Threads : pc[t] = "out"
  /\ exited' = TRUE
  /\ UNCHANGED <<threadVars, listVars, gc, chain, retried, status, count, garbage>>

Join ==
  /\ GCStep("stopped", "dcheck")
  /\ UNCHANGED <<threadVars, listVars, chain, exited, retried, status, count, garbage>>

\* current_epoch_p is nullptr, so the pass goes to the end of the list.
NothingLeft_KeepsCurrent == head >= last
NothingLeft == head > last

DestroyCheck ==
  /\ gc = "dcheck"
  /\ gc' = IF NothingLeft THEN "destroyed" ELSE "dload"
  /\ UNCHANGED <<threadVars, listVars, chain, exited, retried, status, count, garbage>>

\* A counter that is not 0 ends the pass.  After the first pass all counters are
\* reset for a second one; after the second one the destructor goes on, and
\* asserts that nothing is left.
DestroyLoad ==
  /\ gc = "dload"
  /\ gc' = IF count[head] = 0 THEN "dsub" ELSE IF retried THEN "destroyed" ELSE "dreset"
  /\ UNCHANGED <<threadVars, listVars, chain, exited, retried, status, count, garbage>>

DestroyReset_Forgotten ==
  /\ GCStep("dreset", "dcheck")
  /\ retried' = TRUE
  /\ UNCHANGED <<threadVars, listVars, chain, exited, status, count, garbage>>

DestroyReset ==
  /\ GCStep("dreset", "dcheck")
  /\ retried' = TRUE
  /\ count' = [e \in Epochs |-> IF e \in head .. last THEN 0 ELSE count[e]]
  /\ UNCHANGED <<threadVars, listVars, chain, exited, status, garbage>>

DestroySub ==
  /\ GCStep("dsub", "dwalk")
  /\ count' = [count EXCEPT ![head] = @ - MaxThreadCount]
  /\ UNCHANGED <<threadVars, listVars, chain, exited, retried, status, garbage>>

\* The program is over.
Finished ==
  /\ gc = "destroyed"
  /\ UNCHANGED vars

-----------------------------------------------------------------------------
ThreadStep(t) ==
  \/ JoinRead(t) \/ JoinAdd(t) \/ JoinAddDeleted(t) \/ JoinUndo(t)
  \/ LeaveEpoch(t) \/ GetNode(t) \/ Consolidate(t)
  \/ AddGarbageRead(t) \/ AddGarbageLoad(t) \/ AddGarbageCAS(t)

GCThread ==
  \/ GCStop \/ ClearCheck \/ ClearLoad \/ ClearSub \/ ClearAddBack
  \/ LoadGarbage \/ FreeGarbage \/ DeleteEpoch \/ CreateNewEpoch

Destructor ==
  \/ SetExited \/ Join \/ DestroyCheck \/ DestroyLoad \/ DestroyReset \/ DestroySub

Next ==
  \/ \E t \in Threads : ThreadStep(t)
  \/ GCThread
  \/ Destructor
  \/ Finished

Spec == Init /\ [][Next]_vars

\* The operating system runs every thread that can take a step, and a tree
\* operation is finite: a thread inside an epoch is not allowed to stay in its
\* read loop for ever, so leaving is scheduled even though it competes with
\* further reads.
Fairness ==
  /\ WF_vars(GCThread)
  /\ WF_vars(Join \/ DestroyCheck \/ DestroyLoad \/ DestroyReset \/ DestroySub)
  /\ \A t \in Threads :
       /\ WF_vars(JoinAdd(t) \/ JoinUndo(t))
       /\ WF_vars(AddGarbageRead(t) \/ AddGarbageLoad(t) \/ AddGarbageCAS(t))
       /\ SF_vars(LeaveEpoch(t))

FairSpec == Spec /\ Fairness

-----------------------------------------------------------------------------
(* Properties                                                              *)

TypeOK ==
  /\ pc \in [Threads -> ThreadPC]
  /\ ep \in [Threads -> Epochs]
  /\ held \in [Threads -> SUBSET Nodes]
  /\ target \in [Threads -> Epochs]
  /\ seen \in [Threads -> Seq(Nodes)]
  /\ adding \in [Threads -> Nodes \cup {NoNode}]
  /\ status \in [Nodes -> {"free", "linked", "retired"}]
  /\ head \in 0 .. MaxEpoch + 1
  /\ last \in Epochs
  /\ addr \in [Epochs -> Epochs]
  /\ count \in [Epochs -> Int]
  /\ garbage \in [Epochs -> Seq(Nodes)]
  /\ gc \in GCPC
  /\ chain \in Seq(Nodes)
  /\ exited \in BOOLEAN
  /\ retried \in BOOLEAN

\* The promise of JoinEpoch(): no node a thread read inside its epoch is freed
\* before the thread leaves.
NoUseAfterFree ==
  \A t \in Threads : Inside(t) => \A n \in held[t] : status[n] # "free"

\* The counter of every EpochNode in the list is the number of threads that
\* incremented it and did not decrement it, minus MAX_THREAD_COUNT while the
\* GC thread has it closed.
Closed(e) == e = head /\ gc \in {"addBack", "walk", "free", "dwalk", "dfree"}
CountExact ==
  \A e \in head .. last :
    count[e] = Cardinality(Members(e)) - (IF Closed(e) THEN MaxThreadCount ELSE 0)

Cleaning == {"walk", "free", "dwalk", "dfree"}

\* While the garbage of an epoch is being freed, every thread inside the tree
\* joined a later epoch.
CleaningExcludesThreads ==
  gc \in Cleaning => \A t \in Threads : Inside(t) => ep[t] > head

\* "Current epoch must not be recycled": the list AddGarbageNode() pushes onto
\* belongs to an EpochNode that is neither deleted nor being cleaned.
GarbageTargetLive ==
  \A t \in Threads :
    pc[t] \in {"addLoad", "addCAS"} =>
      target[t] >= head /\ ~(target[t] = head /\ gc \in Cleaning)

\* What is still to be freed of e's garbage: while the GC thread walks it, what
\* it has not come to.
Waiting(e) == IF e = head /\ gc \in {"free", "dfree"} THEN chain ELSE garbage[e]
InGarbage(n, e) == \E i \in DOMAIN Waiting(e) : Waiting(e)[i] = n

GarbageOnce ==
  \A e, f \in Epochs : \A i \in DOMAIN Waiting(e), j \in DOMAIN Waiting(f) :
    Waiting(e)[i] = Waiting(f)[j] => e = f /\ i = j
GarbageRetired == \A e \in Epochs, n \in Nodes : InGarbage(n, e) => status[n] = "retired"
AddingRetired ==
  \A t \in Threads : adding[t] # NoNode =>
    /\ status[adding[t]] = "retired"
    /\ \A e \in Epochs : ~InGarbage(adding[t], e)
    /\ \A u \in Threads : adding[u] = adding[t] => u = t
RetiredKept ==
  \A n \in Nodes : status[n] = "retired" =>
    (\E e \in Epochs : InGarbage(n, e)) \/ (\E t \in Threads : adding[t] = n)

\* No node is freed twice, or freed while it is in the tree, whatever CASes on
\* garbage_list_p fail and whatever EpochNodes stalled threads write to: what
\* waits to be freed is retired, waits in one place, and no thread is adding it.
FreedOnce == GarbageOnce /\ GarbageRetired /\ AddingRetired

\* A retired node is in exactly one place: in one garbage list, once, or in the
\* hands of the one thread that is adding it; so it is freed once and does not
\* leak, whatever CASes on garbage_list_p fail.
RetiredOnce == FreedOnce /\ RetiredKept

\* The assertion at the end of ~EpochManager(), "All garbage nodes should be
\* freed": two passes are enough to delete every EpochNode, even with counters
\* that stalled joiners have changed.
EpochsCleared == gc = "destroyed" => head > last

\* When ~EpochManager() has ended no node that was replaced is left over.
AllFreedAtEnd ==
  gc = "destroyed" => head > last /\ \A n \in Nodes : status[n] # "retired"

\* The garbage of an epoch that is followed by another one is freed eventually:
\* no thread can keep the counter of its EpochNode above 0 for ever, and the GC
\* thread never leaves it closed.
GarbageFreed == \A e \in 0 .. MaxEpoch - 1 : garbage[e] # <<>> ~> Deleted(e)

\* "need to read the current epoch again because it must have been moved": a
\* retry of JoinEpoch() finds a later epoch than the one it was turned away from,
\* so a thread retries at most once for every epoch the GC thread creates.
RetriesAdvance ==
  [][\A t \in Threads : pc[t] = "joinUndo" /\ pc'[t] # "joinUndo" => ep'[t] > ep[t]]_vars
=============================================================================
