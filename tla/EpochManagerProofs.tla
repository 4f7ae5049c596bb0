------------------------- MODULE EpochManagerProofs -------------------------
(***************************************************************************)
(* What EpochManager guarantees for any number of threads, nodes and       *)
(* epochs.  However the threads are scheduled, the types are right, no     *)
(* node is freed twice and the destructor deletes every EpochNode.  The    *)
(* exactness of the counters, and with it that nothing in use is freed and *)
(* that nothing leaks, needs prompt joiners (~StalledJoin): a joiner that  *)
(* stalls may write to an EpochNode that has been deleted, or to another   *)
(* one at the same address.                                                *)
(***************************************************************************)
EXTENDS EpochManager, FiniteSetTheorems, TLAPS

AddPC == {"addRead", "addLoad", "addCAS"}

-----------------------------------------------------------------------------
(* First invariant: types, and what they rest on.  This and the next three *)
(* hold with stalled joiners as well.                                      *)

\* head moves up to last while the GC thread runs and one further at the end.
EpochOrder ==
  /\ gc \notin {"dcheck", "destroyed"} => head <= last
  /\ gc \in {"load", "sub", "addBack", "walk", "free"} => head < last

\* A thread adds garbage from Consolidate() to its successful CAS.
AddingHasNode == \A t \in Threads : (pc[t] \in AddPC) <=> (adding[t] # NoNode)

TypeInv == TypeOK /\ EpochOrder /\ AddingHasNode

USE EpochAssumption

LEMMA TypeInvInit == Init => TypeInv
<1> SUFFICES ASSUME Init PROVE TypeInv
  OBVIOUS
<1>1. TypeOK
  <2>1. 0 \in Epochs
    BY DEF Epochs, EpochAssumption
  <2>2. status \in [Nodes -> {"free", "linked", "retired"}]
    BY DEF Init
  <2>3. garbage \in [Epochs -> Seq(Nodes)] /\ seen \in [Threads -> Seq(Nodes)]
    BY DEF Init
  <2>4. held \in [Threads -> SUBSET Nodes]
    BY DEF Init
  <2>5. /\ head \in 0 .. MaxEpoch + 1 /\ last \in Epochs /\ count \in [Epochs -> Int]
        /\ addr \in [Epochs -> Epochs] /\ chain \in Seq(Nodes)
    BY <2>1 DEF Init, EpochAssumption
  <2>6. pc \in [Threads -> ThreadPC] /\ gc \in GCPC /\ exited \in BOOLEAN /\ retried \in BOOLEAN
    BY DEF Init, ThreadPC, GCPC
  <2> QED
    BY <2>1, <2>2, <2>3, <2>4, <2>5, <2>6 DEF Init, TypeOK
<1>2. EpochOrder
  BY DEF Init, EpochOrder
<1>3. AddingHasNode
  BY DEF Init, AddingHasNode, AddPC
<1> QED
  BY <1>1, <1>2, <1>3 DEF TypeInv

\* What a pointer to an EpochNode gives, whether that is alive or not.
LEMMA PointerTypes ==
  ASSUME TypeInv, NEW e \in Epochs
  PROVE  At(e) \subseteq head .. last /\ At(e) \subseteq Epochs /\ List(e) \in Seq(Nodes)
<1>1. head .. last \subseteq Epochs
  BY DEF TypeInv, TypeOK, Epochs
<1>2. At(e) \subseteq Epochs
  BY <1>1 DEF At
<1>3. CASE At(e) = {}
  BY <1>2, <1>3 DEF List, At
<1>4. CASE At(e) # {}
  <2>1. PICK f \in Epochs : f = CHOOSE g \in At(e) : TRUE
    BY <1>2, <1>4
  <2> QED
    BY <1>2, <1>4, <2>1 DEF List, At, TypeInv, TypeOK
<1> QED
  BY <1>2, <1>3, <1>4 DEF At

LEMMA DecrementedType ==
  ASSUME TypeInv, NEW e \in Epochs
  PROVE  Decremented(e) \in [Epochs -> Int]
BY DEF Decremented, TypeInv, TypeOK

LEMMA TypeInvThread ==
  ASSUME TypeInv, NEW t \in Threads, ThreadStep(t)
  PROVE  TypeInv'
<1> USE DEF TypeInv, TypeOK, EpochOrder, AddingHasNode, AddPC, ThreadPC, Epochs, GCPC,
            gcVars, listVars
<1>1. CASE JoinRead(t)
  BY <1>1 DEF JoinRead, CurrentEpoch
<1>2. CASE JoinAdd(t)
  <2>1. PICK e \in Epochs : /\ count' = [count EXCEPT ![e] = @ + 1]
                            /\ ep' = [ep EXCEPT ![t] = e]
    BY <1>2, PointerTypes DEF JoinAdd
  <2>2. count' \in [Epochs -> Int]
    <3>1. count \in [Epochs -> Int]
      OBVIOUS
    <3> HIDE DEF TypeInv, Epochs
    <3> QED
      BY <2>1, <3>1
  <2>4. ep' \in [Threads -> Epochs]
    BY <2>1
  <2>3. pc' \in [Threads -> ThreadPC] /\ \A u \in Threads : pc'[u] \in AddPC <=> pc[u] \in AddPC
    BY <1>2 DEF JoinAdd
  <2> QED
    BY <1>2, <2>2, <2>3, <2>4 DEF JoinAdd
<1>3. CASE JoinAddDeleted(t)
  BY <1>3 DEF JoinAddDeleted
<1>4. CASE JoinUndo(t)
  <2>1. count' \in [Epochs -> Int]
    BY <1>4, DecrementedType DEF JoinUndo
  <2> QED
    BY <1>4, <2>1 DEF JoinUndo, CurrentEpoch
<1>5. CASE LeaveEpoch(t)
  <2>1. count' \in [Epochs -> Int]
    BY <1>5, DecrementedType DEF LeaveEpoch
  <2>2. held' \in [Threads -> SUBSET Nodes] /\ ep' \in [Threads -> Epochs]
    <3>1. 0 \in Epochs
      BY DEF EpochAssumption
    <3> QED
      BY <1>5, <3>1 DEF LeaveEpoch
  <2> QED
    BY <1>5, <2>1, <2>2 DEF LeaveEpoch
<1>6. CASE GetNode(t)
  <2>1. PICK n \in Nodes : held' = [held EXCEPT ![t] = @ \cup {n}]
    BY <1>6 DEF GetNode
  <2>2. held' \in [Threads -> SUBSET Nodes]
    BY <2>1
  <2> QED
    BY <1>6, <2>2 DEF GetNode
<1>7. CASE Consolidate(t)
  <2>1. PICK old \in held[t], new \in Nodes :
          IF status[old] = "linked"
            THEN /\ status' = [status EXCEPT ![old] = "retired", ![new] = "linked"]
                 /\ held' = [held EXCEPT ![t] = @ \cup {new}]
                 /\ adding' = [adding EXCEPT ![t] = old]
            ELSE /\ status' = [status EXCEPT ![new] = "retired"]
                 /\ adding' = [adding EXCEPT ![t] = new]
                 /\ UNCHANGED held
    BY <1>7 DEF Consolidate
  <2>2. held' \in [Threads -> SUBSET Nodes]
    <3>1. CASE held' = [held EXCEPT ![t] = @ \cup {new}]
      BY <3>1
    <3>2. CASE held' = held
      BY <3>2
    <3> QED
      BY <2>1, <3>1, <3>2
  <2>3. old \in Nodes
    OBVIOUS
  <2>4. status' \in [Nodes -> {"free", "linked", "retired"}]
    <3>1. CASE status' = [status EXCEPT ![old] = "retired", ![new] = "linked"]
      BY <3>1
    <3>2. CASE status' = [status EXCEPT ![new] = "retired"]
      BY <3>2
    <3> QED
      BY <2>1, <3>1, <3>2
  <2>5. PICK m \in Nodes : adding' = [adding EXCEPT ![t] = m]
    BY <2>1, <2>3
  <2>6. adding' \in [Threads -> Nodes \cup {NoNode}]
    BY <2>5
  <2>7. AddingHasNode'
    BY <1>7, <2>5 DEF Consolidate, EpochAssumption
  <2>8. TypeOK'
    BY <1>7, <2>2, <2>4, <2>6 DEF Consolidate
  <2> QED
    BY <1>7, <2>7, <2>8 DEF Consolidate
<1>8. CASE AddGarbageRead(t)
  BY <1>8 DEF AddGarbageRead, CurrentEpoch
<1>9. CASE AddGarbageLoad(t)
  <2>1. seen' \in [Threads -> Seq(Nodes)]
    BY <1>9, PointerTypes DEF AddGarbageLoad
  <2> QED
    BY <1>9, <2>1 DEF AddGarbageLoad
<1>10. CASE AddGarbageCAS(t)
  <2>1. adding[t] \in Nodes /\ target[t] \in 0 .. MaxEpoch
    BY <1>10 DEF AddGarbageCAS
  <2>2. <<adding[t]>> \o seen[t] \in Seq(Nodes)
    BY <2>1
  <2>3. garbage' \in [0 .. MaxEpoch -> Seq(Nodes)]
    <3>1. CASE ListUnchanged(t)
      <4>1. PICK list \in Seq(Nodes) : list = <<adding[t]>> \o seen[t]
        BY <2>2
      <4>2. garbage' = [e \in 0 .. MaxEpoch |-> IF e \in At(target[t]) THEN list ELSE garbage[e]]
        BY <1>10, <3>1, <4>1 DEF AddGarbageCAS, Pushed, PushedNode
      <4> QED
        BY <4>1, <4>2
    <3>2. CASE ~ListUnchanged(t)
      BY <1>10, <3>2 DEF AddGarbageCAS
    <3> QED
      BY <3>1, <3>2
  <2>4. seen' \in [Threads -> Seq(Nodes)]
    <3>1. <<>> \in Seq(Nodes) /\ List(target[t]) \in Seq(Nodes)
      <4>1. target[t] \in Epochs
        BY <2>1
      <4> HIDE DEF TypeInv, Epochs
      <4> QED
        BY <4>1, PointerTypes
    <3>2. PICK new \in Seq(Nodes) : seen' = [seen EXCEPT ![t] = new]
      BY <1>10, <3>1 DEF AddGarbageCAS
    <3> QED
      BY <3>2
  <2>5. adding' \in [Threads -> Nodes \cup {NoNode}]
    BY <1>10 DEF AddGarbageCAS
  <2>8. target' \in [Threads -> Epochs]
    <3>1. 0 \in Epochs
      BY DEF EpochAssumption
    <3> QED
      BY <1>10, <3>1 DEF AddGarbageCAS
  <2>6. AddingHasNode'
    BY <1>10 DEF AddGarbageCAS
  <2>7. TypeOK'
    BY <1>10, <2>3, <2>4, <2>5, <2>8 DEF AddGarbageCAS
  <2> QED
    BY <1>10, <2>6, <2>7 DEF AddGarbageCAS
<1> QED
  BY <1>1, <1>2, <1>3, <1>4, <1>5, <1>6, <1>7, <1>8, <1>9, <1>10 DEF ThreadStep

\* The steps that only move the GC thread, its flags and a counter.
LEMMA TypeInvControl ==
  ASSUME TypeInv, EpochOrder', UNCHANGED <<threadVars, listVars, chain, status, garbage>>,
         gc' \in GCPC, exited' \in BOOLEAN, retried' \in BOOLEAN, count' \in [Epochs -> Int]
  PROVE  TypeInv'
<1>1. TypeOK'
  BY DEF TypeInv, TypeOK, threadVars, listVars
<1>2. AddingHasNode'
  BY DEF TypeInv, AddingHasNode, threadVars
<1> QED
  BY <1>1, <1>2 DEF TypeInv

LEMMA TypeInvGC ==
  ASSUME TypeInv, GCThread \/ Destructor
  PROVE  TypeInv'
<1>0. /\ head \in Int /\ last \in Int /\ MaxEpoch \in Nat
      /\ head >= 0 /\ last \in 0 .. MaxEpoch
      /\ EpochOrder /\ count \in [Epochs -> Int] /\ MaxThreadCount \in Nat
      /\ exited \in BOOLEAN /\ retried \in BOOLEAN
  BY DEF TypeInv, TypeOK, Epochs, EpochAssumption
<1>1. CASE ClearCheck \/ ClearLoad \/ GCStop
  BY <1>0, <1>1, TypeInvControl DEF ClearCheck, ClearLoad, GCStop, GCStep, EpochOrder, GCPC, listVars
<1>2. CASE ClearSub \/ ClearAddBack \/ DestroySub
  <2>1. count' \in [Epochs -> Int]
    BY <1>0, <1>2 DEF ClearSub, ClearAddBack, DestroySub
  <2>2. EpochOrder' /\ gc' \in GCPC
    BY <1>0, <1>2 DEF ClearSub, ClearAddBack, DestroySub, GCStep, EpochOrder, GCPC, listVars
  <2> QED
    BY <1>0, <1>2, <2>1, <2>2, TypeInvControl DEF ClearSub, ClearAddBack, DestroySub
<1>3. CASE SetExited \/ Join \/ DestroyCheck \/ DestroyLoad
  <2>1. EpochOrder' /\ gc' \in GCPC
    BY <1>0, <1>3 DEF SetExited, Join, DestroyCheck, NothingLeft, DestroyLoad, GCStep,
                      EpochOrder, GCPC, listVars, TypeInv, TypeOK
  <2> QED
    BY <1>0, <1>3, <2>1, TypeInvControl DEF SetExited, Join, DestroyCheck, DestroyLoad
<1>4. CASE DestroyReset
  <2>1. count' \in [Epochs -> Int]
    BY <1>0, <1>4 DEF DestroyReset
  <2>2. EpochOrder' /\ gc' \in GCPC /\ retried' \in BOOLEAN
    BY <1>0, <1>4 DEF DestroyReset, GCStep, EpochOrder, GCPC, listVars
  <2> QED
    BY <1>0, <1>4, <2>1, <2>2, TypeInvControl DEF DestroyReset
<1>5. CASE LoadGarbage \/ FreeGarbage
  <2>1. chain' \in Seq(Nodes)
    <3>1. CASE LoadGarbage
      <4>1. head \in Epochs
        BY <1>0, <3>1 DEF LoadGarbage, GCStep, EpochOrder, Epochs
      <4> QED
        BY <3>1, <4>1 DEF LoadGarbage, TypeInv, TypeOK
    <3>2. CASE FreeGarbage
      BY <3>2 DEF FreeGarbage, TypeInv, TypeOK
    <3> QED
      BY <1>5, <3>1, <3>2
  <2>2. status' \in [Nodes -> {"free", "linked", "retired"}]
    BY <1>5 DEF LoadGarbage, FreeGarbage, TypeInv, TypeOK
  <2>3. EpochOrder' /\ gc' \in GCPC
    BY <1>0, <1>5 DEF LoadGarbage, FreeGarbage, GCStep, EpochOrder, GCPC, listVars
  <2>4. UNCHANGED <<threadVars, listVars, exited, retried, count, garbage>>
    BY <1>5 DEF LoadGarbage, FreeGarbage
  <2>5. TypeOK' /\ AddingHasNode'
    BY <2>1, <2>2, <2>3, <2>4 DEF TypeInv, TypeOK, AddingHasNode, threadVars, listVars
  <2> QED
    BY <2>3, <2>5 DEF TypeInv
<1>6. CASE DeleteEpoch
  <2>1. (gc = "free" /\ gc' = "check") \/ (gc = "dfree" /\ gc' = "dcheck")
    BY <1>6 DEF DeleteEpoch, GCStep
  <2>2. head <= last /\ (gc = "free" => head < last)
    BY <1>0, <2>1 DEF EpochOrder
  <2>3. head' = head + 1 /\ head' \in 0 .. MaxEpoch + 1 /\ last' = last
    BY <1>0, <1>6, <2>2 DEF DeleteEpoch
  <2>4. EpochOrder'
    BY <1>0, <2>1, <2>2, <2>3 DEF EpochOrder
  <2>5. garbage' \in [Epochs -> Seq(Nodes)]
    BY <1>6 DEF DeleteEpoch, TypeInv, TypeOK
  <2>6. gc' \in GCPC /\ UNCHANGED <<threadVars, last, addr, chain, exited, retried, status, count>>
    BY <1>6, <2>1 DEF DeleteEpoch, GCPC
  <2>7. TypeOK' /\ AddingHasNode'
    BY <2>3, <2>5, <2>6 DEF TypeInv, TypeOK, AddingHasNode, threadVars
  <2> QED
    BY <2>4, <2>7 DEF TypeInv
<1>7. CASE CreateNewEpoch
  <2>1. /\ gc = "create" /\ gc' = "check"
        /\ UNCHANGED <<threadVars, head, chain, exited, retried, status>>
    BY <1>7 DEF CreateNewEpoch, GCStep
  <2>2. /\ last' \in Epochs /\ last <= last' /\ addr' \in [Epochs -> Epochs]
        /\ count' \in [Epochs -> Int] /\ garbage' \in [Epochs -> Seq(Nodes)]
    <3>1. CASE last < MaxEpoch
      <4>1. PICK a \in Epochs : addr' = [addr EXCEPT ![last + 1] = a]
        <5>1. PICK e \in 0 .. last + 1 : addr' = [addr EXCEPT ![last + 1] = addr[e]]
          BY <1>7, <3>1 DEF CreateNewEpoch
        <5>2. e \in Epochs
          BY <1>0, <3>1 DEF Epochs
        <5> QED
          BY <5>1, <5>2 DEF TypeInv, TypeOK
      <4>2. addr' \in [Epochs -> Epochs]
        BY <4>1 DEF TypeInv, TypeOK
      <4>3. PICK k \in Epochs : k = last + 1
        BY <1>0, <3>1 DEF Epochs
      <4>4. count' \in [Epochs -> Int] /\ garbage' \in [Epochs -> Seq(Nodes)]
        <5>1. count' = [count EXCEPT ![k] = 0] /\ garbage' = [garbage EXCEPT ![k] = <<>>]
          BY <1>7, <3>1, <4>3 DEF CreateNewEpoch
        <5>2. <<>> \in Seq(Nodes)
          OBVIOUS
        <5>3. garbage \in [Epochs -> Seq(Nodes)] /\ count \in [Epochs -> Int]
          BY DEF TypeInv, TypeOK
        <5>4. count' \in [Epochs -> Int]
          BY <5>1, <5>3
        <5>5. garbage' \in [Epochs -> Seq(Nodes)]
          BY <5>1, <5>2, <5>3
        <5> QED
          BY <5>4, <5>5
      <4>5. last' \in Epochs /\ last <= last'
        BY <1>0, <1>7, <3>1 DEF CreateNewEpoch, Epochs
      <4> QED
        BY <4>2, <4>4, <4>5
    <3>2. CASE ~(last < MaxEpoch)
      BY <1>0, <1>7, <3>2 DEF CreateNewEpoch, TypeInv, TypeOK
    <3> QED
      BY <3>1, <3>2
  <2>3. EpochOrder'
    <3>1. /\ head' \in Int /\ last' \in Int /\ head' <= last'
      BY <1>0, <2>1, <2>2 DEF EpochOrder, Epochs
    <3> QED
      BY <2>1, <3>1 DEF EpochOrder
  <2>4. TypeOK' /\ AddingHasNode'
    BY <2>1, <2>2 DEF TypeInv, TypeOK, AddingHasNode, threadVars, GCPC
  <2> QED
    BY <2>3, <2>4 DEF TypeInv
<1> QED
  BY <1>1, <1>2, <1>3, <1>4, <1>5, <1>6, <1>7 DEF GCThread, Destructor

LEMMA TypeInvNext == TypeInv /\ [Next]_vars => TypeInv'
<1> SUFFICES ASSUME TypeInv, [Next]_vars PROVE TypeInv'
  OBVIOUS
<1>1. CASE \E t \in Threads : ThreadStep(t)
  BY <1>1, TypeInvThread
<1>2. CASE GCThread \/ Destructor
  BY <1>2, TypeInvGC
<1>3. CASE UNCHANGED vars
  BY <1>3 DEF TypeInv, TypeOK, EpochOrder, AddingHasNode, vars, threadVars, gcVars, listVars
<1> QED
  BY <1>1, <1>2, <1>3 DEF Next, Finished

\* Every variable keeps its type, whatever memory stalled joiners write to.
THEOREM TypeCorrect == Spec => []TypeOK
<1>1. TypeInv => TypeOK
  BY DEF TypeInv
<1> QED
  BY <1>1, TypeInvInit, TypeInvNext, PTL DEF Spec

-----------------------------------------------------------------------------
(* Second invariant: the list of EpochNodes and their addresses.           *)

LEMMA ThreadKeepsGC ==
  ASSUME NEW t \in Threads, ThreadStep(t)
  PROVE  UNCHANGED gcVars
BY DEF ThreadStep, JoinRead, JoinAdd, JoinAddDeleted, JoinUndo, LeaveEpoch, GetNode,
       Consolidate, AddGarbageRead, AddGarbageLoad, AddGarbageCAS

LEMMA GCKeepsThreads ==
  ASSUME GCThread \/ Destructor
  PROVE  UNCHANGED threadVars
BY DEF GCThread, Destructor, GCStop, ClearCheck, ClearLoad, ClearSub, ClearAddBack,
       LoadGarbage, FreeGarbage, DeleteEpoch, CreateNewEpoch, SetExited, Join, DestroyCheck,
       DestroyLoad, DestroyReset, DestroySub

\* EpochNodes that are in the list at the same time have different addresses.
AddrDistinct == \A e, f \in head .. last : addr[e] = addr[f] => e = f

\* Garbage is only in the list of an EpochNode that is alive.
GarbageListed == \A e \in Epochs : e \notin head .. last => garbage[e] = <<>>

ListInv == AddrDistinct /\ GarbageListed

LEMMA ListInvInit == Init => ListInv
<1> SUFFICES ASSUME Init PROVE ListInv
  OBVIOUS
<1>1. head .. last = {0}
  BY DEF Init
<1> QED
  BY <1>1 DEF Init, ListInv, AddrDistinct, GarbageListed

\* A push changes the list of one EpochNode that is alive, or none.
LEMMA PushIsLocal ==
  ASSUME TypeInv, NEW t \in Threads, ThreadStep(t), NEW e \in Epochs, e \notin head .. last
  PROVE  garbage'[e] = garbage[e]
<1>1. CASE AddGarbageCAS(t)
  <2>1. e \notin At(target[t])
    BY DEF At
  <2> QED
    BY <1>1, <2>1 DEF AddGarbageCAS, Pushed, PushedNode
<1>2. CASE ~AddGarbageCAS(t)
  BY <1>2 DEF ThreadStep, JoinRead, JoinAdd, JoinAddDeleted, JoinUndo, LeaveEpoch, GetNode,
              Consolidate, AddGarbageRead, AddGarbageLoad
<1> QED
  BY <1>1, <1>2

LEMMA ListInvNext == TypeInv /\ ListInv /\ [Next]_vars => ListInv'
<1> SUFFICES ASSUME TypeInv, ListInv, [Next]_vars PROVE ListInv'
  OBVIOUS
<1>0. head \in Int /\ last \in Int
  BY DEF TypeInv, TypeOK, Epochs
<1>1. ASSUME NEW t \in Threads, ThreadStep(t) PROVE ListInv'
  <2>1. UNCHANGED <<head, last, addr>>
    BY <1>1, ThreadKeepsGC DEF gcVars, listVars
  <2> QED
    BY <1>1, <2>1, PushIsLocal DEF ListInv, AddrDistinct, GarbageListed
<1>2. CASE DeleteEpoch
  <2>1. /\ head' = head + 1 /\ UNCHANGED <<last, addr>>
        /\ garbage' = [garbage EXCEPT ![head] = <<>>]
    BY <1>2 DEF DeleteEpoch
  <2>2. \A e : e \in head' .. last' => e \in head .. last
    BY <1>0, <2>1
  <2>3. \A e \in Epochs : e \in head .. last => e = head \/ e \in head' .. last'
    BY <1>0, <2>1
  <2>4. \A e \in Epochs : garbage'[e] = IF e = head THEN <<>> ELSE garbage[e]
    BY <2>1 DEF TypeInv, TypeOK
  <2> QED
    BY <2>1, <2>2, <2>3, <2>4 DEF ListInv, AddrDistinct, GarbageListed
<1>3. CASE CreateNewEpoch
  <2>1. CASE last < MaxEpoch
    <3>1. PICK k \in Epochs : k = last + 1
      BY <1>0, <2>1 DEF TypeInv, TypeOK, Epochs, EpochAssumption
    <3>2. PICK a : addr' = [addr EXCEPT ![k] = a] /\ \A g \in head .. last : a # addr[g]
      BY <1>3, <2>1, <3>1 DEF CreateNewEpoch
    <3>3. UNCHANGED head /\ last' = k /\ garbage' = [garbage EXCEPT ![k] = <<>>]
      BY <1>3, <2>1, <3>1 DEF CreateNewEpoch
    <3>4. \A e : e \in head' .. last' => e = k \/ (e \in head .. last /\ e # k)
      BY <1>0, <3>1, <3>3
    <3>5. \A e \in Epochs : e \notin head' .. last' => e \notin head .. last
      BY <1>0, <3>1, <3>3
    <3>6. \A e \in head .. last : e \in Epochs
      BY DEF TypeInv, TypeOK, Epochs
    <3>7. \A e \in Epochs : addr'[e] = IF e = k THEN a ELSE addr[e]
      BY <3>2 DEF TypeInv, TypeOK
    <3>8. AddrDistinct'
      BY <3>1, <3>2, <3>4, <3>6, <3>7 DEF ListInv, AddrDistinct
    <3>9. \A e \in Epochs : garbage'[e] = IF e = k THEN <<>> ELSE garbage[e]
      BY <3>3 DEF TypeInv, TypeOK
    <3> QED
      BY <3>5, <3>8, <3>9 DEF ListInv, GarbageListed
  <2>2. CASE ~(last < MaxEpoch)
    BY <1>3, <2>2 DEF CreateNewEpoch, ListInv, AddrDistinct, GarbageListed
  <2> QED
    BY <2>1, <2>2
<1>4. CASE \/ (GCThread /\ ~DeleteEpoch /\ ~CreateNewEpoch) \/ Destructor \/ UNCHANGED vars
  <2>1. UNCHANGED <<head, last, addr, garbage>>
    BY <1>4 DEF GCThread, Destructor, GCStop, ClearCheck, ClearLoad, ClearSub, ClearAddBack,
       LoadGarbage, FreeGarbage, SetExited, Join, DestroyCheck, DestroyLoad, DestroyReset,
       DestroySub, listVars, gcVars, vars
  <2> QED
    BY <2>1 DEF ListInv, AddrDistinct, GarbageListed
<1> QED
  BY <1>1, <1>2, <1>3, <1>4 DEF Next, Finished

\* A pointer to an EpochNode of the list is a pointer to nothing else, and a
\* pointer to a deleted one is dangling or a pointer to one other EpochNode.
LEMMA AtIsSelf ==
  ASSUME TypeInv, ListInv, NEW e \in head .. last
  PROVE  At(e) = {e} /\ List(e) = garbage[e]
<1>1. At(e) = {e}
  BY DEF At, ListInv, AddrDistinct
<1>2. (CHOOSE f \in At(e) : TRUE) = e
  BY <1>1
<1> QED
  BY <1>1, <1>2 DEF List

LEMMA AtCases ==
  ASSUME TypeInv, ListInv, NEW e \in Epochs, At(e) # {}
  PROVE  \E f \in head .. last : At(e) = {f} /\ List(e) = garbage[f]
<1>1. PICK f \in head .. last : f \in At(e)
  BY DEF At
<1>2. At(e) = {f}
  BY <1>1 DEF At, ListInv, AddrDistinct
<1>3. (CHOOSE g \in At(e) : TRUE) = f
  BY <1>2
<1> QED
  BY <1>2, <1>3 DEF List

-----------------------------------------------------------------------------
(* Third invariant: the destructor runs alone, and its second pass deletes *)
(* whatever the first one has left.                                        *)

Quiet ==
  /\ exited => \A t \in Threads : pc[t] = "out"
  /\ gc \in {"stopped", "dcheck", "dload", "dsub", "dwalk", "dfree", "dreset", "destroyed"}
       => exited

\* In the second pass the counters are 0 but for the one ClearEpoch() is at.
RetriedZero ==
  retried =>
    /\ gc \in {"dcheck", "dload", "dsub", "dwalk", "dfree", "destroyed"}
    /\ \A e \in head .. last : count[e] = 0 \/ (e = head /\ gc \in {"dwalk", "dfree"})

EndInv == Quiet /\ RetriedZero /\ EpochsCleared

LEMMA EndInvInit == Init => EndInv
BY DEF Init, EndInv, Quiet, RetriedZero, EpochsCleared

LEMMA EndInvNext == TypeInv /\ EndInv /\ [Next]_vars => EndInv'
<1> SUFFICES ASSUME TypeInv, EndInv, [Next]_vars PROVE EndInv'
  OBVIOUS
<1>0. /\ head \in Int /\ last \in Int /\ count \in [Epochs -> Int]
      /\ \A e \in head .. last : e \in Epochs
  <2>1. head \in Int /\ last \in Int /\ count \in [Epochs -> Int]
    BY DEF TypeInv, TypeOK, Epochs
  <2>2. \A e \in head .. last : e \in Epochs
    BY DEF TypeInv, TypeOK, Epochs
  <2> QED
    BY <2>1, <2>2
<1>1. ASSUME NEW t \in Threads, ThreadStep(t) PROVE EndInv'
  <2>1. UNCHANGED <<head, last, gc, exited, retried>>
    BY <1>1, ThreadKeepsGC DEF gcVars, listVars
  <2>2. ~exited
    BY <1>1 DEF EndInv, Quiet, ThreadStep, JoinRead, JoinAdd, JoinAddDeleted, JoinUndo,
           LeaveEpoch, GetNode, Consolidate, AddGarbageRead, AddGarbageLoad, AddGarbageCAS
  <2>3. ~retried /\ gc # "destroyed"
    BY <2>2 DEF EndInv, Quiet, RetriedZero
  <2> QED
    BY <2>1, <2>2, <2>3 DEF EndInv, Quiet, RetriedZero, EpochsCleared
<1>2. CASE GCThread
  <2>1. UNCHANGED <<threadVars, exited, retried>>
    BY <1>2 DEF GCThread, GCStop, ClearCheck, ClearLoad, ClearSub, ClearAddBack, LoadGarbage,
           FreeGarbage, DeleteEpoch, CreateNewEpoch
  <2>2. CASE gc \in {"check", "load", "sub", "addBack", "walk", "free", "create"}
    <3>1. ~retried
      BY <2>2 DEF EndInv, RetriedZero
    <3>2. gc' \in {"check", "load", "sub", "addBack", "walk", "free", "create"}
          \/ (gc' = "stopped" /\ exited)
      BY <1>2, <2>2 DEF GCThread, GCStop, ClearCheck, ClearLoad, ClearSub, ClearAddBack,
             LoadGarbage, FreeGarbage, DeleteEpoch, CreateNewEpoch, GCStep
    <3> QED
      BY <2>1, <3>1, <3>2 DEF EndInv, Quiet, RetriedZero, EpochsCleared, threadVars
  <2>3. CASE gc \in {"dwalk", "dfree"} /\ gc' \in {"dwalk", "dfree"}
    <3>1. UNCHANGED <<head, last, count>>
      BY <1>2, <2>3 DEF GCThread, GCStop, ClearCheck, ClearLoad, ClearSub, ClearAddBack,
             LoadGarbage, FreeGarbage, DeleteEpoch, CreateNewEpoch, GCStep, listVars
    <3> QED
      BY <2>1, <2>3, <3>1 DEF EndInv, Quiet, RetriedZero, EpochsCleared, threadVars
  <2>4. CASE gc = "dfree" /\ gc' \notin {"dwalk", "dfree"}
    <3>1. gc' = "dcheck" /\ head' = head + 1 /\ UNCHANGED <<last, count>>
      BY <1>2, <2>4 DEF GCThread, GCStop, ClearCheck, ClearLoad, ClearSub, ClearAddBack,
             LoadGarbage, FreeGarbage, DeleteEpoch, CreateNewEpoch, GCStep
    <3>2. \A e : e \in head' .. last' => e \in head .. last /\ e # head
      BY <1>0, <3>1
    <3> QED
      BY <2>1, <2>4, <3>1, <3>2 DEF EndInv, Quiet, RetriedZero, EpochsCleared, threadVars
  <2> QED
    BY <1>2, <2>2, <2>3, <2>4 DEF GCThread, GCStop, ClearCheck, ClearLoad, ClearSub,
       ClearAddBack, LoadGarbage, FreeGarbage, DeleteEpoch, CreateNewEpoch, GCStep
<1>3. CASE SetExited \/ Join \/ DestroyCheck
  <2>1. UNCHANGED <<threadVars, head, last, count, retried>> /\ (exited => exited')
    BY <1>3 DEF SetExited, Join, DestroyCheck, listVars
  <2>2. gc' = "destroyed" => (gc = "dcheck" /\ head > last) \/ gc = "destroyed"
    BY <1>3 DEF SetExited, Join, DestroyCheck, NothingLeft, GCStep
  <2>3. /\ retried => gc' \in {"dcheck", "dload", "dsub", "dwalk", "dfree", "destroyed"}
        /\ gc' \in {"dwalk", "dfree"} <=> gc \in {"dwalk", "dfree"}
    BY <1>3 DEF SetExited, Join, DestroyCheck, GCStep, EndInv, RetriedZero
  <2>4. Quiet'
    BY <1>3 DEF SetExited, Join, DestroyCheck, GCStep, EndInv, Quiet, threadVars
  <2> QED
    BY <2>1, <2>2, <2>3, <2>4 DEF EndInv, RetriedZero, EpochsCleared
<1>4. CASE DestroyLoad
  <2>1. /\ UNCHANGED <<threadVars, head, last, count, exited, retried>> /\ gc = "dload"
        /\ gc' = IF count[head] = 0 THEN "dsub" ELSE IF retried THEN "destroyed" ELSE "dreset"
    BY <1>4 DEF DestroyLoad, listVars
  <2>2. retried => count[head] = 0
    <3>1. head \in head .. last
      BY <1>0, <2>1 DEF TypeInv, EpochOrder
    <3> QED
      BY <2>1, <3>1 DEF EndInv, RetriedZero
  <2> QED
    BY <2>1, <2>2 DEF EndInv, Quiet, RetriedZero, EpochsCleared, threadVars
<1>5. CASE DestroyReset
  <2>1. /\ UNCHANGED <<threadVars, head, last, exited>> /\ gc = "dreset" /\ gc' = "dcheck"
        /\ \A e \in head .. last : count'[e] = 0
    BY <1>0, <1>5 DEF DestroyReset, GCStep, listVars
  <2> QED
    BY <2>1 DEF EndInv, Quiet, RetriedZero, EpochsCleared, threadVars
<1>6. CASE DestroySub
  <2>1. /\ UNCHANGED <<threadVars, head, last, exited, retried>> /\ gc = "dsub" /\ gc' = "dwalk"
        /\ \A e \in head .. last : e # head => count'[e] = count[e]
    BY <1>0, <1>6 DEF DestroySub, GCStep, listVars
  <2> QED
    BY <2>1 DEF EndInv, Quiet, RetriedZero, EpochsCleared, threadVars
<1>7. CASE UNCHANGED vars
  BY <1>7 DEF EndInv, Quiet, RetriedZero, EpochsCleared, vars, threadVars, gcVars, listVars
<1> QED
  BY <1>1, <1>2, <1>3, <1>4, <1>5, <1>6, <1>7 DEF Next, Finished, Destructor

ShapeInv == TypeInv /\ ListInv /\ EndInv

LEMMA ShapeInit == Init => ShapeInv
BY TypeInvInit, ListInvInit, EndInvInit DEF ShapeInv

LEMMA ShapeNext == ShapeInv /\ [Next]_vars => ShapeInv'
BY TypeInvNext, ListInvNext, EndInvNext DEF ShapeInv

\* The assertion at the end of ~EpochManager() holds: its two passes delete all
\* EpochNodes, whatever stalled joiners have done to the counters.
THEOREM DestructorClearsAll == Spec => []EpochsCleared
<1>1. ShapeInv => EpochsCleared
  BY DEF ShapeInv, EndInv
<1> QED
  BY <1>1, ShapeInit, ShapeNext, PTL DEF Spec

-----------------------------------------------------------------------------
(* Fourth invariant: every retired node is at most in one place.           *)

LEMMA WaitingType ==
  ASSUME TypeInv, NEW e \in Epochs
  PROVE  Waiting(e) \in Seq(Nodes)
BY DEF Waiting, TypeInv, TypeOK

\* What is still to be freed changes only when a node is pushed or freed: the
\* GC thread takes over the whole list, and deletes the EpochNode when it has
\* walked it to the end.
LEMMA WaitingKept ==
  ASSUME ShapeInv, [Next]_vars, ~FreeGarbage, \A t \in Threads : ~AddGarbageCAS(t)
  PROVE  \A e \in Epochs : Waiting(e)' = Waiting(e)
<1>1. CASE \E t \in Threads : ThreadStep(t)
  <2>1. PICK t \in Threads : ThreadStep(t)
    BY <1>1
  <2>2. UNCHANGED <<head, gc, chain>>
    BY <2>1, ThreadKeepsGC DEF gcVars, listVars
  <2>3. UNCHANGED garbage
    BY <2>1 DEF ThreadStep, JoinRead, JoinAdd, JoinAddDeleted, JoinUndo, LeaveEpoch, GetNode,
           Consolidate, AddGarbageRead, AddGarbageLoad
  <2> QED
    BY <2>2, <2>3 DEF Waiting
<1>2. CASE LoadGarbage
  <2>1. /\ gc \notin {"free", "dfree"} /\ gc' \in {"free", "dfree"}
        /\ UNCHANGED <<head, garbage>> /\ chain' = garbage[head]
    BY <1>2 DEF LoadGarbage, GCStep, listVars
  <2> QED
    BY <2>1 DEF Waiting
<1>3. CASE DeleteEpoch
  <2>1. /\ gc \in {"free", "dfree"} /\ gc' \notin {"free", "dfree"} /\ chain = <<>>
        /\ garbage' = [garbage EXCEPT ![head] = <<>>]
    BY <1>3 DEF DeleteEpoch, GCStep
  <2>2. \A e \in Epochs : garbage'[e] = IF e = head THEN <<>> ELSE garbage[e]
    BY <2>1 DEF ShapeInv, TypeInv, TypeOK
  <2> QED
    BY <2>1, <2>2 DEF Waiting
<1>4. CASE CreateNewEpoch
  <2>1. gc \notin {"free", "dfree"} /\ gc' \notin {"free", "dfree"}
    BY <1>4 DEF CreateNewEpoch, GCStep
  <2>2. CASE last < MaxEpoch
    <3>1. PICK k \in Epochs : k = last + 1
      BY <2>2 DEF ShapeInv, TypeInv, TypeOK, Epochs, EpochAssumption
    <3>2. garbage[k] = <<>> /\ garbage' = [garbage EXCEPT ![k] = <<>>]
      BY <1>4, <2>2, <3>1 DEF CreateNewEpoch, ShapeInv, ListInv, GarbageListed, TypeInv,
             TypeOK, Epochs
    <3>3. \A e \in Epochs : garbage'[e] = garbage[e]
      BY <3>2 DEF ShapeInv, TypeInv, TypeOK
    <3> QED
      BY <2>1, <3>3 DEF Waiting
  <2>3. CASE ~(last < MaxEpoch)
    BY <1>4, <2>1, <2>3 DEF CreateNewEpoch, Waiting
  <2> QED
    BY <2>2, <2>3
<1>5. CASE \/ GCThread /\ ~LoadGarbage /\ ~DeleteEpoch /\ ~CreateNewEpoch
           \/ Destructor \/ UNCHANGED vars
  <2>1. /\ UNCHANGED <<head, garbage, chain>>
        /\ gc \in {"free", "dfree"} <=> gc' \in {"free", "dfree"}
    BY <1>5 DEF GCThread, Destructor, GCStop, ClearCheck, ClearLoad, ClearSub, ClearAddBack,
       SetExited, Join, DestroyCheck, DestroyLoad, DestroyReset, DestroySub, GCStep,
       listVars, gcVars, vars
  <2> QED
    BY <2>1 DEF Waiting
<1> QED
  BY <1>1, <1>2, <1>3, <1>4, <1>5 DEF Next, Finished

LEMMA FreedOnceStutter ==
  ASSUME FreedOnce, UNCHANGED <<adding, status>>, \A e \in Epochs : Waiting(e)' = Waiting(e)
  PROVE  FreedOnce' /\ (RetiredKept => RetiredKept')
<1>1. \A e \in Epochs : \A n : InGarbage(n, e)' <=> InGarbage(n, e)
  BY DEF InGarbage
<1> QED
  BY <1>1 DEF FreedOnce, GarbageOnce, GarbageRetired, AddingRetired, RetiredKept

\* Consolidate() retires a node that was linked, or one that was never linked.
LEMMA FreedOnceConsolidate ==
  ASSUME TypeInv, FreedOnce, NEW t \in Threads, Consolidate(t),
         \A e \in Epochs : Waiting(e)' = Waiting(e)
  PROVE  FreedOnce' /\ (RetiredKept => RetiredKept')
<1>1. PICK n \in Nodes : /\ adding' = [adding EXCEPT ![t] = n]
                         /\ status[n] \in {"linked", "free"} /\ status'[n] = "retired"
                         /\ \A m \in Nodes \ {n} : status'[m] = "retired" <=> status[m] = "retired"
  <2>1. PICK old \in held[t], new \in Nodes :
          /\ status[new] = "free"
          /\ IF status[old] = "linked"
               THEN /\ status' = [status EXCEPT ![old] = "retired", ![new] = "linked"]
                    /\ adding' = [adding EXCEPT ![t] = old]
               ELSE /\ status' = [status EXCEPT ![new] = "retired"]
                    /\ adding' = [adding EXCEPT ![t] = new]
    BY DEF Consolidate
  <2>2. old \in Nodes /\ status \in [Nodes -> {"free", "linked", "retired"}]
    BY DEF TypeInv, TypeOK
  <2>3. CASE status[old] = "linked"
    <3>1. old # new
      BY <2>1, <2>3
    <3>2. status' = [status EXCEPT ![old] = "retired", ![new] = "linked"]
          /\ adding' = [adding EXCEPT ![t] = old]
      BY <2>1, <2>3
    <3>3. status'[old] = "retired"
      BY <2>2, <3>1, <3>2
    <3>4. \A m \in Nodes \ {old} : status'[m] = "retired" <=> status[m] = "retired"
      BY <2>1, <2>2, <3>2
    <3> QED
      BY <2>2, <2>3, <3>2, <3>3, <3>4
  <2>4. CASE status[old] # "linked"
    BY <2>1, <2>2, <2>4
  <2> QED
    BY <2>3, <2>4
<1>2. adding[t] = NoNode
  BY DEF Consolidate, TypeInv, AddingHasNode, AddPC
<1>3. \A e \in Epochs : \A m : InGarbage(m, e)' <=> InGarbage(m, e)
  BY DEF InGarbage
<1>4. GarbageOnce'
  BY DEF FreedOnce, GarbageOnce
<1>5. GarbageRetired'
  BY <1>1, <1>3 DEF FreedOnce, GarbageRetired
<1>6. AddingRetired'
  <2>1. \A e \in Epochs : ~InGarbage(n, e)
    BY <1>1 DEF FreedOnce, GarbageRetired
  <2>2. \A u \in Threads : adding[u] # n
    BY <1>1 DEF FreedOnce, AddingRetired, EpochAssumption
  <2>3. adding'[t] = n /\ \A u \in Threads \ {t} : adding'[u] = adding[u]
    BY <1>1 DEF TypeInv, TypeOK
  <2>4. \A u \in Threads : adding[u] # NoNode => adding[u] \in Nodes
    BY DEF TypeInv, TypeOK
  <2> QED
    BY <1>1, <1>3, <2>1, <2>2, <2>3, <2>4 DEF FreedOnce, AddingRetired
<1>7. RetiredKept => RetiredKept'
  <2> SUFFICES ASSUME RetiredKept, NEW m \in Nodes, status'[m] = "retired"
               PROVE  (\E e \in Epochs : InGarbage(m, e)') \/ (\E u \in Threads : adding'[u] = m)
    BY DEF RetiredKept
  <2>1. adding'[t] = n /\ \A u \in Threads \ {t} : adding'[u] = adding[u]
    BY <1>1 DEF TypeInv, TypeOK
  <2>2. CASE m = n
    BY <2>1, <2>2
  <2>3. CASE m # n
    <3>1. status[m] = "retired" /\ \A u \in Threads : adding[u] = m => u # t
      BY <1>1, <1>2, <2>3 DEF EpochAssumption
    <3> QED
      BY <1>3, <2>1, <3>1 DEF RetiredKept
  <2> QED
    BY <2>2, <2>3
<1> QED
  BY <1>4, <1>5, <1>6, <1>7 DEF FreedOnce

\* A node that is pushed is in no list before, and in one after.
LEMMA PushOnce ==
  ASSUME TypeInv, FreedOnce, NEW t \in Threads, NEW n \in Nodes, adding[t] = n,
         NEW g \in Epochs, NEW list \in Seq(Nodes), Waiting(g) = list,
         Waiting(g)' = <<n>> \o list, \A e \in Epochs \ {g} : Waiting(e)' = Waiting(e),
         adding' = [adding EXCEPT ![t] = NoNode], UNCHANGED status
  PROVE  FreedOnce' /\ (RetiredKept => RetiredKept')
<1>1. adding[t] = n /\ n \in Nodes
  OBVIOUS
<1>2. Waiting(g) = list /\ list \in Seq(Nodes) /\ Waiting(g)' = <<n>> \o list
  OBVIOUS
<1>3. adding' = [adding EXCEPT ![t] = NoNode] /\ UNCHANGED status
  OBVIOUS
<1>4. /\ DOMAIN Waiting(g)' = 1 .. Len(list) + 1
      /\ Waiting(g)'[1] = n
      /\ \A i \in 2 .. Len(list) + 1 :
           i - 1 \in DOMAIN Waiting(g) /\ Waiting(g)'[i] = Waiting(g)[i - 1]
  BY <1>2
<1>5. \A e \in Epochs \ {g} : Waiting(e)' = Waiting(e)
  OBVIOUS
<1>6. \A e \in Epochs : ~InGarbage(n, e)
  BY <1>1 DEF FreedOnce, AddingRetired, EpochAssumption
<1>7. \A e \in Epochs, m \in Nodes : InGarbage(m, e)' => InGarbage(m, e) \/ (m = n /\ e = g)
  <2> SUFFICES ASSUME NEW e \in Epochs, NEW m \in Nodes,
                      NEW i \in DOMAIN Waiting(e)', Waiting(e)'[i] = m
               PROVE  InGarbage(m, e) \/ (m = n /\ e = g)
    BY DEF InGarbage
  <2>1. CASE e # g
    BY <1>5, <2>1 DEF InGarbage
  <2>2. CASE e = g /\ i = 1
    BY <1>4, <2>2
  <2>3. CASE e = g /\ i # 1
    <3>1. i \in 2 .. Len(list) + 1
      BY <1>2, <1>4, <2>3
    <3> QED
      BY <1>4, <2>3, <3>1 DEF InGarbage
  <2> QED
    BY <2>1, <2>2, <2>3
<1>8. GarbageOnce'
  <2> SUFFICES ASSUME NEW e \in Epochs, NEW f \in Epochs,
                      NEW i \in DOMAIN Waiting(e)', NEW j \in DOMAIN Waiting(f)',
                      Waiting(e)'[i] = Waiting(f)'[j]
               PROVE  e = f /\ i = j
    BY DEF GarbageOnce
  <2>1. CASE e # g /\ f # g
    BY <1>5, <2>1 DEF FreedOnce, GarbageOnce
  <2>2. CASE e = g /\ f # g
    <3>1. CASE i = 1
      BY <1>4, <1>5, <1>6, <2>2, <3>1 DEF InGarbage
    <3>2. CASE i # 1
      <4>1. i \in 2 .. Len(list) + 1
        BY <1>2, <1>4, <2>2, <3>2
      <4> QED
        BY <1>4, <1>5, <2>2, <4>1 DEF FreedOnce, GarbageOnce
    <3> QED
      BY <3>1, <3>2
  <2>3. CASE e # g /\ f = g
    <3>1. CASE j = 1
      BY <1>4, <1>5, <1>6, <2>3, <3>1 DEF InGarbage
    <3>2. CASE j # 1
      <4>1. j \in 2 .. Len(list) + 1
        BY <1>2, <1>4, <2>3, <3>2
      <4> QED
        BY <1>4, <1>5, <2>3, <4>1 DEF FreedOnce, GarbageOnce
    <3> QED
      BY <3>1, <3>2
  <2>4. CASE e = g /\ f = g
    <3>1. i \in 1 .. Len(list) + 1 /\ j \in 1 .. Len(list) + 1 /\ Len(list) \in Nat
      BY <1>2, <1>4, <2>4
    <3>2. \A k \in 2 .. Len(list) + 1 : Waiting(g)'[k] # n
      BY <1>2, <1>4, <1>6 DEF InGarbage
    <3>3. CASE i = 1 \/ j = 1
      BY <1>4, <2>4, <3>1, <3>2, <3>3
    <3>4. CASE i # 1 /\ j # 1
      <4>1. i \in 2 .. Len(list) + 1 /\ j \in 2 .. Len(list) + 1
        BY <3>1, <3>4
      <4>2. Waiting(g)[i - 1] = Waiting(g)[j - 1] /\ i - 1 \in DOMAIN Waiting(g)
            /\ j - 1 \in DOMAIN Waiting(g)
        BY <1>4, <2>4, <4>1
      <4>3. i - 1 = j - 1
        BY <4>2 DEF FreedOnce, GarbageOnce
      <4> QED
        BY <2>4, <4>1, <4>3
    <3> QED
      BY <3>3, <3>4
  <2> QED
    BY <2>1, <2>2, <2>3, <2>4
<1>9. GarbageRetired'
  BY <1>1, <1>3, <1>7 DEF FreedOnce, GarbageRetired, AddingRetired, EpochAssumption
<1>10. AddingRetired'
  <2>1. adding'[t] = NoNode /\ \A u \in Threads \ {t} : adding'[u] = adding[u]
    BY <1>3 DEF TypeInv, TypeOK
  <2>2. \A u \in Threads \ {t} : adding[u] # n
    BY <1>1 DEF FreedOnce, AddingRetired, EpochAssumption
  <2>3. \A u \in Threads : adding[u] # NoNode => adding[u] \in Nodes
    BY DEF TypeInv, TypeOK
  <2> QED
    BY <1>3, <1>7, <2>1, <2>2, <2>3 DEF FreedOnce, AddingRetired
<1>11. RetiredKept => RetiredKept'
  <2> SUFFICES ASSUME RetiredKept, NEW m \in Nodes, status[m] = "retired"
               PROVE  (\E e \in Epochs : InGarbage(m, e)') \/ (\E u \in Threads : adding'[u] = m)
    BY <1>3 DEF RetiredKept
  <2>1. InGarbage(n, g)'
    BY <1>2, <1>4 DEF InGarbage
  <2>2. ASSUME NEW e \in Epochs, InGarbage(m, e) PROVE InGarbage(m, e)'
    <3>1. PICK i \in DOMAIN Waiting(e) : Waiting(e)[i] = m
      BY <2>2 DEF InGarbage
    <3>2. CASE e # g
      BY <1>5, <3>1, <3>2 DEF InGarbage
    <3>3. CASE e = g
      <4>0. i \in 1 .. Len(list) /\ Len(list) \in Nat
        <5>1. i \in DOMAIN list
          BY <1>2, <3>3
        <5> QED
          BY <5>1
      <4>1. PICK k \in 2 .. Len(list) + 1 : k - 1 = i
        <5>1. i + 1 \in 2 .. Len(list) + 1 /\ (i + 1) - 1 = i
          BY <4>0
        <5> QED
          BY <5>1
      <4>2. Waiting(g)'[k] = Waiting(g)[i]
        BY <1>4, <4>1
      <4>3. Waiting(e)'[k] = m /\ k \in DOMAIN Waiting(e)'
        <5>1. k \in 1 .. Len(list) + 1
          BY <4>0
        <5> QED
          BY <1>4, <3>1, <3>3, <4>2, <5>1
      <4> QED
        BY <4>3 DEF InGarbage
    <3> QED
      BY <3>2, <3>3
  <2>3. ASSUME NEW u \in Threads, adding[u] = m PROVE m = n \/ adding'[u] = m
    BY <1>1, <1>3, <2>3 DEF TypeInv, TypeOK
  <2> QED
    BY <1>1, <2>1, <2>2, <2>3 DEF FreedOnce, RetiredKept
<1> QED
  BY <1>8, <1>9, <1>10, <1>11 DEF FreedOnce

\* AddGarbageCAS() pushes onto the list of one EpochNode that is alive.  What it
\* pushes onto a list the GC thread has loaded, or writes to freed memory, is in
\* no list that will be walked.
LEMMA FreedOnceLost ==
  ASSUME TypeInv, FreedOnce, NEW t \in Threads, adding' = [adding EXCEPT ![t] = NoNode],
         UNCHANGED status, \A e \in Epochs : Waiting(e)' = Waiting(e)
  PROVE  FreedOnce'
<1>1. \A e \in Epochs : \A n : InGarbage(n, e)' <=> InGarbage(n, e)
  BY DEF InGarbage
<1>2. GarbageOnce' /\ GarbageRetired'
  BY <1>1 DEF FreedOnce, GarbageOnce, GarbageRetired
<1>3. \A u \in Threads : adding'[u] = NoNode \/ adding'[u] = adding[u]
  BY DEF TypeInv, TypeOK
<1>4. AddingRetired'
  BY <1>1, <1>3 DEF FreedOnce, AddingRetired
<1> QED
  BY <1>2, <1>4 DEF FreedOnce

\* Where the list is walked already.
Walked(e) == e = head /\ gc \in {"free", "dfree"}

LEMMA FreedOnceCAS ==
  ASSUME ShapeInv, FreedOnce, NEW t \in Threads, AddGarbageCAS(t)
  PROVE  /\ FreedOnce'
         /\ RetiredKept /\ target[t] \in head .. last /\ ~Walked(target[t]) => RetiredKept'
<1>0. TypeInv /\ ListInv /\ UNCHANGED <<head, gc, chain, status>>
  BY DEF ShapeInv, AddGarbageCAS, gcVars, listVars
<1>1. CASE ~ListUnchanged(t)
  <2>1. UNCHANGED <<adding, garbage>>
    BY <1>1 DEF AddGarbageCAS
  <2>2. \A e \in Epochs : Waiting(e)' = Waiting(e)
    BY <1>0, <2>1 DEF Waiting
  <2> QED
    BY <1>0, <2>1, <2>2, FreedOnceStutter
<1>2. CASE ListUnchanged(t)
  <2>1. PICK n \in Nodes, g \in Epochs : n = adding[t] /\ g = target[t]
    BY <1>0 DEF AddGarbageCAS, TypeInv, TypeOK, AddingHasNode, AddPC
  <2>2. adding' = [adding EXCEPT ![t] = NoNode] /\ List(g) = seen[t]
    BY <1>2, <2>1 DEF AddGarbageCAS, ListUnchanged
  <2>3. \A e \in Epochs :
          garbage'[e] = IF e \in At(g) THEN <<n>> \o seen[t] ELSE garbage[e]
    BY <1>2, <2>1 DEF AddGarbageCAS, Pushed, PushedNode
  <2>4. CASE At(g) = {}
    <3>1. \A e \in Epochs : Waiting(e)' = Waiting(e)
      BY <1>0, <2>3, <2>4 DEF Waiting
    <3>2. target[t] \notin head .. last
      BY <1>0, <2>1, <2>4, AtIsSelf
    <3> QED
      BY <1>0, <2>2, <3>1, <3>2, FreedOnceLost
  <2>5. CASE At(g) # {}
    <3>1. PICK f \in head .. last : At(g) = {f} /\ List(g) = garbage[f]
      BY <1>0, <2>5, AtCases
    <3>2. PICK h \in Epochs : h = f
      BY <1>0, <3>1 DEF TypeInv, TypeOK, Epochs
    <3>3. \A e \in Epochs : garbage'[e] = IF e = h THEN <<n>> \o garbage[h] ELSE garbage[e]
      BY <2>2, <2>3, <3>1, <3>2
    <3>4. target[t] \in head .. last => target[t] = h
      BY <1>0, <2>1, <3>1, <3>2, AtIsSelf
    <3>5. CASE Walked(h)
      <4>1. \A e \in Epochs : Waiting(e)' = Waiting(e)
        BY <1>0, <3>3, <3>5 DEF Waiting, Walked
      <4> QED
        BY <1>0, <2>2, <3>4, <3>5, <4>1, FreedOnceLost
    <3>6. CASE ~Walked(h)
      <4>1. garbage[h] \in Seq(Nodes)
        BY <1>0, <3>2 DEF TypeInv, TypeOK
      <4>2. Waiting(h) = garbage[h] /\ Waiting(h)' = <<n>> \o garbage[h]
        BY <1>0, <3>2, <3>3, <3>6 DEF Waiting, Walked
      <4>3. \A e \in Epochs \ {h} : Waiting(e)' = Waiting(e)
        BY <1>0, <3>3 DEF Waiting
      <4> QED
        BY <1>0, <2>1, <2>2, <3>2, <4>1, <4>2, <4>3, PushOnce
    <3> QED
      BY <3>5, <3>6
  <2> QED
    BY <2>4, <2>5
<1> QED
  BY <1>1, <1>2

\* FreeGarbage() frees the first node of the list, and it is nowhere else.
LEMMA FreedOnceFree ==
  ASSUME TypeInv, FreedOnce, FreeGarbage
  PROVE  FreedOnce' /\ (RetiredKept => RetiredKept')
<1>1. head \in Epochs /\ gc \in {"free", "dfree"}
  <2>1. gc \in {"free", "dfree"} /\ head <= last
    BY DEF FreeGarbage, TypeInv, EpochOrder
  <2>2. head \in Nat /\ last \in Nat /\ last <= MaxEpoch
    BY DEF TypeInv, TypeOK, Epochs
  <2> QED
    BY <2>1, <2>2 DEF Epochs
<1>2. PICK list \in Seq(Nodes) : list = chain /\ list # <<>>
  BY DEF FreeGarbage, TypeInv, TypeOK
<1>3. PICK n \in Nodes : n = list[1]
  BY <1>2
<1>4. /\ chain' = Tail(list) /\ status' = [status EXCEPT ![n] = "free"]
      /\ UNCHANGED <<adding, head, gc, garbage>>
  BY <1>2, <1>3 DEF FreeGarbage, threadVars, listVars
<1>0. Waiting(head) = list /\ Waiting(head)' = Tail(list)
  BY <1>1, <1>2, <1>4 DEF Waiting
<1>5. /\ DOMAIN Waiting(head) = 1 .. Len(list) /\ DOMAIN Waiting(head)' = 1 .. Len(list) - 1
      /\ \A i \in 1 .. Len(list) - 1 : i + 1 \in DOMAIN Waiting(head)
                                      /\ Waiting(head)'[i] = Waiting(head)[i + 1]
      /\ Len(list) \in Nat /\ Len(list) > 0
  <2>1. DOMAIN list = 1 .. Len(list) /\ Len(list) \in Nat /\ Len(list) > 0
    BY <1>2
  <2>2. DOMAIN Tail(list) = 1 .. Len(list) - 1
        /\ \A i \in 1 .. Len(list) - 1 : Tail(list)[i] = list[i + 1]
    BY <1>2, <2>1
  <2> QED
    BY <1>0, <2>1, <2>2
<1>6. \A e \in Epochs \ {head} : Waiting(e)' = Waiting(e)
  BY <1>4 DEF Waiting
\* Every entry of the new lists is one of the old lists, other than the first of head.
<1> DEFINE old(e, i) == IF e = head THEN i + 1 ELSE i
<1>7. \A e \in Epochs : \A i \in DOMAIN Waiting(e)' :
        /\ old(e, i) \in DOMAIN Waiting(e) /\ Waiting(e)'[i] = Waiting(e)[old(e, i)]
        /\ (e = head => i \in Nat \ {0})
  <2> SUFFICES ASSUME NEW e \in Epochs, NEW i \in DOMAIN Waiting(e)'
               PROVE  /\ old(e, i) \in DOMAIN Waiting(e)
                      /\ Waiting(e)'[i] = Waiting(e)[old(e, i)]
                      /\ (e = head => i \in Nat \ {0})
    OBVIOUS
  <2>1. CASE e = head
    BY <1>4, <1>5, <2>1
  <2>2. CASE e # head
    BY <1>6, <2>2
  <2> QED
    BY <2>1, <2>2
<1>8. n = Waiting(head)[1] /\ 1 \in DOMAIN Waiting(head)
  BY <1>0, <1>2, <1>3, <1>5
<1>9. ASSUME NEW e \in Epochs, NEW m \in Nodes, InGarbage(m, e)' PROVE m # n /\ InGarbage(m, e)
  <2>1. PICK i \in DOMAIN Waiting(e)' : Waiting(e)'[i] = m
    BY <1>9 DEF InGarbage
  <2>2. Waiting(e)[old(e, i)] = m /\ old(e, i) \in DOMAIN Waiting(e)
    BY <1>7, <2>1
  <2>3. ~(e = head /\ old(e, i) = 1)
    BY <1>7
  <2> QED
    BY <1>1, <1>8, <2>2, <2>3 DEF FreedOnce, GarbageOnce, InGarbage
<1>10. GarbageOnce'
  <2> SUFFICES ASSUME NEW e \in Epochs, NEW f \in Epochs,
                      NEW i \in DOMAIN Waiting(e)', NEW j \in DOMAIN Waiting(f)',
                      Waiting(e)'[i] = Waiting(f)'[j]
               PROVE  e = f /\ i = j
    BY DEF GarbageOnce
  <2>1. e = f /\ old(e, i) = old(f, j)
    BY <1>7 DEF FreedOnce, GarbageOnce
  <2> QED
    BY <1>7, <2>1
<1>11. GarbageRetired'
  BY <1>4, <1>9 DEF FreedOnce, GarbageRetired, TypeInv, TypeOK
<1>12. AddingRetired'
  <2>1. \A t \in Threads : adding[t] # n
    BY <1>1, <1>3, <1>8 DEF FreedOnce, AddingRetired, InGarbage, EpochAssumption
  <2>2. \A t \in Threads : adding[t] # NoNode => adding[t] \in Nodes
    BY DEF TypeInv, TypeOK
  <2> QED
    BY <1>4, <1>9, <2>1, <2>2 DEF FreedOnce, AddingRetired, TypeInv, TypeOK
<1>13. RetiredKept => RetiredKept'
  <2> SUFFICES ASSUME RetiredKept, NEW m \in Nodes, status'[m] = "retired"
               PROVE  (\E e \in Epochs : InGarbage(m, e)') \/ (\E u \in Threads : adding'[u] = m)
    BY DEF RetiredKept
  <2>1. m # n /\ status[m] = "retired"
    BY <1>4 DEF TypeInv, TypeOK
  <2>2. ASSUME NEW e \in Epochs, InGarbage(m, e) PROVE InGarbage(m, e)'
    <3>1. PICK i \in DOMAIN Waiting(e) : Waiting(e)[i] = m
      BY <2>2 DEF InGarbage
    <3>2. CASE e # head
      BY <1>6, <3>1, <3>2 DEF InGarbage
    <3>3. CASE e = head
      <4>1. i # 1 /\ i \in 1 .. Len(list)
        BY <1>5, <1>8, <2>1, <3>1, <3>3
      <4>2. PICK k \in 1 .. Len(list) - 1 : k + 1 = i
        <5>1. i - 1 \in 1 .. Len(list) - 1 /\ (i - 1) + 1 = i
          BY <1>5, <4>1
        <5> QED
          BY <5>1
      <4>3. Waiting(head)'[k] = m /\ k \in DOMAIN Waiting(head)'
        BY <1>5, <3>1, <3>3, <4>2
      <4> QED
        BY <1>4, <3>3, <4>3 DEF InGarbage
    <3> QED
      BY <3>2, <3>3
  <2> QED
    BY <1>4, <2>1, <2>2 DEF FreedOnce, RetiredKept
<1> QED
  BY <1>10, <1>11, <1>12, <1>13 DEF FreedOnce

LEMMA FreedOnceNext ==
  ASSUME ShapeInv, FreedOnce, [Next]_vars
  PROVE  /\ FreedOnce'
         /\ RetiredKept => RetiredKept' \/ \E t \in Threads :
              /\ AddGarbageCAS(t)
              /\ ~(target[t] \in head .. last /\ ~Walked(target[t]))
<1>1. CASE FreeGarbage
  BY <1>1, FreedOnceFree DEF ShapeInv
<1>2. CASE \E t \in Threads : AddGarbageCAS(t)
  BY <1>2, FreedOnceCAS
<1>3. CASE ~FreeGarbage /\ \A t \in Threads : ~AddGarbageCAS(t)
  <2>1. \A e \in Epochs : Waiting(e)' = Waiting(e)
    BY <1>3, WaitingKept
  <2>2. CASE \E t \in Threads : Consolidate(t)
    BY <2>1, <2>2, FreedOnceConsolidate DEF ShapeInv
  <2>3. CASE \A t \in Threads : ~Consolidate(t)
    <3>1. UNCHANGED <<adding, status>>
      <4>1. CASE \E t \in Threads : ThreadStep(t)
        BY <1>3, <2>3, <4>1 DEF ThreadStep, JoinRead, JoinAdd, JoinAddDeleted, JoinUndo,
           LeaveEpoch, GetNode, AddGarbageRead, AddGarbageLoad
      <4>2. CASE GCThread \/ Destructor
        <5>1. UNCHANGED threadVars
          BY <4>2, GCKeepsThreads
        <5>2. UNCHANGED status
          BY <1>3, <4>2 DEF GCThread, Destructor, GCStop, ClearCheck, ClearLoad, ClearSub,
             ClearAddBack, LoadGarbage, DeleteEpoch, CreateNewEpoch, SetExited, Join,
             DestroyCheck, DestroyLoad, DestroyReset, DestroySub
        <5> QED
          BY <5>1, <5>2 DEF threadVars
      <4>3. CASE UNCHANGED vars
        BY <4>3 DEF vars, threadVars
      <4> QED
        BY <4>1, <4>2, <4>3 DEF Next, Finished
    <3> QED
      BY <2>1, <3>1, FreedOnceStutter
  <2> QED
    BY <2>2, <2>3
<1> QED
  BY <1>1, <1>2, <1>3

LEMMA FreedOnceInit == Init => FreedOnce /\ RetiredKept
BY DEF Init, FreedOnce, GarbageOnce, GarbageRetired, AddingRetired, RetiredKept, InGarbage, Waiting

\* However the threads are scheduled, and whatever memory stalled joiners write
\* to, no node is freed twice or freed while it is in the tree: what waits to be
\* freed is retired, and waits in one place.
THEOREM NothingFreedTwice == Spec => []FreedOnce
<1>1. Init => ShapeInv /\ FreedOnce
  BY ShapeInit, FreedOnceInit
<1>2. (ShapeInv /\ FreedOnce) /\ [Next]_vars => (ShapeInv /\ FreedOnce)'
  BY ShapeNext, FreedOnceNext
<1> QED
  BY <1>1, <1>2, PTL DEF Spec

-----------------------------------------------------------------------------
(* Fifth invariant: the counters, if joiners are prompt.                   *)

EpochsKnown ==
  \A t \in Threads :
    /\ ep[t] <= last
    /\ pc[t] \in {"addLoad", "addCAS"} => ep[t] <= target[t] /\ target[t] <= last

\* The EpochNode a thread has, or is about to have, joined is in the list.
JoinersLive == \A t \in Threads : pc[t] # "out" => ep[t] >= head

\* Nobody is in the epoch whose garbage is freed.
ClosedEmpty == gc \in {"walk", "free"} => \A t \in Threads : Inside(t) => ep[t] # head

\* Who is turned away joined an epoch that another one follows.
UndoEarlier == \A t \in Threads : pc[t] = "joinUndo" => ep[t] < last

CountInv == EpochsKnown /\ JoinersLive /\ ClosedEmpty /\ UndoEarlier /\ CountExact

\* What the counters count is a number below MAX_THREAD_COUNT.
LEMMA MembersBounded ==
  ASSUME NEW e
  PROVE  /\ IsFiniteSet(Members(e))
         /\ Cardinality(Members(e)) \in Nat
         /\ Cardinality(Members(e)) < MaxThreadCount
<1>1. Members(e) \subseteq Threads
  BY DEF Members
<1>2. IsFiniteSet(Members(e)) /\ Cardinality(Members(e)) <= Cardinality(Threads)
  BY <1>1, FS_Subset DEF EpochAssumption
<1>3. Cardinality(Members(e)) \in Nat /\ Cardinality(Threads) \in Nat
  BY <1>2, FS_CardinalityType DEF EpochAssumption
<1> QED
  BY <1>2, <1>3 DEF EpochAssumption

LEMMA CountInvInit == Init => CountInv
<1> SUFFICES ASSUME Init PROVE CountInv
  OBVIOUS
<1>1. ASSUME NEW e \in head .. last PROVE count[e] = Cardinality(Members(e)) /\ ~Closed(e)
  <2>1. Members(e) = {}
    BY DEF Init, Members, Inside, InsidePC
  <2>2. count[e] = 0 /\ ~Closed(e)
    BY DEF Init, Epochs, EpochAssumption, Closed
  <2> QED
    BY <2>1, <2>2, FS_EmptySet
<1>2. CountExact
  BY <1>1, MembersBounded DEF CountExact
<1>3. EpochsKnown /\ JoinersLive /\ ClosedEmpty /\ UndoEarlier
  BY DEF Init, EpochsKnown, JoinersLive, ClosedEmpty, UndoEarlier
<1> QED
  BY <1>2, <1>3 DEF CountInv

\* So a thread's pointer to its EpochNode is never dangling.
LEMMA JoinedIsListed ==
  ASSUME ShapeInv, CountInv, NEW t \in Threads, pc[t] # "out"
  PROVE  /\ ep[t] \in head .. last /\ ep[t] \in Epochs
         /\ At(ep[t]) = {ep[t]}
<1>1. ep[t] \in Epochs /\ ep[t] <= last /\ ep[t] >= head
  BY DEF ShapeInv, TypeInv, TypeOK, CountInv, EpochsKnown, JoinersLive
<1>2. ep[t] \in Int /\ head \in Int /\ last \in Int
  BY DEF ShapeInv, TypeInv, TypeOK, Epochs
<1>3. ep[t] \in head .. last
  BY <1>1, <1>2
<1> QED
  BY <1>1, <1>3, AtIsSelf DEF ShapeInv

\* JoinAdd() without the pointer: the EpochNode joined is the one read.
LEMMA JoinAddOwn ==
  ASSUME ShapeInv, CountInv, NEW t \in Threads, JoinAdd(t)
  PROVE  /\ count' = [count EXCEPT ![ep[t]] = @ + 1] /\ ep' = ep
         /\ pc' = [pc EXCEPT ![t] = IF count[ep[t]] < 0 THEN "joinUndo" ELSE "in"]
<1>1. At(ep[t]) = {ep[t]}
  BY JoinedIsListed DEF JoinAdd
<1>2. /\ count' = [count EXCEPT ![ep[t]] = @ + 1]
      /\ ep' = [ep EXCEPT ![t] = ep[t]]
      /\ pc' = [pc EXCEPT ![t] = IF count[ep[t]] < 0 THEN "joinUndo" ELSE "in"]
  BY <1>1 DEF JoinAdd, BeingCleaned
<1>3. ep \in [Threads -> Epochs]
  BY DEF ShapeInv, TypeInv, TypeOK
<1> QED
  BY <1>2, <1>3

LEMMA JoinAddDeletedNever ==
  ASSUME ShapeInv, CountInv, NEW t \in Threads
  PROVE  ~JoinAddDeleted(t)
BY JoinedIsListed DEF JoinAddDeleted

\* A step that neither changes a counter nor who is counted.
LEMMA CountExactStutter ==
  ASSUME TypeInv, CountExact, UNCHANGED <<head, last, count>>,
         \A e \in head .. last : Members(e)' = Members(e) /\ (Closed(e)' <=> Closed(e))
  PROVE  CountExact'
<1> SUFFICES ASSUME NEW e \in head .. last
             PROVE  count'[e] = Cardinality(Members(e)') - (IF Closed(e)' THEN MaxThreadCount ELSE 0)
  BY DEF CountExact
<1>1. count[e] = Cardinality(Members(e)) - (IF Closed(e) THEN MaxThreadCount ELSE 0)
  BY DEF CountExact
<1> QED
  BY <1>1

\* fetch_add(1) in JoinEpoch() counts one thread more.
LEMMA CountExactJoin ==
  ASSUME ShapeInv, CountInv, NEW t \in Threads, JoinAdd(t)
  PROVE  CountExact'
<1>0. PICK j \in Epochs : j = ep[t]
  BY JoinedIsListed DEF JoinAdd
<1>a. TypeInv /\ count' = [count EXCEPT ![j] = @ + 1] /\ ep' = ep
  BY <1>0, JoinAddOwn DEF ShapeInv
<1>1. j \in head .. last /\ t \notin Members(j)
  BY <1>0, JoinedIsListed DEF JoinAdd, Members, Inside, InsidePC
<1>b. pc'[t] \in {"joinUndo", "in"} /\ \A u \in Threads \ {t} : pc'[u] = pc[u]
  BY JoinAddOwn DEF ShapeInv, TypeInv, TypeOK
<1>2. Members(j)' = Members(j) \cup {t}
  BY <1>0, <1>a, <1>b DEF Members, Inside, InsidePC
<1>3. Cardinality(Members(j)') = Cardinality(Members(j)) + 1
  BY <1>1, <1>2, MembersBounded, FS_AddElement
<1>4. ASSUME NEW e \in head .. last, e # j PROVE Members(e)' = Members(e)
  BY <1>0, <1>a, <1>b, <1>4 DEF Members, Inside, InsidePC
<1>5. UNCHANGED <<head, last, gc>>
  BY DEF JoinAdd, gcVars, listVars
<1>6. \A e \in head .. last : Closed(e)' <=> Closed(e)
  BY <1>5 DEF Closed
<1>7. ASSUME NEW e \in head .. last
      PROVE  count'[e] = Cardinality(Members(e)') - (IF Closed(e)' THEN MaxThreadCount ELSE 0)
  <2>0. e \in Epochs
    BY <1>a DEF TypeInv, TypeOK, Epochs
  <2>1. e \in Epochs /\ count \in [Epochs -> Int]
    BY <1>a, <2>0 DEF TypeInv, TypeOK
  <2>2. count[e] = Cardinality(Members(e)) - (IF Closed(e) THEN MaxThreadCount ELSE 0)
    BY DEF CountInv, CountExact
  <2>3. Cardinality(Members(e)) \in Nat /\ MaxThreadCount \in Nat
    BY MembersBounded DEF EpochAssumption
  <2>4. CASE e = j
    BY <1>3, <1>6, <1>a, <2>1, <2>2, <2>3, <2>4
  <2>5. CASE e # j
    BY <1>4, <1>6, <1>a, <2>1, <2>2, <2>5
  <2> QED
    BY <2>4, <2>5
<1> QED
  BY <1>5, <1>7 DEF CountExact

\* fetch_sub(1) in JoinEpoch() or LeaveEpoch() counts one thread less.
LEMMA CountExactLeave ==
  ASSUME ShapeInv, CountInv, NEW t \in Threads, JoinUndo(t) \/ LeaveEpoch(t)
  PROVE  CountExact'
<1>0. PICK j \in Epochs : j = ep[t] /\ At(j) = {j}
  BY JoinedIsListed DEF JoinUndo, LeaveEpoch
<1>a. TypeInv
  BY DEF ShapeInv
<1>1. t \in Members(j)
  BY <1>0 DEF JoinUndo, LeaveEpoch, Members, Inside, InsidePC
<1>b. pc'[t] \in {"joinAdd", "out"} /\ pc[t] \in {"joinUndo", "in"}
      /\ \A u \in Threads \ {t} : pc'[u] = pc[u] /\ ep'[u] = ep[u]
  BY <1>a DEF JoinUndo, LeaveEpoch, TypeInv, TypeOK
<1>2. Members(j)' = Members(j) \ {t}
  BY <1>b DEF Members, Inside, InsidePC
<1>3. Cardinality(Members(j)') = Cardinality(Members(j)) - 1
  BY <1>1, <1>2, MembersBounded, FS_RemoveElement
<1>4. ASSUME NEW e \in head .. last, e # j PROVE Members(e)' = Members(e)
  BY <1>0, <1>b, <1>4 DEF Members, Inside, InsidePC
<1>5. UNCHANGED <<head, last, gc>> /\ count' = Decremented(j)
  BY <1>0 DEF JoinUndo, LeaveEpoch, gcVars, listVars
<1>c. \A e \in Epochs : count'[e] = IF e = j THEN count[e] - 1 ELSE count[e]
  BY <1>0, <1>5 DEF Decremented
<1>6. \A e \in head .. last : Closed(e)' <=> Closed(e)
  BY <1>5 DEF Closed
<1>7. ASSUME NEW e \in head .. last
      PROVE  count'[e] = Cardinality(Members(e)') - (IF Closed(e)' THEN MaxThreadCount ELSE 0)
  <2>0. e \in Epochs
    BY <1>a DEF TypeInv, TypeOK, Epochs
  <2>1. e \in Epochs /\ count \in [Epochs -> Int]
    BY <1>a, <2>0 DEF TypeInv, TypeOK
  <2>2. count[e] = Cardinality(Members(e)) - (IF Closed(e) THEN MaxThreadCount ELSE 0)
    BY DEF CountInv, CountExact
  <2>3. Cardinality(Members(e)) \in Nat /\ MaxThreadCount \in Nat
    BY MembersBounded DEF EpochAssumption
  <2>4. CASE e = j
    BY <1>3, <1>6, <1>c, <2>1, <2>2, <2>3, <2>4
  <2>5. CASE e # j
    BY <1>4, <1>6, <1>c, <2>1, <2>2, <2>5
  <2> QED
    BY <2>4, <2>5
<1> QED
  BY <1>5, <1>7 DEF CountExact

\* A counter is negative if and only if its EpochNode is being cleaned.
LEMMA ClosedIsNegative ==
  ASSUME ShapeInv, CountInv, NEW e \in head .. last
  PROVE  count[e] < 0 <=> Closed(e)
<1>1. count[e] = Cardinality(Members(e)) - (IF Closed(e) THEN MaxThreadCount ELSE 0)
  BY DEF CountInv, CountExact
<1>2. Cardinality(Members(e)) \in Nat /\ Cardinality(Members(e)) < MaxThreadCount
      /\ MaxThreadCount \in Nat
  BY MembersBounded DEF EpochAssumption
<1> QED
  BY <1>1, <1>2

\* fetch_sub(MAX_THREAD_COUNT) <= 0 means that nobody is in.
LEMMA NobodySneakedIn ==
  ASSUME ShapeInv, CountInv, gc = "sub", count[head] <= 0
  PROVE  Members(head) = {}
<1>0. head < last /\ head \in Int /\ last \in Int
  BY DEF ShapeInv, TypeInv, TypeOK, EpochOrder, Epochs
<1>1. head \in head .. last /\ ~Closed(head)
  BY <1>0 DEF Closed
<1>2. count[head] = Cardinality(Members(head))
  BY <1>1, MembersBounded DEF CountInv, CountExact
<1>3. Cardinality(Members(head)) = 0
  BY <1>2, MembersBounded
<1> QED
  BY <1>3, MembersBounded, FS_EmptySet

LEMMA CountInvThread ==
  ASSUME ShapeInv, CountInv, NEW t \in Threads, ThreadStep(t)
  PROVE  CountInv'
<1> USE DEF Inside, InsidePC
<1>a. /\ TypeInv /\ ~JoinAddDeleted(t) /\ UNCHANGED <<head, last, gc, exited>>
      /\ ~exited /\ head \in Int /\ last \in Int
      /\ \A u \in Threads : ep[u] \in Int /\ target[u] \in Int
  <2>1. TypeInv /\ ~JoinAddDeleted(t) /\ UNCHANGED <<head, last, gc, exited>>
    BY JoinAddDeletedNever, ThreadKeepsGC DEF ShapeInv, gcVars, listVars
  <2>2. ~exited
    BY DEF ShapeInv, EndInv, Quiet, ThreadStep, JoinRead, JoinAdd, JoinAddDeleted, JoinUndo,
           LeaveEpoch, GetNode, Consolidate, AddGarbageRead, AddGarbageLoad, AddGarbageCAS
  <2>3. head \in Int /\ last \in Int /\ \A u \in Threads : ep[u] \in Int /\ target[u] \in Int
    BY <2>1 DEF TypeInv, TypeOK, Epochs
  <2> QED
    BY <2>1, <2>2, <2>3
<1>b. \A u \in Threads \ {t} : pc'[u] = pc[u] /\ ep'[u] = ep[u] /\ target'[u] = target[u]
  BY <1>a DEF TypeInv, TypeOK, ThreadStep, JoinRead, JoinAdd, JoinUndo,
         LeaveEpoch, GetNode, Consolidate, AddGarbageRead, AddGarbageLoad, AddGarbageCAS
\* The epoch t has joined, reads or leaves.
<1>c. \/ (JoinRead(t) \/ JoinUndo(t)) /\ pc'[t] = "joinAdd" /\ ep'[t] = last
      \/ /\ JoinAdd(t) /\ ep'[t] = ep[t] /\ pc[t] = "joinAdd"
         /\ pc'[t] = IF count[ep[t]] < 0 THEN "joinUndo" ELSE "in"
      \/ LeaveEpoch(t) /\ pc'[t] = "out" /\ ep'[t] = 0
      \/ /\ GetNode(t) \/ Consolidate(t) \/ AddGarbageRead(t) \/ AddGarbageLoad(t)
            \/ AddGarbageCAS(t)
         /\ Inside(t) /\ Inside(t)' /\ ep'[t] = ep[t]
  <2>1. CASE JoinRead(t) \/ JoinUndo(t)
    BY <1>a, <2>1 DEF JoinRead, JoinUndo, CurrentEpoch, TypeInv, TypeOK
  <2>2. CASE JoinAdd(t)
    <3>1. pc'[t] = IF count[ep[t]] < 0 THEN "joinUndo" ELSE "in"
      BY <1>a, <2>2, JoinAddOwn DEF TypeInv, TypeOK
    <3>2. ep'[t] = ep[t]
      BY <2>2, JoinAddOwn
    <3> QED
      BY <2>2, <3>1, <3>2 DEF JoinAdd
  <2>3. CASE LeaveEpoch(t)
    BY <1>a, <2>3 DEF LeaveEpoch, TypeInv, TypeOK
  <2>4. CASE GetNode(t) \/ Consolidate(t) \/ AddGarbageRead(t) \/ AddGarbageLoad(t)
             \/ AddGarbageCAS(t)
    BY <1>a, <2>4 DEF GetNode, Consolidate, AddGarbageRead, AddGarbageLoad, AddGarbageCAS,
           TypeInv, TypeOK
  <2> QED
    BY <1>a, <2>1, <2>2, <2>3, <2>4 DEF ThreadStep
<1>d. head <= last
  BY <1>a DEF ShapeInv, EndInv, Quiet, TypeInv, EpochOrder
<1>e. ep[t] <= last /\ (pc[t] # "out" => ep[t] >= head)
  BY DEF CountInv, EpochsKnown, JoinersLive
<1>1. EpochsKnown'
  <2>1. ep'[t] <= last
    <3>1. 0 <= last
      BY <1>a DEF TypeInv, TypeOK, Epochs
    <3> QED
      BY <1>a, <1>c, <1>e, <3>1
  <2>2. pc'[t] \in {"addLoad", "addCAS"} => ep'[t] <= target'[t] /\ target'[t] <= last
    <3>1. CASE AddGarbageRead(t)
      <4>1. target'[t] = last /\ ep'[t] = ep[t]
        BY <1>a, <3>1 DEF AddGarbageRead, CurrentEpoch, TypeInv, TypeOK
      <4> QED
        BY <1>a, <1>e, <4>1
    <3>2. CASE AddGarbageLoad(t) \/ AddGarbageCAS(t)
      <4>1. ep'[t] = ep[t] /\ pc[t] \in {"addLoad", "addCAS"}
            /\ (pc'[t] \in {"addLoad", "addCAS"} => target'[t] = target[t])
        BY <1>a, <3>2 DEF AddGarbageLoad, AddGarbageCAS, TypeInv, TypeOK
      <4> QED
        BY <4>1 DEF CountInv, EpochsKnown
    <3>3. CASE JoinRead(t) \/ JoinUndo(t) \/ JoinAdd(t) \/ LeaveEpoch(t)
      BY <1>a, <3>3, JoinAddOwn DEF JoinRead, JoinUndo, LeaveEpoch, TypeInv, TypeOK
    <3>4. CASE GetNode(t) \/ Consolidate(t)
      BY <1>a, <3>4 DEF GetNode, Consolidate, TypeInv, TypeOK
    <3> QED
      BY <1>a, <3>1, <3>2, <3>3, <3>4 DEF ThreadStep
  <2> QED
    BY <1>a, <1>b, <2>1, <2>2 DEF CountInv, EpochsKnown
<1>2. JoinersLive'
  <2>1. pc'[t] # "out" => ep'[t] >= head
    BY <1>a, <1>c, <1>d, <1>e
  <2> QED
    BY <1>a, <1>b, <2>1 DEF CountInv, JoinersLive
<1>3. ClosedEmpty'
  <2>1. ASSUME gc \in {"walk", "free"}, Inside(t)' PROVE ep'[t] # head
    <3>1. CASE Inside(t) /\ ep'[t] = ep[t]
      BY <2>1, <3>1 DEF CountInv, ClosedEmpty
    <3>2. CASE JoinAdd(t) /\ ep'[t] = ep[t] /\ ~(count[ep[t]] < 0)
      <4>1. ep[t] \in head .. last
        BY <3>2, JoinedIsListed DEF JoinAdd
      <4> QED
        BY <2>1, <3>2, <4>1, ClosedIsNegative DEF Closed
    <3> QED
      BY <1>c, <2>1, <3>1, <3>2
  <2> QED
    BY <1>a, <1>b, <2>1 DEF CountInv, ClosedEmpty
<1>4. UndoEarlier'
  <2>1. ASSUME pc'[t] = "joinUndo" PROVE ep'[t] < last
    <3>1. JoinAdd(t) /\ ep'[t] = ep[t] /\ count[ep[t]] < 0
      BY <1>c, <2>1
    <3>2. ep[t] \in head .. last
      BY <3>1, JoinedIsListed DEF JoinAdd
    <3>3. Closed(ep[t])
      BY <3>1, <3>2, ClosedIsNegative
    <3>4. ep[t] = head /\ gc \in {"addBack", "walk", "free"}
      BY <1>a, <3>3 DEF Closed, ShapeInv, EndInv, Quiet
    <3> QED
      BY <1>a, <3>1, <3>4 DEF TypeInv, EpochOrder
  <2> QED
    BY <1>a, <1>b, <2>1 DEF CountInv, UndoEarlier
<1>5. CountExact'
  <2>1. CASE JoinAdd(t)
    BY <2>1, CountExactJoin
  <2>2. CASE JoinUndo(t) \/ LeaveEpoch(t)
    BY <2>2, CountExactLeave
  <2>3. CASE \/ JoinRead(t) \/ GetNode(t) \/ Consolidate(t)
             \/ AddGarbageRead(t) \/ AddGarbageLoad(t) \/ AddGarbageCAS(t)
    <3>1. UNCHANGED count
      BY <2>3 DEF JoinRead, GetNode, Consolidate, AddGarbageRead, AddGarbageLoad, AddGarbageCAS
    <3>2. \A e : t \in Members(e)' <=> t \in Members(e)
      BY <1>a, <2>3 DEF JoinRead, GetNode, Consolidate, AddGarbageRead,
                  AddGarbageLoad, AddGarbageCAS, Members, TypeInv, TypeOK
    <3>3. \A e \in head .. last : Members(e)' = Members(e)
      BY <1>b, <3>2 DEF Members
    <3>4. \A e \in head .. last : Closed(e)' <=> Closed(e)
      BY <1>a DEF Closed
    <3> QED
      BY <1>a, <3>1, <3>3, <3>4, CountExactStutter DEF CountInv
  <2> QED
    BY <1>a, <2>1, <2>2, <2>3 DEF ThreadStep
<1> QED
  BY <1>1, <1>2, <1>3, <1>4, <1>5 DEF CountInv

\* While the tree is being destroyed nobody is counted.
LEMMA QuietMembers ==
  ASSUME Quiet, exited, NEW e
  PROVE  Members(e) = {}
BY DEF Quiet, Members, Inside, InsidePC

\* Who joined head is turned away or gone before its EpochNode is deleted.
LEMMA DeleteLeavesNobody ==
  ASSUME ~StalledJoin, ShapeInv, CountInv, DeleteEpoch, NEW t \in Threads, pc[t] # "out"
  PROVE  ep[t] >= head + 1
<1>1. ep[t] >= head /\ ep[t] \in Int /\ head \in Int
  BY DEF CountInv, JoinersLive, ShapeInv, TypeInv, TypeOK, Epochs
<1>2. ep[t] # head
  <2>1. CASE pc[t] \in {"joinAdd", "joinUndo"}
    BY <2>1 DEF DeleteEpoch, JoinersPrompt
  <2>2. CASE Inside(t)
    <3>1. gc = "free"
      BY DEF DeleteEpoch, GCStep, ShapeInv, EndInv, Quiet
    <3> QED
      BY <2>2, <3>1 DEF CountInv, ClosedEmpty
  <2> QED
    BY <2>1, <2>2 DEF ShapeInv, TypeInv, TypeOK, ThreadPC, Inside, InsidePC
<1> QED
  BY <1>1, <1>2

LEMMA CountInvGC ==
  ASSUME ~StalledJoin, ShapeInv, CountInv, GCThread \/ Destructor
  PROVE  CountInv'
<1> USE DEF GCStep
<1>0. /\ UNCHANGED threadVars /\ \A e : Members(e)' = Members(e)
      /\ TypeInv /\ head \in Int /\ last \in Int
      /\ \A t \in Threads : ep[t] \in Int /\ target[t] \in Int
  <2>1. UNCHANGED threadVars
    BY GCKeepsThreads
  <2>2. \A e : Members(e)' = Members(e)
    BY <2>1 DEF threadVars, Members, Inside, InsidePC
  <2>0. TypeInv
    BY DEF ShapeInv
  <2>3. TypeInv /\ head \in Int /\ last \in Int
    <3>1. head \in 0 .. MaxEpoch + 1 /\ last \in Epochs
      BY <2>0 DEF TypeInv, TypeOK
    <3> QED
      BY <2>0, <3>1 DEF Epochs
  <2>4. \A t \in Threads : ep[t] \in Int /\ target[t] \in Int
    <3>1. \A t \in Threads : ep[t] \in Epochs /\ target[t] \in Epochs
      BY <2>3 DEF TypeInv, TypeOK
    <3> QED
      BY <3>1 DEF Epochs
  <2> QED
    BY <2>1, <2>2, <2>3, <2>4
<1>1. last' \in Int /\ last <= last'
  BY <1>0 DEF GCThread, Destructor, GCStop, ClearCheck, ClearLoad, ClearSub, ClearAddBack,
         LoadGarbage, FreeGarbage, DeleteEpoch, CreateNewEpoch, SetExited, Join,
         DestroyCheck, DestroyLoad, DestroyReset, DestroySub, listVars
<1>2. EpochsKnown'
  BY <1>0, <1>1 DEF CountInv, EpochsKnown, threadVars
<1>3. UndoEarlier'
  BY <1>0, <1>1 DEF CountInv, UndoEarlier, threadVars
<1>4. JoinersLive'
  <2>1. CASE DeleteEpoch
    <3>1. \A t \in Threads : pc[t] # "out" => ep[t] >= head + 1
      BY <2>1, DeleteLeavesNobody
    <3> QED
      BY <1>0, <2>1, <3>1 DEF DeleteEpoch, JoinersLive, threadVars
  <2>2. CASE ~DeleteEpoch
    <3>1. UNCHANGED head
      BY <2>2 DEF GCThread, Destructor, GCStop, ClearCheck, ClearLoad, ClearSub, ClearAddBack,
         LoadGarbage, FreeGarbage, CreateNewEpoch, SetExited, Join,
         DestroyCheck, DestroyLoad, DestroyReset, DestroySub, listVars
    <3> QED
      BY <1>0, <3>1 DEF CountInv, JoinersLive, threadVars
  <2> QED
    BY <2>1, <2>2
<1>5. ClosedEmpty'
  <2>1. CASE ClearSub
    <3> SUFFICES ASSUME gc' \in {"walk", "free"} PROVE Members(head) = {} /\ head' = head
      BY <1>0 DEF ClosedEmpty, Members, threadVars, Inside
    <3>1. gc = "sub" /\ head' = head /\ ~(count[head] > 0)
      BY <2>1 DEF ClearSub, SneakedIn, listVars
    <3>2. count[head] \in Int
      BY <1>0, <3>1 DEF TypeInv, TypeOK, EpochOrder, Epochs
    <3> QED
      BY <3>1, <3>2, NobodySneakedIn
  <2>2. CASE ~ClearSub
    <3>1. gc' \in {"walk", "free"} => gc \in {"walk", "free"} /\ head' = head
      BY <2>2 DEF GCThread, Destructor, GCStop, ClearCheck, ClearLoad, ClearAddBack,
           LoadGarbage, FreeGarbage, DeleteEpoch, CreateNewEpoch, SetExited, Join,
           DestroyCheck, DestroyLoad, DestroyReset, DestroySub, listVars
    <3> QED
      BY <1>0, <3>1 DEF CountInv, ClosedEmpty, Inside, threadVars
  <2> QED
    BY <2>1, <2>2
<1> DEFINE Exact(e) ==
      count[e] = Cardinality(Members(e)) - (IF Closed(e) THEN MaxThreadCount ELSE 0)
           ClosedGC == {"addBack", "walk", "free", "dwalk", "dfree"}
<1>6. \A e \in head .. last : Exact(e)
  BY DEF CountInv, CountExact
<1>7. count \in [Epochs -> Int] /\ \A e \in head .. last : e \in Epochs
  <2>1. count \in [Epochs -> Int]
    BY <1>0 DEF TypeInv, TypeOK
  <2>2. \A e \in head .. last : e \in Epochs
    BY <1>0 DEF TypeInv, TypeOK, Epochs
  <2> QED
    BY <2>1, <2>2
<1>8. CountExact'
  <2>1. CASE GCStop \/ ClearCheck \/ ClearLoad \/ LoadGarbage \/ FreeGarbage \/ SetExited
             \/ Join \/ DestroyCheck \/ DestroyLoad
    <3>1. UNCHANGED <<head, last, count>> /\ (gc' \in ClosedGC <=> gc \in ClosedGC)
      BY <2>1 DEF GCStop, ClearCheck, ClearLoad, LoadGarbage, FreeGarbage, SetExited, Join,
         DestroyCheck, DestroyLoad, listVars
    <3>2. \A e \in head .. last : Closed(e)' <=> Closed(e)
      BY <3>1 DEF Closed
    <3> QED
      BY <1>0, <3>1, <3>2, CountExactStutter DEF CountInv
  <2>2. CASE ClearSub \/ DestroySub
    <3>1. /\ UNCHANGED <<head, last>>
          /\ count' = [count EXCEPT ![head] = @ - MaxThreadCount]
          /\ gc \notin ClosedGC /\ gc' \in ClosedGC
      BY <2>2 DEF ClearSub, SneakedIn, DestroySub, listVars
    <3>2. ASSUME NEW e \in head .. last PROVE Exact(e)'
      <4>1. ~Closed(e) /\ (Closed(e)' <=> e = head)
        BY <3>1 DEF Closed
      <4>2. count[e] = Cardinality(Members(e)) /\ e \in Epochs
        BY <1>6, <1>7, <4>1, MembersBounded
      <4> QED
        BY <1>0, <1>7, <3>1, <4>1, <4>2, MembersBounded DEF EpochAssumption
    <3> QED
      BY <3>1, <3>2 DEF CountExact
  <2>3. CASE ClearAddBack
    <3>1. /\ UNCHANGED <<head, last>>
          /\ count' = [count EXCEPT ![head] = @ + MaxThreadCount]
          /\ gc = "addBack" /\ gc' = "create"
      BY <2>3 DEF ClearAddBack, listVars
    <3>2. ASSUME NEW e \in head .. last PROVE Exact(e)'
      <4>1. ~Closed(e)' /\ (Closed(e) <=> e = head)
        BY <3>1 DEF Closed
      <4>2. Exact(e) /\ e \in Epochs
        BY <1>6, <1>7
      <4> QED
        BY <1>0, <1>7, <3>1, <4>1, <4>2, MembersBounded DEF EpochAssumption
    <3> QED
      BY <3>1, <3>2 DEF CountExact
  <2>4. CASE DeleteEpoch
    <3>1. head' = head + 1 /\ UNCHANGED <<last, count>> /\ gc' \notin ClosedGC
      BY <2>4 DEF DeleteEpoch
    <3>2. \A e \in head' .. last : e \in head .. last /\ e # head
      BY <1>0, <3>1
    <3>3. ASSUME NEW e \in head' .. last PROVE Exact(e)'
      <4>1. ~Closed(e)' /\ ~Closed(e)
        BY <3>1, <3>2 DEF Closed
      <4> QED
        BY <1>0, <1>6, <3>1, <3>2, <4>1
    <3> QED
      BY <3>1, <3>3 DEF CountExact
  <2>5. CASE CreateNewEpoch
    <3>1. UNCHANGED head /\ gc \notin ClosedGC /\ gc' \notin ClosedGC
      BY <2>5 DEF CreateNewEpoch
    <3>2. \A e : ~Closed(e)' /\ ~Closed(e)
      BY <3>1 DEF Closed
    <3>3. CASE last < MaxEpoch
      <4>1. PICK k \in Epochs : k = last + 1
        BY <1>0, <3>3 DEF TypeInv, TypeOK, Epochs, EpochAssumption
      <4>2. last' = k /\ count' = [count EXCEPT ![k] = 0]
        BY <2>5, <3>3, <4>1 DEF CreateNewEpoch
      <4>3. ASSUME NEW e \in head .. last' PROVE Exact(e)'
        <5>1. CASE e = k
          <6>1. Members(k) = {}
            BY <1>0, <4>1 DEF Members, CountInv, EpochsKnown
          <6>2. count'[k] = 0
            BY <1>7, <4>1, <4>2
          <6> QED
            BY <1>0, <3>2, <5>1, <6>1, <6>2, FS_EmptySet
        <5>2. CASE e # k
          <6>1. e \in head .. last
            BY <1>0, <4>1, <4>2, <5>2
          <6> QED
            BY <1>0, <1>6, <1>7, <3>2, <4>2, <5>2, <6>1
        <5> QED
          BY <5>1, <5>2
      <4> QED
        BY <3>1, <4>3 DEF CountExact
    <3>4. CASE ~(last < MaxEpoch)
      <4>1. UNCHANGED <<last, count>>
        BY <2>5, <3>4 DEF CreateNewEpoch
      <4> QED
        BY <1>0, <3>1, <3>2, <4>1, CountExactStutter DEF CountInv
    <3> QED
      BY <3>3, <3>4
  <2>6. CASE DestroyReset
    <3>1. /\ UNCHANGED <<head, last>> /\ exited /\ gc \notin ClosedGC /\ gc' \notin ClosedGC
          /\ count' = [e \in Epochs |-> IF e \in head .. last THEN 0 ELSE count[e]]
      BY <2>6 DEF DestroyReset, listVars, ShapeInv, EndInv, Quiet
    <3>2. ASSUME NEW e \in head .. last PROVE Exact(e)'
      <4>1. Members(e) = {} /\ ~Closed(e)'
        BY <3>1, QuietMembers DEF ShapeInv, EndInv, Closed
      <4>2. count'[e] = 0
        BY <1>7, <3>1
      <4> QED
        BY <1>0, <4>1, <4>2, FS_EmptySet
    <3> QED
      BY <3>1, <3>2 DEF CountExact
  <2> QED
    BY <2>1, <2>2, <2>3, <2>4, <2>5, <2>6 DEF GCThread, Destructor
<1> QED
  BY <1>2, <1>3, <1>4, <1>5, <1>8 DEF CountInv

LEMMA CountInvNext ==
  ASSUME ~StalledJoin, ShapeInv, CountInv, [Next]_vars
  PROVE  CountInv'
<1>1. CASE \E t \in Threads : ThreadStep(t)
  BY <1>1, CountInvThread
<1>2. CASE GCThread \/ Destructor
  BY <1>2, CountInvGC
<1>3. CASE UNCHANGED vars
  <2>1. UNCHANGED <<pc, ep, target, head, last, gc, count>>
    BY <1>3 DEF vars, threadVars, gcVars, listVars
  <2>2. \A e : Members(e)' = Members(e) /\ (Closed(e)' <=> Closed(e))
    BY <2>1 DEF Members, Closed, Inside, InsidePC
  <2>3. CountExact'
    BY <2>1, <2>2 DEF CountInv, CountExact
  <2> QED
    BY <2>1, <2>3 DEF CountInv, EpochsKnown, JoinersLive, ClosedEmpty, UndoEarlier, Inside
<1> QED
  BY <1>1, <1>2, <1>3 DEF Next, Finished

LEMMA CountAlways ==
  ASSUME ~StalledJoin
  PROVE  Spec => [](ShapeInv /\ CountInv)
<1>1. Init => ShapeInv /\ CountInv
  BY ShapeInit, CountInvInit
<1>2. (ShapeInv /\ CountInv) /\ [Next]_vars => (ShapeInv /\ CountInv)'
  BY ShapeNext, CountInvNext
<1> QED
  BY <1>1, <1>2, PTL DEF Spec

\* The counter of an EpochNode never drifts: while joiners are prompt it is the
\* number of threads in the epoch, less MAX_THREAD_COUNT while the epoch is
\* closed.  (A stalled joiner may change the counter of a later EpochNode.)
THEOREM CountersExact ==
  ASSUME ~StalledJoin
  PROVE  Spec => []CountExact
<1>1. ShapeInv /\ CountInv => CountExact
  BY DEF CountInv
<1> QED
  BY <1>1, CountAlways, PTL

\* While joiners are prompt, a retry of JoinEpoch() reads a later epoch than the
\* one that turned it away: it is being cleaned only if another one follows it.
THEOREM RetriesAlwaysAdvance ==
  ASSUME ~StalledJoin
  PROVE  Spec => RetriesAdvance
<1>1. ShapeInv /\ CountInv /\ [Next]_vars =>
        [\A t \in Threads : pc[t] = "joinUndo" /\ pc'[t] # "joinUndo" => ep'[t] > ep[t]]_vars
  <2> SUFFICES ASSUME ShapeInv, CountInv, [Next]_vars, NEW t \in Threads,
                      pc[t] = "joinUndo", pc'[t] # "joinUndo"
               PROVE  ep'[t] > ep[t]
    OBVIOUS
  <2>1. pc \in [Threads -> ThreadPC] /\ ep \in [Threads -> Epochs]
    BY DEF ShapeInv, TypeInv, TypeOK
  <2>2. JoinUndo(t)
    <3>1. PICK u \in Threads : ThreadStep(u)
      BY GCKeepsThreads DEF Next, Finished, vars, threadVars
    <3>2. u = t
      BY <2>1, <3>1 DEF ThreadStep, JoinRead, JoinAdd, JoinAddDeleted, JoinUndo, LeaveEpoch,
         GetNode, Consolidate, AddGarbageRead, AddGarbageLoad, AddGarbageCAS
    <3> QED
      BY <3>1, <3>2 DEF ThreadStep, JoinRead, JoinAdd, JoinAddDeleted, LeaveEpoch,
         GetNode, Consolidate, AddGarbageRead, AddGarbageLoad, AddGarbageCAS
  <2>3. ep'[t] = last
    BY <2>1, <2>2 DEF JoinUndo, CurrentEpoch
  <2>4. ep[t] < last /\ ep[t] \in Int /\ last \in Int
    BY DEF CountInv, UndoEarlier, ShapeInv, TypeInv, TypeOK, Epochs
  <2> QED
    BY <2>3, <2>4
<1> QED
  BY <1>1, CountAlways, PTL DEF Spec, RetriesAdvance

-----------------------------------------------------------------------------
(* What the counters are for: who is inside while garbage is freed, and    *)
(* which list a node is pushed onto.  Joiners are prompt from here on.     *)

\* While garbage is being freed, whoever is inside joined a later epoch.
LEMMA CleaningExcludes ==
  ASSUME ShapeInv, CountInv
  PROVE  CleaningExcludesThreads
<1> SUFFICES ASSUME gc \in Cleaning, NEW t \in Threads, Inside(t) PROVE ep[t] > head
  BY DEF CleaningExcludesThreads
<1>1. gc \in {"walk", "free"} /\ pc[t] # "out"
  BY DEF Cleaning, ShapeInv, EndInv, Quiet, Inside, InsidePC
<1>2. ep[t] # head /\ ep[t] >= head /\ ep[t] \in Int /\ head \in Int
  BY <1>1, JoinedIsListed DEF CountInv, ClosedEmpty, JoinersLive, ShapeInv, TypeInv, TypeOK, Epochs
<1> QED
  BY <1>2

\* AddGarbageNode() pushes onto an epoch no older than the one its thread joined.
LEMMA TargetLive ==
  ASSUME ShapeInv, CountInv
  PROVE  /\ GarbageTargetLive
         /\ \A t \in Threads : pc[t] \in {"addLoad", "addCAS"} =>
              target[t] \in head .. last /\ ~Walked(target[t])
<1> SUFFICES ASSUME NEW t \in Threads, pc[t] \in {"addLoad", "addCAS"}
             PROVE  /\ target[t] >= head /\ ~(target[t] = head /\ gc \in Cleaning)
                    /\ target[t] \in head .. last /\ ~Walked(target[t])
  BY DEF GarbageTargetLive
<1>1. target[t] >= ep[t] /\ ep[t] >= head /\ target[t] <= last
  BY DEF CountInv, EpochsKnown, JoinersLive
<1>2. gc \in Cleaning => ep[t] > head
  BY CleaningExcludes DEF CleaningExcludesThreads, Inside, InsidePC
<1>3. ep[t] \in Int /\ head \in Int /\ last \in Int
  BY JoinedIsListed DEF ShapeInv, TypeInv, TypeOK, Epochs
<1>4. target[t] \in Epochs
  BY DEF ShapeInv, TypeInv, TypeOK
<1>5. target[t] \in Int
  BY <1>4 DEF Epochs
<1>6. target[t] \in head .. last /\ target[t] >= head
  BY <1>1, <1>3, <1>5
<1>7. gc \in Cleaning => target[t] # head
  BY <1>1, <1>2, <1>3, <1>5
<1> QED
  BY <1>6, <1>7 DEF Walked, Cleaning

\* ClearEpoch() frees garbage only while every thread in the tree is in a later
\* epoch.
THEOREM CleaningIsExclusive ==
  ASSUME ~StalledJoin
  PROVE  Spec => []CleaningExcludesThreads
BY CleaningExcludes, CountAlways, PTL

\* The EpochNode that AddGarbageNode() read from current_epoch_p is neither
\* deleted nor being cleaned before the CAS.
THEOREM GarbageTargetIsLive ==
  ASSUME ~StalledJoin
  PROVE  Spec => []GarbageTargetLive
BY TargetLive, CountAlways, PTL

-----------------------------------------------------------------------------
(* Sixth invariant: no retired node is lost.                               *)

OwnerInv == ShapeInv /\ CountInv /\ FreedOnce /\ RetiredKept

LEMMA OwnerInvInit == Init => OwnerInv
BY ShapeInit, CountInvInit, FreedOnceInit DEF OwnerInv

LEMMA OwnerInvNext ==
  ASSUME ~StalledJoin, OwnerInv, [Next]_vars
  PROVE  OwnerInv'
<1>1. ShapeInv' /\ CountInv' /\ FreedOnce'
  BY ShapeNext, CountInvNext, FreedOnceNext DEF OwnerInv
<1>2. \A t \in Threads :
        AddGarbageCAS(t) => target[t] \in head .. last /\ ~Walked(target[t])
  BY TargetLive DEF OwnerInv, AddGarbageCAS
<1>3. RetiredKept'
  BY <1>2, FreedOnceNext DEF OwnerInv
<1> QED
  BY <1>1, <1>3 DEF OwnerInv

LEMMA OwnerAlways ==
  ASSUME ~StalledJoin
  PROVE  Spec => []OwnerInv
<1>1. OwnerInv /\ [Next]_vars => OwnerInv'
  BY OwnerInvNext
<1> QED
  BY <1>1, OwnerInvInit, PTL DEF Spec

\* A node replaced by Consolidate() is in one garbage list, or in the hands of
\* one thread, until the GC thread frees it: while joiners are prompt no CAS on
\* garbage_list_p loses it or frees it twice.  (A stalled one may push onto a
\* list that has been walked already.)
THEOREM RetiredExactlyOnce ==
  ASSUME ~StalledJoin
  PROVE  Spec => []RetiredOnce
<1>1. OwnerInv => RetiredOnce
  BY DEF OwnerInv, RetiredOnce
<1> QED
  BY <1>1, OwnerAlways, PTL

\* When ~EpochManager() has ended, every EpochNode has been deleted and no node
\* that was ever handed to AddGarbageNode() is left: none of them leaks.
THEOREM EverythingFreed ==
  ASSUME ~StalledJoin
  PROVE  Spec => []AllFreedAtEnd
<1>1. OwnerInv => AllFreedAtEnd
  <2> SUFFICES ASSUME OwnerInv, gc = "destroyed"
               PROVE  head > last /\ \A n \in Nodes : status[n] # "retired"
    BY DEF AllFreedAtEnd
  <2>1. head > last
    BY DEF OwnerInv, ShapeInv, EndInv, EpochsCleared
  <2>2. \A e \in Epochs : e \notin head .. last
    BY <2>1 DEF OwnerInv, ShapeInv, TypeInv, TypeOK, Epochs
  <2>3. \A e \in Epochs, n \in Nodes : ~InGarbage(n, e)
    <3>1. \A e \in Epochs : Waiting(e) = <<>>
      BY <2>2 DEF OwnerInv, ShapeInv, ListInv, GarbageListed, Waiting
    <3> QED
      BY <3>1 DEF InGarbage
  <2>4. \A t \in Threads : adding[t] = NoNode
    BY DEF OwnerInv, ShapeInv, EndInv, Quiet, TypeInv, AddingHasNode, AddPC
  <2> QED
    BY <2>1, <2>3, <2>4 DEF OwnerInv, RetiredKept, EpochAssumption
<1> QED
  BY <1>1, OwnerAlways, PTL

-----------------------------------------------------------------------------
(* Seventh invariant: why a node that a thread holds is not freed.         *)

\* A node that t holds is not freed, and if it has been retired then into a
\* garbage list that is cleaned after the EpochNode t joined.
Reachable(t, n) ==
  /\ status[n] # "free"
  /\ \A e \in Epochs : InGarbage(n, e) => ep[t] <= e
  /\ \A u \in Threads :
       pc[u] \in {"addLoad", "addCAS"} /\ adding[u] = n => ep[t] <= target[u]

HeldReachable ==
  \A t \in Threads :
    /\ ~Inside(t) => held[t] = {}
    /\ \A n \in held[t] : Reachable(t, n)

LEMMA GarbageStutter ==
  ASSUME \A e \in Epochs : Waiting(e)' = Waiting(e)
  PROVE  \A e \in Epochs : \A n : InGarbage(n, e)' <=> InGarbage(n, e)
BY DEF InGarbage

\* A push puts its node into the list of the EpochNode AddGarbageNode() has read.
LEMMA PushInGarbage ==
  ASSUME ShapeInv, CountInv, NEW u \in Threads, AddGarbageCAS(u)
  PROVE  \A e \in Epochs, m \in Nodes :
           InGarbage(m, e)' => InGarbage(m, e) \/ (m = adding[u] /\ e = target[u])
<1>0. TypeInv /\ ListInv /\ UNCHANGED <<head, gc, chain>>
  BY DEF ShapeInv, AddGarbageCAS, gcVars, listVars
<1>1. CASE ~ListUnchanged(u)
  <2>1. \A e \in Epochs : Waiting(e)' = Waiting(e)
    BY <1>0, <1>1 DEF AddGarbageCAS, Waiting
  <2> QED
    BY <2>1, GarbageStutter
<1>2. CASE ListUnchanged(u)
  <2>1. PICK n \in Nodes, g \in Epochs : n = adding[u] /\ g = target[u]
    BY <1>0 DEF AddGarbageCAS, TypeInv, TypeOK, AddingHasNode, AddPC
  <2>2. g \in head .. last /\ ~Walked(g)
    BY <2>1, TargetLive DEF AddGarbageCAS
  <2>3. At(g) = {g} /\ List(g) = garbage[g]
    BY <1>0, <2>2, AtIsSelf
  <2>4. PICK list \in Seq(Nodes) : list = garbage[g] /\ list = seen[u]
    BY <1>0, <1>2, <2>1, <2>3 DEF ListUnchanged, TypeInv, TypeOK
  <2>5. \A e \in Epochs : garbage'[e] = IF e = g THEN <<n>> \o list ELSE garbage[e]
    BY <1>2, <2>1, <2>3, <2>4 DEF AddGarbageCAS, Pushed, PushedNode
  <2>6. Waiting(g) = list /\ Waiting(g)' = <<n>> \o list
    BY <1>0, <2>2, <2>4, <2>5 DEF Waiting, Walked
  <2>7. \A e \in Epochs \ {g} : Waiting(e)' = Waiting(e)
    BY <1>0, <2>5 DEF Waiting
  <2>8. \A i \in DOMAIN (<<n>> \o list) :
          \/ (<<n>> \o list)[i] = n
          \/ i - 1 \in DOMAIN list /\ (<<n>> \o list)[i] = list[i - 1]
    BY <2>4
  <2> SUFFICES ASSUME NEW e \in Epochs, NEW m \in Nodes,
                      NEW i \in DOMAIN Waiting(e)', Waiting(e)'[i] = m
               PROVE  InGarbage(m, e) \/ (m = n /\ e = g)
    BY <2>1 DEF InGarbage
  <2>9. CASE e # g
    BY <2>7, <2>9 DEF InGarbage
  <2>10. CASE e = g
    BY <2>6, <2>8, <2>10 DEF InGarbage
  <2> QED
    BY <2>9, <2>10
<1> QED
  BY <1>1, <1>2

\* The steps of the threads.
LEMMA HeldReachableThread ==
  ASSUME OwnerInv, HeldReachable, NEW u \in Threads, ThreadStep(u)
  PROVE  HeldReachable'
<1> USE DEF Inside, InsidePC
<1>0. TypeInv /\ UNCHANGED <<head, gc, chain>>
  BY ThreadKeepsGC DEF OwnerInv, ShapeInv, gcVars, listVars
<1>9. ~AddGarbageCAS(u) => \A e \in Epochs : \A n : InGarbage(n, e)' <=> InGarbage(n, e)
  <2> SUFFICES ASSUME ~AddGarbageCAS(u)
               PROVE  \A e \in Epochs : \A n : InGarbage(n, e)' <=> InGarbage(n, e)
    OBVIOUS
  <2>1. UNCHANGED garbage
    BY DEF ThreadStep, JoinRead, JoinAdd, JoinAddDeleted, JoinUndo, LeaveEpoch, GetNode,
           Consolidate, AddGarbageRead, AddGarbageLoad
  <2>2. \A e \in Epochs : Waiting(e)' = Waiting(e)
    BY <1>0, <2>1 DEF Waiting
  <2> QED
    BY <2>2, GarbageStutter
<1>1. CASE \/ JoinRead(u) \/ JoinAdd(u) \/ JoinAddDeleted(u) \/ JoinUndo(u) \/ LeaveEpoch(u)
           \/ AddGarbageLoad(u)
  <2>1. UNCHANGED <<status, adding, target>> /\ ~AddGarbageCAS(u)
    BY <1>1 DEF JoinRead, JoinAdd, JoinAddDeleted, JoinUndo, LeaveEpoch, AddGarbageLoad,
                AddGarbageCAS
  <2>3. \A v \in Threads : pc'[v] \in {"addLoad", "addCAS"} <=> pc[v] \in {"addLoad", "addCAS"}
    BY <1>0, <1>1 DEF JoinRead, JoinAdd, JoinAddDeleted, JoinUndo, LeaveEpoch, AddGarbageLoad,
                TypeInv, TypeOK
  <2>4. \A v \in Threads :
          /\ ~Inside(v)' => held'[v] = {}
          /\ held'[v] = {} \/ (held'[v] = held[v] /\ ep'[v] = ep[v])
    BY <1>0, <1>1 DEF JoinRead, JoinAdd, JoinAddDeleted, JoinUndo, LeaveEpoch, AddGarbageLoad,
                TypeInv, TypeOK, HeldReachable
  <2> QED
    BY <1>9, <2>1, <2>3, <2>4 DEF HeldReachable, Reachable
<1>2. CASE GetNode(u)
  <2>1. PICK n \in Nodes : status[n] = "linked" /\ held' = [held EXCEPT ![u] = @ \cup {n}]
    BY <1>2 DEF GetNode
  <2>2. UNCHANGED <<pc, ep, target, adding, status>> /\ ~AddGarbageCAS(u)
    BY <1>2 DEF GetNode, AddGarbageCAS
  <2>4. \A v \in Threads : \A m \in held[v] : Reachable(v, m)'
    BY <1>9, <2>2 DEF HeldReachable, Reachable
  <2>5. /\ \A e \in Epochs : ~InGarbage(n, e)
        /\ \A v \in Threads : adding[v] # n
    BY <2>1 DEF OwnerInv, FreedOnce, GarbageRetired, AddingRetired, EpochAssumption
  <2>6. Reachable(u, n)'
    BY <1>9, <2>1, <2>2, <2>5 DEF Reachable
  <2>7. \A v \in Threads : /\ v = u => held'[v] = held[v] \cup {n}
                           /\ v # u => held'[v] = held[v]
    BY <1>0, <2>1 DEF TypeInv, TypeOK
  <2>8. Inside(u)
    BY <1>2 DEF GetNode
  <2> QED
    BY <2>2, <2>4, <2>6, <2>7, <2>8 DEF HeldReachable
<1>3. CASE Consolidate(u)
  <2>1. PICK old \in held[u], new \in Nodes :
          /\ status[new] = "free"
          /\ IF status[old] = "linked"
               THEN /\ status' = [status EXCEPT ![old] = "retired", ![new] = "linked"]
                    /\ held' = [held EXCEPT ![u] = @ \cup {new}]
                    /\ adding' = [adding EXCEPT ![u] = old]
               ELSE /\ status' = [status EXCEPT ![new] = "retired"]
                    /\ adding' = [adding EXCEPT ![u] = new]
                    /\ UNCHANGED held
    BY <1>3 DEF Consolidate
  <2>2. old \in Nodes /\ status \in [Nodes -> {"free", "linked", "retired"}]
    BY <1>0 DEF TypeInv, TypeOK
  <2>3. /\ UNCHANGED <<ep, target>> /\ pc' = [pc EXCEPT ![u] = "addRead"]
        /\ pc[u] = "in" /\ ~AddGarbageCAS(u)
    BY <1>3 DEF Consolidate, AddGarbageCAS
  <2>5. \A m \in Nodes : status[m] # "free" => status'[m] # "free"
    <3>1. CASE status[old] = "linked"
      BY <2>1, <2>2, <3>1
    <3>2. CASE status[old] # "linked"
      BY <2>1, <2>2, <3>2
    <3> QED
      BY <3>1, <3>2
  <2>6. \A v \in Threads : /\ v # u => adding'[v] = adding[v] /\ pc'[v] = pc[v]
                           /\ pc'[u] = "addRead"
    BY <1>0, <2>1, <2>3 DEF TypeInv, TypeOK
  <2>7. \A v \in Threads : \A m \in held[v] : Reachable(v, m)'
    <3> SUFFICES ASSUME NEW v \in Threads, NEW m \in held[v] PROVE Reachable(v, m)'
      OBVIOUS
    <3>1. m \in Nodes /\ Reachable(v, m)
      BY <1>0 DEF HeldReachable, TypeInv, TypeOK
    <3> QED
      BY <1>9, <2>3, <2>5, <2>6, <3>1 DEF Reachable
  <2>8. status[old] = "linked" => Reachable(u, new)'
    <3> SUFFICES ASSUME status[old] = "linked" PROVE Reachable(u, new)'
      OBVIOUS
    <3>1. status'[new] = "linked"
      BY <2>1, <2>2
    <3>2. \A e \in Epochs : ~InGarbage(new, e)
      BY <2>1 DEF OwnerInv, FreedOnce, GarbageRetired
    <3>3. \A v \in Threads : adding[v] # new
      BY <2>1 DEF OwnerInv, FreedOnce, AddingRetired, EpochAssumption
    <3> QED
      BY <1>9, <2>3, <2>6, <3>1, <3>2, <3>3 DEF Reachable
  <2>9. \A v \in Threads : \/ held'[v] = held[v]
                           \/ v = u /\ held'[v] = held[v] \cup {new} /\ status[old] = "linked"
    BY <1>0, <2>1 DEF TypeInv, TypeOK
  <2>10. \A v \in Threads : ~Inside(v)' => held'[v] = {}
    <3> SUFFICES ASSUME NEW v \in Threads, ~Inside(v)' PROVE held'[v] = {}
      OBVIOUS
    <3>1. v # u /\ ~Inside(v)
      BY <2>6
    <3> QED
      BY <2>9, <3>1 DEF HeldReachable
  <2> QED
    BY <2>7, <2>8, <2>9, <2>10 DEF HeldReachable
<1>4. CASE AddGarbageRead(u)
  <2>1. /\ UNCHANGED <<ep, held, status, adding>> /\ ~AddGarbageCAS(u)
        /\ \A v \in Threads : /\ v # u => target'[v] = target[v] /\ pc'[v] = pc[v]
                              /\ v = u => target'[v] = last
                              /\ Inside(v)' <=> Inside(v)
    BY <1>0, <1>4 DEF AddGarbageRead, AddGarbageCAS, CurrentEpoch, TypeInv, TypeOK
  <2>3. \A v \in Threads : ep[v] <= last
    BY DEF OwnerInv, CountInv, EpochsKnown
  <2>4. \A v \in Threads : \A m \in held[v] : Reachable(v, m)'
    BY <1>9, <2>1, <2>3 DEF HeldReachable, Reachable
  <2> QED
    BY <2>1, <2>4 DEF HeldReachable
<1>5. CASE AddGarbageCAS(u)
  <2>1. /\ UNCHANGED <<ep, held, status>>
        /\ \A v \in Threads : /\ Inside(v)' <=> Inside(v)
                              /\ v # u => /\ pc'[v] = pc[v] /\ adding'[v] = adding[v]
                                          /\ target'[v] = target[v]
        /\ pc[u] = "addCAS" /\ pc'[u] \in {"addCAS", "in"}
        /\ pc'[u] = "addCAS" => adding'[u] = adding[u] /\ target'[u] = target[u]
    BY <1>0, <1>5 DEF AddGarbageCAS, TypeInv, TypeOK
  <2>2. \A e \in Epochs, m \in Nodes :
          InGarbage(m, e)' => InGarbage(m, e) \/ (m = adding[u] /\ e = target[u])
    BY <1>5, PushInGarbage DEF OwnerInv
  <2>3. ASSUME NEW v \in Threads, NEW m \in held[v] PROVE Reachable(v, m)'
    <3>1. m \in Nodes /\ Reachable(v, m)
      BY <1>0 DEF HeldReachable, TypeInv, TypeOK
    <3>2. m = adding[u] => ep[v] <= target[u]
      BY <2>1, <3>1 DEF Reachable
    <3>3. \A w \in Threads : pc'[w] \in {"addLoad", "addCAS"} =>
            /\ pc[w] \in {"addLoad", "addCAS"} /\ adding'[w] = adding[w]
            /\ target'[w] = target[w]
      BY <2>1
    <3> QED
      BY <2>1, <2>2, <3>1, <3>2, <3>3 DEF Reachable
  <2> QED
    BY <2>1, <2>3 DEF HeldReachable
<1> QED
  BY <1>1, <1>2, <1>3, <1>4, <1>5 DEF ThreadStep

\* The GC thread frees a node only if no thread holds it.
LEMMA HeldReachableFree ==
  ASSUME OwnerInv, HeldReachable, FreeGarbage
  PROVE  HeldReachable'
<1>0. TypeInv /\ ShapeInv /\ CountInv /\ gc \in {"free", "dfree"}
  BY DEF OwnerInv, ShapeInv, FreeGarbage
<1>1. head \in Epochs
  <2>1. head <= last
    BY <1>0 DEF TypeInv, EpochOrder
  <2>2. head \in Nat /\ last \in Nat /\ last <= MaxEpoch
    BY <1>0 DEF TypeInv, TypeOK, Epochs
  <2> QED
    BY <2>1, <2>2 DEF Epochs
<1>2. PICK list \in Seq(Nodes) : list = chain /\ list # <<>>
  BY <1>0 DEF FreeGarbage, TypeInv, TypeOK
<1>4. /\ UNCHANGED <<threadVars, head, gc, garbage>> /\ chain' = Tail(list)
      /\ status' = [status EXCEPT ![list[1]] = "free"]
  BY <1>2 DEF FreeGarbage, listVars
<1>w. Waiting(head) = list /\ Waiting(head)' = Tail(list)
  BY <1>0, <1>2, <1>4 DEF Waiting
<1>3. PICK n \in Nodes : n = list[1] /\ InGarbage(n, head)
  BY <1>2, <1>w DEF InGarbage
<1>5. \A e \in Epochs, m \in Nodes : InGarbage(m, e)' => InGarbage(m, e)
  <2>1. \A i \in DOMAIN Tail(list) : i + 1 \in DOMAIN list /\ Tail(list)[i] = list[i + 1]
    BY <1>2
  <2> SUFFICES ASSUME NEW e \in Epochs, NEW m \in Nodes, InGarbage(m, e)'
               PROVE  InGarbage(m, e)
    OBVIOUS
  <2>2. CASE e = head
    BY <1>4, <1>w, <2>1, <2>2 DEF InGarbage
  <2>3. CASE e # head
    BY <1>4, <2>3 DEF InGarbage, Waiting
  <2> QED
    BY <2>2, <2>3
<1>6. ASSUME NEW t \in Threads, NEW m \in held[t] PROVE m # n
  <2>1. Inside(t) /\ Reachable(t, m)
    BY DEF HeldReachable
  <2>2. ep[t] > head
    BY <1>0, <2>1, CleaningExcludes DEF CleaningExcludesThreads, Cleaning
  <2>3. ep[t] \in Epochs /\ ep[t] \in Int /\ head \in Int
    BY <1>0, <1>1 DEF TypeInv, TypeOK, Epochs
  <2>4. ~InGarbage(m, head)
    BY <1>1, <2>1, <2>2, <2>3 DEF Reachable
  <2> QED
    BY <1>3, <2>4
<1>7. ASSUME NEW t \in Threads, NEW m \in held[t] PROVE Reachable(t, m)'
  <2>1. m \in Nodes /\ Reachable(t, m) /\ m # n
    BY <1>0, <1>6 DEF HeldReachable, TypeInv, TypeOK
  <2>2. status'[m] # "free"
    BY <1>0, <1>3, <1>4, <2>1 DEF Reachable, TypeInv, TypeOK
  <2> QED
    BY <1>4, <1>5, <2>1, <2>2 DEF Reachable, threadVars
<1> QED
  BY <1>4, <1>7 DEF HeldReachable, threadVars, Inside

LEMMA HeldReachableInit == Init => HeldReachable
BY DEF Init, HeldReachable, Inside, InsidePC

LEMMA HeldReachableNext ==
  ASSUME OwnerInv, HeldReachable, [Next]_vars
  PROVE  HeldReachable'
<1>1. CASE \E t \in Threads : ThreadStep(t)
  BY <1>1, HeldReachableThread
<1>2. CASE FreeGarbage
  BY <1>2, HeldReachableFree
<1>3. CASE ~FreeGarbage /\ \A t \in Threads : ~ThreadStep(t)
  <2>1. UNCHANGED threadVars
    BY <1>3, GCKeepsThreads DEF Next, Finished, vars
  <2>2. UNCHANGED status
    BY <1>3 DEF Next, Finished, vars, GCThread, Destructor, GCStop, ClearCheck, ClearLoad,
       ClearSub, ClearAddBack, LoadGarbage, DeleteEpoch, CreateNewEpoch, SetExited, Join,
       DestroyCheck, DestroyLoad, DestroyReset, DestroySub
  <2>3. \A t \in Threads : ~AddGarbageCAS(t)
    BY <1>3 DEF ThreadStep
  <2>4. \A e \in Epochs : \A n : InGarbage(n, e)' <=> InGarbage(n, e)
    BY <1>3, <2>3, WaitingKept, GarbageStutter DEF OwnerInv
  <2> QED
    BY <2>1, <2>2, <2>4 DEF HeldReachable, Reachable, Inside, threadVars
<1> QED
  BY <1>1, <1>2, <1>3

\* The promise of the epochs: a node that a thread read since JoinEpoch() is not
\* freed before its LeaveEpoch(), for any number of threads, nodes and epochs.
THEOREM NothingFreedInUse ==
  ASSUME ~StalledJoin
  PROVE  Spec => []NoUseAfterFree
<1>1. Init => OwnerInv /\ HeldReachable
  BY OwnerInvInit, HeldReachableInit
<1>2. (OwnerInv /\ HeldReachable) /\ [Next]_vars => (OwnerInv /\ HeldReachable)'
  BY OwnerInvNext, HeldReachableNext
<1>3. OwnerInv /\ HeldReachable => NoUseAfterFree
  BY DEF HeldReachable, Reachable, NoUseAfterFree
<1> QED
  BY <1>1, <1>2, <1>3, PTL DEF Spec
=============================================================================
