------------------------ MODULE AtomicSnapshotProofs ------------------------
(***************************************************************************)
(* For any number of threads and registers: the start gate protects the    *)
(* registers, every scan is wait-free, and as long as no label wraps       *)
(* around, clean scans are snapshots, stolen ones are nested in the scan   *)
(* of the thief, and run() returns the number of stores.                   *)
(***************************************************************************)
EXTENDS AtomicSnapshot, FiniteSetTheorems, SequenceTheorems, TLAPS

USE SnapshotAssumption DEF SnapshotAssumption

-----------------------------------------------------------------------------
(* Lemmas about data.                                                      *)

LEMMA MinIn ==
  ASSUME NEW S \in SUBSET Ids, S # {}
  PROVE  Min(S) \in S
<1> DEFINE R == OpToRel(<, Nat)
<1>1. IsWellFoundedOn(R, Nat)
  BY NatLessThanWellFounded
<1>2. S \subseteq Nat
  BY DEF Ids
<1>3. PICK x \in S : \A y \in S : ~ (<<y, x>> \in R)
  <2> HIDE DEF R
  <2> QED
    BY <1>1, <1>2, WFMin
<1>4. \A y \in S : x =< y
  <2> TAKE y \in S
  <2>1. x \in Nat /\ y \in Nat
    BY <1>2
  <2>2. ~ (y < x)
    BY <1>3, <2>1 DEF OpToRel
  <2> QED
    BY <2>1, <2>2
<1> QED
  BY <1>3, <1>4 DEF Min

LEMMA FirstMovedIn ==
  ASSUME NEW t \in Ids, MovedIds(t) # {}
  PROVE  /\ FirstMoved(t) \in Ids
         /\ Moved(oldCopy[t][FirstMoved(t)], newCopy[t][FirstMoved(t)])
<1>1. MovedIds(t) \in SUBSET Ids
  BY DEF MovedIds
<1>2. FirstMoved(t) \in MovedIds(t)
  BY <1>1, MinIn DEF FirstMoved
<1> QED
  BY <1>2 DEF MovedIds

LEMMA NextLabelType ==
  ASSUME NEW label \in 0 .. LabelPeriod - 1
  PROVE  /\ NextLabel(label) \in 0 .. LabelPeriod - 1
         /\ label < LabelPeriod - 1 => NextLabel(label) = label + 1
BY DEF NextLabel

-----------------------------------------------------------------------------
(* What is a function of the threads.                                      *)

Shape ==
  /\ DOMAIN registers = Ids /\ DOMAIN oldCopy = Ids /\ DOMAIN newCopy = Ids
  /\ DOMAIN moved = Ids /\ DOMAIN snap = Ids /\ DOMAIN during = Ids
  /\ DOMAIN collects = Ids
  /\ registers = [t \in Ids |-> registers[t]]
  /\ oldCopy = [t \in Ids |-> oldCopy[t]] /\ newCopy = [t \in Ids |-> newCopy[t]]
  /\ moved = [t \in Ids |-> moved[t]] /\ snap = [t \in Ids |-> snap[t]]
  /\ during = [t \in Ids |-> during[t]] /\ collects = [t \in Ids |-> collects[t]]

Functional == Shape /\ pc \in [Ids -> ThreadPC] /\ made \in 0 .. N

-----------------------------------------------------------------------------
(* Steps outside the scan and the store.                                   *)

ScanPC == {"collectOld", "collectNew", "compare", "store"}

Quiet ==
  /\ UNCHANGED <<registers, scanVars>>
  /\ \A t \in Ids : pc'[t] = pc[t] \/ (pc[t] \notin ScanPC /\ pc'[t] \notin ScanPC)

LEMMA QuietSteps ==
  ASSUME Functional, [Next]_vars
  PROVE  \/ Quiet
         \/ \E t \in Ids : \/ LoopBegin(t) \/ CollectOld(t) \/ CollectNew(t)
                           \/ CompareClean(t) \/ CompareSteal(t) \/ CompareAgain(t)
                           \/ StoreRegister(t)
<1>1. CASE ConstructThread
  BY <1>1 DEF ConstructThread, Quiet, ScanPC, scanVars, mainVars, Functional, Ids
<1>2. CASE ConstructRegister \/ MainLock \/ MainStart \/ MainUnlock \/ MainDone
             \/ MainJoin \/ MainSum
  BY <1>2 DEF ConstructRegister, MainLock, MainStart, MainUnlock, MainDone, MainJoin,
              MainSum, Quiet, ScanPC, scanVars, mainVars
<1>3. CASE MainNotify
  BY <1>3 DEF MainNotify, Quiet, ScanPC, scanVars, mainVars, Functional
<1>4. ASSUME NEW t \in Ids, Lock(t) \/ TestStarted(t) \/ LoopEnd(t) \/ CountUpdate(t)
                              \/ SpuriousWakeup(t)
      PROVE  Quiet
  BY <1>4 DEF Lock, TestStarted, LoopEnd, CountUpdate, SpuriousWakeup, Quiet, ScanPC,
              scanVars, mainVars, Functional
<1>5. CASE UNCHANGED vars
  BY <1>5 DEF vars, Quiet, mainVars, scanVars
<1> QED
  BY <1>1, <1>2, <1>3, <1>4, <1>5 DEF Next, MainThread, UpdateThread, Finished

-----------------------------------------------------------------------------
(* What the steps of a thread t change, thread by thread.                  *)

OthersKept(t) ==
  /\ registers' = registers
  /\ \A u \in Ids \ {t} :
       /\ pc'[u] = pc[u] /\ oldCopy'[u] = oldCopy[u] /\ newCopy'[u] = newCopy[u]
       /\ moved'[u] = moved[u] /\ snap'[u] = snap[u] /\ during'[u] = during[u]
       /\ collects'[u] = collects[u]

LEMMA LoopBeginStep ==
  ASSUME Functional, NEW t \in Ids, LoopBegin(t)
  PROVE  /\ OthersKept(t)
         /\ pc[t] = "loop" /\ pc'[t] = "collectOld"
         /\ oldCopy'[t] = <<>> /\ newCopy'[t] = newCopy[t]
         /\ moved'[t] = {} /\ snap'[t] = NoSnap
         /\ during'[t] = {Contents} /\ collects'[t] = 1
BY DEF Functional, Shape, OthersKept, LoopBegin

LEMMA CollectOldStep ==
  ASSUME Functional, NEW t \in Ids, CollectOld(t)
  PROVE  /\ OthersKept(t)
         /\ pc[t] = "collectOld"
         /\ oldCopy'[t] = Append(oldCopy[t], registers[Len(oldCopy[t]) + 1])
         /\ newCopy'[t] = newCopy[t]
         /\ moved'[t] = moved[t] /\ snap'[t] = snap[t] /\ during'[t] = during[t]
         /\ \/ /\ Len(oldCopy'[t]) < N
               /\ pc'[t] = "collectOld" /\ collects'[t] = collects[t]
            \/ /\ ~ (Len(oldCopy'[t]) < N)
               /\ pc'[t] = "collectNew" /\ collects'[t] = collects[t] + 1
BY DEF Functional, Shape, OthersKept, CollectOld

LEMMA CollectNewStep ==
  ASSUME Functional, NEW t \in Ids, CollectNew(t)
  PROVE  /\ OthersKept(t)
         /\ pc[t] = "collectNew"
         /\ oldCopy'[t] = oldCopy[t]
         /\ newCopy'[t] = Append(newCopy[t], registers[Len(newCopy[t]) + 1])
         /\ moved'[t] = moved[t] /\ snap'[t] = snap[t] /\ during'[t] = during[t]
         /\ collects'[t] = collects[t]
         /\ \/ Len(newCopy'[t]) < N /\ pc'[t] = "collectNew"
            \/ ~ (Len(newCopy'[t]) < N) /\ pc'[t] = "compare"
BY DEF Functional, Shape, OthersKept, CollectNew

LEMMA ScanReturnStep ==
  ASSUME Functional, NEW t \in Ids, NEW result, ScanReturn(t, result)
  PROVE  /\ OthersKept(t)
         /\ pc'[t] = "store"
         /\ oldCopy'[t] = <<>> /\ newCopy'[t] = <<>>
         /\ moved'[t] = {} /\ snap'[t] = result /\ during'[t] = during[t]
         /\ collects'[t] = collects[t]
BY DEF Functional, Shape, OthersKept, ScanReturn

LEMMA CompareAgainStep ==
  ASSUME Functional, NEW t \in Ids, CompareAgain(t)
  PROVE  /\ OthersKept(t)
         /\ pc[t] = "compare" /\ pc'[t] = "collectNew"
         /\ MovedIds(t) # {} /\ FirstMoved(t) \notin moved[t]
         /\ oldCopy'[t] = newCopy[t] /\ newCopy'[t] = <<>>
         /\ moved'[t] = moved[t] \cup {FirstMoved(t)}
         /\ snap'[t] = snap[t] /\ during'[t] = during[t]
         /\ collects'[t] = collects[t] + 1
BY DEF Functional, Shape, OthersKept, CompareAgain, MovedBefore

LEMMA StoreStep ==
  ASSUME Functional, NEW t \in Ids, StoreRegister(t)
  PROVE  /\ pc[t] = "store" /\ pc'[t] = "count"
         /\ \A u \in Ids : u # t => pc'[u] = pc[u] /\ registers'[u] = registers[u]
                                    /\ snap'[u] = snap[u]
         /\ \E v \in Values :
              registers'[t] = [label |-> NextLabel(registers[t].label), value |-> v,
                               snap |-> snap[t], clean |-> Uninit \notin Range(snap[t])]
         /\ snap'[t] = NoSnap
         /\ \A u \in Ids : during'[u] = IF Scanning(u) THEN during[u] \cup {Contents'}
                                        ELSE IF u = t THEN {} ELSE during[u]
         /\ UNCHANGED <<oldCopy, newCopy, moved, collects>>
<1>1. PICK v \in Values :
        registers' = [registers EXCEPT ![t] =
          [label |-> NextLabel(@.label), value |-> v, snap |-> snap[t],
           clean |-> Uninit \notin Range(snap[t])]]
  BY DEF StoreRegister
<1>2. registers'[t] = [label |-> NextLabel(registers[t].label), value |-> v,
                       snap |-> snap[t], clean |-> Uninit \notin Range(snap[t])]
      /\ \A u \in Ids : u # t => registers'[u] = registers[u]
  BY <1>1 DEF Functional, Shape
<1>3. /\ pc[t] = "store" /\ pc' = [pc EXCEPT ![t] = "count"]
      /\ snap' = [snap EXCEPT ![t] = NoSnap]
      /\ UNCHANGED <<oldCopy, newCopy, moved, collects>>
  BY DEF StoreRegister
<1>4. during' = [u \in Ids |->
       CASE Scanning(u) -> during[u] \cup {[j \in Ids |-> registers'[j].value]}
         [] u = t       -> {}
         [] OTHER       -> during[u]]
  BY DEF StoreRegister
<1>5. Contents' = [j \in Ids |-> registers'[j].value]
  BY DEF Contents
<1>6. \A u \in Ids : during'[u] = IF Scanning(u) THEN during[u] \cup {Contents'}
                                  ELSE IF u = t THEN {} ELSE during[u]
  <2> TAKE u \in Ids
  <2> DEFINE C == [j \in Ids |-> registers'[j].value]
  <2>1. C = Contents'
    BY <1>5
  <2>2. CASE Scanning(u)
    <3>1. u # t
      BY <1>3, <2>2 DEF Scanning
    <3>2. during'[u] = during[u] \cup {C}
      BY <1>4, <2>2, <3>1
    <3> QED
      BY <2>1, <2>2, <3>2
  <2>3. CASE ~Scanning(u) /\ u = t
    BY <1>4, <2>3
  <2>4. CASE ~Scanning(u) /\ u # t
    BY <1>4, <2>4
  <2> QED
    BY <2>2, <2>3, <2>4
<1>7. /\ pc'[t] = "count" /\ snap'[t] = NoSnap
      /\ \A u \in Ids : u # t => pc'[u] = pc[u] /\ snap'[u] = snap[u]
  BY <1>3 DEF Functional, Shape
<1> QED
  BY <1>2, <1>3, <1>6, <1>7

LEMMA ShapeNext ==
  ASSUME Functional, [Next]_vars
  PROVE  Shape'
<1> USE DEF Functional, Shape
<1>1. ASSUME NEW t \in Ids, LoopBegin(t) PROVE Shape'
  BY <1>1 DEF LoopBegin
<1>2. ASSUME NEW t \in Ids, CollectOld(t) PROVE Shape'
  BY <1>2 DEF CollectOld
<1>3. ASSUME NEW t \in Ids, CollectNew(t) PROVE Shape'
  BY <1>3 DEF CollectNew
<1>4. ASSUME NEW t \in Ids, NEW result, ScanReturn(t, result) PROVE Shape'
  BY <1>4 DEF ScanReturn
<1>5. ASSUME NEW t \in Ids, CompareAgain(t) PROVE Shape'
  BY <1>5 DEF CompareAgain
<1>6. ASSUME NEW t \in Ids, StoreRegister(t) PROVE Shape'
  <2>1. /\ \E r : registers' = [registers EXCEPT ![t] = r]
        /\ snap' = [snap EXCEPT ![t] = NoSnap]
        /\ UNCHANGED <<oldCopy, newCopy, moved, collects>>
    BY <1>6 DEF StoreRegister
  <2>2. during' = [u \in Ids |->
           CASE Scanning(u) -> during[u] \cup {[j \in Ids |-> registers'[j].value]}
             [] u = t       -> {}
             [] OTHER       -> during[u]]
    BY <1>6 DEF StoreRegister
  <2>3. DOMAIN during' = Ids /\ during' = [u \in Ids |-> during'[u]]
    BY <2>2
  <2>4. /\ registers' = [u \in Ids |-> registers'[u]] /\ DOMAIN registers' = Ids
        /\ snap' = [u \in Ids |-> snap'[u]] /\ DOMAIN snap' = Ids
    BY <2>1
  <2> QED
    BY <2>1, <2>3, <2>4
<1>7. CASE Quiet
  BY <1>7 DEF Quiet, scanVars
<1>8. ASSUME NEW t \in Ids, CompareClean(t) \/ CompareSteal(t)
      PROVE  \E result : ScanReturn(t, result)
  BY <1>8 DEF CompareClean, CompareSteal
<1> QED
  BY <1>1, <1>2, <1>3, <1>4, <1>5, <1>6, <1>7, <1>8, QuietSteps

-----------------------------------------------------------------------------
(* First invariant: types, how far the collects are, and which registers   *)
(* still hold the initial value.                                           *)

MainTypes ==
  /\ main \in MainPC /\ made \in 0 .. N /\ owner \in 0 .. N + 1
  /\ is_started \in BOOLEAN /\ is_done \in BOOLEAN
  /\ pc \in [Ids -> ThreadPC]
  /\ update_cnt \in [Ids -> Nat]

TypesOf(t) ==
  /\ oldCopy[t] \in Seq(RecordType) /\ newCopy[t] \in Seq(RecordType)
  /\ moved[t] \in SUBSET Ids
  /\ snap[t] \in SnapType
  /\ during[t] \in SUBSET [Ids -> Values]
  /\ collects[t] \in Nat

LengthsOf(t) ==
  /\ pc[t] = "collectOld" => Len(oldCopy[t]) < N
  /\ pc[t] \in {"collectNew", "compare"} => Len(oldCopy[t]) = N
  /\ pc[t] = "collectNew" => Len(newCopy[t]) < N
  /\ pc[t] = "compare" => Len(newCopy[t]) = N
  /\ pc[t] \notin {"collectOld", "collectNew", "compare"} => oldCopy[t] = <<>>
  /\ pc[t] \notin {"collectNew", "compare"} => newCopy[t] = <<>>

Fresh(x) == x.snap = NullSnap

\* Only the initial value has no snapshot, and a register that has one keeps one.
FreshRegisters == \A i \in Ids : Fresh(registers[i]) => registers[i].label = 0

FreshCopies(t) ==
  \A i \in Ids :
    /\ i <= Len(oldCopy[t]) =>
         /\ Fresh(oldCopy[t][i]) => oldCopy[t][i].label = 0
         /\ Fresh(registers[i]) => Fresh(oldCopy[t][i])
    /\ i <= Len(newCopy[t]) =>
         /\ Fresh(newCopy[t][i]) => newCopy[t][i].label = 0 /\ Fresh(oldCopy[t][i])
         /\ Fresh(registers[i]) => Fresh(newCopy[t][i])

ScanOK(t) == TypesOf(t) /\ LengthsOf(t) /\ FreshCopies(t)

TypeInv ==
  /\ MainTypes
  /\ Shape
  /\ registers \in [Ids -> RecordType]
  /\ FreshRegisters
  /\ \A t \in Ids : ScanOK(t)

LEMMA TypeInvFunctional == TypeInv => Functional
BY DEF TypeInv, Functional, MainTypes

LEMMA TypeInvTypeOK == TypeInv => TypeOK
<1> SUFFICES ASSUME TypeInv PROVE TypeOK
  OBVIOUS
<1>1. Shape /\ \A t \in Ids : TypesOf(t)
  BY DEF TypeInv, ScanOK
<1>2. oldCopy \in [Ids -> Seq(RecordType)]
  BY <1>1 DEF Shape, TypesOf
<1>3. newCopy \in [Ids -> Seq(RecordType)]
  BY <1>1 DEF Shape, TypesOf
<1>4. moved \in [Ids -> SUBSET Ids]
  BY <1>1 DEF Shape, TypesOf
<1>5. snap \in [Ids -> SnapType]
  BY <1>1 DEF Shape, TypesOf
<1>6. collects \in [Ids -> Nat]
  BY <1>1 DEF Shape, TypesOf
<1>7. MainTypes /\ registers \in [Ids -> RecordType]
  BY DEF TypeInv
<1> QED
  BY <1>2, <1>3, <1>4, <1>5, <1>6, <1>7 DEF TypeOK, MainTypes

LEMMA Indexed ==
  ASSUME NEW t \in Ids, ScanOK(t)
  PROVE  /\ Len(oldCopy[t]) \in 0 .. N /\ Len(newCopy[t]) \in 0 .. N
         /\ \A i \in Ids : i <= Len(oldCopy[t]) => oldCopy[t][i] \in RecordType
         /\ \A i \in Ids : i <= Len(newCopy[t]) => newCopy[t][i] \in RecordType
         /\ newCopy[t] # <<>> => Len(oldCopy[t]) = N
         /\ pc[t] = "compare" => \A i \in Ids : oldCopy[t][i] \in RecordType
                                                /\ newCopy[t][i] \in RecordType
<1>1. oldCopy[t] \in Seq(RecordType) /\ newCopy[t] \in Seq(RecordType)
  BY DEF ScanOK, TypesOf
<1>2. Len(oldCopy[t]) \in 0 .. N /\ Len(newCopy[t]) \in 0 .. N
  BY <1>1 DEF ScanOK, LengthsOf
<1>3. /\ \A i \in Ids : i <= Len(oldCopy[t]) => oldCopy[t][i] \in RecordType
      /\ \A i \in Ids : i <= Len(newCopy[t]) => newCopy[t][i] \in RecordType
  BY <1>1, <1>2 DEF Ids
<1>4. newCopy[t] # <<>> => Len(oldCopy[t]) = N
  BY DEF ScanOK, LengthsOf
<1>5. pc[t] = "compare" => Len(oldCopy[t]) = N /\ Len(newCopy[t]) = N
  BY DEF ScanOK, LengthsOf
<1>6. \A i \in Ids : i <= N
  BY DEF Ids
<1> QED
  BY <1>2, <1>3, <1>4, <1>5, <1>6

\* A register that moved during a scan has a snapshot.
LEMMA MovedHasSnap ==
  ASSUME NEW t \in Ids, ScanOK(t), pc[t] = "compare", NEW i \in Ids,
         Moved(oldCopy[t][i], newCopy[t][i])
  PROVE  newCopy[t][i].snap # NullSnap /\ newCopy[t][i].snap \in SnapType
<1>1. newCopy[t][i] \in RecordType
  BY Indexed
<1>2. i <= Len(oldCopy[t]) /\ i <= Len(newCopy[t])
  BY DEF ScanOK, LengthsOf, Ids
<1>3. newCopy[t][i].snap # NullSnap
  BY <1>2 DEF ScanOK, FreshCopies, Moved, Fresh
<1> QED
  BY <1>1, <1>3 DEF RecordType

LEMMA TypeInit == Init => TypeInv
<1> SUFFICES ASSUME Init PROVE TypeInv
  OBVIOUS
<1>1. registers \in [Ids -> RecordType]
  <2>1. InitialValue \in RecordType
    BY DEF InitialValue, RecordType
  <2> QED
    BY <2>1 DEF Init
<1>2. \A t \in Ids : TypesOf(t)
  <2>1. NoSnap \in SnapType
    BY DEF NoSnap, SnapType
  <2> QED
    BY <2>1 DEF Init, TypesOf
<1>3. Shape
  BY DEF Init, Shape
<1>4. MainTypes
  <2>1. main \in MainPC
    BY DEF Init, MainPC
  <2>2. made \in 0 .. N
    BY DEF Init
  <2>3. owner \in 0 .. N + 1
    BY DEF Init
  <2>4. is_started \in BOOLEAN /\ is_done \in BOOLEAN
    BY DEF Init
  <2>5. pc \in [Ids -> ThreadPC] /\ update_cnt \in [Ids -> Nat]
    BY DEF Init, ThreadPC
  <2> QED
    BY <2>1, <2>2, <2>3, <2>4, <2>5 DEF MainTypes
<1>5. \A t \in Ids : LengthsOf(t)
  BY DEF Init, LengthsOf
<1>6. FreshRegisters
  BY DEF Init, FreshRegisters, InitialValue
<1>7. \A t \in Ids : FreshCopies(t)
  BY DEF Init, FreshCopies, Ids
<1> QED
  BY <1>1, <1>2, <1>3, <1>4, <1>5, <1>6, <1>7 DEF TypeInv, ScanOK

LEMMA FlagsNext == TypeInv /\ [Next]_vars => is_started' \in BOOLEAN /\ is_done' \in BOOLEAN
<1> SUFFICES ASSUME TypeInv, [Next]_vars
             PROVE  is_started' \in BOOLEAN /\ is_done' \in BOOLEAN
  OBVIOUS
<1>1. is_started \in BOOLEAN /\ is_done \in BOOLEAN
  BY DEF TypeInv, MainTypes
<1>2. CASE MainStart \/ MainDone
  BY <1>1, <1>2 DEF MainStart, MainDone
<1>3. CASE UNCHANGED <<is_started, is_done>>
  BY <1>1, <1>3
<1>4. ASSUME MainThread PROVE MainStart \/ MainDone \/ UNCHANGED <<is_started, is_done>>
  BY <1>4 DEF MainThread, ConstructThread, ConstructRegister, MainLock, MainNotify,
              MainUnlock, MainJoin, MainSum, mainVars
<1>5. ASSUME NEW t \in Ids, UpdateThread(t) \/ SpuriousWakeup(t)
      PROVE  UNCHANGED <<is_started, is_done>>
  BY <1>5 DEF UpdateThread, Lock, TestStarted, SpuriousWakeup, LoopBegin, LoopEnd,
              CollectOld, CollectNew, CompareClean, CompareSteal, CompareAgain,
              ScanReturn, StoreRegister, CountUpdate, mainVars
<1>6. CASE UNCHANGED vars
  BY <1>3, <1>6 DEF vars, mainVars
<1> QED
  BY <1>2, <1>3, <1>4, <1>5, <1>6 DEF Next, Finished

LEMMA MainTypesNext == TypeInv /\ [Next]_vars => MainTypes'
<1> SUFFICES ASSUME TypeInv, [Next]_vars PROVE MainTypes'
  OBVIOUS
<1> DEFINE Rest == /\ main \in MainPC /\ made \in 0 .. N /\ owner \in 0 .. N + 1
                   /\ pc \in [Ids -> ThreadPC]
                   /\ update_cnt \in [Ids -> Nat]
<1>0. Rest
  BY DEF TypeInv, MainTypes
<1> USE DEF mainVars, scanVars, MainPC, ThreadPC, Ids
<1>1. ASSUME ConstructThread \/ ConstructRegister \/ MainLock \/ MainStart
      PROVE  Rest'
  <2>1. CASE ConstructThread
    BY <1>0, <2>1 DEF ConstructThread
  <2>2. CASE ConstructRegister
    <3>1. made' = made + 1 /\ made < N /\ main' \in {"ctor", "lock"}
      BY <2>2 DEF ConstructRegister
    <3>2. made' \in 0 .. N
      BY <1>0, <3>1
    <3> QED
      BY <1>0, <2>2, <3>1, <3>2 DEF ConstructRegister
  <2>3. CASE MainLock \/ MainStart
    BY <1>0, <2>3 DEF MainLock, MainStart
  <2> QED
    BY <1>1, <2>1, <2>2, <2>3
<1>2. ASSUME MainNotify PROVE Rest'
  BY <1>0, <1>2 DEF MainNotify
<1>3. ASSUME MainUnlock \/ MainDone \/ MainJoin \/ MainSum
      PROVE  Rest'
  <2>1. CASE MainUnlock \/ MainDone \/ MainJoin
    BY <1>0, <2>1 DEF MainUnlock, MainDone, MainJoin
  <2>2. CASE MainSum
    <3>1. main' = "returned" /\ UNCHANGED <<made, owner, pc, update_cnt>>
      BY <2>2 DEF MainSum
    <3> QED
      BY <1>0, <3>1
  <2> QED
    BY <1>3, <2>1, <2>2
<1>4. ASSUME NEW t \in Ids, Lock(t) \/ TestStarted(t) \/ SpuriousWakeup(t)
      PROVE  Rest'
  BY <1>0, <1>4 DEF Lock, TestStarted, SpuriousWakeup
<1>5. ASSUME NEW t \in Ids, LoopBegin(t) \/ LoopEnd(t) \/ CollectOld(t) \/ CollectNew(t)
      PROVE  Rest'
  BY <1>0, <1>5 DEF LoopBegin, LoopEnd, CollectOld, CollectNew
<1>6. ASSUME NEW t \in Ids, CompareClean(t) \/ CompareSteal(t) \/ CompareAgain(t)
      PROVE  Rest'
  BY <1>0, <1>6 DEF CompareClean, CompareSteal, CompareAgain, ScanReturn
<1>7. ASSUME NEW t \in Ids, StoreRegister(t) \/ CountUpdate(t)
      PROVE  Rest'
  <2>1. CASE StoreRegister(t)
    <3>1. UNCHANGED <<mainVars, owner, update_cnt>> /\ pc' = [pc EXCEPT ![t] = "count"]
      BY <2>1 DEF StoreRegister
    <3> QED
      BY <1>0, <3>1
  <2>2. CASE CountUpdate(t)
    BY <1>0, <2>2 DEF CountUpdate
  <2> QED
    BY <1>7, <2>1, <2>2
<1>8. ASSUME UNCHANGED vars PROVE Rest'
  BY <1>0, <1>8 DEF vars
<1>9. Rest'
  <2> HIDE DEF Rest
  <2> QED
    BY <1>1, <1>2, <1>3, <1>4, <1>5, <1>6, <1>7, <1>8, <1>0
       DEF Next, MainThread, UpdateThread, Finished
<1> QED
  BY <1>9, FlagsNext DEF MainTypes

LEMMA ScanOKKept ==
  ASSUME NEW u \in Ids, ScanOK(u), registers' = registers,
         pc'[u] = pc[u] \/ (pc[u] \notin ScanPC /\ pc'[u] \notin ScanPC),
         oldCopy'[u] = oldCopy[u], newCopy'[u] = newCopy[u], moved'[u] = moved[u],
         snap'[u] = snap[u], during'[u] = during[u], collects'[u] = collects[u]
  PROVE  ScanOK(u)'
<1>1. TypesOf(u)'
  BY DEF ScanOK, TypesOf
<1>2. LengthsOf(u)'
  BY DEF ScanOK, LengthsOf, ScanPC
<1>3. FreshCopies(u)'
  BY DEF ScanOK, FreshCopies, Fresh
<1> QED
  BY <1>1, <1>2, <1>3 DEF ScanOK

\* A step of t that keeps the registers has only t's own scan to look after.
LEMMA TypeOwn ==
  ASSUME TypeInv, [Next]_vars, NEW t \in Ids, OthersKept(t), ScanOK(t)'
  PROVE  TypeInv'
<1>1. registers' = registers
  BY DEF OthersKept
<1>2. ASSUME NEW u \in Ids, u # t PROVE ScanOK(u)'
  BY <1>2, ScanOKKept DEF TypeInv, OthersKept
<1>3. MainTypes' /\ Shape'
  BY MainTypesNext, ShapeNext, TypeInvFunctional
<1>4. registers' \in [Ids -> RecordType] /\ FreshRegisters'
  BY <1>1 DEF TypeInv, FreshRegisters, Fresh
<1> QED
  BY <1>2, <1>3, <1>4 DEF TypeInv

LEMMA TypeQuiet ==
  ASSUME TypeInv, [Next]_vars, Quiet
  PROVE  TypeInv'
<1>1. registers' = registers
  BY DEF Quiet
<1>2. ASSUME NEW u \in Ids PROVE ScanOK(u)'
  BY ScanOKKept DEF TypeInv, Quiet, scanVars
<1>3. MainTypes' /\ Shape'
  BY MainTypesNext, ShapeNext, TypeInvFunctional
<1>4. registers' \in [Ids -> RecordType] /\ FreshRegisters'
  BY <1>1 DEF TypeInv, FreshRegisters, Fresh
<1> QED
  BY <1>2, <1>3, <1>4 DEF TypeInv

LEMMA TypeLoopBegin ==
  ASSUME TypeInv, NEW t \in Ids, LoopBegin(t)
  PROVE  ScanOK(t)'
<1> USE TypeInvFunctional, LoopBeginStep
<1>1. ScanOK(t) /\ newCopy[t] = <<>>
  BY DEF TypeInv, ScanOK, LengthsOf
<1>2. TypesOf(t)'
  <2>1. NoSnap \in SnapType
    BY DEF NoSnap, SnapType
  <2>2. Contents \in [Ids -> Values]
    BY DEF TypeInv, Contents, RecordType
  <2>3. oldCopy'[t] \in Seq(RecordType) /\ newCopy'[t] \in Seq(RecordType)
    BY <1>1, <2>1, <2>2 DEF ScanOK, TypesOf
  <2>4. moved'[t] \in SUBSET Ids /\ collects'[t] \in Nat
    BY <1>1, <2>1, <2>2 DEF ScanOK, TypesOf
  <2>5. snap'[t] \in SnapType
    BY <1>1, <2>1, <2>2 DEF ScanOK, TypesOf
  <2>6. during'[t] \in SUBSET [Ids -> Values]
    BY <1>1, <2>1, <2>2 DEF ScanOK, TypesOf
  <2> QED
    BY <2>3, <2>4, <2>5, <2>6 DEF TypesOf
<1>3. LengthsOf(t)'
  BY <1>1 DEF LengthsOf
<1>4. FreshCopies(t)'
  BY <1>1 DEF FreshCopies, Ids
<1> QED
  BY <1>2, <1>3, <1>4 DEF ScanOK

\* One more register has been read.
LEMMA AppendRegister ==
  ASSUME TypeInv, NEW copy \in Seq(RecordType), Len(copy) < N
  PROVE  LET more == Append(copy, registers[Len(copy) + 1])
         IN  /\ Len(copy) \in Nat /\ Len(copy) + 1 \in Ids
             /\ more \in Seq(RecordType) /\ Len(more) = Len(copy) + 1
             /\ \A j \in Ids : j <= Len(copy) => more[j] = copy[j]
             /\ more[Len(copy) + 1] = registers[Len(copy) + 1]
<1>1. Len(copy) \in Nat /\ Len(copy) + 1 \in Ids
  BY DEF Ids
<1>2. registers[Len(copy) + 1] \in RecordType
  BY <1>1 DEF TypeInv
<1>3. \A j \in Ids : j <= Len(copy) => j \in 1 .. Len(copy)
  BY <1>1 DEF Ids
<1> QED
  BY <1>1, <1>2, <1>3, AppendProperties

\* CollectOld reads the next register.
LEMMA CollectOldReads ==
  ASSUME TypeInv, NEW t \in Ids, CollectOld(t), NEW n, n = Len(oldCopy[t])
  PROVE  /\ n \in Nat /\ n < N /\ n + 1 \in Ids
         /\ oldCopy'[t] \in Seq(RecordType) /\ Len(oldCopy'[t]) = n + 1
         /\ \A j \in Ids : j <= n => oldCopy'[t][j] = oldCopy[t][j]
         /\ oldCopy'[t][n + 1] = registers[n + 1]
         /\ newCopy[t] = <<>>
<1> DEFINE copy == oldCopy[t]
           more == oldCopy'[t]
<1>1. /\ copy \in Seq(RecordType) /\ Len(copy) < N
      /\ more = Append(copy, registers[Len(copy) + 1])
  BY TypeInvFunctional, CollectOldStep DEF TypeInv, ScanOK, TypesOf, LengthsOf
<1>2. Len(copy) = n /\ newCopy[t] = <<>>
  BY TypeInvFunctional, CollectOldStep DEF TypeInv, ScanOK, LengthsOf
<1> HIDE DEF copy, more
<1>3. /\ Len(copy) \in Nat /\ Len(copy) + 1 \in Ids
      /\ more \in Seq(RecordType) /\ Len(more) = Len(copy) + 1
      /\ \A j \in Ids : j <= Len(copy) => more[j] = copy[j]
      /\ more[Len(copy) + 1] = registers[Len(copy) + 1]
  BY <1>1, AppendRegister
<1> QED
  BY <1>1, <1>2, <1>3 DEF copy, more

LEMMA TypeCollectOld ==
  ASSUME TypeInv, NEW t \in Ids, CollectOld(t)
  PROVE  ScanOK(t)'
<1> USE TypeInvFunctional, CollectOldStep
<1> DEFINE n == Len(oldCopy[t])
<1>1. ScanOK(t) /\ oldCopy[t] \in Seq(RecordType) /\ newCopy[t] = <<>>
  BY CollectOldReads DEF TypeInv, ScanOK, TypesOf
<1>2. /\ n \in Nat /\ n < N /\ n + 1 \in Ids
      /\ oldCopy'[t] \in Seq(RecordType) /\ Len(oldCopy'[t]) = n + 1
      /\ \A j \in Ids : j <= n => oldCopy'[t][j] = oldCopy[t][j]
      /\ oldCopy'[t][n + 1] = registers[n + 1]
  BY CollectOldReads
<1> HIDE DEF n
<1>3. TypesOf(t)'
  <2>3. oldCopy'[t] \in Seq(RecordType) /\ newCopy'[t] \in Seq(RecordType)
    BY <1>1, <1>2 DEF ScanOK, TypesOf
  <2>4. moved'[t] \in SUBSET Ids /\ collects'[t] \in Nat
    BY <1>1, <1>2 DEF ScanOK, TypesOf
  <2>5. snap'[t] \in SnapType
    BY <1>1, <1>2 DEF ScanOK, TypesOf
  <2>6. during'[t] \in SUBSET [Ids -> Values]
    BY <1>1, <1>2 DEF ScanOK, TypesOf
  <2> QED
    BY <2>3, <2>4, <2>5, <2>6 DEF TypesOf
<1>4. LengthsOf(t)'
  <2>1. n + 1 < N \/ n + 1 = N
    BY <1>1, <1>2
  <2> QED
    BY <1>1, <1>2, <2>1 DEF LengthsOf, Ids
<1>5. FreshCopies(t)'
  <2> SUFFICES ASSUME NEW i \in Ids, i <= n + 1
               PROVE  /\ Fresh(oldCopy'[t][i]) => oldCopy'[t][i].label = 0
                      /\ Fresh(registers[i]) => Fresh(oldCopy'[t][i])
    BY <1>1, <1>2 DEF FreshCopies, OthersKept, Fresh, Ids
  <2>1. i <= n \/ i = n + 1
    BY <1>2 DEF Ids
  <2> QED
    BY <1>1, <1>2, <2>1 DEF ScanOK, FreshCopies, TypeInv, FreshRegisters, n
<1> QED
  BY <1>3, <1>4, <1>5 DEF ScanOK

\* CollectNew reads the next register.
LEMMA CollectNewReads ==
  ASSUME TypeInv, NEW t \in Ids, CollectNew(t), NEW n, n = Len(newCopy[t])
  PROVE  /\ n \in Nat /\ n < N /\ n + 1 \in Ids
         /\ newCopy'[t] \in Seq(RecordType) /\ Len(newCopy'[t]) = n + 1
         /\ \A j \in Ids : j <= n => newCopy'[t][j] = newCopy[t][j]
         /\ newCopy'[t][n + 1] = registers[n + 1]
         /\ Len(oldCopy[t]) = N
<1> DEFINE copy == newCopy[t]
           more == newCopy'[t]
<1>1. /\ copy \in Seq(RecordType) /\ Len(copy) < N
      /\ more = Append(copy, registers[Len(copy) + 1])
  BY TypeInvFunctional, CollectNewStep DEF TypeInv, ScanOK, TypesOf, LengthsOf
<1>2. Len(copy) = n /\ Len(oldCopy[t]) = N
  BY TypeInvFunctional, CollectNewStep DEF TypeInv, ScanOK, LengthsOf
<1> HIDE DEF copy, more
<1>3. /\ Len(copy) \in Nat /\ Len(copy) + 1 \in Ids
      /\ more \in Seq(RecordType) /\ Len(more) = Len(copy) + 1
      /\ \A j \in Ids : j <= Len(copy) => more[j] = copy[j]
      /\ more[Len(copy) + 1] = registers[Len(copy) + 1]
  BY <1>1, AppendRegister
<1> QED
  BY <1>1, <1>2, <1>3 DEF copy, more

LEMMA TypeCollectNew ==
  ASSUME TypeInv, NEW t \in Ids, CollectNew(t)
  PROVE  ScanOK(t)'
<1> USE TypeInvFunctional, CollectNewStep
<1> DEFINE n == Len(newCopy[t])
<1>1. ScanOK(t) /\ newCopy[t] \in Seq(RecordType) /\ Len(oldCopy[t]) = N
  BY CollectNewReads DEF TypeInv, ScanOK, TypesOf
<1>2. /\ n \in Nat /\ n < N /\ n + 1 \in Ids
      /\ newCopy'[t] \in Seq(RecordType) /\ Len(newCopy'[t]) = n + 1
      /\ \A j \in Ids : j <= n => newCopy'[t][j] = newCopy[t][j]
      /\ newCopy'[t][n + 1] = registers[n + 1]
  BY CollectNewReads
<1> HIDE DEF n
<1>3. TypesOf(t)'
  BY <1>1, <1>2 DEF ScanOK, TypesOf
<1>4. LengthsOf(t)'
  <2>1. n + 1 < N \/ n + 1 = N
    BY <1>1, <1>2
  <2> QED
    BY <1>1, <1>2, <2>1 DEF LengthsOf, Ids
<1>5. FreshCopies(t)'
  <2>1. \A i \in Ids : i <= Len(oldCopy[t])
    BY <1>1 DEF Ids
  <2> SUFFICES ASSUME NEW i \in Ids, i <= n + 1
               PROVE  /\ Fresh(newCopy'[t][i]) =>
                           newCopy'[t][i].label = 0 /\ Fresh(oldCopy[t][i])
                      /\ Fresh(registers[i]) => Fresh(newCopy'[t][i])
    BY <1>1, <1>2, <2>1 DEF ScanOK, FreshCopies, OthersKept, Fresh
  <2>2. i <= n \/ i = n + 1
    BY <1>2 DEF Ids
  <2> QED
    BY <1>1, <1>2, <2>1, <2>2 DEF ScanOK, FreshCopies, TypeInv, FreshRegisters, n
<1> QED
  BY <1>3, <1>4, <1>5 DEF ScanOK

LEMMA TypeScanReturn ==
  ASSUME TypeInv, NEW t \in Ids, NEW result \in SnapType, ScanReturn(t, result)
  PROVE  ScanOK(t)'
<1> USE TypeInvFunctional, ScanReturnStep
<1>0. ScanOK(t)
  BY DEF TypeInv
<1>1. TypesOf(t)'
  <2>2. <<>> \in Seq(RecordType)
    OBVIOUS
  <2>3. oldCopy'[t] \in Seq(RecordType) /\ newCopy'[t] \in Seq(RecordType)
    BY <1>0, <2>2 DEF ScanOK, TypesOf
  <2>4. moved'[t] \in SUBSET Ids /\ collects'[t] \in Nat
    BY <1>0 DEF ScanOK, TypesOf
  <2>5. snap'[t] \in SnapType
    BY <1>0 DEF ScanOK, TypesOf
  <2>6. during'[t] \in SUBSET [Ids -> Values]
    BY <1>0 DEF ScanOK, TypesOf
  <2> QED
    BY <2>3, <2>4, <2>5, <2>6 DEF TypesOf
<1>2. LengthsOf(t)'
  BY DEF LengthsOf
<1>3. FreshCopies(t)'
  BY DEF FreshCopies, Ids
<1> QED
  BY <1>1, <1>2, <1>3 DEF ScanOK

LEMMA TypeCompareClean ==
  ASSUME TypeInv, NEW t \in Ids, CompareClean(t)
  PROVE  ScanOK(t)'
<1>1. pc[t] = "compare" /\ ScanReturn(t, [j \in Ids |-> newCopy[t][j].value])
  BY DEF CompareClean
<1>2. \A j \in Ids : newCopy[t][j].value \in Values
  BY <1>1, Indexed DEF RecordType, TypeInv
<1>3. [j \in Ids |-> newCopy[t][j].value] \in SnapType
  BY <1>2 DEF SnapType
<1> QED
  BY <1>1, <1>3, TypeScanReturn

LEMMA TypeCompareSteal ==
  ASSUME TypeInv, NEW t \in Ids, CompareSteal(t)
  PROVE  ScanOK(t)'
<1> DEFINE i == FirstMoved(t)
<1>1. pc[t] = "compare" /\ MovedIds(t) # {} /\ ScanReturn(t, Stolen(newCopy[t][i], i))
  BY DEF CompareSteal
<1>2. i \in Ids /\ newCopy[t][i].snap \in SnapType
  BY <1>1, FirstMovedIn, MovedHasSnap DEF TypeInv
<1>3. Stolen(newCopy[t][i], i) \in SnapType
  <2>1. N \in Ids
    BY DEF Ids
  <2> QED
    BY <1>2, <2>1 DEF Stolen, NoSnap, SnapType
<1> QED
  BY <1>1, <1>3, TypeScanReturn

LEMMA TypeCompareAgain ==
  ASSUME TypeInv, NEW t \in Ids, CompareAgain(t)
  PROVE  ScanOK(t)'
<1> USE TypeInvFunctional, CompareAgainStep
<1>1. ScanOK(t) /\ FirstMoved(t) \in Ids
  BY FirstMovedIn DEF TypeInv
<1>2. Len(oldCopy[t]) = N /\ Len(newCopy[t]) = N
  BY <1>1 DEF ScanOK, LengthsOf
<1>3. TypesOf(t)'
  <2>2. <<>> \in Seq(RecordType)
    OBVIOUS
  <2>3. oldCopy'[t] \in Seq(RecordType) /\ newCopy'[t] \in Seq(RecordType)
    BY <1>1, <2>2 DEF ScanOK, TypesOf
  <2>4. moved'[t] \in SUBSET Ids /\ collects'[t] \in Nat
    BY <1>1 DEF ScanOK, TypesOf
  <2>5. snap'[t] \in SnapType
    BY <1>1 DEF ScanOK, TypesOf
  <2>6. during'[t] \in SUBSET [Ids -> Values]
    BY <1>1 DEF ScanOK, TypesOf
  <2> QED
    BY <2>3, <2>4, <2>5, <2>6 DEF TypesOf
<1>4. LengthsOf(t)'
  BY <1>2 DEF LengthsOf
<1>5. FreshCopies(t)'
  <2>1. \A i \in Ids : i <= Len(oldCopy[t]) /\ i <= Len(newCopy[t]) /\ ~ (i <= 0)
    BY <1>2 DEF Ids
  <2> QED
    BY <1>1, <2>1 DEF ScanOK, FreshCopies, OthersKept, Fresh
<1> QED
  BY <1>3, <1>4, <1>5 DEF ScanOK

LEMMA StoredRecord ==
  ASSUME TypeInv, NEW t \in Ids, StoreRegister(t)
  PROVE  /\ registers'[t] \in RecordType
         /\ registers'[t].label = NextLabel(registers[t].label)
         /\ registers'[t].snap = snap[t] /\ ~Fresh(registers'[t])
         /\ registers'[t].clean => Uninit \notin Range(snap[t])
<1>1. registers[t] \in RecordType /\ snap[t] \in SnapType
  BY DEF TypeInv, ScanOK, TypesOf
<1>2. PICK v \in Values :
        registers'[t] = [label |-> NextLabel(registers[t].label), value |-> v,
                         snap |-> snap[t], clean |-> Uninit \notin Range(snap[t])]
  BY TypeInvFunctional, StoreStep
<1>3. NextLabel(registers[t].label) \in 0 .. LabelPeriod - 1
  BY <1>1, NextLabelType DEF RecordType
<1>4. (Uninit \notin Range(snap[t])) \in BOOLEAN
  OBVIOUS
<1>5. registers'[t] \in RecordType
  BY <1>1, <1>2, <1>3, <1>4 DEF RecordType
<1>6. ~Fresh(registers'[t])
  BY <1>1, <1>2 DEF Fresh, SnapType, Ids
<1>7. registers'[t].clean => Uninit \notin Range(snap[t])
  <2> DEFINE c == Uninit \notin Range(snap[t])
  <2>1. registers'[t] = [label |-> NextLabel(registers[t].label), value |-> v,
                         snap |-> snap[t], clean |-> c]
    BY <1>2
  <2> HIDE DEF c
  <2>2. registers'[t].clean = c
    BY <2>1
  <2>3. registers'[t].clean => c
    BY <2>2
  <2> QED
    BY <2>3 DEF c
<1> QED
  BY <1>2, <1>5, <1>6, <1>7

LEMMA TypeStore ==
  ASSUME TypeInv, [Next]_vars, NEW t \in Ids, StoreRegister(t)
  PROVE  TypeInv'
<1> USE TypeInvFunctional, StoreStep, StoredRecord
<1>1. MainTypes' /\ Shape'
  BY MainTypesNext, ShapeNext
<1>2. registers' \in [Ids -> RecordType]
  <2>1. \A u \in Ids : registers'[u] \in RecordType
    BY DEF TypeInv
  <2> QED
    BY <1>1, <2>1 DEF Shape
<1>3. FreshRegisters'
  BY DEF TypeInv, FreshRegisters, Fresh
<1>4. \A u \in Ids : TypesOf(u)'
  <2>1. NoSnap \in SnapType
    BY DEF NoSnap, SnapType
  <2>2. Contents' \in [Ids -> Values]
    BY <1>2 DEF Contents, RecordType
  <2> TAKE u \in Ids
  <2>3. ScanOK(u)
    BY DEF TypeInv
  <2>4. snap'[u] \in SnapType
    BY <2>1, <2>3 DEF ScanOK, TypesOf
  <2>5. during'[u] \in SUBSET [Ids -> Values]
    <3>1. during[u] \in SUBSET [Ids -> Values]
      BY <2>3 DEF ScanOK, TypesOf
    <3>2. during'[u] \in {during[u] \cup {Contents'}, {}, during[u]}
      OBVIOUS
    <3> QED
      BY <2>2, <3>1, <3>2
  <2> QED
    BY <2>3, <2>4, <2>5 DEF ScanOK, TypesOf
<1>5. \A u \in Ids : LengthsOf(u)'
  BY DEF TypeInv, ScanOK, LengthsOf
<1>6. \A u \in Ids : FreshCopies(u)'
  BY DEF TypeInv, ScanOK, FreshCopies, Fresh
<1> QED
  BY <1>1, <1>2, <1>3, <1>4, <1>5, <1>6 DEF TypeInv, ScanOK

LEMMA TypeNext == TypeInv /\ [Next]_vars => TypeInv'
<1> SUFFICES ASSUME TypeInv, [Next]_vars PROVE TypeInv'
  OBVIOUS
<1>1. CASE Quiet
  BY <1>1, TypeQuiet
<1>2. ASSUME NEW t \in Ids, StoreRegister(t) PROVE TypeInv'
  BY <1>2, TypeStore
<1>3. ASSUME NEW t \in Ids, CompareClean(t) \/ CompareSteal(t) PROVE OthersKept(t)
  BY <1>3, TypeInvFunctional, ScanReturnStep DEF CompareClean, CompareSteal
<1>4. ASSUME NEW t \in Ids,
             LoopBegin(t) \/ CollectOld(t) \/ CollectNew(t) \/ CompareClean(t)
               \/ CompareSteal(t) \/ CompareAgain(t)
      PROVE  TypeInv'
  <2>1. OthersKept(t)
    BY <1>3, <1>4, TypeInvFunctional, LoopBeginStep, CollectOldStep, CollectNewStep,
       CompareAgainStep
  <2>2. ScanOK(t)'
    BY <1>4, TypeLoopBegin, TypeCollectOld, TypeCollectNew, TypeCompareClean,
       TypeCompareSteal, TypeCompareAgain
  <2> QED
    BY <2>1, <2>2, TypeOwn
<1> QED
  BY <1>1, <1>2, <1>4, QuietSteps, TypeInvFunctional

LEMMA TypeAlways == Spec => []TypeInv
<1>1. Init => TypeInv
  BY TypeInit
<1>2. TypeInv /\ [Next]_vars => TypeInv'
  BY TypeNext
<1> QED
  BY <1>1, <1>2, PTL DEF Spec

\* Every variable of the snapshot object and of its scans has its type; no scan
\* steals the snapshot of a register that has none.
THEOREM SnapshotTypeCorrect == Spec => []TypeOK
<1>1. TypeInv => TypeOK
  BY TypeInvTypeOK
<1> QED
  BY <1>1, TypeAlways, PTL

-----------------------------------------------------------------------------
(* The start gate.                                                         *)

BeforeGate == {"none", "lock", "test", "asleep"}

Gate ==
  /\ main = "ctor" => made < N
  /\ main # "ctor" => made = N
  /\ is_started => main \notin {"ctor", "lock", "start"}
  /\ \A t \in Ids : pc[t] \notin BeforeGate => is_started

LEMMA GateInit == Init => Gate
BY DEF Init, Gate, BeforeGate

LEMMA GateNext == TypeInv /\ Gate /\ [Next]_vars => Gate'
<1> SUFFICES ASSUME TypeInv, Gate, [Next]_vars PROVE Gate'
  OBVIOUS
<1>0. pc \in [Ids -> ThreadPC] /\ made \in 0 .. N
  BY DEF TypeInv, MainTypes
<1> USE DEF Gate, BeforeGate
<1>1. CASE ConstructThread
  BY <1>0, <1>1 DEF ConstructThread, mainVars
<1>2. CASE ConstructRegister
  BY <1>0, <1>2 DEF ConstructRegister
<1>3. CASE MainLock \/ MainStart \/ MainUnlock \/ MainDone \/ MainJoin
  BY <1>3 DEF MainLock, MainStart, MainUnlock, MainDone, MainJoin
<1>4. CASE MainSum
  <2>1. main = "sum" /\ main' = "returned" /\ UNCHANGED <<made, is_started, pc>>
    BY <1>4 DEF MainSum
  <2> QED
    BY <2>1
<1>5. CASE MainNotify
  BY <1>5 DEF MainNotify
<1>6. ASSUME NEW t \in Ids,
             UNCHANGED mainVars, \A u \in Ids : u # t => pc'[u] = pc[u],
             pc[t] \notin BeforeGate \/ pc'[t] \in BeforeGate
      PROVE  Gate'
  BY <1>6 DEF mainVars
<1>7. ASSUME NEW t \in Ids, Lock(t) \/ TestStarted(t) \/ SpuriousWakeup(t) PROVE Gate'
  <2>1. CASE Lock(t) \/ SpuriousWakeup(t)
    BY <1>0, <1>6, <2>1 DEF Lock, SpuriousWakeup
  <2>2. CASE TestStarted(t)
    BY <1>0, <2>2 DEF TestStarted, MayStart, mainVars
  <2> QED
    BY <1>7, <2>1, <2>2
<1>8. ASSUME NEW t \in Ids, LoopBegin(t) \/ LoopEnd(t) \/ CountUpdate(t) PROVE Gate'
  BY <1>0, <1>6, <1>8 DEF LoopBegin, LoopEnd, CountUpdate
<1>9. ASSUME NEW t \in Ids, CollectOld(t) \/ CollectNew(t) PROVE Gate'
  <2>1. /\ UNCHANGED mainVars /\ pc[t] \in {"collectOld", "collectNew"}
        /\ \A u \in Ids : u # t => pc'[u] = pc[u]
    BY <1>0, <1>9 DEF CollectOld, CollectNew
  <2> QED
    BY <1>6, <2>1
<1>10. ASSUME NEW t \in Ids, CompareClean(t) \/ CompareSteal(t) \/ CompareAgain(t)
       PROVE  Gate'
  <2>1. /\ UNCHANGED mainVars /\ pc[t] = "compare"
        /\ \A u \in Ids : u # t => pc'[u] = pc[u]
    BY <1>0, <1>10 DEF CompareClean, CompareSteal, CompareAgain, ScanReturn
  <2> QED
    BY <1>6, <2>1
<1>11. ASSUME NEW t \in Ids, StoreRegister(t) PROVE Gate'
  <2>1. UNCHANGED mainVars /\ pc[t] = "store" /\ pc' = [pc EXCEPT ![t] = "count"]
    BY <1>11 DEF StoreRegister
  <2> QED
    BY <1>0, <1>6, <2>1
<1>12. CASE UNCHANGED vars
  BY <1>12 DEF vars, mainVars
<1> QED
  BY <1>1, <1>2, <1>3, <1>4, <1>5, <1>7, <1>8, <1>9, <1>10, <1>11, <1>12
     DEF Next, MainThread, UpdateThread, Finished

\* The constructor starts the threads before it has made all registers; none of
\* them passes the start gate, and touches a register, before it has.
THEOREM StartGateProtects == Spec => []GateProtectsConstruction
<1>1. Init => Gate
  BY GateInit
<1>2. TypeInv /\ Gate /\ [Next]_vars => Gate'
  BY GateNext
<1>3. Gate => GateProtectsConstruction
  BY DEF Gate, GateProtectsConstruction, BeforeGate
<1> QED
  BY <1>1, <1>2, <1>3, TypeAlways, PTL DEF Spec

-----------------------------------------------------------------------------
(* Wait-freedom: t's own register does not move, every other one once.     *)

OwnRead(t) ==
  /\ t <= Len(oldCopy[t]) => oldCopy[t][t] = registers[t]
  /\ t <= Len(newCopy[t]) => newCopy[t][t] = registers[t]

Bounded(t) ==
  /\ moved[t] \subseteq Ids \ {t}
  /\ collects[t] <= N + 1
  /\ pc[t] = "collectOld" => moved[t] = {} /\ collects[t] = 1
  /\ pc[t] \in {"collectNew", "compare"} => collects[t] = Cardinality(moved[t]) + 2

WaitInv == \A t \in Ids : OwnRead(t) /\ Bounded(t)

LEMMA MovedFew ==
  ASSUME NEW t \in Ids, NEW S, S \subseteq Ids \ {t}
  PROVE  IsFiniteSet(S) /\ Cardinality(S) \in 0 .. N - 1
<1>1. IsFiniteSet(Ids) /\ Cardinality(Ids) = N
  BY FS_Interval DEF Ids
<1>2. IsFiniteSet(Ids \ {t}) /\ Cardinality(Ids \ {t}) = N - 1
  BY <1>1, FS_RemoveElement
<1>3. IsFiniteSet(S) /\ Cardinality(S) <= N - 1
  BY <1>2, FS_Subset
<1> QED
  BY <1>3, FS_CardinalityType

LEMMA WaitInit == Init => WaitInv
<1> SUFFICES ASSUME Init PROVE WaitInv
  OBVIOUS
<1>1. \A t \in Ids : ~ (t <= Len(<<>>))
  BY DEF Ids
<1> QED
  BY <1>1 DEF Init, WaitInv, OwnRead, Bounded

LEMMA OwnDoesNotMove ==
  ASSUME TypeInv, WaitInv, NEW t \in Ids, pc[t] = "compare", MovedIds(t) # {}
  PROVE  FirstMoved(t) \in Ids \ {t}
<1>1. Len(oldCopy[t]) = N /\ Len(newCopy[t]) = N
  BY DEF TypeInv, ScanOK, LengthsOf
<1>2. oldCopy[t][t] = registers[t] /\ newCopy[t][t] = registers[t]
  BY <1>1 DEF WaitInv, OwnRead, Ids
<1> QED
  BY <1>2, FirstMovedIn DEF Moved

LEMMA WaitNext == TypeInv /\ WaitInv /\ [Next]_vars => WaitInv'
<1> SUFFICES ASSUME TypeInv, WaitInv, [Next]_vars PROVE WaitInv'
  OBVIOUS
<1> USE TypeInvFunctional
<1>1. CASE Quiet
  BY <1>1 DEF Quiet, scanVars, ScanPC, WaitInv, OwnRead, Bounded
<1>2. ASSUME NEW t \in Ids, OthersKept(t), OwnRead(t)', Bounded(t)' PROVE WaitInv'
  BY <1>2 DEF OthersKept, WaitInv, OwnRead, Bounded
<1>3. ASSUME NEW t \in Ids, LoopBegin(t) PROVE WaitInv'
  <2> USE <1>3, LoopBeginStep
  <2>1. newCopy[t] = <<>>
    BY DEF TypeInv, ScanOK, LengthsOf
  <2>2. OwnRead(t)'
    BY <2>1 DEF OwnRead, Ids
  <2>3. Bounded(t)'
    BY DEF Bounded
  <2> QED
    BY <1>2, <2>2, <2>3
<1>4. ASSUME NEW t \in Ids, CollectOld(t) PROVE WaitInv'
  <2> USE <1>4, CollectOldStep
  <2> DEFINE n == Len(oldCopy[t])
  <2>1. newCopy[t] = <<>>
    BY CollectOldReads
  <2>2. /\ n \in Nat /\ Len(oldCopy'[t]) = n + 1
        /\ \A j \in Ids : j <= n => oldCopy'[t][j] = oldCopy[t][j]
        /\ oldCopy'[t][n + 1] = registers[n + 1]
    BY CollectOldReads
  <2>3. OwnRead(t)'
    <3>1. t <= n + 1 => oldCopy'[t][t] = registers[t]
      <4>1. t <= n + 1 => t <= n \/ t = n + 1
        BY <2>2 DEF Ids
      <4> QED
        BY <2>2, <4>1 DEF WaitInv, OwnRead
    <3> QED
      BY <2>1, <2>2, <3>1 DEF WaitInv, OwnRead, OthersKept
  <2>4. Bounded(t)'
    <3>1. Cardinality({}) = 0 /\ Bounded(t)
      BY FS_EmptySet DEF WaitInv
    <3>2. moved[t] = {} /\ collects[t] = 1
      BY <3>1 DEF Bounded
    <3>3. moved'[t] = {} /\ collects'[t] \in {1, 2}
          /\ (pc'[t] = "collectOld" => collects'[t] = 1)
          /\ (pc'[t] \in {"collectNew", "compare"} => collects'[t] = 2)
      BY <3>2
    <3> QED
      BY <3>1, <3>3 DEF Bounded
  <2> QED
    BY <1>2, <2>3, <2>4
<1>5. ASSUME NEW t \in Ids, CollectNew(t) PROVE WaitInv'
  <2> USE <1>5, CollectNewStep
  <2> DEFINE n == Len(newCopy[t])
  <2>1. Len(oldCopy[t]) = N
    BY CollectNewReads
  <2>2. /\ n \in Nat /\ Len(newCopy'[t]) = n + 1
        /\ \A j \in Ids : j <= n => newCopy'[t][j] = newCopy[t][j]
        /\ newCopy'[t][n + 1] = registers[n + 1]
    BY CollectNewReads
  <2>3. OwnRead(t)'
    <3>1. t <= n + 1 => newCopy'[t][t] = registers[t]
      <4>1. t <= n + 1 => t <= n \/ t = n + 1
        BY <2>2 DEF Ids
      <4> QED
        BY <2>2, <4>1 DEF WaitInv, OwnRead
    <3> QED
      BY <2>2, <3>1 DEF WaitInv, OwnRead, OthersKept
  <2>4. Bounded(t)'
    BY DEF WaitInv, Bounded
  <2> QED
    BY <1>2, <2>3, <2>4
<1>6. ASSUME NEW t \in Ids, NEW result, ScanReturn(t, result) PROVE WaitInv'
  <2> USE <1>6, ScanReturnStep
  <2>1. OwnRead(t)'
    BY DEF OwnRead, Ids
  <2>2. Bounded(t)'
    BY DEF WaitInv, Bounded
  <2> QED
    BY <1>2, <2>1, <2>2
<1>7. ASSUME NEW t \in Ids, CompareAgain(t) PROVE WaitInv'
  <2> USE <1>7, CompareAgainStep
  <2>1. FirstMoved(t) \in Ids \ {t}
    BY OwnDoesNotMove
  <2>2. OwnRead(t)'
    <3>1. Len(newCopy[t]) = N /\ ~ (t <= Len(<<>>)) /\ t <= N
      BY DEF TypeInv, ScanOK, LengthsOf, Ids
    <3> QED
      BY <3>1 DEF WaitInv, OwnRead, OthersKept
  <2>3. Bounded(t)'
    <3>1. moved[t] \subseteq Ids \ {t} /\ moved'[t] \subseteq Ids \ {t}
      BY <2>1 DEF WaitInv, Bounded
    <3>2. IsFiniteSet(moved[t]) /\ Cardinality(moved'[t]) \in 0 .. N - 1
      BY <3>1, MovedFew
    <3>3. Cardinality(moved'[t]) = Cardinality(moved[t]) + 1
      BY <3>2, FS_AddElement
    <3>4. collects[t] = Cardinality(moved[t]) + 2 /\ Cardinality(moved[t]) \in Nat
      BY <3>2, FS_CardinalityType DEF WaitInv, Bounded
    <3>5. collects'[t] = Cardinality(moved'[t]) + 2 /\ collects'[t] <= N + 1
      BY <3>2, <3>3, <3>4
    <3> QED
      BY <3>1, <3>5 DEF Bounded
  <2> QED
    BY <1>2, <2>2, <2>3
<1>8. ASSUME NEW t \in Ids, StoreRegister(t) PROVE WaitInv'
  <2> USE <1>8, StoreStep
  <2>1. oldCopy[t] = <<>> /\ newCopy[t] = <<>>
    BY DEF TypeInv, ScanOK, LengthsOf
  <2>2. \A u \in Ids : OwnRead(u)'
    BY <2>1 DEF WaitInv, OwnRead, Ids
  <2>3. \A u \in Ids : Bounded(u)'
    BY DEF WaitInv, Bounded
  <2> QED
    BY <2>2, <2>3 DEF WaitInv
<1>9. ASSUME NEW t \in Ids, CompareClean(t) \/ CompareSteal(t) PROVE WaitInv'
  BY <1>6, <1>9 DEF CompareClean, CompareSteal
<1> QED
  BY <1>1, <1>3, <1>4, <1>5, <1>7, <1>8, <1>9, QuietSteps

LEMMA WaitAlways == Spec => []WaitInv
<1>1. Init => WaitInv
  BY WaitInit
<1>2. TypeInv /\ WaitInv /\ [Next]_vars => WaitInv'
  BY WaitNext
<1> QED
  BY <1>1, <1>2, TypeAlways, PTL DEF Spec

\* However many threads there are and whatever they do, no scan makes more than
\* N + 1 collects.
THEOREM ScanIsWaitFree == Spec => []WaitFree
<1>1. WaitInv => WaitFree
  BY DEF WaitInv, Bounded, WaitFree
<1> QED
  BY <1>1, WaitAlways, PTL

-----------------------------------------------------------------------------
(* Clean scans.  As long as no label wraps around, equal labels are equal  *)
(* records, and a register only moves forward.                             *)

NoWrap == \A i \in Ids : registers[i].label < LabelPeriod - 1

Before(x, y) == x.label < y.label \/ x = y

LEMMA BeforeTransitive ==
  ASSUME NEW x \in RecordType, NEW y \in RecordType, NEW z \in RecordType,
         Before(x, y), Before(y, z)
  PROVE  Before(x, z)
<1>1. x.label \in Int /\ y.label \in Int /\ z.label \in Int
  BY DEF RecordType
<1> QED
  BY <1>1 DEF Before

LEMMA BeforeBoth ==
  ASSUME NEW x \in RecordType, NEW y \in RecordType, NEW z \in RecordType,
         Before(x, y), Before(y, z), x.label = z.label
  PROVE  x = y /\ y = z
<1>1. x.label \in Int /\ y.label \in Int /\ z.label \in Int
  BY DEF RecordType
<1> QED
  BY <1>1 DEF Before

LEMMA RegistersAdvance ==
  ASSUME TypeInv, NoWrap, NEW t \in Ids, StoreRegister(t)
  PROVE  /\ \A i \in Ids : Before(registers[i], registers'[i])
         /\ registers'[t].label = registers[t].label + 1
<1>1. registers[t].label \in 0 .. LabelPeriod - 1 /\ registers[t].label < LabelPeriod - 1
  BY DEF TypeInv, RecordType, NoWrap
<1>2. registers'[t].label = registers[t].label + 1
  BY <1>1, StoredRecord, NextLabelType
<1>3. \A i \in Ids : i # t => registers'[i] = registers[i]
  BY TypeInvFunctional, StoreStep
<1> QED
  BY <1>1, <1>2, <1>3 DEF Before

ValuesOf(R) == [j \in Ids |-> R[j].value]

Ordered(t) ==
  \A i \in Ids :
    /\ i <= Len(oldCopy[t]) => Before(oldCopy[t][i], registers[i])
    /\ i <= Len(newCopy[t]) => /\ Before(oldCopy[t][i], newCopy[t][i])
                               /\ Before(newCopy[t][i], registers[i])

Present(t) == pc[t] \in {"collectOld", "collectNew", "compare"} => Contents \in during[t]

\* Between the two collects the registers held R all at once.
Between(t, R) ==
  /\ ValuesOf(R) \in during[t]
  /\ \A i \in Ids : /\ Before(oldCopy[t][i], R[i])
                    /\ Before(R[i], registers[i])
                    /\ i <= Len(newCopy[t]) => Before(R[i], newCopy[t][i])

Instant(t) ==
  pc[t] \in {"collectNew", "compare"} => \E R \in [Ids -> RecordType] : Between(t, R)

CleanReturn(t) == pc[t] = "store" /\ Uninit \notin Range(snap[t]) => snap[t] \in during[t]

OrderOf(t) == Ordered(t) /\ Present(t) /\ Instant(t) /\ CleanReturn(t)
OrderInv   == \A t \in Ids : OrderOf(t)

LEMMA OrderInit == Init => OrderInv
<1> SUFFICES ASSUME Init PROVE OrderInv
  OBVIOUS
<1>1. \A i \in Ids : ~ (i <= Len(<<>>))
  BY DEF Ids
<1> QED
  BY <1>1 DEF Init, OrderInv, OrderOf, Ordered, Present, Instant, CleanReturn

LEMMA OrderOfKept ==
  ASSUME NEW u \in Ids, OrderOf(u), registers' = registers,
         pc'[u] = pc[u] \/ (pc[u] \notin ScanPC /\ pc'[u] \notin ScanPC),
         oldCopy'[u] = oldCopy[u], newCopy'[u] = newCopy[u],
         snap'[u] = snap[u], during'[u] = during[u]
  PROVE  OrderOf(u)'
<1> USE DEF OrderOf
<1>1. Ordered(u)'
  BY DEF Ordered, Before
<1>2. Present(u)'
  BY DEF Present, Contents, ScanPC
<1>3. Instant(u)'
  <2> SUFFICES ASSUME pc[u] \in {"collectNew", "compare"}
               PROVE  \E R \in [Ids -> RecordType] : Between(u, R)'
    BY DEF Instant, ScanPC
  <2>1. PICK R \in [Ids -> RecordType] : Between(u, R)
    BY DEF Instant
  <2>2. Between(u, R)'
    BY <2>1 DEF Between, Before, ValuesOf
  <2> QED
    BY <2>2
<1>4. CleanReturn(u)'
  BY DEF CleanReturn, ScanPC
<1> QED
  BY <1>1, <1>2, <1>3, <1>4

LEMMA OrderOwn ==
  ASSUME OrderInv, NEW t \in Ids, OthersKept(t), OrderOf(t)'
  PROVE  OrderInv'
<1>1. ASSUME NEW u \in Ids, u # t PROVE OrderOf(u)'
  BY <1>1, OrderOfKept DEF OrderInv, OthersKept
<1> QED
  BY <1>1 DEF OrderInv

LEMMA OrderLoopBegin ==
  ASSUME TypeInv, OrderInv, NEW t \in Ids, LoopBegin(t)
  PROVE  OrderOf(t)'
<1> USE TypeInvFunctional, LoopBeginStep
<1>1. newCopy[t] = <<>> /\ \A i \in Ids : ~ (i <= Len(<<>>))
  BY DEF TypeInv, ScanOK, LengthsOf, Ids
<1>2. Ordered(t)'
  BY <1>1 DEF Ordered
<1>3. Present(t)'
  BY DEF Present, Contents, OthersKept
<1>4. Instant(t)' /\ CleanReturn(t)'
  BY DEF Instant, CleanReturn
<1> QED
  BY <1>2, <1>3, <1>4 DEF OrderOf

\* A collect read now is the registers themselves: R is what they hold.
LEMMA InstantNow ==
  ASSUME TypeInv, NEW t \in Ids, registers' = registers, during'[t] = during[t],
         Contents \in during[t], newCopy'[t] = <<>>,
         \A i \in Ids : Before(oldCopy'[t][i], registers[i])
  PROVE  Instant(t)'
<1>1. registers \in [Ids -> RecordType]
  BY DEF TypeInv
<1>2. ValuesOf(registers) \in during[t]
  BY DEF ValuesOf, Contents
<1>3. \A i \in Ids : ~ (i <= Len(<<>>))
  BY DEF Ids
<1>4. Between(t, registers)'
  BY <1>2, <1>3 DEF Between, Before, ValuesOf
<1> QED
  BY <1>1, <1>4 DEF Instant

LEMMA OrderCollectOld ==
  ASSUME TypeInv, OrderInv, NEW t \in Ids, CollectOld(t)
  PROVE  OrderOf(t)'
<1> DEFINE n == Len(oldCopy[t])
<1>1. /\ n \in Nat /\ n < N /\ Len(oldCopy'[t]) = n + 1 /\ newCopy[t] = <<>>
      /\ \A j \in Ids : j <= n => oldCopy'[t][j] = oldCopy[t][j]
      /\ oldCopy'[t][n + 1] = registers[n + 1]
  BY CollectOldReads
<1> USE TypeInvFunctional, CollectOldStep
<1>2. registers' = registers /\ newCopy'[t] = <<>> /\ during'[t] = during[t]
  BY <1>1 DEF OthersKept
<1>3. \A i \in Ids : i <= n + 1 => Before(oldCopy'[t][i], registers[i])
  <2> TAKE i \in Ids
  <2>1. i <= n + 1 => i <= n \/ i = n + 1
    BY <1>1 DEF Ids
  <2> QED
    BY <1>1, <2>1 DEF OrderInv, OrderOf, Ordered, Before
<1>4. \A i \in Ids : ~ (i <= Len(<<>>))
  BY DEF Ids
<1>5. Ordered(t)'
  BY <1>1, <1>2, <1>3, <1>4 DEF Ordered
<1>6. Contents \in during[t] /\ Contents' = Contents
  BY <1>2 DEF OrderInv, OrderOf, Present, Contents
<1>7. Present(t)'
  BY <1>2, <1>6 DEF Present
<1>8. Instant(t)'
  <2>1. CASE pc'[t] = "collectOld"
    BY <2>1 DEF Instant
  <2>2. CASE pc'[t] # "collectOld"
    <3>1. n + 1 = N
      BY <1>1, <2>2
    <3>2. \A i \in Ids : Before(oldCopy'[t][i], registers[i])
      BY <1>3, <3>1 DEF Ids
    <3> QED
      BY <1>2, <1>6, <3>2, InstantNow
  <2> QED
    BY <2>1, <2>2
<1>9. CleanReturn(t)'
  BY DEF CleanReturn
<1> QED
  BY <1>5, <1>7, <1>8, <1>9 DEF OrderOf

LEMMA OrderCollectNew ==
  ASSUME TypeInv, OrderInv, NEW t \in Ids, CollectNew(t)
  PROVE  OrderOf(t)'
<1> DEFINE n == Len(newCopy[t])
<1>1. /\ n \in Nat /\ n < N /\ Len(newCopy'[t]) = n + 1 /\ Len(oldCopy[t]) = N
      /\ \A j \in Ids : j <= n => newCopy'[t][j] = newCopy[t][j]
      /\ newCopy'[t][n + 1] = registers[n + 1]
  BY CollectNewReads
<1> USE TypeInvFunctional, CollectNewStep
<1>2. registers' = registers /\ oldCopy'[t] = oldCopy[t] /\ during'[t] = during[t]
  BY DEF OthersKept
<1>3. OrderOf(t)
  BY DEF OrderInv
<1>4. \A i \in Ids : i <= Len(oldCopy[t]) /\ (i <= n + 1 => i <= n \/ i = n + 1)
  BY <1>1 DEF Ids
<1>5. Ordered(t)'
  <2> SUFFICES ASSUME NEW i \in Ids, i <= n + 1
               PROVE  Before(oldCopy[t][i], newCopy'[t][i])
                      /\ Before(newCopy'[t][i], registers[i])
    BY <1>1, <1>2, <1>3 DEF OrderOf, Ordered, Before
  <2> QED
    BY <1>1, <1>3, <1>4 DEF OrderOf, Ordered, Before
<1>6. Present(t)'
  BY <1>2, <1>3 DEF OrderOf, Present, Contents
<1>7. Instant(t)'
  <2>1. PICK R \in [Ids -> RecordType] : Between(t, R)
    BY <1>3 DEF OrderOf, Instant
  <2>2. Between(t, R)'
    <3> SUFFICES ASSUME NEW i \in Ids, i <= n + 1
                 PROVE  Before(R[i], newCopy'[t][i])
      BY <1>1, <1>2, <2>1 DEF Between, ValuesOf, Before
    <3> QED
      BY <1>1, <1>4, <2>1 DEF Between
  <2> QED
    BY <2>2 DEF Instant
<1>8. CleanReturn(t)'
  BY DEF CleanReturn
<1> QED
  BY <1>5, <1>6, <1>7, <1>8 DEF OrderOf

LEMMA OrderScanReturn ==
  ASSUME TypeInv, NEW t \in Ids, NEW result, ScanReturn(t, result),
         Uninit \notin Range(result) => result \in during[t]
  PROVE  OrderOf(t)'
<1> USE TypeInvFunctional, ScanReturnStep
<1>1. \A i \in Ids : ~ (i <= Len(<<>>))
  BY DEF Ids
<1>2. Ordered(t)'
  BY <1>1 DEF Ordered
<1>3. Present(t)' /\ Instant(t)'
  BY DEF Present, Instant
<1>4. CleanReturn(t)'
  BY DEF CleanReturn
<1> QED
  BY <1>2, <1>3, <1>4 DEF OrderOf

LEMMA OrderCompareClean ==
  ASSUME TypeInv, OrderInv, NEW t \in Ids, CompareClean(t)
  PROVE  OrderOf(t)'
<1> DEFINE result == [j \in Ids |-> newCopy[t][j].value]
<1>1. pc[t] = "compare" /\ MovedIds(t) = {} /\ ScanReturn(t, result)
  BY DEF CompareClean
<1>2. PICK R \in [Ids -> RecordType] : Between(t, R)
  BY <1>1 DEF OrderInv, OrderOf, Instant
<1>3. \A i \in Ids : R[i] = newCopy[t][i]
  <2> TAKE i \in Ids
  <2>1. oldCopy[t][i] \in RecordType /\ newCopy[t][i] \in RecordType
    BY <1>1, Indexed DEF TypeInv
  <2>2. i <= Len(newCopy[t])
    BY <1>1 DEF TypeInv, ScanOK, LengthsOf, Ids
  <2>3. oldCopy[t][i].label = newCopy[t][i].label
    BY <1>1 DEF MovedIds, Moved
  <2> QED
    BY <1>2, <2>1, <2>2, <2>3, BeforeBoth DEF Between
<1>4. result = ValuesOf(R)
  BY <1>3 DEF ValuesOf
<1>5. result \in during[t]
  BY <1>2, <1>4 DEF Between
<1> HIDE DEF result
<1> QED
  BY <1>1, <1>5, OrderScanReturn

LEMMA OrderCompareSteal ==
  ASSUME TypeInv, WaitInv, NEW t \in Ids, CompareSteal(t)
  PROVE  OrderOf(t)'
<1> DEFINE i == FirstMoved(t)
           result == Stolen(newCopy[t][i], i)
<1>1. pc[t] = "compare" /\ MovedIds(t) # {} /\ ScanReturn(t, result)
  BY DEF CompareSteal
<1>2. i \in Ids \ {t}
  BY <1>1, OwnDoesNotMove
<1>3. DOMAIN result = Ids /\ result[t] = Uninit
  BY <1>2 DEF Stolen, NoSnap
<1>4. Uninit \in Range(result)
  BY <1>3 DEF Range
<1> HIDE DEF result
<1> QED
  BY <1>1, <1>4, OrderScanReturn

LEMMA OrderCompareAgain ==
  ASSUME TypeInv, OrderInv, NEW t \in Ids, CompareAgain(t)
  PROVE  OrderOf(t)'
<1> USE TypeInvFunctional, CompareAgainStep
<1>1. registers' = registers /\ during'[t] = during[t] /\ newCopy'[t] = <<>>
      /\ oldCopy'[t] = newCopy[t]
  BY DEF OthersKept
<1>2. Len(newCopy[t]) = N /\ OrderOf(t)
  BY DEF TypeInv, ScanOK, LengthsOf, OrderInv
<1>3. \A i \in Ids : i <= Len(newCopy[t]) /\ ~ (i <= Len(<<>>))
  BY <1>2 DEF Ids
<1>4. \A i \in Ids : Before(oldCopy'[t][i], registers[i])
  BY <1>1, <1>2, <1>3 DEF OrderOf, Ordered
<1>5. Ordered(t)'
  BY <1>1, <1>3, <1>4 DEF Ordered
<1>6. Contents \in during[t] /\ Contents' = Contents
  BY <1>1, <1>2 DEF OrderOf, Present, Contents
<1>7. Present(t)'
  BY <1>1, <1>6 DEF Present
<1>8. Instant(t)'
  BY <1>1, <1>4, <1>6, InstantNow
<1>9. CleanReturn(t)'
  BY DEF CleanReturn
<1> QED
  BY <1>5, <1>7, <1>8, <1>9 DEF OrderOf

LEMMA OrderStore ==
  ASSUME TypeInv, TypeInv', OrderInv, NoWrap, NEW t \in Ids, StoreRegister(t)
  PROVE  OrderInv'
<1> SUFFICES ASSUME NEW u \in Ids PROVE OrderOf(u)'
  BY DEF OrderInv
<1> USE TypeInvFunctional, StoreStep
<1>1. \A i \in Ids : Before(registers[i], registers'[i]) /\ registers[i] \in RecordType
                     /\ registers'[i] \in RecordType
  BY RegistersAdvance DEF TypeInv
<1>2. OrderOf(u) /\ ScanOK(u) /\ oldCopy'[u] = oldCopy[u] /\ newCopy'[u] = newCopy[u]
  BY DEF OrderInv, TypeInv
<1>3. Scanning(u) <=> pc[u] \in {"collectOld", "collectNew", "compare"}
  BY DEF Scanning
<1>4. Ordered(u)'
  <2> SUFFICES ASSUME NEW i \in Ids
               PROVE  /\ i <= Len(oldCopy[u]) => Before(oldCopy[u][i], registers'[i])
                      /\ i <= Len(newCopy[u]) => Before(newCopy[u][i], registers'[i])
    BY <1>2 DEF OrderOf, Ordered, Before
  <2>1. /\ i <= Len(oldCopy[u]) => oldCopy[u][i] \in RecordType
        /\ i <= Len(newCopy[u]) => newCopy[u][i] \in RecordType
    BY <1>2, Indexed
  <2> QED
    BY <1>1, <1>2, <2>1, BeforeTransitive DEF OrderOf, Ordered
<1>5. Present(u)'
  BY <1>3 DEF Present
<1>6. Instant(u)'
  <2> SUFFICES ASSUME pc[u] \in {"collectNew", "compare"}
               PROVE  \E R \in [Ids -> RecordType] : Between(u, R)'
    BY DEF Instant
  <2>1. PICK R \in [Ids -> RecordType] : Between(u, R)
    BY <1>2 DEF OrderOf, Instant
  <2>2. \A i \in Ids : Before(R[i], registers'[i])
    BY <1>1, <2>1, BeforeTransitive DEF Between
  <2>3. during[u] \subseteq during'[u]
    BY <1>3
  <2>4. Between(u, R)'
    BY <1>2, <2>1, <2>2, <2>3 DEF Between, ValuesOf, Before
  <2> QED
    BY <2>4
<1>7. CleanReturn(u)'
  BY <1>2 DEF OrderOf, CleanReturn, Scanning
<1> QED
  BY <1>4, <1>5, <1>6, <1>7 DEF OrderOf

LEMMA OrderNext ==
  TypeInv /\ TypeInv' /\ WaitInv /\ OrderInv /\ NoWrap /\ [Next]_vars => OrderInv'
<1> SUFFICES ASSUME TypeInv, TypeInv', WaitInv, OrderInv, NoWrap, [Next]_vars
             PROVE  OrderInv'
  OBVIOUS
<1>1. CASE Quiet
  <2>1. ASSUME NEW u \in Ids PROVE OrderOf(u)'
    BY <1>1, OrderOfKept DEF OrderInv, Quiet, scanVars
  <2> QED
    BY <2>1 DEF OrderInv
<1>2. ASSUME NEW t \in Ids, CompareClean(t) \/ CompareSteal(t) PROVE OthersKept(t)
  BY <1>2, TypeInvFunctional, ScanReturnStep DEF CompareClean, CompareSteal
<1>3. ASSUME NEW t \in Ids,
             LoopBegin(t) \/ CollectOld(t) \/ CollectNew(t) \/ CompareClean(t)
               \/ CompareSteal(t) \/ CompareAgain(t)
      PROVE  OrderInv'
  <2>1. OthersKept(t)
    BY <1>2, <1>3, TypeInvFunctional, LoopBeginStep, CollectOldStep, CollectNewStep,
       CompareAgainStep
  <2>2. OrderOf(t)'
    BY <1>3, OrderLoopBegin, OrderCollectOld, OrderCollectNew, OrderCompareClean,
       OrderCompareSteal, OrderCompareAgain
  <2> QED
    BY <2>1, <2>2, OrderOwn
<1>4. ASSUME NEW t \in Ids, StoreRegister(t) PROVE OrderInv'
  BY <1>4, OrderStore
<1> QED
  BY <1>1, <1>3, <1>4, QuietSteps, TypeInvFunctional

LEMMA OrderAlways == Spec /\ []NoWrap => []OrderInv
<1>1. Init => OrderInv
  BY OrderInit
<1>2. TypeInv /\ TypeInv' /\ WaitInv /\ OrderInv /\ NoWrap /\ [Next]_vars => OrderInv'
  BY OrderNext
<1> QED
  BY <1>1, <1>2, TypeAlways, WaitAlways, PTL DEF Spec

\* As long as no label wraps around, a scan that ends with a clean double collect
\* returns what all registers held at one instant of the scan.
THEOREM CleanScansAreSnapshots == Spec /\ []NoWrap => []CleanScanIsSnapshot
<1>1. OrderInv => CleanScanIsSnapshot
  BY DEF OrderInv, OrderOf, CleanReturn, CleanScanIsSnapshot
<1> QED
  BY <1>1, OrderAlways, PTL

-----------------------------------------------------------------------------
(* Stolen snapshots.  B[i] is the label of register i when t's scan began. *)

\* Whatever i stored after a scan that began within t's lies within t's.
Settled(t, x, b) == x.label > b + 1 /\ x.clean => x.snap \in during[t]

Since(t, B) ==
  \A i \in Ids :
    /\ B[i] <= registers[i].label
    /\ registers[i].label > B[i] => during[i] \subseteq during[t]
    /\ Settled(t, registers[i], B[i])
    /\ i <= Len(oldCopy[t]) => B[i] <= oldCopy[t][i].label
    /\ i <= Len(newCopy[t]) => Settled(t, newCopy[t][i], B[i])
    /\ i \in moved[t] => oldCopy[t][i].label > B[i]

NestedOf(t) ==
  pc[t] \in {"collectOld", "collectNew", "compare"} =>
    \E B \in [Ids -> Nat] : Since(t, B)
NestInv == \A t \in Ids : NestedOf(t)

LEMMA NestInit == Init => NestInv
BY DEF Init, NestInv, NestedOf

LEMMA Labels ==
  ASSUME TypeInv, NEW i \in Ids
  PROVE  registers[i].label \in Nat
BY DEF TypeInv, RecordType

\* A step of t that touches no registers harms no other scan: if t begins a scan
\* of its own, it begins within the scans under way.
LEMMA NestOthers ==
  ASSUME NestInv, NEW t \in Ids, OthersKept(t), NEW u \in Ids, u # t,
         during'[t] = during[t]
           \/ (during'[t] = {Contents} /\ (Present(u)))
  PROVE  NestedOf(u)'
<1> SUFFICES ASSUME pc[u] \in {"collectOld", "collectNew", "compare"}
             PROVE  \E B \in [Ids -> Nat] : Since(u, B)'
  BY DEF NestedOf, OthersKept
<1>1. PICK B \in [Ids -> Nat] : Since(u, B)
  BY DEF NestInv, NestedOf
<1>2. /\ registers' = registers /\ oldCopy'[u] = oldCopy[u] /\ newCopy'[u] = newCopy[u]
      /\ moved'[u] = moved[u] /\ during'[u] = during[u]
      /\ \A i \in Ids : i # t => during'[i] = during[i]
  BY DEF OthersKept
<1>3. \A i \in Ids : during'[i] \subseteq during[i] \cup during[u]
  BY <1>2 DEF Present
<1>4. Since(u, B)'
  BY <1>1, <1>2, <1>3 DEF Since, Settled
<1> QED
  BY <1>4

LEMMA NestLoopBegin ==
  ASSUME TypeInv, NEW t \in Ids, LoopBegin(t)
  PROVE  NestedOf(t)'
<1> USE TypeInvFunctional, LoopBeginStep
<1>1. PICK B \in [Ids -> Nat] : \A i \in Ids : B[i] = registers[i].label
  <2> DEFINE labels == [i \in Ids |-> registers[i].label]
  <2>1. labels \in [Ids -> Nat] /\ \A i \in Ids : labels[i] = registers[i].label
    BY Labels
  <2> HIDE DEF labels
  <2> QED
    BY <2>1
<1>2. newCopy[t] = <<>> /\ \A i \in Ids : ~ (i <= Len(<<>>))
  <2>1. pc[t] \notin {"collectNew", "compare"}
    BY DEF LoopBegin
  <2>2. newCopy[t] = <<>>
    BY <2>1 DEF TypeInv, ScanOK, LengthsOf
  <2>3. \A i \in Ids : ~ (i <= Len(<<>>))
    BY DEF Ids
  <2> QED
    BY <2>2, <2>3
<1>3. registers' = registers
  BY DEF OthersKept
<1>4. Since(t, B)'
  BY <1>1, <1>2, <1>3, Labels DEF Since, Settled
<1> QED
  BY <1>4 DEF NestedOf

LEMMA NestCollectOld ==
  ASSUME TypeInv, WaitInv, NestInv, NEW t \in Ids, CollectOld(t)
  PROVE  NestedOf(t)'
<1> DEFINE n == Len(oldCopy[t])
<1>1. /\ n \in Nat /\ Len(oldCopy'[t]) = n + 1 /\ newCopy[t] = <<>>
      /\ \A j \in Ids : j <= n => oldCopy'[t][j] = oldCopy[t][j]
      /\ oldCopy'[t][n + 1] = registers[n + 1]
  BY CollectOldReads
<1> USE TypeInvFunctional, CollectOldStep
<1>2. /\ registers' = registers /\ newCopy'[t] = <<>> /\ moved'[t] = {}
      /\ \A i \in Ids : during'[i] = during[i]
  BY <1>1 DEF OthersKept, WaitInv, Bounded
<1>3. PICK B \in [Ids -> Nat] : Since(t, B)
  BY DEF NestInv, NestedOf
<1>4. \A i \in Ids : ~ (i <= Len(<<>>)) /\ (i <= n + 1 => i <= n \/ i = n + 1)
  BY <1>1 DEF Ids
<1>5. \A i \in Ids : i <= n + 1 => B[i] <= oldCopy'[t][i].label
  BY <1>1, <1>3, <1>4 DEF Since
<1>6. Since(t, B)'
  BY <1>1, <1>2, <1>3, <1>4, <1>5 DEF Since, Settled
<1> QED
  BY <1>6 DEF NestedOf

LEMMA NestCollectNew ==
  ASSUME TypeInv, NestInv, NEW t \in Ids, CollectNew(t)
  PROVE  NestedOf(t)'
<1> DEFINE n == Len(newCopy[t])
<1>1. /\ n \in Nat /\ Len(newCopy'[t]) = n + 1
      /\ \A j \in Ids : j <= n => newCopy'[t][j] = newCopy[t][j]
      /\ newCopy'[t][n + 1] = registers[n + 1]
  BY CollectNewReads
<1> USE TypeInvFunctional, CollectNewStep
<1>2. /\ registers' = registers /\ oldCopy'[t] = oldCopy[t] /\ moved'[t] = moved[t]
      /\ \A i \in Ids : during'[i] = during[i]
  BY DEF OthersKept
<1>3. PICK B \in [Ids -> Nat] : Since(t, B)
  BY DEF NestInv, NestedOf
<1>4. \A i \in Ids : i <= n + 1 => i <= n \/ i = n + 1
  BY <1>1 DEF Ids
<1>5. \A i \in Ids : i <= n + 1 => Settled(t, newCopy'[t][i], B[i])
  BY <1>1, <1>3, <1>4 DEF Since
<1>6. Since(t, B)'
  BY <1>1, <1>2, <1>3, <1>5 DEF Since, Settled
<1> QED
  BY <1>6 DEF NestedOf

\* Both collects are read: what moved has moved forward.
LEMMA MovedForward ==
  ASSUME TypeInv, OrderInv, NEW t \in Ids, pc[t] = "compare", NEW i \in Ids
  PROVE  /\ oldCopy[t][i].label \in Nat /\ newCopy[t][i].label \in Nat
         /\ oldCopy[t][i].label <= newCopy[t][i].label
         /\ Moved(oldCopy[t][i], newCopy[t][i]) =>
              oldCopy[t][i].label < newCopy[t][i].label
         /\ i <= Len(oldCopy[t]) /\ i <= Len(newCopy[t])
<1>1. oldCopy[t][i] \in RecordType /\ newCopy[t][i] \in RecordType
  BY Indexed DEF TypeInv
<1>2. i <= Len(oldCopy[t]) /\ i <= Len(newCopy[t])
  BY DEF TypeInv, ScanOK, LengthsOf, Ids
<1>3. Before(oldCopy[t][i], newCopy[t][i])
  BY <1>2 DEF OrderInv, OrderOf, Ordered
<1>4. oldCopy[t][i].label \in Nat /\ newCopy[t][i].label \in Nat
  BY <1>1 DEF RecordType
<1> QED
  BY <1>2, <1>3, <1>4 DEF Before, Moved

LEMMA NestCompareAgain ==
  ASSUME TypeInv, OrderInv, NestInv, NEW t \in Ids, CompareAgain(t)
  PROVE  NestedOf(t)'
<1> DEFINE f == FirstMoved(t)
<1> USE TypeInvFunctional, CompareAgainStep
<1>1. /\ registers' = registers /\ oldCopy'[t] = newCopy[t] /\ newCopy'[t] = <<>>
      /\ moved'[t] = moved[t] \cup {f}
      /\ \A i \in Ids : during'[i] = during[i]
  BY DEF OthersKept
<1>2. PICK B \in [Ids -> Nat] : Since(t, B)
  BY DEF NestInv, NestedOf
<1>3. Moved(oldCopy[t][f], newCopy[t][f])
  BY FirstMovedIn
<1>4. \A i \in Ids : /\ B[i] <= newCopy[t][i].label
                     /\ i \in moved'[t] => newCopy[t][i].label > B[i]
  <2> TAKE i \in Ids
  <2>1. B[i] \in Nat /\ B[i] <= oldCopy[t][i].label
        /\ (i \in moved[t] => oldCopy[t][i].label > B[i])
    BY <1>2, MovedForward DEF Since
  <2> HIDE DEF f
  <2> QED
    BY <1>1, <1>3, <2>1, MovedForward
<1>5. \A i \in Ids : ~ (i <= Len(<<>>))
  BY DEF Ids
<1>6. Since(t, B)'
  BY <1>1, <1>2, <1>4, <1>5 DEF Since, Settled
<1> QED
  BY <1>6 DEF NestedOf

LEMMA NestStore ==
  ASSUME TypeInv, OrderInv, NestInv, NoWrap, NEW s \in Ids, StoreRegister(s),
         NEW u \in Ids
  PROVE  NestedOf(u)'
<1> USE TypeInvFunctional, StoreStep
<1> SUFFICES ASSUME pc[u] \in {"collectOld", "collectNew", "compare"}
             PROVE  \E B \in [Ids -> Nat] : Since(u, B)'
  BY DEF NestedOf
<1>1. PICK B \in [Ids -> Nat] : Since(u, B)
  BY DEF NestInv, NestedOf
<1>2. during'[u] = during[u] \cup {Contents'}
  BY DEF Scanning
<1>3. \A i \in Ids : during[i] \subseteq during[u] => during'[i] \subseteq during'[u]
  BY <1>2
<1>4. ASSUME NEW i \in Ids, i # s
      PROVE  /\ B[i] <= registers'[i].label
             /\ registers'[i].label > B[i] => during'[i] \subseteq during'[u]
             /\ Settled(u, registers[i], B[i])
  BY <1>1, <1>3, <1>4 DEF Since
<1>5. /\ B[s] <= registers'[s].label
      /\ during'[s] \subseteq during'[u]
      /\ registers'[s].label > B[s] + 1 /\ registers'[s].clean =>
           registers'[s].snap \in during[u]
  <2>1. registers'[s].label = registers[s].label + 1 /\ registers[s].label \in Nat
        /\ B[s] \in Nat /\ B[s] <= registers[s].label
        /\ (registers[s].label > B[s] => during[s] \subseteq during[u])
    BY <1>1, RegistersAdvance, Labels DEF Since
  <2>2. during'[s] = {}
    BY DEF Scanning
  <2>3. registers'[s].snap = snap[s]
        /\ (registers'[s].clean => snap[s] \in during[s])
    BY StoredRecord DEF OrderInv, OrderOf, CleanReturn
  <2> QED
    BY <2>1, <2>2, <2>3
<1>6. \A i \in Ids : Settled(u, registers[i], B[i])' \/ i = s
  BY <1>2, <1>4 DEF Settled
<1>7. Settled(u, registers[s], B[s])'
  BY <1>2, <1>5 DEF Settled
<1>8. \A i \in Ids : i <= Len(newCopy[u]) => Settled(u, newCopy[u][i], B[i])'
  BY <1>1, <1>2 DEF Since, Settled
<1>9. Since(u, B)'
  BY <1>1, <1>4, <1>5, <1>6, <1>7, <1>8 DEF Since
<1> QED
  BY <1>9

LEMMA NestNext ==
  TypeInv /\ WaitInv /\ OrderInv /\ NestInv /\ NoWrap /\ [Next]_vars => NestInv'
<1> SUFFICES ASSUME TypeInv, WaitInv, OrderInv, NestInv, NoWrap, [Next]_vars
             PROVE  NestInv'
  OBVIOUS
<1> USE TypeInvFunctional
<1>1. CASE Quiet
  <2> SUFFICES ASSUME NEW u \in Ids,
                      pc[u] \in {"collectOld", "collectNew", "compare"}
               PROVE  \E B \in [Ids -> Nat] : Since(u, B)'
    BY <1>1 DEF NestInv, NestedOf, Quiet, ScanPC
  <2>1. PICK B \in [Ids -> Nat] : Since(u, B)
    BY DEF NestInv, NestedOf
  <2>2. Since(u, B)'
    BY <1>1, <2>1 DEF Quiet, scanVars, Since, Settled
  <2> QED
    BY <2>2
<1>2. ASSUME NEW t \in Ids, StoreRegister(t) PROVE NestInv'
  BY <1>2, NestStore DEF NestInv
<1>3. ASSUME NEW t \in Ids, LoopBegin(t) PROVE NestInv'
  <2>1. OthersKept(t) /\ during'[t] = {Contents} /\ NestedOf(t)'
    BY <1>3, LoopBeginStep, NestLoopBegin
  <2>2. \A u \in Ids : Present(u)
    BY DEF OrderInv, OrderOf
  <2> QED
    BY <2>1, <2>2, NestOthers DEF NestInv
<1>4. ASSUME NEW t \in Ids,
             CollectOld(t) \/ CollectNew(t) \/ CompareAgain(t)
      PROVE  NestInv'
  <2>1. OthersKept(t) /\ during'[t] = during[t]
    BY <1>4, CollectOldStep, CollectNewStep, CompareAgainStep
  <2>2. NestedOf(t)'
    BY <1>4, NestCollectOld, NestCollectNew, NestCompareAgain
  <2> QED
    BY <2>1, <2>2, NestOthers DEF NestInv
<1>5. ASSUME NEW t \in Ids, CompareClean(t) \/ CompareSteal(t) PROVE NestInv'
  <2>1. OthersKept(t) /\ during'[t] = during[t] /\ pc'[t] = "store"
    BY <1>5, ScanReturnStep DEF CompareClean, CompareSteal
  <2>2. NestedOf(t)'
    BY <2>1 DEF NestedOf
  <2> QED
    BY <2>1, <2>2, NestOthers DEF NestInv
<1> QED
  BY <1>1, <1>2, <1>3, <1>4, <1>5, QuietSteps

LEMMA NestStolen ==
  TypeInv /\ OrderInv /\ NestInv => StolenSnapshotIsNested
<1> SUFFICES ASSUME TypeInv, OrderInv, NestInv, NEW t \in Ids,
                    pc[t] = "compare", MovedIds(t) # {}, MovedBefore(t, FirstMoved(t))
             PROVE  LET record == newCopy[t][FirstMoved(t)]
                    IN  /\ record.snap # NullSnap
                        /\ record.clean => record.snap \in during[t]
  BY DEF StolenSnapshotIsNested
<1> DEFINE f == FirstMoved(t)
<1>1. f \in Ids /\ Moved(oldCopy[t][f], newCopy[t][f]) /\ f \in moved[t]
  BY FirstMovedIn DEF MovedBefore
<1> HIDE DEF f
<1>2. newCopy[t][f].snap # NullSnap
  BY <1>1, MovedHasSnap DEF TypeInv
<1>3. PICK B \in [Ids -> Nat] : Since(t, B)
  BY DEF NestInv, NestedOf
<1>4. /\ B[f] \in Nat /\ oldCopy[t][f].label \in Nat /\ newCopy[t][f].label \in Nat
      /\ oldCopy[t][f].label > B[f] /\ oldCopy[t][f].label < newCopy[t][f].label
      /\ Settled(t, newCopy[t][f], B[f])
  BY <1>1, <1>3, MovedForward DEF Since
<1>5. newCopy[t][f].label > B[f] + 1
  BY <1>4
<1>6. newCopy[t][f].clean => newCopy[t][f].snap \in during[t]
  BY <1>4, <1>5 DEF Settled
<1> QED
  BY <1>2, <1>6 DEF f

\* A register that moved twice in a scan has a snapshot to steal, and, as long as
\* no label wraps around, the scan that took it lies within the thief's.
THEOREM StolenScansAreNested == Spec /\ []NoWrap => []StolenSnapshotIsNested
<1>1. Init => NestInv
  BY NestInit
<1>2. TypeInv /\ WaitInv /\ OrderInv /\ NestInv /\ NoWrap /\ [Next]_vars => NestInv'
  BY NestNext
<1>3. TypeInv /\ OrderInv /\ NestInv => StolenSnapshotIsNested
  BY NestStolen
<1> QED
  BY <1>1, <1>2, <1>3, TypeAlways, WaitAlways, OrderAlways, PTL DEF Spec

-----------------------------------------------------------------------------
(* The result of run().                                                    *)

Counted(t) ==
  IF pc[t] = "count" THEN registers[t].label = update_cnt[t] + 1
                     ELSE registers[t].label = update_cnt[t]

CountInv ==
  /\ \A t \in Ids : Counted(t)
  /\ main \in {"sum", "returned"} => \A t \in Ids : pc[t] = "end"
  /\ main = "returned" => cnt = Total(update_cnt)

LEMMA CountInit == Init => CountInv
BY DEF Init, CountInv, Counted, InitialValue

LEMMA CountNext == TypeInv /\ CountInv /\ NoWrap /\ [Next]_vars => CountInv'
<1> SUFFICES ASSUME TypeInv, CountInv, NoWrap, [Next]_vars PROVE CountInv'
  OBVIOUS
<1>0. pc \in [Ids -> ThreadPC] /\ made \in 0 .. N /\ update_cnt \in [Ids -> Nat]
  BY DEF TypeInv, MainTypes
<1> USE DEF mainVars
<1>1. CASE ConstructThread
  <2>1. /\ UNCHANGED <<main, cnt, registers, update_cnt>> /\ main = "ctor"
        /\ \A t \in Ids : pc'[t] = pc[t] \/ (pc[t] = "none" /\ pc'[t] = "lock")
    BY <1>0, <1>1 DEF ConstructThread, Ids
  <2> QED
    BY <2>1 DEF CountInv, Counted
<1>2. CASE ConstructRegister \/ MainLock \/ MainStart \/ MainUnlock \/ MainDone
  BY <1>2 DEF ConstructRegister, MainLock, MainStart, MainUnlock, MainDone,
              CountInv, Counted
<1>3. CASE MainNotify
  <2>1. /\ UNCHANGED <<cnt, registers, update_cnt>> /\ main' = "unlock"
        /\ \A t \in Ids : pc'[t] = pc[t] \/ (pc[t] = "asleep" /\ pc'[t] = "lock")
    BY <1>0, <1>3 DEF MainNotify
  <2> QED
    BY <2>1 DEF CountInv, Counted
<1>4. CASE MainJoin
  BY <1>4 DEF MainJoin, AllJoined, CountInv, Counted
<1>5. CASE MainSum
  BY <1>5 DEF MainSum, CountInv, Counted
<1>6. ASSUME NEW t \in Ids,
             UNCHANGED <<main, cnt, registers, update_cnt>>,
             pc[t] \notin {"end", "count"}, pc'[t] # "count",
             \A u \in Ids : u # t => pc'[u] = pc[u]
      PROVE  CountInv'
  <2>1. main \notin {"sum", "returned"}
    BY <1>6 DEF CountInv
  <2> QED
    BY <1>6, <2>1 DEF CountInv, Counted
<1>7. ASSUME NEW t \in Ids, Lock(t) \/ TestStarted(t) \/ SpuriousWakeup(t)
      PROVE  CountInv'
  <2>1. /\ UNCHANGED <<main, cnt, registers, update_cnt>>
        /\ pc[t] \notin {"end", "count"} /\ pc'[t] # "count"
        /\ \A u \in Ids : u # t => pc'[u] = pc[u]
    BY <1>0, <1>7 DEF Lock, TestStarted, SpuriousWakeup
  <2> QED
    BY <1>6, <2>1
<1>8. ASSUME NEW t \in Ids, LoopBegin(t) \/ LoopEnd(t)
      PROVE  CountInv'
  <2>1. /\ UNCHANGED <<main, cnt, registers, update_cnt>>
        /\ pc[t] \notin {"end", "count"} /\ pc'[t] # "count"
        /\ \A u \in Ids : u # t => pc'[u] = pc[u]
    BY <1>0, <1>8 DEF LoopBegin, LoopEnd
  <2> QED
    BY <1>6, <2>1
<1>9. ASSUME NEW t \in Ids, CollectOld(t) \/ CollectNew(t)
      PROVE  CountInv'
  <2>1. /\ UNCHANGED <<main, cnt, registers, update_cnt>>
        /\ pc[t] \notin {"end", "count"} /\ pc'[t] # "count"
        /\ \A u \in Ids : u # t => pc'[u] = pc[u]
    BY <1>0, <1>9 DEF CollectOld, CollectNew
  <2> QED
    BY <1>6, <2>1
<1>10. ASSUME NEW t \in Ids, CompareClean(t) \/ CompareSteal(t) \/ CompareAgain(t)
       PROVE  CountInv'
  <2>1. /\ UNCHANGED <<main, cnt, registers, update_cnt>>
        /\ pc[t] \notin {"end", "count"} /\ pc'[t] # "count"
        /\ \A u \in Ids : u # t => pc'[u] = pc[u]
    BY <1>0, <1>10 DEF CompareClean, CompareSteal, CompareAgain, ScanReturn
  <2> QED
    BY <1>6, <2>1
<1>11. ASSUME NEW t \in Ids, StoreRegister(t) PROVE CountInv'
  <2>1. /\ pc[t] = "store" /\ pc'[t] = "count"
        /\ \A u \in Ids : u # t => pc'[u] = pc[u] /\ registers'[u] = registers[u]
    BY <1>11, TypeInvFunctional, StoreStep
  <2>2. UNCHANGED <<main, cnt, update_cnt>>
    BY <1>11 DEF StoreRegister
  <2>3. registers'[t].label = registers[t].label + 1
    BY <1>11, RegistersAdvance
  <2>4. main \notin {"sum", "returned"}
    BY <2>1 DEF CountInv
  <2>5. \A u \in Ids : Counted(u)'
    BY <2>1, <2>2, <2>3 DEF CountInv, Counted
  <2> QED
    BY <2>2, <2>4, <2>5 DEF CountInv
<1>12. ASSUME NEW t \in Ids, CountUpdate(t) PROVE CountInv'
  <2>1. /\ pc[t] = "count" /\ pc'[t] = "loop" /\ UNCHANGED <<main, cnt, registers>>
        /\ update_cnt'[t] = update_cnt[t] + 1
        /\ \A u \in Ids : u # t => pc'[u] = pc[u] /\ update_cnt'[u] = update_cnt[u]
    BY <1>0, <1>12 DEF CountUpdate
  <2>2. main \notin {"sum", "returned"}
    BY <2>1 DEF CountInv
  <2>3. \A u \in Ids : Counted(u)'
    BY <2>1 DEF CountInv, Counted
  <2> QED
    BY <2>1, <2>2, <2>3 DEF CountInv
<1>13. CASE UNCHANGED vars
  BY <1>13 DEF vars, CountInv, Counted
<1> QED
  BY <1>1, <1>2, <1>3, <1>4, <1>5, <1>7, <1>8, <1>9, <1>10, <1>11, <1>12, <1>13
     DEF Next, MainThread, UpdateThread, Finished

LEMMA CountReturned == TypeInv /\ CountInv => ReturnedCountExact
<1> SUFFICES ASSUME TypeInv, CountInv, main = "returned"
             PROVE  cnt = Total([t \in Ids |-> registers[t].label])
  BY DEF ReturnedCountExact
<1>1. \A t \in Ids : registers[t].label = update_cnt[t]
  BY DEF CountInv, Counted
<1>2. update_cnt = [t \in Ids |-> registers[t].label]
  BY <1>1 DEF TypeInv, MainTypes
<1> QED
  BY <1>2 DEF CountInv

\* run() returns the number of stores, as long as no label wraps around.
THEOREM ReturnsNumberOfStores == Spec /\ []NoWrap => []ReturnedCountExact
<1>1. Init => CountInv
  BY CountInit
<1>2. TypeInv /\ CountInv /\ NoWrap /\ [Next]_vars => CountInv'
  BY CountNext
<1>3. TypeInv /\ CountInv => ReturnedCountExact
  BY CountReturned
<1> QED
  BY <1>1, <1>2, <1>3, TypeAlways, PTL DEF Spec

=============================================================================
