--------------------------- MODULE AtomicSnapshot ---------------------------
(***************************************************************************)
(* The wait-free atomic snapshot of project2 (snapshot.cpp).               *)
(*                                                                         *)
(* The main thread constructs the object, which already starts the update  *)
(* threads, opens the start gate in run(), sleeps, sets is_done_, joins    *)
(* the threads and adds up their counters.  Thread i repeats: scan all     *)
(* registers, then store a new SnapValue into register i.  A scan collects *)
(* the registers until two successive collects agree, or until it sees one *)
(* register move twice and steals the snapshot stored with it.             *)
(*                                                                         *)
(* Every atomic_load and atomic_store of a register is one step.           *)
(***************************************************************************)
EXTENDS Integers, Sequences, FiniteSets, SequencesExt

CONSTANTS
  N,            \* num_threads_
  Values,       \* what dis_(gen_) may return
  Uninit,       \* the content of a new int[] nobody has written
  NullSnap,     \* the nullptr snap of the initial SnapValue
  LabelPeriod,  \* UINT_MAX, the modulus of the labels
  MaxStores     \* bound: no thread starts an update after so many stores

ASSUME SnapshotAssumption ==
  /\ N \in Nat \ {0}
  /\ 0 \in Values
  /\ Uninit \notin Values
  /\ NullSnap \notin [1 .. N -> Values \cup {Uninit}]
  /\ LabelPeriod \in Nat \ {0}
  /\ MaxStores \in Nat

Ids == 1 .. N

VARIABLES
  main,        \* where the main thread is
  made,        \* how many threads and registers the constructor has made
  owner,       \* m_threads_: 0 if free, a thread id, or N + 1 for main
  is_started,
  is_done,
  cnt,         \* the result of run()
  pc,          \* thread -> where it is in update()
  registers,   \* registers_
  update_cnt,  \* update_cnt_
  oldCopy, newCopy,  \* the two collects of a scan, as far as they were read
  moved,       \* thread -> the i with moved[i]
  snap,        \* thread -> the snapshot the scan returned
  \* Auxiliary, they influence nothing:
  during,      \* thread -> the register contents while it scans
  collects     \* thread -> how many collects its scan has begun

mainVars == <<main, made, is_started, is_done, cnt>>
scanVars == <<oldCopy, newCopy, moved, snap, during, collects>>
vars     == <<mainVars, owner, pc, registers, update_cnt, scanVars>>

MainPC   == {"ctor", "lock", "start", "notify", "unlock", "sleep", "join", "sum", "returned"}
ThreadPC == {"none", "lock", "test", "asleep", "loop", "collectOld", "collectNew",
             "compare", "store", "count", "end"}

\* make_shared<SnapValue>() with its defaults.  The field clean is auxiliary:
\* was snap the result of a clean double collect?
InitialValue == [label |-> 0, value |-> 0, snap |-> NullSnap, clean |-> FALSE]
NoSnap       == [j \in Ids |-> Uninit]
Scanning(t)  == pc[t] \in {"collectOld", "collectNew", "compare"}
Contents     == [j \in Ids |-> registers[j].value]

\* The loop of run() over the counters.
Total(f) == FoldFunction(+, 0, f)

Init ==
  /\ main = "ctor" /\ made = 0 /\ owner = 0
  /\ is_started = FALSE /\ is_done = FALSE /\ cnt = 0
  /\ pc = [t \in Ids |-> "none"]
  /\ registers  = [t \in Ids |-> InitialValue]
  /\ update_cnt = [t \in Ids |-> 0]
  /\ oldCopy    = [t \in Ids |-> <<>>]
  /\ newCopy    = [t \in Ids |-> <<>>]
  /\ moved      = [t \in Ids |-> {}]
  /\ snap       = [t \in Ids |-> NoSnap]
  /\ during     = [t \in Ids |-> {}]
  /\ collects   = [t \in Ids |-> 0]

-----------------------------------------------------------------------------
(* Decisions of the code that stand or fall with its correctness; an       *)
(* operator with a suffix is a slip that the checks have to refute.        *)

\* oldCopy[i]->label != newCopy[i]->label
Moved(old, new) == old.label # new.label

\* new_label = (oldValue->label + 1) % UINT_MAX
NextLabel_Down(label) == label - 1
NextLabel(label) == (label + 1) % LabelPeriod

\* The second time a register moves its snapshot is stolen.
MovedBefore_Always(t, i) == TRUE
MovedBefore_Never(t, i) == FALSE
MovedBefore(t, i) == i \in moved[t]

\* The predicate of cv_threads_.wait().
MayStart_Unchecked == TRUE
MayStart == is_started

-----------------------------------------------------------------------------
(* The main thread: Snapshot::Snapshot() and Snapshot::run()               *)

\* One iteration of the constructor's loop starts thread i, and only then adds
\* register and counter i.
ConstructThread ==
  /\ main = "ctor" /\ made < N
  /\ pc[made + 1] = "none"
  /\ pc' = [pc EXCEPT ![made + 1] = "lock"]
  /\ UNCHANGED <<mainVars, owner, registers, update_cnt, scanVars>>

ConstructRegister ==
  /\ main = "ctor" /\ made < N
  /\ pc[made + 1] # "none"
  /\ made' = made + 1
  /\ main' = IF made + 1 = N THEN "lock" ELSE "ctor"
  /\ UNCHANGED <<owner, is_started, is_done, cnt, pc, registers, update_cnt, scanVars>>

MainLock ==
  /\ main = "lock" /\ owner = 0
  /\ main' = "start" /\ owner' = N + 1
  /\ UNCHANGED <<made, is_started, is_done, cnt, pc, registers, update_cnt, scanVars>>

MainStart ==
  /\ main = "start"
  /\ main' = "notify" /\ is_started' = TRUE
  /\ UNCHANGED <<made, owner, is_done, cnt, pc, registers, update_cnt, scanVars>>

\* cv_threads_.notify_all()
MainNotify ==
  /\ main = "notify"
  /\ main' = "unlock"
  /\ pc' = [t \in Ids |-> IF pc[t] = "asleep" THEN "lock" ELSE pc[t]]
  /\ UNCHANGED <<made, owner, is_started, is_done, cnt, registers, update_cnt, scanVars>>

MainUnlock ==
  /\ main = "unlock"
  /\ main' = "sleep" /\ owner' = 0
  /\ UNCHANGED <<made, is_started, is_done, cnt, pc, registers, update_cnt, scanVars>>

\* The 60 seconds are over.
MainDone ==
  /\ main = "sleep"
  /\ main' = "join" /\ is_done' = TRUE
  /\ UNCHANGED <<made, owner, is_started, cnt, pc, registers, update_cnt, scanVars>>

AllJoined_Skipped == TRUE
AllJoined == \A t \in Ids : pc[t] = "end"

MainJoin ==
  /\ main = "join" /\ AllJoined
  /\ main' = "sum"
  /\ UNCHANGED <<made, owner, is_started, is_done, cnt, pc, registers, update_cnt, scanVars>>

MainSum ==
  /\ main = "sum"
  /\ main' = "returned"
  /\ cnt' = Total(update_cnt)
  /\ UNCHANGED <<made, owner, is_started, is_done, pc, registers, update_cnt, scanVars>>

-----------------------------------------------------------------------------
(* Snapshot::update(): the start gate                                      *)

Lock(t) ==
  /\ pc[t] = "lock" /\ owner = 0
  /\ pc' = [pc EXCEPT ![t] = "test"] /\ owner' = t
  /\ UNCHANGED <<mainVars, registers, update_cnt, scanVars>>

\* Either way the mutex is given up: by wait() or by lock.unlock().
TestStarted(t) ==
  /\ pc[t] = "test"
  /\ pc' = [pc EXCEPT ![t] = IF MayStart THEN "loop" ELSE "asleep"]
  /\ owner' = 0
  /\ UNCHANGED <<mainVars, registers, update_cnt, scanVars>>

SpuriousWakeup(t) ==
  /\ pc[t] = "asleep"
  /\ pc' = [pc EXCEPT ![t] = "lock"]
  /\ UNCHANGED <<mainVars, owner, registers, update_cnt, scanVars>>

-----------------------------------------------------------------------------
(* Snapshot::update(): the loop                                            *)

\* while (!is_done_): a new scan starts with oldCopy = collect().
LoopBegin(t) ==
  /\ pc[t] = "loop" /\ ~is_done
  /\ Total(update_cnt) < MaxStores
  /\ pc' = [pc EXCEPT ![t] = "collectOld"]
  /\ oldCopy' = [oldCopy EXCEPT ![t] = <<>>]
  /\ moved' = [moved EXCEPT ![t] = {}]
  /\ snap' = [snap EXCEPT ![t] = NoSnap]
  /\ during' = [during EXCEPT ![t] = {Contents}]
  /\ collects' = [collects EXCEPT ![t] = 1]
  /\ UNCHANGED <<mainVars, owner, registers, update_cnt, newCopy>>

LoopEnd(t) ==
  /\ pc[t] = "loop" /\ is_done
  /\ pc' = [pc EXCEPT ![t] = "end"]
  /\ UNCHANGED <<mainVars, owner, registers, update_cnt, scanVars>>

-----------------------------------------------------------------------------
(* Snapshot::scan() and Snapshot::collect()                                *)

\* One atomic_load of collect() into oldCopy; the last is followed by the first
\* newCopy = collect().
CollectOld(t) ==
  /\ pc[t] = "collectOld"
  /\ oldCopy' = [oldCopy EXCEPT ![t] = Append(@, registers[Len(@) + 1])]
  /\ IF Len(oldCopy'[t]) < N
       THEN UNCHANGED <<pc, collects>>
       ELSE /\ pc' = [pc EXCEPT ![t] = "collectNew"]
            /\ collects' = [collects EXCEPT ![t] = @ + 1]
  /\ UNCHANGED <<mainVars, owner, registers, update_cnt, newCopy, moved, snap, during>>

CollectNew(t) ==
  /\ pc[t] = "collectNew"
  /\ newCopy' = [newCopy EXCEPT ![t] = Append(@, registers[Len(@) + 1])]
  /\ pc' = IF Len(newCopy'[t]) < N THEN pc ELSE [pc EXCEPT ![t] = "compare"]
  /\ UNCHANGED <<mainVars, owner, registers, update_cnt, oldCopy, moved, snap,
                 during, collects>>

MovedIds_AllButLast(t) == {i \in 1 .. N - 1 : Moved(oldCopy[t][i], newCopy[t][i])}
MovedIds(t) == {i \in Ids : Moved(oldCopy[t][i], newCopy[t][i])}
\* The first i for which the labels of the two collects differ.
FirstMoved(t) == Min(MovedIds(t))

\* The loop over j assigns every element of the stolen snapshot to snap[i].
Stolen(record, i) == [NoSnap EXCEPT ![i] = record.snap[N]]

ScanReturn(t, result) ==
  /\ pc' = [pc EXCEPT ![t] = "store"]
  /\ snap' = [snap EXCEPT ![t] = result]
  /\ oldCopy' = [oldCopy EXCEPT ![t] = <<>>]
  /\ newCopy' = [newCopy EXCEPT ![t] = <<>>]
  /\ moved' = [moved EXCEPT ![t] = {}]
  /\ UNCHANGED <<mainVars, owner, registers, update_cnt, during, collects>>

CompareClean(t) ==
  /\ pc[t] = "compare"
  /\ MovedIds(t) = {}
  /\ ScanReturn(t, [j \in Ids |-> newCopy[t][j].value])

CompareSteal(t) ==
  /\ pc[t] = "compare"
  /\ MovedIds(t) # {}
  /\ LET i == FirstMoved(t)
     IN  MovedBefore(t, i) /\ ScanReturn(t, Stolen(newCopy[t][i], i))

CompareAgain(t) ==
  /\ pc[t] = "compare"
  /\ MovedIds(t) # {}
  /\ ~MovedBefore(t, FirstMoved(t))
  /\ moved' = [moved EXCEPT ![t] = @ \cup {FirstMoved(t)}]
  /\ oldCopy' = [oldCopy EXCEPT ![t] = newCopy[t]]
  /\ newCopy' = [newCopy EXCEPT ![t] = <<>>]
  /\ collects' = [collects EXCEPT ![t] = @ + 1]
  /\ pc' = [pc EXCEPT ![t] = "collectNew"]
  /\ UNCHANGED <<mainVars, owner, registers, update_cnt, snap, during>>

-----------------------------------------------------------------------------
(* Snapshot::update(): the store                                           *)

\* The store of the new SnapValue; only t itself writes registers_[t].
StoreRegister(t) ==
  /\ pc[t] = "store"
  /\ pc' = [pc EXCEPT ![t] = "count"]
  /\ \E v \in Values :
       registers' = [registers EXCEPT ![t] =
         [label |-> NextLabel(@.label), value |-> v, snap |-> snap[t],
          clean |-> Uninit \notin Range(snap[t])]]
  /\ during' = [u \in Ids |->
       CASE Scanning(u) -> during[u] \cup {[j \in Ids |-> registers'[j].value]}
         [] u = t       -> {}
         [] OTHER       -> during[u]]
  /\ snap' = [snap EXCEPT ![t] = NoSnap]
  /\ UNCHANGED <<mainVars, owner, update_cnt, oldCopy, newCopy, moved, collects>>

CountUpdate(t) ==
  /\ pc[t] = "count"
  /\ pc' = [pc EXCEPT ![t] = "loop"]
  /\ update_cnt' = [update_cnt EXCEPT ![t] = @ + 1]
  /\ UNCHANGED <<mainVars, owner, registers, scanVars>>

-----------------------------------------------------------------------------
MainThread ==
  \/ ConstructThread \/ ConstructRegister
  \/ MainLock \/ MainStart \/ MainNotify \/ MainUnlock
  \/ MainDone \/ MainJoin \/ MainSum

UpdateThread(t) ==
  \/ Lock(t) \/ TestStarted(t)
  \/ LoopBegin(t) \/ LoopEnd(t)
  \/ CollectOld(t) \/ CollectNew(t)
  \/ CompareClean(t) \/ CompareSteal(t) \/ CompareAgain(t)
  \/ StoreRegister(t) \/ CountUpdate(t)

\* run() has returned.
Finished == main = "returned" /\ UNCHANGED vars

Next ==
  \/ MainThread
  \/ \E t \in Ids : UpdateThread(t) \/ SpuriousWakeup(t)
  \/ Finished

Spec == Init /\ [][Next]_vars

-----------------------------------------------------------------------------
(* Properties                                                              *)

SnapType   == [Ids -> Values \cup {Uninit}]
RecordType == [label : 0 .. LabelPeriod - 1, value : Values,
               snap : SnapType \cup {NullSnap}, clean : BOOLEAN]

TypeOK ==
  /\ main \in MainPC /\ made \in 0 .. N /\ owner \in 0 .. N + 1
  /\ is_started \in BOOLEAN /\ is_done \in BOOLEAN
  /\ pc \in [Ids -> ThreadPC]
  /\ registers \in [Ids -> RecordType]
  /\ update_cnt \in [Ids -> Nat]
  /\ oldCopy \in [Ids -> Seq(RecordType)] /\ newCopy \in [Ids -> Seq(RecordType)]
  /\ moved \in [Ids -> SUBSET Ids]
  /\ snap \in [Ids -> SnapType]
  /\ collects \in [Ids -> Nat]

\* A scan that ends with a clean double collect returns values that all
\* registers held at one instant between its call and its return.
CleanScanIsSnapshot ==
  \A t \in Ids :
    pc[t] = "store" /\ Uninit \notin Range(snap[t]) => snap[t] \in during[t]

\* The specification of scan() in "Atomic snapshot.md", stolen snapshots
\* included.
ScanIsSnapshot == \A t \in Ids : pc[t] = "store" => snap[t] \in during[t]

\* A register that moved twice holds a snapshot to steal, and the scan that
\* took it lies within the thief's: had it ended in a clean double collect, the
\* registers held exactly that since the thief began.
StolenSnapshotIsNested ==
  \A t \in Ids :
    pc[t] = "compare" /\ MovedIds(t) # {} /\ MovedBefore(t, FirstMoved(t)) =>
      LET record == newCopy[t][FirstMoved(t)]
      IN  /\ record.snap # NullSnap
          /\ record.clean => record.snap \in during[t]

\* Wait-freedom: however the other threads interfere, a scan collects at most
\* N + 1 times (its own register cannot move).
WaitFree == \A t \in Ids : collects[t] <= N + 1

\* The constructor starts threads before their registers exist: the start gate
\* keeps them from touching registers_ until it has made all of them.
GateProtectsConstruction ==
  \A t \in Ids : pc[t] \notin {"none", "lock", "test", "asleep"} => made = N

\* run() returns the number of atomic_stores that took place.
ReturnedCountExact ==
  main = "returned" =>
    cnt = Total([t \in Ids |-> registers[t].label])
=============================================================================
