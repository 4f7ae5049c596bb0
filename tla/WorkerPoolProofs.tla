-------------------------- MODULE WorkerPoolProofs --------------------------
(***************************************************************************)
(* What WorkerPool guarantees for any number of workers, tasks and, except *)
(* for QuietAfterShutdown, masters: no task is lost or run twice, and      *)
(* WaitUntilAllFinished() does not return early.                           *)
(***************************************************************************)
EXTENDS WorkerPool, FiniteSetTheorems, TLAPS

USE PoolAssumption

-----------------------------------------------------------------------------
(* First invariant: types.  That busy_workers_ does not go below 0 needs   *)
(* that it counts the busy workers.                                        *)

BusyExact == busy_workers = Cardinality(Busy)
HasTask   == \A w \in Workers : wpc[w] = "run" => task[w] \in Tasks
PoolInv   == TypeOK /\ BusyExact /\ HasTask

LEMMA BusyFinite == IsFiniteSet(Busy) /\ Cardinality(Busy) \in Nat
<1>1. Busy \subseteq Workers
  BY DEF Busy
<1>2. IsFiniteSet(Busy)
  BY <1>1, FS_Subset DEF PoolAssumption
<1> QED
  BY <1>2, FS_CardinalityType

LEMMA WorkersNat == Cardinality(Workers) \in Nat
BY FS_CardinalityType DEF PoolAssumption

LEMMA PoolInvInit == Init => PoolInv
<1> SUFFICES ASSUME Init PROVE PoolInv
  OBVIOUS
<1>1. Busy = {}
  BY DEF Init, Busy
<1>2. BusyExact /\ HasTask
  BY <1>1, FS_EmptySet DEF Init, BusyExact, HasTask
<1>3. task_queue \in Seq(Tasks)
  <2>1. CASE task_queue = <<>>
    BY <2>1
  <2>2. ASSUME NEW t \in Tasks, task_queue = <<t>> PROVE task_queue \in Seq(Tasks)
    BY <2>2
  <2> QED
    BY <2>1, <2>2 DEF Init
<1>4. TypeOK
  BY <1>3 DEF Init, TypeOK, MasterPC, WorkerPC, Starting, ShuttingDown, Waiting
<1> QED
  BY <1>2, <1>4 DEF PoolInv

\* The steps that leave the busy workers alone: of a master, or of a worker
\* that is not busy before or after.
LEMMA BusyKept ==
  ASSUME PoolInv, UNCHANGED <<busy_workers, task>>,
         \A w \in Workers : /\ wpc[w] \in {"run", "finish"} <=> wpc'[w] \in {"run", "finish"}
                            /\ wpc'[w] = "run" => wpc[w] = "run"
  PROVE  BusyExact' /\ HasTask'
<1>1. Busy' = Busy
  BY DEF Busy
<1> QED
  BY <1>1 DEF PoolInv, BusyExact, HasTask

LEMMA PoolInvMaster ==
  ASSUME PoolInv, NEW m \in Masters, Call(m) \/ Continue(m)
  PROVE  PoolInv'
<1> USE DEF PoolInv, TypeOK, MasterStep, WorkerStep, MasterPC, WorkerPC, Starting,
            ShuttingDown, Waiting, masterVars, workerVars
<1>1. UNCHANGED <<busy_workers, task, ran>>
  BY DEF Call, Continue, Startup, Shutdown, Destroy, SetNumWorkers, SubmitTask,
         WaitUntilAllFinished, AddThread, Started, ShutdownNotify, ShutdownJoin,
         DestroyJoin, SubmitNotify, WaitCheck
<1>2. mpc' \in [Masters -> MasterPC]
  BY DEF Call, Continue, Startup, Shutdown, Destroy, SetNumWorkers, SubmitTask,
         WaitUntilAllFinished, AddThread, Started, ShutdownNotify, ShutdownJoin,
         DestroyJoin, SubmitNotify, WaitCheck
<1>3. /\ workers' \in SUBSET Workers
      /\ num_workers' \in 0 .. Cardinality(Workers)
      /\ is_running' \in BOOLEAN
  BY DEF Call, Continue, Startup, Shutdown, Destroy, SetNumWorkers, SubmitTask,
         WaitUntilAllFinished, AddThread, Started, ShutdownNotify, ShutdownJoin,
         DestroyJoin, SubmitNotify, WaitCheck, JoinAll
<1>4. task_queue' \in Seq(Tasks) /\ submitted' \in SUBSET Tasks
  <2>1. CASE SubmitTask(m)
    BY <2>1 DEF SubmitTask
  <2>2. CASE ~SubmitTask(m)
    BY <2>2 DEF Call, Continue, Startup, Shutdown, Destroy, SetNumWorkers,
         WaitUntilAllFinished, AddThread, Started, ShutdownNotify, ShutdownJoin,
         DestroyJoin, SubmitNotify, WaitCheck
  <2> QED
    BY <2>1, <2>2
<1>5. /\ wpc' \in [Workers -> WorkerPC]
      /\ \A w \in Workers : wpc'[w] = wpc[w] \/ (wpc[w] \notin {"run", "finish"}
                                                  /\ wpc'[w] \in {"none", "top"})
  <2>1. CASE AddThread(m)
    BY <2>1 DEF AddThread
  <2>2. CASE ShutdownNotify(m) \/ Destroy(m)
    BY <2>2 DEF ShutdownNotify, Destroy, NotifyAll
  <2>3. CASE ShutdownJoin(m) \/ DestroyJoin(m)
    BY <2>3 DEF ShutdownJoin, DestroyJoin, JoinAll
  <2>4. CASE SubmitNotify(m)
    BY <2>4 DEF SubmitNotify, NotifyOne
  <2>5. CASE \/ Startup(m) \/ Shutdown(m) \/ SetNumWorkers(m) \/ SubmitTask(m)
             \/ WaitUntilAllFinished(m) \/ Started(m) \/ WaitCheck(m)
    BY <2>5 DEF Startup, Shutdown, SetNumWorkers, SubmitTask, WaitUntilAllFinished,
         Started, WaitCheck
  <2> QED
    BY <2>1, <2>2, <2>3, <2>4, <2>5 DEF Call, Continue
<1>6. BusyExact' /\ HasTask'
  BY <1>1, <1>5, BusyKept
<1> QED
  BY <1>1, <1>2, <1>3, <1>4, <1>5, <1>6

LEMMA PoolInvWorker ==
  ASSUME PoolInv, NEW w \in Workers, Loop(w)
  PROVE  PoolInv'
<1> USE DEF PoolInv, TypeOK, MasterStep, WorkerStep, MasterPC, WorkerPC, Starting,
            ShuttingDown, Waiting, masterVars, workerVars
<1>1. CASE WorkerSleep(w) \/ WorkerReturn(w)
  <2>1. BusyExact' /\ HasTask'
    BY <1>1, BusyKept DEF WorkerSleep, WorkerReturn
  <2> QED
    BY <1>1, <2>1 DEF WorkerSleep, WorkerReturn
<1>2. CASE WorkerPop(w)
  <2>1. Head(task_queue) \in Tasks /\ Tail(task_queue) \in Seq(Tasks)
    BY <1>2 DEF WorkerPop
  <2>2. Busy' = Busy \cup {w} /\ w \notin Busy
    BY <1>2 DEF WorkerPop, Busy
  <2>3. Cardinality(Busy') = Cardinality(Busy) + 1
    BY <2>2, BusyFinite, FS_AddElement
  <2>4. BusyExact' /\ busy_workers' \in Nat
    BY <1>2, <2>3, BusyFinite DEF WorkerPop, OneBusier, BusyExact
  <2>5. HasTask'
    BY <1>2, <2>1 DEF WorkerPop, HasTask
  <2> QED
    BY <1>2, <2>1, <2>4, <2>5 DEF WorkerPop, Popped
<1>3. CASE RunTask(w)
  <2>1. task[w] \in Tasks
    BY <1>3 DEF RunTask, HasTask
  <2>2. Busy' = Busy
    BY <1>3 DEF RunTask, Busy
  <2>3. BusyExact' /\ HasTask'
    BY <1>3, <2>2 DEF RunTask, BusyExact, HasTask
  <2>4. ran' \in [Tasks -> Nat]
    BY <1>3, <2>1 DEF RunTask
  <2> QED
    BY <1>3, <2>3, <2>4 DEF RunTask
<1>4. CASE WorkerFinish(w)
  <2>1. Busy' = Busy \ {w} /\ w \in Busy
    BY <1>4 DEF WorkerFinish, Busy
  <2>2. Cardinality(Busy') = Cardinality(Busy) - 1 /\ Cardinality(Busy') \in Nat
    <3>1. IsFiniteSet(Busy \ {w}) /\ Cardinality(Busy \ {w}) = Cardinality(Busy) - 1
      BY <2>1, BusyFinite, FS_RemoveElement
    <3> QED
      BY <2>1, <3>1, FS_CardinalityType
  <2>3. BusyExact' /\ busy_workers' \in Nat
    BY <1>4, <2>2 DEF WorkerFinish, BusyExact
  <2>4. HasTask'
    BY <1>4 DEF WorkerFinish, HasTask
  <2> QED
    BY <1>4, <2>3, <2>4 DEF WorkerFinish
<1>5. CASE WorkerNotify(w)
  <2>1. mpc' \in [Masters -> MasterPC]
    BY <1>5 DEF WorkerNotify, NotifyMaster
  <2>2. BusyExact' /\ HasTask'
    BY <1>5, BusyKept DEF WorkerNotify
  <2> QED
    BY <1>5, <2>1, <2>2 DEF WorkerNotify
<1> QED
  BY <1>1, <1>2, <1>3, <1>4, <1>5 DEF Loop

LEMMA PoolInvNext == PoolInv /\ [Next]_vars => PoolInv'
<1> SUFFICES ASSUME PoolInv, [Next]_vars PROVE PoolInv'
  OBVIOUS
<1>1. CASE \E m \in Masters : Call(m) \/ Continue(m)
  BY <1>1, PoolInvMaster
<1>2. CASE \E w \in Workers : Loop(w)
  BY <1>2, PoolInvWorker
<1>3. CASE SpuriousWakeup
  <2> USE DEF PoolInv, TypeOK, MasterStep, WorkerStep, MasterPC, WorkerPC, Starting,
              ShuttingDown, Waiting, masterVars, workerVars
  <2>1. BusyExact' /\ HasTask'
    BY <1>3, BusyKept DEF SpuriousWakeup
  <2> QED
    BY <1>3, <2>1 DEF SpuriousWakeup
<1>4. CASE UNCHANGED vars
  BY <1>4 DEF PoolInv, TypeOK, BusyExact, Busy, HasTask, vars, masterVars, workerVars
<1> QED
  BY <1>1, <1>2, <1>3, <1>4 DEF Next, Finished

\* Every variable keeps its type; the unsigned busy_workers_ never wraps around.
THEOREM PoolTypeCorrect == Spec => []TypeOK
<1>1. PoolInv => TypeOK
  BY DEF PoolInv
<1> QED
  BY <1>1, PoolInvInit, PoolInvNext, PTL DEF Spec

-----------------------------------------------------------------------------
(* Second invariant: where every task is.                                  *)

LEMMA TasksOnceInit == Init => TasksOnce
<1> SUFFICES ASSUME Init PROVE TasksOnce
  OBVIOUS
<1>1. \A w \in Workers, t \in Tasks : ~Carries(w, t)
  BY DEF Init, Carries
<1>2. CASE task_queue = <<>>
  <2>1. \A t \in Tasks : ~Queued(t) /\ t \notin submitted
    BY <1>2 DEF Init, Queued
  <2> QED
    BY <1>1, <1>2, <2>1 DEF Init, TasksOnce, QueuedOnce, RunOnce, NoneLost
<1>3. ASSUME NEW u \in Tasks, task_queue = <<u>> PROVE TasksOnce
  <2>1. \A t \in Tasks : (Queued(t) <=> t = u) /\ (t \in submitted <=> t = u)
    BY <1>3 DEF Init, Queued
  <2>2. QueuedOnce
    BY <1>3 DEF QueuedOnce
  <2> QED
    BY <1>1, <2>1, <2>2 DEF Init, TasksOnce, RunOnce, NoneLost
<1> QED
  BY <1>2, <1>3 DEF Init

\* A step that moves no task.
LEMMA TasksOnceKept ==
  ASSUME TasksOnce, UNCHANGED <<task_queue, submitted, ran, task>>,
         \A w \in Workers : wpc[w] = "run" <=> wpc'[w] = "run"
  PROVE  TasksOnce'
<1>1. \A w \in Workers, t \in Tasks : Carries(w, t)' <=> Carries(w, t)
  BY DEF Carries
<1>2. \A t \in Tasks : Queued(t)' <=> Queued(t)
  BY DEF Queued
<1> QED
  BY <1>1, <1>2 DEF TasksOnce, QueuedOnce, RunOnce, NoneLost

LEMMA TasksOnceSubmit ==
  ASSUME PoolInv, TasksOnce, NEW m \in Masters, SubmitTask(m)
  PROVE  TasksOnce'
<1>1. PICK u \in Tasks \ submitted : /\ task_queue' = Append(task_queue, u)
                                     /\ submitted' = submitted \cup {u}
  BY DEF SubmitTask
<1>2. UNCHANGED <<wpc, task, ran>> /\ \A w \in Workers, t \in Tasks : Carries(w, t)' <=> Carries(w, t)
  BY DEF SubmitTask, workerVars, Carries
<1>3. PICK n \in Nat : /\ n = Len(task_queue) /\ DOMAIN task_queue = 1 .. n
                       /\ DOMAIN task_queue' = 1 .. n + 1 /\ task_queue'[n + 1] = u
                       /\ \A i \in 1 .. n : task_queue'[i] = task_queue[i]
  BY <1>1 DEF PoolInv, TypeOK
<1>4. \A i \in 1 .. n + 1 : i \in 1 .. n \/ i = n + 1
  OBVIOUS
<1>5. \A t \in Tasks : Queued(t)' <=> Queued(t) \/ t = u
  <2>1. \A t \in Tasks : Queued(t)' => Queued(t) \/ t = u
    BY <1>3, <1>4 DEF Queued
  <2>2. \A t \in Tasks : Queued(t) => Queued(t)'
    <3>1. \A i \in 1 .. n : i \in 1 .. n + 1
      OBVIOUS
    <3> QED
      BY <1>3, <3>1 DEF Queued
  <2>3. n + 1 \in 1 .. n + 1
    OBVIOUS
  <2>4. Queued(u)'
    BY <1>3, <2>3 DEF Queued
  <2> QED
    BY <2>1, <2>2, <2>4
<1>6. ~Queued(u) /\ ran[u] = 0 /\ \A w \in Workers : ~Carries(w, u)
  BY <1>1 DEF TasksOnce, NoneLost, RunOnce
<1>7. QueuedOnce'
  <2> SUFFICES ASSUME NEW i \in 1 .. n + 1, NEW j \in 1 .. n + 1, task_queue'[i] = task_queue'[j]
               PROVE  i = j
    BY <1>3 DEF QueuedOnce
  <2>1. CASE i \in 1 .. n /\ j \in 1 .. n
    BY <1>3, <2>1 DEF TasksOnce, QueuedOnce
  <2>2. CASE i = n + 1 /\ j \in 1 .. n
    BY <1>3, <1>6, <2>2 DEF Queued
  <2>3. CASE i \in 1 .. n /\ j = n + 1
    BY <1>3, <1>6, <2>3 DEF Queued
  <2> QED
    BY <1>4, <2>1, <2>2, <2>3
<1>8. RunOnce'
  BY <1>2, <1>5, <1>6 DEF TasksOnce, RunOnce
<1>9. NoneLost'
  BY <1>1, <1>2, <1>5 DEF TasksOnce, NoneLost
<1> QED
  BY <1>7, <1>8, <1>9 DEF TasksOnce

\* A worker takes the first task off the queue.
LEMMA TasksOncePop ==
  ASSUME PoolInv, TasksOnce, NEW w \in Workers, WorkerPop(w)
  PROVE  TasksOnce'
<1>1. PICK n \in Nat : /\ n = Len(task_queue) - 1 /\ DOMAIN task_queue = 1 .. n + 1
                       /\ DOMAIN task_queue' = 1 .. n
                       /\ \A i \in 1 .. n : task_queue'[i] = task_queue[i + 1]
  <2>1. task_queue' = Tail(task_queue) /\ task_queue # <<>>
    BY DEF WorkerPop, Popped
  <2>2. task_queue \in Seq(Tasks) /\ Len(task_queue) - 1 \in Nat
    BY <2>1 DEF PoolInv, TypeOK
  <2>3. /\ Len(Tail(task_queue)) = Len(task_queue) - 1
        /\ \A i \in 1 .. Len(task_queue) - 1 : Tail(task_queue)[i] = task_queue[i + 1]
    BY <2>1, <2>2
  <2>4. /\ DOMAIN task_queue = 1 .. Len(task_queue)
        /\ DOMAIN Tail(task_queue) = 1 .. Len(task_queue) - 1
    BY <2>1, <2>2, <2>3
  <2>5. Len(task_queue) = (Len(task_queue) - 1) + 1
    BY <2>2
  <2> QED
    BY <2>1, <2>2, <2>3, <2>4, <2>5
<1>2. PICK u \in Tasks : u = task_queue[1]
  BY DEF WorkerPop, PoolInv, TypeOK
<1>3. /\ wpc' = [wpc EXCEPT ![w] = "run"] /\ task' = [task EXCEPT ![w] = u]
      /\ UNCHANGED <<submitted, ran>> /\ wpc[w] = "top"
  BY <1>2 DEF WorkerPop, WorkerStep, masterVars, PoolInv, TypeOK
<1>4. 1 \in 1 .. n + 1 /\ \A i \in 1 .. n : i + 1 \in 1 .. n + 1 /\ i + 1 # 1
  OBVIOUS
<1>5. Queued(u)
  BY <1>1, <1>2, <1>4 DEF Queued
<1>6. ~Queued(u)'
  <2> SUFFICES ASSUME NEW i \in 1 .. n, task_queue'[i] = u PROVE FALSE
    BY <1>1 DEF Queued
  <2>1. task_queue[i + 1] = task_queue[1]
    BY <1>1, <1>2
  <2> QED
    BY <1>1, <1>4, <2>1 DEF TasksOnce, QueuedOnce
<1>7. \A t \in Tasks : Queued(t)' => Queued(t)
  BY <1>1, <1>4 DEF Queued
<1>8. ASSUME NEW t \in Tasks, Queued(t), t # u PROVE Queued(t)'
  <2>1. PICK i \in 1 .. n + 1 : task_queue[i] = t
    BY <1>1, <1>8 DEF Queued
  <2>2. i # 1
    BY <1>2, <1>8, <2>1
  <2>3. i - 1 \in 1 .. n /\ (i - 1) + 1 = i
    BY <2>2
  <2> QED
    BY <1>1, <2>1, <2>3 DEF Queued
<1>9. /\ \A t \in Tasks : Carries(w, t)' <=> t = u
      /\ \A t \in Tasks : ~Carries(w, t)
      /\ \A v \in Workers \ {w}, t \in Tasks : Carries(v, t)' <=> Carries(v, t)
  BY <1>3 DEF Carries, PoolInv, TypeOK
<1>10. QueuedOnce'
  <2> SUFFICES ASSUME NEW i \in 1 .. n, NEW j \in 1 .. n, task_queue'[i] = task_queue'[j]
               PROVE  i = j
    BY <1>1 DEF QueuedOnce
  <2>1. i + 1 = j + 1
    BY <1>1, <1>4 DEF TasksOnce, QueuedOnce
  <2> QED
    BY <2>1
<1>11. \A v \in Workers : ~Carries(v, u)
  BY <1>5 DEF TasksOnce, RunOnce
<1>12. RunOnce'
  BY <1>3, <1>5, <1>6, <1>7, <1>9, <1>11 DEF TasksOnce, RunOnce
<1>13. NoneLost'
  BY <1>3, <1>5, <1>6, <1>7, <1>8, <1>9 DEF TasksOnce, NoneLost
<1> QED
  BY <1>10, <1>12, <1>13 DEF TasksOnce

LEMMA TasksOnceRun ==
  ASSUME PoolInv, TasksOnce, NEW w \in Workers, RunTask(w)
  PROVE  TasksOnce'
<1>1. PICK u \in Tasks : u = task[w] /\ Carries(w, u)
  BY DEF RunTask, WorkerStep, PoolInv, HasTask, Carries
<1>2. /\ wpc' = [wpc EXCEPT ![w] = "finish"] /\ UNCHANGED <<submitted, task_queue>>
      /\ ran' = [ran EXCEPT ![u] = @ + 1] /\ task' = [task EXCEPT ![w] = NoTask]
  BY <1>1 DEF RunTask, WorkerStep, masterVars
<1>3. ran[u] = 0 /\ ~Queued(u) /\ \A v \in Workers : Carries(v, u) => v = w
  BY <1>1 DEF TasksOnce, RunOnce
<1>4. \A t \in Tasks : Queued(t)' <=> Queued(t)
  BY <1>2 DEF Queued
<1>5. /\ \A t \in Tasks : ~Carries(w, t)'
      /\ \A t \in Tasks : Carries(w, t) => t = u
      /\ \A v \in Workers \ {w}, t \in Tasks : Carries(v, t)' <=> Carries(v, t)
  BY <1>1, <1>2 DEF Carries, PoolInv, TypeOK
<1>6. ran'[u] = 1 /\ \A t \in Tasks \ {u} : ran'[t] = ran[t]
  BY <1>2, <1>3 DEF PoolInv, TypeOK
<1>7. QueuedOnce'
  BY <1>2 DEF TasksOnce, QueuedOnce
<1>8. RunOnce'
  BY <1>3, <1>4, <1>5, <1>6 DEF TasksOnce, RunOnce
<1>9. NoneLost'
  BY <1>1, <1>2, <1>3, <1>4, <1>5, <1>6 DEF TasksOnce, NoneLost
<1> QED
  BY <1>7, <1>8, <1>9 DEF TasksOnce

LEMMA TasksOnceNext == PoolInv /\ TasksOnce /\ [Next]_vars => TasksOnce'
<1> SUFFICES ASSUME PoolInv, TasksOnce, [Next]_vars PROVE TasksOnce'
  OBVIOUS
<1> USE DEF PoolInv, TypeOK, MasterStep, WorkerStep, masterVars, workerVars
<1>1. ASSUME NEW m \in Masters, Call(m) \/ Continue(m) PROVE TasksOnce'
  <2>1. CASE SubmitTask(m)
    BY <2>1, TasksOnceSubmit
  <2>2. CASE \/ Startup(m) \/ Shutdown(m) \/ SetNumWorkers(m) \/ WaitUntilAllFinished(m)
             \/ Started(m) \/ WaitCheck(m) \/ AddThread(m)
    BY <2>2, TasksOnceKept DEF Startup, Shutdown, SetNumWorkers, WaitUntilAllFinished,
         Started, WaitCheck, AddThread
  <2>3. CASE \/ ShutdownNotify(m) \/ Destroy(m) \/ ShutdownJoin(m) \/ DestroyJoin(m)
             \/ SubmitNotify(m)
    BY <2>3, TasksOnceKept DEF ShutdownNotify, Destroy, ShutdownJoin, DestroyJoin,
         SubmitNotify, NotifyAll, NotifyOne, JoinAll
  <2> QED
    BY <1>1, <2>1, <2>2, <2>3 DEF Call, Continue
<1>2. ASSUME NEW w \in Workers, Loop(w) PROVE TasksOnce'
  <2>1. CASE WorkerPop(w)
    BY <2>1, TasksOncePop
  <2>2. CASE RunTask(w)
    BY <2>2, TasksOnceRun
  <2>3. CASE WorkerSleep(w) \/ WorkerReturn(w) \/ WorkerFinish(w) \/ WorkerNotify(w)
    BY <2>3, TasksOnceKept DEF WorkerSleep, WorkerReturn, WorkerFinish, WorkerNotify
  <2> QED
    BY <1>2, <2>1, <2>2, <2>3 DEF Loop
<1>3. CASE SpuriousWakeup
  BY <1>3, TasksOnceKept DEF SpuriousWakeup
<1>4. CASE UNCHANGED vars
  BY <1>4, TasksOnceKept DEF vars
<1> QED
  BY <1>1, <1>2, <1>3, <1>4 DEF Next, Finished

\* Whatever the order of Startup(), Shutdown(), SubmitTask() and spurious wakeups,
\* and however many masters call them, a submitted task waits in the queue, is
\* carried by one worker, or has been run once.
THEOREM EveryTaskOnce == Spec => []TasksOnce
<1>1. Init => PoolInv /\ TasksOnce
  BY PoolInvInit, TasksOnceInit
<1>2. (PoolInv /\ TasksOnce) /\ [Next]_vars => (PoolInv /\ TasksOnce)'
  BY PoolInvNext, TasksOnceNext
<1> QED
  BY <1>1, <1>2, PTL DEF Spec

-----------------------------------------------------------------------------
(* The action property.                                                    *)

\* WaitUntilAllFinished() returns at its check only, and then no worker is busy
\* and no task is queued.
LEMMA WaitStep ==
  ASSUME PoolInv, TasksOnce, [Next]_vars, NEW m \in Masters,
         mpc[m] = "wait", mpc'[m] = "idle"
  PROVE  \A t \in submitted : ran[t] = 1
<1> USE DEF PoolInv, TypeOK, MasterStep, WorkerStep, masterVars, workerVars
<1>1. WaitCheck(m) /\ AllFinished
  <2>1. ASSUME NEW o \in Masters, Call(o) \/ Continue(o) PROVE WaitCheck(m) /\ AllFinished
    BY <2>1 DEF Call, Continue, Startup, Shutdown, Destroy, SetNumWorkers, SubmitTask,
         WaitUntilAllFinished, AddThread, Started, ShutdownNotify, ShutdownJoin,
         DestroyJoin, SubmitNotify, WaitCheck
  <2>2. ~(\E w \in Workers : Loop(w))
    BY DEF Loop, WorkerSleep, WorkerReturn, WorkerPop, RunTask, WorkerFinish, WorkerNotify,
           NotifyMaster
  <2>3. ~SpuriousWakeup
    BY DEF SpuriousWakeup
  <2>4. ~(UNCHANGED vars)
    BY DEF vars
  <2> QED
    BY <2>1, <2>2, <2>3, <2>4 DEF Next, Finished
<1>2. Busy = {}
  <2>1. Cardinality(Busy) = 0
    BY <1>1 DEF AllFinished, BusyExact
  <2> QED
    BY <2>1, BusyFinite, FS_EmptySet
<1>3. \A w \in Workers, t \in Tasks : ~Carries(w, t)
  BY <1>2 DEF Busy, Carries
<1>4. \A t \in Tasks : ~Queued(t)
  BY <1>1 DEF AllFinished, Queued
<1> QED
  BY <1>3, <1>4 DEF TasksOnce, NoneLost

\* The harness may read the results of its workload after
\* WaitUntilAllFinished(): every submitted task has been run, once.
THEOREM WaitIsExact == Spec => WaitExact
<1>1. Init => PoolInv /\ TasksOnce
  BY PoolInvInit, TasksOnceInit
<1>2. (PoolInv /\ TasksOnce) /\ [Next]_vars => (PoolInv /\ TasksOnce)'
  BY PoolInvNext, TasksOnceNext
<1>3. PoolInv /\ TasksOnce /\ [Next]_vars =>
        [\A m \in Masters :
           mpc[m] = "wait" /\ mpc'[m] = "idle" => \A t \in submitted : ran[t] = 1]_vars
  BY WaitStep
<1> QED
  BY <1>1, <1>2, <1>3, PTL DEF Spec, WaitExact

-----------------------------------------------------------------------------
(* Third invariant, for one master: which threads exist.                   *)

\* A worker thread exists exactly while its std::thread object is in workers_,
\* and that is empty unless the pool runs or is being shut down.
ThreadsKnown == \A w \in Workers : wpc[w] # "none" <=> w \in workers
EmptyAtRest ==
  \A m \in Masters :
    /\ mpc[m] \in {"idle", "wait", "asleep", "gone"} /\ ~is_running => workers = {}
    /\ mpc[m] \in {"adding", "notifyOne"} => is_running
RestInv == ThreadsKnown /\ EmptyAtRest

LEMMA RestInvNext ==
  ASSUME NEW master, Masters = {master}
  PROVE  PoolInv /\ RestInv /\ [Next]_vars => RestInv'
<1> SUFFICES ASSUME PoolInv, RestInv, [Next]_vars PROVE RestInv'
  OBVIOUS
<1> USE DEF PoolInv, TypeOK, MasterStep, WorkerStep, masterVars, workerVars
<1>1. ASSUME NEW m \in Masters, Call(m) \/ Continue(m) PROVE RestInv'
  <2>1. m = master
    OBVIOUS
  <2>2. CASE \/ Startup(m) \/ Shutdown(m) \/ SetNumWorkers(m) \/ SubmitTask(m)
             \/ WaitUntilAllFinished(m) \/ Started(m) \/ WaitCheck(m)
    BY <2>1, <2>2 DEF Startup, Shutdown, SetNumWorkers, SubmitTask, WaitUntilAllFinished,
         Started, WaitCheck, RestInv, ThreadsKnown, EmptyAtRest
  <2>3. CASE AddThread(m)
    <3>1. PICK w \in Workers \ workers : /\ wpc' = [wpc EXCEPT ![w] = "top"]
                                         /\ workers' = workers \cup {w}
      BY <2>3 DEF AddThread
    <3>2. ThreadsKnown'
      BY <3>1 DEF RestInv, ThreadsKnown
    <3> QED
      BY <2>1, <2>3, <3>2 DEF AddThread, RestInv, EmptyAtRest
  <2>4. CASE ShutdownNotify(m) \/ Destroy(m)
    BY <2>1, <2>4 DEF ShutdownNotify, Destroy, NotifyAll, RestInv, ThreadsKnown, EmptyAtRest
  <2>5. CASE SubmitNotify(m)
    <3>1. ThreadsKnown'
      BY <2>5 DEF SubmitNotify, NotifyOne, RestInv, ThreadsKnown
    <3> QED
      BY <2>1, <2>5, <3>1 DEF SubmitNotify, RestInv, EmptyAtRest
  <2>6. CASE ShutdownJoin(m) \/ DestroyJoin(m)
    <3>1. JoinAll /\ UNCHANGED is_running
      BY <2>6 DEF ShutdownJoin, DestroyJoin
    <3>2. ThreadsKnown'
      BY <3>1 DEF JoinAll, Joinable, RestInv, ThreadsKnown
    <3>3. workers' = {} /\ mpc'[m] \in {"idle", "gone"}
      BY <2>6, <3>1 DEF JoinAll, ShutdownJoin, DestroyJoin
    <3> QED
      BY <2>1, <3>2, <3>3 DEF RestInv, EmptyAtRest
  <2> QED
    BY <1>1, <2>2, <2>3, <2>4, <2>5, <2>6 DEF Call, Continue
<1>2. ASSUME NEW w \in Workers, Loop(w) PROVE RestInv'
  <2>1. UNCHANGED <<workers, is_running>> /\ ThreadsKnown'
    BY <1>2 DEF Loop, WorkerSleep, WorkerReturn, WorkerPop, RunTask, WorkerFinish,
         WorkerNotify, RestInv, ThreadsKnown
  <2>2. UNCHANGED mpc \/ (\E m \in Masters : MasterStep(m, "asleep", "wait"))
    BY <1>2 DEF Loop, WorkerSleep, WorkerReturn, WorkerPop, RunTask, WorkerFinish,
         WorkerNotify, NotifyMaster
  <2> QED
    BY <2>1, <2>2 DEF RestInv, EmptyAtRest
<1>3. CASE SpuriousWakeup
  BY <1>3 DEF SpuriousWakeup, RestInv, ThreadsKnown, EmptyAtRest
<1>4. CASE UNCHANGED vars
  BY <1>4 DEF vars, RestInv, ThreadsKnown, EmptyAtRest
<1> QED
  BY <1>1, <1>2, <1>3, <1>4 DEF Next, Finished

\* After Shutdown() no worker thread exists, so that Startup() never finds more
\* threads than num_workers_ and never has to cut down workers_, which would
\* destroy a std::thread that can still be joined.
THEOREM ShutdownLeavesNobody ==
  ASSUME NEW master, Masters = {master}
  PROVE  Spec => []QuietAfterShutdown
<1>1. Init => PoolInv /\ RestInv
  BY PoolInvInit DEF Init, RestInv, ThreadsKnown, EmptyAtRest
<1>2. (PoolInv /\ RestInv) /\ [Next]_vars => (PoolInv /\ RestInv)'
  BY PoolInvNext, RestInvNext
<1>3. RestInv => QuietAfterShutdown
  BY DEF RestInv, ThreadsKnown, EmptyAtRest, QuietAfterShutdown
<1> QED
  BY <1>1, <1>2, <1>3, PTL DEF Spec
=============================================================================
