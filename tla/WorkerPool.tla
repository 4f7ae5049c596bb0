----------------------------- MODULE WorkerPool -----------------------------
(***************************************************************************)
(* The pool of threads the Bw-Tree tests run on (worker_pool.h), used by   *)
(* one master thread as MultiThreadTestUtil::RunThreadsUntilFinish() uses  *)
(* it, or in any other order of calls that its assertions allow.           *)
(*                                                                         *)
(* A critical section of task_lock_ is one step; what is done before or    *)
(* after it (notify_one(), notify_all(), task(), join()) is another.  A    *)
(* thread that waits on a condition variable is "asleep" until a notify,   *)
(* or nothing at all, wakes it up and it takes the lock again.             *)
(***************************************************************************)
EXTENDS Integers, Sequences, FiniteSets

CONSTANTS
  Masters,   \* threads that call the pool; the tests have one
  Workers,   \* threads the pool can create
  Tasks,     \* bound: each task is submitted at most once
  NoTask     \* the empty function

ASSUME PoolAssumption == IsFiniteSet(Workers) /\ NoTask \notin Tasks

VARIABLES
  mpc,           \* master -> where it is in a call
  wpc,           \* worker -> where it is in the loop of AddThread()
  task,          \* worker -> its local variable task
  workers,       \* workers_
  num_workers,   \* num_workers_
  is_running,    \* is_running_
  task_queue,    \* task_queue_
  busy_workers,  \* busy_workers_
  submitted,     \* history: the tasks that were ever put into the queue
  ran            \* history: task -> how often task() was called

masterVars == <<mpc, num_workers, submitted>>
workerVars == <<wpc, task, busy_workers, ran>>
vars == <<masterVars, workerVars, workers, is_running, task_queue>>

\* A call that is in progress, by what it does next.
Starting     == {"adding"}
ShuttingDown == {"notifyAll", "joining"}
Waiting      == {"wait", "asleep"}
MasterPC == {"idle", "notifyOne", "destroying", "gone"} \cup Starting \cup ShuttingDown \cup Waiting
WorkerPC == {"none", "top", "asleep", "run", "finish", "notify", "returned"}

\* The workers that have taken a task off the queue and not signed off yet.
Busy == {w \in Workers : wpc[w] \in {"run", "finish"}}

\* The constructor is given the first tasks.
Init ==
  /\ mpc = [m \in Masters |-> "idle"]
  /\ wpc = [w \in Workers |-> "none"]
  /\ task_queue \in {<<>>} \cup {<<t>> : t \in Tasks}
  /\ submitted = {t \in Tasks : task_queue = <<t>>}
  /\ task = [w \in Workers |-> NoTask]
  /\ workers = {}
  /\ num_workers \in 0 .. Cardinality(Workers)
  /\ is_running = FALSE
  /\ busy_workers = 0
  /\ ran = [t \in Tasks |-> 0]

MasterStep(m, from, to) == mpc[m] = from /\ mpc' = [mpc EXCEPT ![m] = to]
WorkerStep(w, from, to) == wpc[w] = from /\ wpc' = [wpc EXCEPT ![w] = to]

-----------------------------------------------------------------------------
(* Condition variables                                                     *)

\* task_cv_.notify_all() and notify_one(): who waits goes back to its check.
NotifyAll_One ==
  IF \E w \in Workers : wpc[w] = "asleep"
    THEN \E w \in Workers : WorkerStep(w, "asleep", "top")
    ELSE UNCHANGED wpc
NotifyAll == wpc' = [w \in Workers |-> IF wpc[w] = "asleep" THEN "top" ELSE wpc[w]]

NotifyOne ==
  \/ \E w \in Workers : WorkerStep(w, "asleep", "top")
  \/ (\A w \in Workers : wpc[w] # "asleep") /\ UNCHANGED wpc

\* finished_cv_.notify_one().
NotifyMaster ==
  \/ \E m \in Masters : MasterStep(m, "asleep", "wait")
  \/ (\A m \in Masters : mpc[m] # "asleep") /\ UNCHANGED mpc

-----------------------------------------------------------------------------
(* Startup() and Shutdown()                                                *)

Startup(m) ==
  /\ ~is_running
  /\ MasterStep(m, "idle", "adding")
  /\ is_running' = TRUE
  /\ UNCHANGED <<num_workers, submitted, workerVars, workers, task_queue>>

AddThread(m) ==
  /\ mpc[m] = "adding"
  /\ Cardinality(workers) < num_workers
  /\ \E w \in Workers \ workers :
       /\ WorkerStep(w, "none", "top")
       /\ workers' = workers \cup {w}
  /\ UNCHANGED <<masterVars, task, busy_workers, ran, is_running, task_queue>>

Started(m) ==
  /\ Cardinality(workers) >= num_workers
  /\ MasterStep(m, "adding", "idle")
  /\ UNCHANGED <<num_workers, submitted, workerVars, workers, is_running, task_queue>>

Shutdown(m) ==
  /\ MasterStep(m, "idle", "notifyAll")
  /\ is_running' = FALSE
  /\ UNCHANGED <<num_workers, submitted, workerVars, workers, task_queue>>

ShutdownNotify(m) ==
  /\ MasterStep(m, "notifyAll", "joining")
  /\ NotifyAll
  /\ UNCHANGED <<num_workers, submitted, task, busy_workers, ran, workers, is_running, task_queue>>

\* The thread has left its loop, so that join() returns.
Joinable_Idle(w) == wpc[w] \in {"returned", "top", "asleep"}
Joinable(w) == wpc[w] = "returned"

\* join() one after the other, then workers_.clear().
JoinAll ==
  /\ \A w \in workers : Joinable(w)
  /\ wpc' = [w \in Workers |-> IF wpc[w] = "returned" THEN "none" ELSE wpc[w]]
  /\ workers' = {}

ShutdownJoin(m) ==
  /\ MasterStep(m, "joining", "idle")
  /\ JoinAll
  /\ UNCHANGED <<num_workers, submitted, task, busy_workers, ran, is_running, task_queue>>

\* ~WorkerPool() notifies while it holds the lock.  No other call is running.
Destroy(m) ==
  /\ \A o \in Masters : mpc[o] = "idle"
  /\ MasterStep(m, "idle", "destroying")
  /\ is_running' = FALSE
  /\ NotifyAll
  /\ UNCHANGED <<num_workers, submitted, task, busy_workers, ran, workers, task_queue>>

DestroyJoin(m) ==
  /\ mpc[m] = "destroying"
  /\ mpc' = [o \in Masters |-> "gone"]
  /\ JoinAll
  /\ UNCHANGED <<num_workers, submitted, task, busy_workers, ran, is_running, task_queue>>

\* Asserted to happen only while the pool is not running.
SetNumWorkers(m) ==
  /\ mpc[m] = "idle"
  /\ ~is_running
  /\ num_workers' \in 0 .. Cardinality(Workers)
  /\ UNCHANGED <<mpc, submitted, workerVars, workers, is_running, task_queue>>

-----------------------------------------------------------------------------
(* SubmitTask() and WaitUntilAllFinished()                                 *)

SubmitTask(m) ==
  /\ is_running
  /\ MasterStep(m, "idle", "notifyOne")
  /\ \E t \in Tasks \ submitted :
       /\ task_queue' = Append(task_queue, t)
       /\ submitted' = submitted \cup {t}
  /\ UNCHANGED <<num_workers, workerVars, workers, is_running>>

SubmitNotify(m) ==
  /\ MasterStep(m, "notifyOne", "idle")
  /\ NotifyOne
  /\ UNCHANGED <<num_workers, submitted, task, busy_workers, ran, workers, is_running, task_queue>>

\* A caller that wants to return calls it when somebody works on the queue.
WaitUntilAllFinished(m) ==
  /\ task_queue = <<>> \/ (is_running /\ num_workers > 0)
  /\ MasterStep(m, "idle", "wait")
  /\ UNCHANGED <<num_workers, submitted, workerVars, workers, is_running, task_queue>>

\* The predicate of finished_cv_.wait().
AllFinished_QueueEmpty == task_queue = <<>>
AllFinished == busy_workers = 0 /\ task_queue = <<>>

WaitCheck(m) ==
  /\ MasterStep(m, "wait", IF AllFinished THEN "idle" ELSE "asleep")
  /\ UNCHANGED <<num_workers, submitted, workerVars, workers, is_running, task_queue>>

-----------------------------------------------------------------------------
(* The loop of a worker thread                                             *)

\* Nothing to do: task_cv_.wait() releases the lock and sleeps.
WorkerSleep(w) ==
  /\ is_running
  /\ task_queue = <<>>
  /\ WorkerStep(w, "top", "asleep")
  /\ UNCHANGED <<masterVars, task, busy_workers, ran, workers, is_running, task_queue>>

\* Shutting down: the tasks left in the queue stay there.
WorkerReturn(w) ==
  /\ ~is_running
  /\ WorkerStep(w, "top", "returned")
  /\ UNCHANGED <<masterVars, task, busy_workers, ran, workers, is_running, task_queue>>

\* task_queue_.pop(), ++busy_workers_.
Popped_Kept == task_queue
Popped == Tail(task_queue)
OneBusier_Later == busy_workers
OneBusier == busy_workers + 1

WorkerPop(w) ==
  /\ is_running
  /\ task_queue # <<>>
  /\ WorkerStep(w, "top", "run")
  /\ task' = [task EXCEPT ![w] = Head(task_queue)]
  /\ task_queue' = Popped
  /\ busy_workers' = OneBusier
  /\ UNCHANGED <<masterVars, ran, workers, is_running>>

\* task().  What the variable holds after the call is never used.
RunTask(w) ==
  /\ WorkerStep(w, "run", "finish")
  /\ ran' = [ran EXCEPT ![task[w]] = @ + 1]
  /\ task' = [task EXCEPT ![w] = NoTask]
  /\ UNCHANGED <<masterVars, busy_workers, workers, is_running, task_queue>>

WorkerFinish(w) ==
  /\ WorkerStep(w, "finish", "notify")
  /\ busy_workers' = busy_workers - 1
  /\ UNCHANGED <<masterVars, task, ran, workers, is_running, task_queue>>

WorkerNotify(w) ==
  /\ WorkerStep(w, "notify", "top")
  /\ NotifyMaster
  /\ UNCHANGED <<num_workers, submitted, task, busy_workers, ran, workers, is_running, task_queue>>

-----------------------------------------------------------------------------
\* Condition variables may wake a thread up for no reason.
SpuriousWakeup ==
  \/ /\ \E w \in Workers : WorkerStep(w, "asleep", "top")
     /\ UNCHANGED <<masterVars, task, busy_workers, ran, workers, is_running, task_queue>>
  \/ /\ \E m \in Masters : MasterStep(m, "asleep", "wait")
     /\ UNCHANGED <<num_workers, submitted, workerVars, workers, is_running, task_queue>>

\* The pool has been destroyed.
Finished == (\A m \in Masters : mpc[m] = "gone") /\ UNCHANGED vars

Call(m) ==
  \/ Startup(m) \/ Shutdown(m) \/ Destroy(m) \/ SetNumWorkers(m)
  \/ SubmitTask(m) \/ WaitUntilAllFinished(m)

Continue(m) ==
  \/ AddThread(m) \/ Started(m) \/ ShutdownNotify(m) \/ ShutdownJoin(m)
  \/ DestroyJoin(m) \/ SubmitNotify(m) \/ WaitCheck(m)

Loop(w) ==
  \/ WorkerSleep(w) \/ WorkerReturn(w) \/ WorkerPop(w)
  \/ RunTask(w) \/ WorkerFinish(w) \/ WorkerNotify(w)

Next ==
  \/ \E m \in Masters : Call(m) \/ Continue(m)
  \/ \E w \in Workers : Loop(w)
  \/ SpuriousWakeup
  \/ Finished

Spec == Init /\ [][Next]_vars

\* The operating system runs every thread that is ready, a task ends, and
\* task_lock_ is held for a moment only.  Nobody has to call the pool.
Fairness ==
  /\ \A m \in Masters : WF_vars(Continue(m))
  /\ \A w \in Workers : WF_vars(Loop(w))

FairSpec == Spec /\ Fairness

-----------------------------------------------------------------------------
(* Properties                                                              *)

TypeOK ==
  /\ mpc \in [Masters -> MasterPC]
  /\ wpc \in [Workers -> WorkerPC]
  /\ task \in [Workers -> Tasks \cup {NoTask}]
  /\ workers \in SUBSET Workers
  /\ num_workers \in 0 .. Cardinality(Workers)
  /\ is_running \in BOOLEAN
  /\ task_queue \in Seq(Tasks)
  /\ busy_workers \in Nat
  /\ submitted \in SUBSET Tasks
  /\ ran \in [Tasks -> Nat]

\* A submitted task is in the queue, in the hands of one worker or has been run
\* once, whatever Startup() and Shutdown() came between: none is lost when the
\* workers stop with a queue that is not empty, and none is run twice.
Queued(t)     == \E i \in DOMAIN task_queue : task_queue[i] = t
Carries(w, t) == wpc[w] = "run" /\ task[w] = t

QueuedOnce == \A i, j \in DOMAIN task_queue : task_queue[i] = task_queue[j] => i = j
RunOnce ==
  \A t \in Tasks :
    /\ ran[t] \in {0, 1}
    /\ Queued(t) => ran[t] = 0
    /\ \A w \in Workers : Carries(w, t) =>
         ~Queued(t) /\ ran[t] = 0 /\ \A u \in Workers : Carries(u, t) => u = w
NoneLost ==
  \A t \in Tasks :
    t \in submitted <=> Queued(t) \/ (\E w \in Workers : Carries(w, t)) \/ ran[t] = 1

TasksOnce == QueuedOnce /\ RunOnce /\ NoneLost

\* WaitUntilAllFinished() returns only when every task submitted by then has
\* been run to its end: no worker is between taking a task and running it.
WaitExact ==
  [][\A m \in Masters :
       mpc[m] = "wait" /\ mpc'[m] = "idle" => \A t \in submitted : ran[t] = 1]_vars

\* With one master, once Shutdown() has returned no worker thread is left, so
\* that the next test, or the next Startup(), starts from a clean pool.
QuietAfterShutdown ==
  ~is_running /\ (\A m \in Masters : mpc[m] \in {"idle", "gone"})
    => workers = {} /\ \A w \in Workers : wpc[w] = "none"

\* With one master, every call returns: no wakeup that it needs is lost.
CallsReturn == \A m \in Masters : mpc[m] # "idle" ~> mpc[m] \in {"idle", "gone"}
=============================================================================
