-------------------------- MODULE WorkerScheduler --------------------------
(***************************************************************************)
(* src/src/aivm_worker_scheduler.c: a pool of ActiveLimit threads that     *)
(* serve a table of OutstandingLimit task slots under one mutex and one    *)
(* condition variable.                                                     *)
(*                                                                         *)
(* Every access to the table is inside the mutex, so one critical section  *)
(* is one action.  A thread blocked in the condition variable is           *)
(* "waiting"; a broadcast, or a spurious wake-up, makes it contend for the *)
(* mutex again ("ready" for a worker, "awaiting" for a caller), and only   *)
(* its next critical section evaluates its predicate.                      *)
(***************************************************************************)
EXTENDS Naturals, FiniteSets

CONSTANTS
  Ids,               \* submission ids the callers may use
  ActiveLimit,       \* number of worker threads
  OutstandingLimit,  \* number of task slots
  Callers            \* threads that call the scheduler's functions

ASSUME IdsAssumption == Ids \subseteq Nat \ {0}

\* aivm_worker_scheduler_create refuses any other pair of limits.
ASSUME LimitsAssumption ==
  /\ ActiveLimit \in Nat \ {0}
  /\ OutstandingLimit \in Nat \ {0}
  /\ ActiveLimit <= OutstandingLimit

VARIABLES
  phase,             \* "creating", "live", "joining", "destroyed"
  stopping,          \* scheduler->stopping
  workerCount,       \* scheduler->worker_count: started and not yet joined
  tasks,             \* scheduler->tasks
  outstandingCount,  \* scheduler->outstanding_count
  workerPc,          \* where each worker thread is in scheduler_worker_main
  workerId,          \* its local submission_id
  callerPc,          \* "idle", or inside aivm_worker_scheduler_await
  callerId,          \* the id a caller awaits
  ret                \* what the last call to return returned

table == <<tasks, outstandingCount>>
workerVars == <<workerPc, workerId>>
callerVars == <<callerPc, callerId, ret>>
vars == <<phase, stopping, workerCount, table, workerVars, callerVars>>

Workers == 1..ActiveLimit
Slots == 1..OutstandingLimit
TaskStatus == {"QUEUED", "RUNNING", "COMPLETED", "CANCELED"}
Terminal == {"COMPLETED", "CANCELED"}
WorkerPcs == {"unborn", "ready", "waiting", "running", "exited"}
CallerPcs == {"idle", "awaiting", "waiting"}
Returns == {"none", "ok", "limit", "argument", "canceled", "not_canceled"}
           \cup Terminal

\* Placeholder for a local variable that holds no id.
NoId == 0

TaskRecord == [occupied : BOOLEAN, id : Ids \cup {NoId}, status : TaskStatus]

(***************************************************************************)
(* find_task and find_queued_task.                                         *)
(***************************************************************************)
Holds(i, id) == tasks[i].occupied /\ tasks[i].id = id

Found(id) == \E i \in Slots : Holds(i, id)

Queued(i) == tasks[i].occupied /\ tasks[i].status = "QUEUED"

AnyQueued == \E i \in Slots : Queued(i)

\* Faulty variant: newest submission first.
LastQueued(i) ==
  /\ Queued(i)
  /\ \A j \in Slots : Queued(j) => tasks[j].id <= tasks[i].id

\* The queued slot with the lowest submission id.
FirstQueued(i) ==
  /\ Queued(i)
  /\ \A j \in Slots : Queued(j) => tasks[i].id <= tasks[j].id

SetStatus(i, status) == tasks' = [tasks EXCEPT ![i].status = status]

\* scheduler_wake_all: every waiter will contend for the mutex again.
Awoken(w) == IF workerPc[w] = "waiting" THEN "ready" ELSE workerPc[w]

WakeWorkers == workerPc' = [w \in Workers |-> Awoken(w)]

WakeCallers ==
  callerPc' = [c \in Callers |->
                 IF callerPc[c] = "waiting" THEN "awaiting" ELSE callerPc[c]]

(***************************************************************************)
(* aivm_worker_scheduler_create starts the threads one by one.  When one   *)
(* cannot be started the ones already running are told to stop and joined, *)
(* and the scheduler is never handed to a caller.                          *)
(***************************************************************************)
StartWorker ==
  /\ phase = "creating"
  /\ workerPc' = [workerPc EXCEPT ![workerCount + 1] = "ready"]
  /\ workerCount' = workerCount + 1
  /\ phase' = IF workerCount + 1 = ActiveLimit THEN "live" ELSE phase
  /\ UNCHANGED <<stopping, table, workerId, callerVars>>

StartWorkerFails ==
  /\ phase = "creating"
  /\ phase' = "joining"
  /\ stopping' = TRUE
  /\ WakeWorkers
  /\ UNCHANGED <<workerCount, table, workerId, callerVars>>

(***************************************************************************)
(* scheduler_worker_main.                                                  *)
(***************************************************************************)
WorkerWait(w) ==
  /\ workerPc[w] = "ready"
  /\ ~AnyQueued
  /\ ~stopping
  /\ workerPc' = [workerPc EXCEPT ![w] = "waiting"]
  /\ UNCHANGED <<phase, stopping, workerCount, table, workerId, callerVars>>

\* Faulty variant: a worker that finds no task leaves instead of waiting.
WorkerExitWhenIdle(w) ==
  /\ workerPc[w] = "ready"
  /\ stopping \/ ~AnyQueued
  /\ workerPc' = [workerPc EXCEPT ![w] = "exited"]
  /\ UNCHANGED <<phase, stopping, workerCount, table, workerId, callerVars>>

\* Faulty variant: the loop goes on until every task has been released.
WorkerExitWhenDrained(w) ==
  /\ workerPc[w] = "ready"
  /\ stopping
  /\ workerPc' = [workerPc EXCEPT ![w] = IF outstandingCount = 0 THEN "exited" ELSE @]
  /\ UNCHANGED <<phase, stopping, workerCount, table, workerId, callerVars>>

\* A stopping pool abandons its queue: the worker exits without taking a task.
WorkerExit(w) ==
  /\ workerPc[w] = "ready"
  /\ stopping
  /\ workerPc' = [workerPc EXCEPT ![w] = "exited"]
  /\ UNCHANGED <<phase, stopping, workerCount, table, workerId, callerVars>>

WorkerTake(w) ==
  /\ workerPc[w] = "ready"
  /\ ~stopping
  /\ \E i \in Slots :
       /\ FirstQueued(i)
       /\ SetStatus(i, "RUNNING")
       /\ workerId' = [workerId EXCEPT ![w] = tasks[i].id]
  /\ workerPc' = [workerPc EXCEPT ![w] = "running"]
  /\ UNCHANGED <<phase, stopping, workerCount, outstandingCount, callerVars>>

\* Faulty variant: completion hands the admission credit back.
WorkerCompleteReturnsCredit(w) ==
  /\ workerPc[w] = "running"
  /\ tasks' = [i \in Slots |->
                 IF Holds(i, workerId[w])
                   THEN [tasks[i] EXCEPT !.status = "COMPLETED"]
                   ELSE tasks[i]]
  /\ outstandingCount' = outstandingCount - 1
  /\ workerPc' = [v \in Workers |-> IF v = w THEN "ready" ELSE Awoken(v)]
  /\ workerId' = [workerId EXCEPT ![w] = NoId]
  /\ WakeCallers
  /\ UNCHANGED <<phase, stopping, workerCount, callerId, ret>>

\* After run(context) the worker looks its task up again by id, marks it
\* completed if it is still there and running, and wakes everybody.
WorkerComplete(w) ==
  /\ workerPc[w] = "running"
  /\ tasks' = [i \in Slots |->
                 IF Holds(i, workerId[w]) /\ tasks[i].status = "RUNNING"
                   THEN [tasks[i] EXCEPT !.status = "COMPLETED"]
                   ELSE tasks[i]]
  /\ workerPc' = [v \in Workers |-> IF v = w THEN "ready" ELSE Awoken(v)]
  /\ workerId' = [workerId EXCEPT ![w] = NoId]
  /\ WakeCallers
  /\ UNCHANGED <<phase, stopping, workerCount, outstandingCount, callerId, ret>>

\* pthread_cond_wait may return without a broadcast.
SpuriousWake ==
  \/ \E w \in Workers :
       /\ workerPc[w] = "waiting"
       /\ workerPc' = [workerPc EXCEPT ![w] = "ready"]
       /\ UNCHANGED <<phase, stopping, workerCount, table, workerId, callerVars>>
  \/ \E c \in Callers :
       /\ callerPc[c] = "waiting"
       /\ callerPc' = [callerPc EXCEPT ![c] = "awaiting"]
       /\ UNCHANGED <<phase, stopping, workerCount, table, workerVars, callerId, ret>>

(***************************************************************************)
(* The callers' functions.                                                 *)
(***************************************************************************)
Return(value) == ret' = value

\* A caller may enter a function of a live scheduler.
CanCall(c) == phase = "live" /\ callerPc[c] = "idle"

\* Faulty variant: the submission wakes nobody.
SubmitSilent(c, id) ==
  /\ CanCall(c)
  /\ outstandingCount < OutstandingLimit
  /\ ~Found(id)
  /\ \E i \in Slots :
       /\ ~tasks[i].occupied
       /\ tasks' = [tasks EXCEPT ![i] =
            [occupied |-> TRUE, id |-> id, status |-> "QUEUED"]]
  /\ outstandingCount' = outstandingCount + 1
  /\ Return("ok")
  /\ UNCHANGED <<phase, stopping, workerCount, workerVars, callerPc, callerId>>

Submit(c, id) ==
  /\ CanCall(c)
  /\ outstandingCount < OutstandingLimit
  /\ ~Found(id)
  /\ \E i \in Slots :
       /\ ~tasks[i].occupied
       /\ \A j \in 1..(i - 1) : tasks[j].occupied
       /\ tasks' = [tasks EXCEPT ![i] =
            [occupied |-> TRUE, id |-> id, status |-> "QUEUED"]]
  /\ outstandingCount' = outstandingCount + 1
  /\ WakeWorkers
  /\ WakeCallers
  /\ Return("ok")
  /\ UNCHANGED <<phase, stopping, workerCount, workerId, callerId>>

SubmitLimit(c, id) ==
  /\ CanCall(c)
  /\ \/ outstandingCount >= OutstandingLimit
     \/ Found(id)
     \/ \A i \in Slots : tasks[i].occupied
  /\ Return("limit")
  /\ UNCHANGED <<phase, stopping, workerCount, table, workerVars, callerPc, callerId>>

\* Entry of aivm_worker_scheduler_await, before its mutex is taken.
Await(c, id) ==
  /\ CanCall(c)
  /\ callerPc' = [callerPc EXCEPT ![c] = "awaiting"]
  /\ callerId' = [callerId EXCEPT ![c] = id]
  /\ UNCHANGED <<phase, stopping, workerCount, table, workerVars, ret>>

\* One evaluation of the await loop, with the mutex held.
AwaitWaits(c) ==
  /\ callerPc[c] = "awaiting"
  /\ \E i \in Slots :
       Holds(i, callerId[c]) /\ tasks[i].status \notin Terminal
  /\ callerPc' = [callerPc EXCEPT ![c] = "waiting"]
  /\ UNCHANGED <<phase, stopping, workerCount, table, workerVars, callerId, ret>>

AwaitReturns(c) ==
  /\ callerPc[c] = "awaiting"
  /\ \/ \E i \in Slots :
          /\ Holds(i, callerId[c])
          /\ tasks[i].status \in Terminal
          /\ Return(tasks[i].status)
     \/ ~Found(callerId[c]) /\ Return("argument")
  /\ callerPc' = [callerPc EXCEPT ![c] = "idle"]
  /\ callerId' = [callerId EXCEPT ![c] = NoId]
  /\ UNCHANGED <<phase, stopping, workerCount, table, workerVars>>

\* Faulty variant: a running task is canceled too.
CancelRunning(c, id) ==
  /\ CanCall(c)
  /\ \E i \in Slots :
       /\ Holds(i, id)
       /\ tasks[i].status \notin Terminal
       /\ SetStatus(i, "CANCELED")
  /\ WakeWorkers
  /\ WakeCallers
  /\ Return("canceled")
  /\ UNCHANGED <<phase, stopping, workerCount, outstandingCount, workerId, callerId>>

\* Only a task no worker has taken yet is canceled.
Cancel(c, id) ==
  /\ CanCall(c)
  /\ \E i \in Slots :
       /\ Holds(i, id)
       /\ tasks[i].status = "QUEUED"
       /\ SetStatus(i, "CANCELED")
  /\ WakeWorkers
  /\ WakeCallers
  /\ Return("canceled")
  /\ UNCHANGED <<phase, stopping, workerCount, outstandingCount, workerId, callerId>>

CancelRefused(c, id) ==
  /\ CanCall(c)
  /\ \/ /\ \E i \in Slots : Holds(i, id) /\ tasks[i].status # "QUEUED"
        /\ Return("not_canceled")
     \/ ~Found(id) /\ Return("argument")
  /\ UNCHANGED <<phase, stopping, workerCount, table, workerVars, callerPc, callerId>>

\* Returns the slot and its credit.  It wakes nobody.
Release(c, id) ==
  /\ CanCall(c)
  /\ \E i \in Slots :
       /\ Holds(i, id)
       /\ tasks[i].status \in Terminal
       /\ tasks' = [tasks EXCEPT ![i].occupied = FALSE]
  /\ outstandingCount' = outstandingCount - 1
  /\ Return("ok")
  /\ UNCHANGED <<phase, stopping, workerCount, workerVars, callerPc, callerId>>

ReleaseRefused(c, id) ==
  /\ CanCall(c)
  /\ \A i \in Slots : Holds(i, id) => tasks[i].status \notin Terminal
  /\ Return("argument")
  /\ UNCHANGED <<phase, stopping, workerCount, table, workerVars, callerPc, callerId>>

(***************************************************************************)
(* aivm_worker_scheduler_destroy.  It frees the scheduler, so no other     *)
(* call may be in progress.  The threads are joined last started first.    *)
(***************************************************************************)
Destroy(c) ==
  /\ CanCall(c)
  /\ \A d \in Callers : callerPc[d] = "idle"
  /\ phase' = "joining"
  /\ stopping' = TRUE
  /\ WakeWorkers
  /\ UNCHANGED <<workerCount, table, workerId, callerVars>>

\* Faulty variant: the scheduler does not wait for its threads.
DetachWorker ==
  /\ phase = "joining"
  /\ workerCount > 0
  /\ workerCount' = workerCount - 1
  /\ UNCHANGED <<phase, stopping, table, workerVars, callerVars>>

JoinWorker ==
  /\ phase = "joining"
  /\ workerCount > 0
  /\ workerPc[workerCount] = "exited"
  /\ workerCount' = workerCount - 1
  /\ UNCHANGED <<phase, stopping, table, workerVars, callerVars>>

\* Tasks, threads, mutex and condition variable are freed.
Free ==
  /\ phase = "joining"
  /\ workerCount = 0
  /\ phase' = "destroyed"
  /\ UNCHANGED <<stopping, workerCount, table, workerVars, callerVars>>

\* A freed scheduler takes no step.
Destroyed == phase = "destroyed" /\ UNCHANGED vars

WorkerStep(w) ==
  WorkerWait(w) \/ WorkerExit(w) \/ WorkerTake(w) \/ WorkerComplete(w)

AwaitStep(c) == AwaitWaits(c) \/ AwaitReturns(c)

Call(c) ==
  \/ \E id \in Ids :
       \/ Submit(c, id) \/ SubmitLimit(c, id)
       \/ Await(c, id)
       \/ Cancel(c, id) \/ CancelRefused(c, id)
       \/ Release(c, id) \/ ReleaseRefused(c, id)
  \/ Destroy(c)

CreateStep == StartWorker \/ StartWorkerFails

JoinStep == JoinWorker \/ Free

Init ==
  /\ phase = "creating"
  /\ stopping = FALSE
  /\ workerCount = 0
  /\ tasks = [i \in Slots |->
               [occupied |-> FALSE, id |-> NoId, status |-> "QUEUED"]]
  /\ outstandingCount = 0
  /\ workerPc = [w \in Workers |-> "unborn"]
  /\ workerId = [w \in Workers |-> NoId]
  /\ callerPc = [c \in Callers |-> "idle"]
  /\ callerId = [c \in Callers |-> NoId]
  /\ ret = "none"

Next ==
  \/ CreateStep
  \/ \E w \in Workers : WorkerStep(w)
  \/ \E c \in Callers : AwaitStep(c) \/ Call(c)
  \/ SpuriousWake
  \/ JoinStep
  \/ Destroyed

Spec == Init /\ [][Next]_vars

\* The operating system schedules every runnable thread, and every worker
\* function returns.  Callers are under no obligation to make a call.
Fairness ==
  /\ \A w \in Workers : WF_vars(WorkerStep(w))
  /\ \A c \in Callers : WF_vars(AwaitStep(c))
  /\ WF_vars(CreateStep)
  /\ WF_vars(JoinStep)

FairSpec == Spec /\ Fairness

(***************************************************************************)
(* Invariants.                                                             *)
(***************************************************************************)

\* Every variable of the scheduler holds a value of its type; the credit
\* counter stays between zero and outstanding_limit.
TypeOK ==
  /\ phase \in {"creating", "live", "joining", "destroyed"}
  /\ stopping \in BOOLEAN
  /\ workerCount \in 0..ActiveLimit
  /\ tasks \in [Slots -> TaskRecord]
  /\ outstandingCount \in 0..OutstandingLimit
  /\ workerPc \in [Workers -> WorkerPcs]
  /\ workerId \in [Workers -> Ids \cup {NoId}]
  /\ callerPc \in [Callers -> CallerPcs]
  /\ callerId \in [Callers -> Ids \cup {NoId}]
  /\ ret \in Returns

Occupied == {i \in Slots : tasks[i].occupied}

\* An id names at most one outstanding task, so the lookup by id that a
\* worker makes after running cannot hit another submission.
IdsDistinct ==
  \A i, j \in Occupied : tasks[i].id = tasks[j].id => i = j

\* outstanding_count is exactly the number of occupied slots, after any
\* interleaving of submissions, completions, cancellations and releases: the
\* "no free slot" return of submit is unreachable and no credit leaks.
CreditMatchesSlots == outstandingCount = Cardinality(Occupied)

\* A worker inside run(context) owns a task that is still occupied and
\* RUNNING: nobody cancels, releases or reuses the slot under it.
RunningWorkerOwnsTask ==
  \A w \in Workers : workerPc[w] = "running" =>
    \E i \in Slots : Holds(i, workerId[w]) /\ tasks[i].status = "RUNNING"

\* A task is executed by one thread: two workers never run the same
\* submission, and a RUNNING task always has a thread that will complete it.
OneWorkerPerTask ==
  /\ \A v, w \in Workers :
       workerPc[v] = "running" /\ workerPc[w] = "running"
         /\ workerId[v] = workerId[w] => v = w
  /\ \A i \in Occupied : tasks[i].status = "RUNNING" =>
       \E w \in Workers : workerPc[w] = "running" /\ workerId[w] = tasks[i].id

\* Execution is exclusive: an id names one outstanding task, the worker that
\* runs it outside the mutex finds it again when it returns, and no second
\* thread, cancellation, release or reuse of the slot comes in between.
TasksExclusive == IdsDistinct /\ RunningWorkerOwnsTask /\ OneWorkerPerTask

\* No lost wake-up: a thread sleeps in the condition variable only while the
\* predicate it waits for is false.  A worker sleeps only if nothing is
\* queued and the pool is not stopping; a caller sleeps only if its task
\* exists and has not finished, although release broadcasts to nobody.
NoLostWakeup ==
  /\ \A w \in Workers : workerPc[w] = "waiting" => ~AnyQueued /\ ~stopping
  /\ \A c \in Callers : callerPc[c] = "waiting" =>
       \E i \in Slots :
         Holds(i, callerId[c]) /\ tasks[i].status \notin Terminal

\* The memory of the scheduler is freed only when every thread that was
\* started has left scheduler_worker_main, also when create fails half way,
\* and no caller is inside a function.
FreedWhenQuiet ==
  phase = "destroyed" =>
    /\ \A w \in Workers : workerPc[w] \in {"unborn", "exited"}
    /\ \A c \in Callers : callerPc[c] = "idle"

\* The stage of a submission as its owner sees it.
Stage(id) ==
  IF \E i \in Slots : Holds(i, id)
  THEN tasks[CHOOSE i \in Slots : Holds(i, id)].status
  ELSE "none"

StageBoard == [id \in Ids |-> Stage(id)]

Board == INSTANCE TaskBoard WITH board <- StageBoard

\* The scheduler implements the task board: whatever the threads do, each
\* submission runs at most once, in submission order, a canceled one never
\* runs, a running one is never canceled, at most ActiveLimit run at once,
\* and credit returns only by release.
ImplementsTaskBoard == Board!Spec

(***************************************************************************)
(* Liveness.                                                               *)
(***************************************************************************)

\* A call to await returns: the awaited task is started and completed, or was
\* canceled, and its caller is woken.  Only other threads that go on for ever
\* releasing the task and submitting its id again can hold a caller in await.
AwaitTerminates ==
  \A c \in Callers :
    \/ callerPc[c] # "idle" ~> callerPc[c] = "idle"
    \/ []<><<\E d \in Callers \ {c} : Call(d)>>_vars

\* destroy, and the failure path of create, join every thread and free the
\* scheduler even when tasks are still queued or running.
StopTerminates == phase = "joining" ~> phase = "destroyed"
=============================================================================
